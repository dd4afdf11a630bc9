---------------------------- MODULE MCDeviceAPI ----------------------------
(***************************************************************************)
(* The REST API on the small instances of the signaling server.            *)
(***************************************************************************)
EXTENDS DeviceAPI, MCSignalServer
============================================================================
