--------------------------- MODULE DeviceDirectory ---------------------------
(***************************************************************************)
(* What the signaling server promises about devices, without goroutines,   *)
(* locks and maps: a directory that says which connection serves a device. *)
(* A device is served by the connection that registered it last, and until *)
(* that connection ends; the end of any other connection of the device     *)
(* changes nothing.  The time since which a device is in the directory     *)
(* survives a change of connection and nothing else.                       *)
(*                                                                         *)
(* A connection whose handler fails is over as well, but is not signed     *)
(* off: its device stays until another connection of the device comes.     *)
(***************************************************************************)
EXTENDS Naturals

CONSTANTS
    Conns,    \* connections of devices
    Devices,
    Owner,    \* the device of a connection
    MaxTime,  \* bound on the clock
    Nil       \* no connection

VARIABLES
    time,    \* the clock
    server,  \* device -> the connection that serves it, or Nil
    since,   \* since when the device is in the directory
    seen,    \* when it was last heard of
    ended    \* the connections that are over

vars == <<time, server, since, seen, ended>>

Init ==
    /\ time = 0
    /\ server = [d \in Devices |-> Nil]
    /\ since = [d \in Devices |-> 0]
    /\ seen = [d \in Devices |-> 0]
    /\ ended = {}

Tick ==
    /\ time < MaxTime
    /\ time' = time + 1
    /\ UNCHANGED <<server, since, seen, ended>>

SignOn(c) ==
    LET d == Owner[c]
    IN  /\ c \notin ended
        /\ server' = [server EXCEPT ![d] = c]
        /\ since' = IF server[d] = Nil THEN [since EXCEPT ![d] = time] ELSE since
        /\ seen' = [seen EXCEPT ![d] = time]
        /\ UNCHANGED <<time, ended>>

\* A sign of life, perhaps a late one of a connection that was replaced.
Hear(d) ==
    /\ server[d] # Nil
    /\ seen' = [seen EXCEPT ![d] = time]
    /\ UNCHANGED <<time, server, since, ended>>

SignOff(c) ==
    LET d == Owner[c]
        Cleared(f, none) == IF server[d] = c THEN [f EXCEPT ![d] = none] ELSE f
    IN  /\ c \notin ended
        /\ ended' = ended \cup {c}
        /\ server' = Cleared(server, Nil)
        /\ since' = Cleared(since, 0)
        /\ seen' = Cleared(seen, 0)
        /\ UNCHANGED time

Fail(c) ==
    /\ c \notin ended
    /\ ended' = ended \cup {c}
    /\ UNCHANGED <<time, server, since, seen>>

Next ==
    \/ Tick
    \/ \E c \in Conns : SignOn(c) \/ SignOff(c) \/ Fail(c)
    \/ \E d \in Devices : Hear(d)

Spec == Init /\ [][Next]_vars
==============================================================================
