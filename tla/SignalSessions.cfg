CONSTANTS
  Agents = {g1}
  Apps = {a1}
  Devices = {d1, d2}
  SessionIDs = {s1}
  SendBufferSize = 1
  MaxSecond = 1
  Nil = Nil
  DeviceOf <- OwnDevices
  Answers = {TRUE, FALSE}
  Inputs = {"heartbeat", "forward", "disconnect", "invalid"}
SPECIFICATION Spec
INVARIANT AcceptanceReachesInitiator
INVARIANT SessionPeersPresent
INVARIANT IndexOwned
INVARIANT ResponderServesDevice
PROPERTY LeavingKeepsOthersIfUnique
CHECK_DEADLOCK FALSE
