CONSTANTS
  Agents = {g1, g2}
  Apps = {}
  Devices = {d1}
  SessionIDs = {}
  SendBufferSize = 1
  MaxSecond = 1
  Nil = Nil
  DeviceOf <- OneDevice
  Answers = {}
  Inputs = {"heartbeat"}
  Calls = {q1}
  Asks = {"device", "devices", "sessions", "stats"}
SPECIFICATION APISpec
SYMMETRY Symmetry
INVARIANT TypeOK
INVARIANT RegistryConsistent
INVARIANT GetDeviceTruthful
PROPERTY ImplementsDirectory
CHECK_DEADLOCK FALSE
