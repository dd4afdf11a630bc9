CONSTANTS
  Agents = {g1}
  Apps = {a1}
  Devices = {d1}
  SessionIDs = {s1}
  SendBufferSize = 1
  MaxSecond = 1
  Nil = Nil
  DeviceOf <- OneDevice
  Answers = {TRUE}
  Inputs = {}
SPECIFICATION FairSpec
PROPERTY HubDevicesOnline
CHECK_DEADLOCK FALSE
