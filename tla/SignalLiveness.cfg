CONSTANTS
  Agents = {g1}
  Apps = {a1}
  Devices = {d1}
  SessionIDs = {s1}
  SendBufferSize = 1
  MaxSecond = 1
  Nil = Nil
  DeviceOf <- OneDevice
  Answers = {TRUE}
  Inputs = {"register"}
SPECIFICATION FairSpec
PROPERTY WritersExit
PROPERTY DeviceGoesOffline
PROPERTY RequestSettled
CHECK_DEADLOCK FALSE
