CONSTANTS
  MaxDatagrams = 2
  Datagrams <- AllDatagrams
  BufferSize = 24
  MaxSignals = 2
  MaxRequests = 1
SPECIFICATION FairSpec
INVARIANT ResponsesTrue
INVARIANT CleanExit
PROPERTY SignalEndsProcess
CHECK_DEADLOCK FALSE
