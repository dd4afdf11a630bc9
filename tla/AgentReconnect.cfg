CONSTANTS
  ReconnectBaseDelay = 1
  ReconnectMaxDelay = 30
  MaxConns = 3
SPECIFICATION FairSpec
INVARIANT TypeOK
INVARIANT OneLoop
INVARIANT OneWorkingConnection
PROPERTY Reconnects
PROPERTY CancelStopsUnlessConnected
CHECK_DEADLOCK FALSE
