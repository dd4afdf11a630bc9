CONSTANTS
  Conns = {k1, k2, k3}
  Sessions = {s1}
  Names <- SenderNames
  MaxSessions = 1
  QuotaBytes = 1
  MaxChunks <- OneChunk
  Window = 1
  Nil = Nil
SPECIFICATION Spec
SYMMETRY ListenerSymmetry
INVARIANT TypeOK
INVARIANT Isolation
PROPERTY CleanupOwn
CHECK_DEADLOCK FALSE
