CONSTANTS
  Conns = {k1, k2}
  Sessions = {s1, s2}
  Names <- SenderNames
  MaxSessions = 1
  QuotaBytes = 1
  MaxChunks <- TwoChunks
  Window = 2
  Nil = Nil
SPECIFICATION FairSpec
INVARIANT UnbrokenIfSingle
INVARIANT AckFirstIfOwnRelay
INVARIANT BytesAccounted
INVARIANT SessionsBounded
PROPERTY HangUpEndsSessionIfTaken
CHECK_DEADLOCK FALSE
