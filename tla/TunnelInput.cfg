CONSTANTS
  MaxPayloadSize = 1
  Streams <- OneProxy
  PeerFrames <- FramesSent
  Portions = {5}
  MaxSent = 2
  MaxOutput <- OneByte
  Window = 5
SPECIFICATION Spec
INVARIANT InputIntactIfAlone
CHECK_DEADLOCK FALSE
