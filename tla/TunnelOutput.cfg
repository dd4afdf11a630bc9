CONSTANTS
  MaxPayloadSize = 1
  Streams <- Proxies
  PeerFrames <- FramesSent
  Portions = {5}
  MaxSent = 0
  MaxOutput <- OneByte
  Window = 5
SPECIFICATION FairSpec
INVARIANT OutputIntact
PROPERTY ProxyEnds
PROPERTY CloseReturnsIfTaken
CHECK_DEADLOCK FALSE
