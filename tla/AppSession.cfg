CONSTANTS
  MaxChannels = 3
  MaxScreens = 2
  MaxRelays = 1
SPECIFICATION FairSpec
INVARIANT UpMeansOneChannelUnlessCut
INVARIANT LossIsShownUnlessCut
PROPERTY QuietLasts
PROPERTY ReconnectsUnlessDisposed
CHECK_DEADLOCK FALSE
