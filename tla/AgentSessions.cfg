CONSTANTS
  longest = longest
  tooLong = tooLong
  Callers = {c1, c2}
  IDs = {longest, tooLong}
  IDBytes <- BoundaryIDs
  MaxSessions = 2
  Calls = {"create", "remove", "get", "list", "close", "write"}
  Cuts = {4, 6}
  Free = Free
SPECIFICATION FairSpec
INVARIANT ListedIsJoined
INVARIANT LeakOnlyByReplacement
INVARIANT CrashNeedsClose
PROPERTY CallsReturnIfTaken
CHECK_DEADLOCK FALSE
