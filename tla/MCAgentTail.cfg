SPECIFICATION Spec
CONSTANTS
  h1 = h1
  h2 = h2
  h3 = h3
  Handlers = {h1, h2, h3}
  NoHandler = none
  AuthTokens = {"t"}
  Workloads <- MCWorkloads
  EnabledOperations <- MCEnabled
  Roots <- MCRoots
  Links <- MCLinks
  LogPath <- MCLogPath
  DirPath <- MCDirPath
  Siblings <- MCSiblings
  MaxReadBytes = 1
  MaxTailBytes = 2
  MaxListEntries = 2
  MaxSize = 3
  MaxChanges = 3
  MaxInodes = 2
  MaxRestarts = 1
INVARIANT
  TailIsTheEnd
