CONSTANTS
  Name <- MCName
  Config = {"host", "debug"}
  HostConfig = "host"
  Projects <- MCProjects
  Runs = 2
  MaxDepth = 8
  None = None
SPECIFICATION FairSpec
INVARIANTS
  LoadedAsAsked
  PreparedOnce
  ClosureTaken
  BuiltWithinLimits
PROPERTIES
  RunsEnd
CHECK_DEADLOCK FALSE
