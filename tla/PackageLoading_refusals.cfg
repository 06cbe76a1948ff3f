CONSTANTS
  Name <- TestName
  Config = {"debug", "release"}
  HostConfig = "release"
  Projects <- TestProjects
  Runs = 1
  MaxDepth = 8
  None = None
SPECIFICATION Spec
INVARIANTS
  RefusedForCause
CHECK_DEADLOCK FALSE
