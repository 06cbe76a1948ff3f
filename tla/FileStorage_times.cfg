CONSTANTS
  j1 = j1
  j2 = j2
  w = w
  None = none
  Job <- MCJob
  Writer = w
SPECIFICATION FairSpec
INVARIANTS
  RaceHasOneFlaw
  LateReadersSeeOutput
  RefreshIsOwned
PROPERTIES
  ChecksEnd
CHECK_DEADLOCK FALSE
