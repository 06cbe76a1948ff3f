SPECIFICATION FairSpec
CONSTANTS
  Command = {c1, c2, c3, c4}
  Graphs <- GraphClasses
  Threads = 2
  SkipErrors = 2
  ThrowModes = {TRUE, FALSE}
  HasTimeLimit = TRUE
  MayStop = TRUE
INVARIANTS
  TypeOK
  DependencyOrder
  CountersExact
  LoopEndsWork
  OutcomeTold
PROPERTIES
  PerformedOnce
  ImplementsDag
  ExecuteReturns
  ImplementsFairDag
