SPECIFICATION Spec
CONSTANTS
  Command = {c1, c2}
  Graphs <- GraphClasses
  Threads = 1
  SkipErrors = 0
  ThrowModes = {TRUE}
  HasTimeLimit = TRUE
  MayStop = FALSE
INVARIANTS
  SuccessMeansAllExecuted
