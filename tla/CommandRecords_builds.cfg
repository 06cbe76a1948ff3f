SPECIFICATION Spec
CONSTANTS
  gen = gen
  comp = comp
  s = s
  g = g
  h = h
  o = o
  Command = {gen, comp}
  Source = {s}
  Header = {g, h}
  Output <- Outs
  Input <- Ins
  MayInclude <- Includers
  Needs <- Order
  Variants <- CommandLines
  MaxTime = 5
INVARIANTS
  IncrementalIsCurrent
  NothingToDo
  RecordsHavePaths
