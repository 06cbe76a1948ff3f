SPECIFICATION FairSpec
CONSTANTS
  a = a
  b = b
  c = c
  d = d
  e = e
  None = None
  Command = {a, b, c, d, e}
  Prev <- Pipe
  Pooled = {a, c, d}
  Resources = 1
  MayBeAlways = {a}
  MayBeFresh = {a, c}
INVARIANTS
  PoolSound
  StartedOnce
  ChainPerformed
PROPERTIES
  JobsEnd
