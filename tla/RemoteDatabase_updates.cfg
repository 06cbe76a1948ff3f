CONSTANTS
  Process = {p, q}
  Forced = {}
  Table = {1, 2}
  MaxVersion = 2
  Way = "git"
  None = None
SPECIFICATION FairSpec
INVARIANTS
  TablesAreWhole
  UpToDate
PROPERTIES
  NeverBack
  CatchesUp
