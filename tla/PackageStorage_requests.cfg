CONSTANTS
  Version <- MCVersion
  Hash = {"a", "b"}
  May <- MCMay
  Worlds <- MCWorlds
  ByCache <- MCByCache
  None = None
SPECIFICATION Spec
INVARIANTS
  AnswerIsRight
  RowsAreComplete
  HandedIsResolved
