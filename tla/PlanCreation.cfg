SPECIFICATION Spec
CONSTANTS
  c1 = c1
  c2 = c2
  c3 = c3
  x = x
  f = f
  g = g
  Command <- AllCommands
  Plan <- PlanCommands
  File <- Files
  Hash <- Hashes
  Inputs <- Builds
INVARIANTS
  VerdictExact
  OrderTopological
  AcyclicHandedOver
  HandedOverReady
