\* Two threads, three findings, breaker threshold 1, one other administrator.
SPECIFICATION Spec
CONSTANTS
  s1 = s1
  s2 = s2
  g1 = g1
  w1 = w1
  w2 = w2
  c1 = c1
  NoObject = NoObject
  Paged <- LivePaged
  UsedAtFirst <- LiveUses
  Object = {s1, s2, g1}
  NameOf <- MCName
  ClassOf <- MCClass
  Builtin = {}
  Stored <- MCStored
  Selections <- LiveSelections
  MaxTasks = 3
  Workers = 2
  Threshold = 1
  Cap = 3
  MaxAdmin = 1
  MaxBatches = 1
CHECK_DEADLOCK FALSE
INVARIANTS TypeOK BreakerBound NoSilentDelete 
PROPERTIES NeverDeletesHeldObject
