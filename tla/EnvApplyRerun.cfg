\* Two batches in a row: a preview or a real run, then a rerun, with a namesake and an
\* asynchronous deletion.
SPECIFICATION FairSpec
CONSTANTS
  s1 = s1
  s2 = s2
  g1 = g1
  w1 = w1
  w2 = w2
  c1 = c1
  NoObject = NoObject
  Paged <- RerunPaged
  UsedAtFirst <- RerunUses
  Object = {w1, w2, c1, s2}
  NameOf <- MCName
  ClassOf <- MCClass
  Builtin = {s2}
  Stored <- MCStored
  Selections <- RerunSelections
  MaxTasks = 3
  Workers = 2
  Threshold = 0
  Cap = 1
  MaxAdmin = 1
  MaxBatches = 2
CHECK_DEADLOCK FALSE
INVARIANTS BlastRadius ClosedMeansGone 
PROPERTIES BatchEnds
