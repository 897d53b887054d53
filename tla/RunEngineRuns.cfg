\* One migration, two handlers, two runs; one write fault and one crash.
SPECIFICATION FairSpec
CONSTANTS
  m1 = m1
  m2 = m2
  q1 = q1
  q2 = q2
  NoMigration = NoMigration
  Migration = {m1}
  Request = {q1, q2}
  Kinds = {"fix"}
  MaxRuns = 2
  MaxFaults = 1
  MaxCrashes = 1
CHECK_DEADLOCK FALSE
INVARIANTS TypeOK NoParallelStages CancelledOnlyIfAsked UndoIsAlone
PROPERTIES LifecycleSpec RunEnds
