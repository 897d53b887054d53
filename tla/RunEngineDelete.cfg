\* A start and a deletion of the same migration race.
SPECIFICATION Spec
CONSTANTS
  m1 = m1
  m2 = m2
  q1 = q1
  q2 = q2
  NoMigration = NoMigration
  Migration = {m1}
  Request = {q1, q2}
  Kinds = {"fix"}
  MaxRuns = 2
  MaxFaults = 0
  MaxCrashes = 1
CHECK_DEADLOCK FALSE
INVARIANT NoThreadOnDeletedRow
