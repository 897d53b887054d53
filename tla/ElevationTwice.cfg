\* An operator elevates one run twice; nothing fails.
SPECIFICATION Spec
CONSTANTS
  m1 = m1
  h1 = h1
  p1 = p1
  p2 = p2
  NoMigration = NoMigration
  Migration = {m1}
  Kinds = {"audit"}
  Side = {"source"}
  Project = {p1, p2}
  SideOf <- OneSide
  Elevator = {h1}
  MaxRuns = 2
  MaxElevations = 2
  MaxMishaps = 0
CHECK_DEADLOCK FALSE
INVARIANT GrantIsRecorded
