\* Two runs of one migration, two grants on one side; two requests of the operator to
\* elevate or undo, one failed request, one failed write, one other administrator, one
\* restart.
SPECIFICATION Spec
CONSTANTS
  m1 = m1
  h1 = h1
  p1 = p1
  p2 = p2
  NoMigration = NoMigration
  Migration = {m1}
  Kinds = {"audit"}
  Side = {"source"}
  Project = {p1, p2}
  SideOf <- OneSide
  Elevator = {h1}
  MaxRuns = 2
  MaxElevations = 2
  MaxMishaps = 1
CHECK_DEADLOCK FALSE
SYMMETRY Projects
INVARIANTS TypeOK StandingKept WindowClosed
