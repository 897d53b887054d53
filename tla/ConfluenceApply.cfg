\* Two threads, breaker threshold 1, a cap of three, one fault and one foreign change.
SPECIFICATION Spec
CONSTANTS
  Space = {"S1", "S2"}
  Group = {"G1", "G2"}
  Order <- MCOrder
  PageSize = 1
  ProbeCap = 1
  Batches <- MCBatches
  MaxTasks = 4
  Workers = 2
  Threshold = 1
  Cap = 3
  MaxFaults = 1
  MaxOthers = 1
CHECK_DEADLOCK FALSE
INVARIANTS TypeOK FalselyClosedIfTorn SparesInhabited BreakerBound
