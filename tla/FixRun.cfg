\* Two fix runs of one audit, every fix; two mishaps anywhere.
SPECIFICATION Spec
CONSTANTS
  i1 = i1
  i2 = i2
  i3 = i3
  FindingAt <- MCFindings
  Issue = {i1, i2, i3}
  Captures <- MCCaptures
  Samples <- MCSamples
  Namesakes <- MCNamesakes
  Picks <- MCPicks
  Cap = 2
  Threshold = 1
  MaxRuns = 2
  MaxMishaps = 2
CHECK_DEADLOCK FALSE
SYMMETRY Issues
INVARIANTS TypeOK NeverTwice OrderHolds DoneIsRecorded  PopulateBound
