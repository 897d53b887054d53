\* One fix run that creates a link type; one request fails.
SPECIFICATION Spec
CONSTANTS
  i1 = i1
  i2 = i2
  i3 = i3
  FindingAt <- LostFindings
  Issue = {i1, i2, i3}
  Captures <- MCCaptures
  Samples <- LostSamples
  Namesakes <- NoNamesakes
  Picks <- CreatePicks
  Cap = 2
  Threshold = 1
  MaxRuns = 1
  MaxMishaps = 1
CHECK_DEADLOCK FALSE
INVARIANT OkMeansAnswered
