\* Eight migrations; any two reads fail.
SPECIFICATION Spec
CONSTANTS
  Sites <- MCSites
  Limit <- NoLimit
  MappingPage = 2
  ContextCap = 2
  DeepCap = 2
  MaxFaults = 2
INVARIANTS TypeOK NothingHidden ScopeHidesNothing NoFalseGap
