CONSTANTS
  MaxBlinks = 2
  DppTasks = {1}
  WebTimeout = 2
  ApTimeout = 1
  UseSets <- SomeUses
SPECIFICATION FairSpec
CHECK_DEADLOCK FALSE
INVARIANTS
  TypeOK
  IndicatorStays
PROPERTIES
  SleepsWhenUnused
  EndsWhenLeft
