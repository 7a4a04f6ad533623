\* Everything that may happen.  The code does deadlock in RestartsItself, which
\* CallsReturn says is the only such case.
CONSTANTS
  Faults = {"init", "web_mode", "onboard_mode"}
SPECIFICATION FairSpec
CHECK_DEADLOCK FALSE
INVARIANTS
  OneClient
  ConnectedIsTrue
PROPERTIES
  CallsReturn
  SleepCompletes
