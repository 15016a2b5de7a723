SPECIFICATION Spec
CONSTANTS
  HardLimit = 3
  Modes = {TRUE, FALSE}
  MaxPushed = 15
  MaxFaults = 2
  MaxInputs = 3
CHECK_DEADLOCK FALSE
INVARIANTS
  CreatedBeforeUse
  CloseIsComplete
  OpenRollsBack
  CreatesArePaired
