SPECIFICATION DriverSpec
CONSTANTS
  HardLimit = 2
  Modes = {TRUE, FALSE}
  MaxPushed = 3
  MaxFaults = 1
  Opened = {{"kbd"}, {"mouse"}, {"pad"}}
  Keys = {"a", "b", "c"}
  MaxKeys = 2
  MaxStep = 2
  Scrolls <- MCScrolls
  PadIds = {7, 8}
  MaxPads = 2
  Mid = 2
  Raw <- MCRaw
  Buttons <- MCButtons
INVARIANTS
  PadAsAsked
  KeyboardHeals
  ScrollConserved
CHECK_DEADLOCK FALSE
