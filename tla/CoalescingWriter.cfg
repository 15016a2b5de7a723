SPECIFICATION Spec
CONSTANTS
  HardLimit = 5
  Modes = {TRUE, FALSE}
  GamepadBytes = 2
  Sizes = {3}
  ChunkFrames = 2
  MaxPushed = 5
  MaxBatch = 3
  MaxFaults = 2
CHECK_DEADLOCK FALSE
INVARIANTS
  NothingLost
  ExactlyOnceInOrder
  CausalOrder
  FlushedMeansDelivered
