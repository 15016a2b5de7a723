SPECIFICATION FairSpec
CONSTANTS
  Capacity = 3
  Wrap = 6
  PadFrames = {1, 2, 3, 4, 5, 6, 7, 8}
  Uninit = 0
  MaxPushes = 8
  MaxBatch = 4
  MaxErrors = 1
CHECK_DEADLOCK FALSE
INVARIANTS
  RingInv
  SlotExclusive
  DeliveredInOrder
PROPERTIES
  RingIsFifo
  CloseStops
  PushedIsInjected
