CONSTANTS
  Kinds = {"touch", "keyboard", "android_key", "mouse", "scroll", "gamepad", "packed"}
  FixedFrames = 2
  BatchSizes = {0, 2, 3}
  ChordKeys = 2
  Bound = 1
  RingSlots = 2
  MaxFrames = 4
  MaxTries = 2
SPECIFICATION BatcherFairSpec
INVARIANTS OkFramesOnceInOrder TapsLetGo
PROPERTIES DropHandsOver CallReturns
CHECK_DEADLOCK FALSE
