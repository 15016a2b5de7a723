SPECIFICATION TouchSpec
CONSTANTS
  HardLimit = 2
  Modes = {TRUE, FALSE}
  MaxPushed = 4
  MaxAll = 13
  MaxFaults = 1
  MaxPointers = 2
  MaxHandles = 1
  Kinds = {"tap_pointer", "long_press", "double_tap", "swipe_pointer", "drag", "pinch", "multi_finger_tap", "three_finger_screenshot", "key_chord", "type_text"}
  MaxGestures = 1
CHECK_DEADLOCK FALSE
INVARIANTS
  NeverHalfPressed
  FlagsMirrorPhone
  WellFormedTouchStream
PROPERTIES
  RollbackOnlyReleases
