SPECIFICATION FairSpec
CONSTANTS
  Modes = {"native", "event", "latest", "watch"}
  Kinds = {"native", "frame", "dull", "bad"}
  Bound = 1
  Waiters = {w1, w2}
  MaxMsgs = 2
  MaxUnread = 1
  MaxWaits = 1
INVARIANTS
  ChannelFaithful
  FreshFrame
PROPERTY WaiterWakes
CHECK_DEADLOCK FALSE
