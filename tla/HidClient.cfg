SPECIFICATION FairSpec
CONSTANTS
  HardLimit = 2
  Modes = {TRUE, FALSE}
  MaxPushed = 20
  MaxFaults = 1
  Producers = {"worker", "owner"}
  Bound = 1
  Uses <- MCUses
  MaxCalls <- MCCalls
  MaxCmds = 5
  None = None
CHECK_DEADLOCK FALSE
INVARIANTS
  OkCallIsDelivered
  ErrorIsRemembered
PROPERTIES
  BarrierReturns
  DispatcherEnds
