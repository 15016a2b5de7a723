SPECIFICATION FairSpec
CONSTANTS
  HardLimit = 2
  Modes = {FALSE}
  MaxPushed = 20
  MaxFaults = 0
  Producers = {"worker", "owner"}
  Bound = 2
  Uses <- MCUses
  MaxCalls <- MCCalls
  MaxCmds = 5
  None = None
CHECK_DEADLOCK FALSE
PROPERTY FlushWaitReturns
