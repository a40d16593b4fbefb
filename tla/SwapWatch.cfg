SPECIFICATION Spec
CONSTANTS
  Positions = {1, 2}
  OtherPools = {}
  Jobs = {"checkpoint", "swapWatch"}
  EPOCH = 3
  LeadSeconds = 1
  WEEKS = 2
  MaxEvents = 2
  MaxFaults = 1
  MaxCrashes = 0
INVARIANT SwapsAreAnswered
CHECK_DEADLOCK FALSE
