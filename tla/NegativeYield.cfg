SPECIFICATION Spec
CONSTANTS
  NumTurns = 2
  Frames <- OneThenNone
  TextKinds = {"Notice"}
  EventsCap = 4
  MaxMessages = 3
  Greets = FALSE
  Barging = {2}
  MaxFaults = 0
INVARIANTS YieldFollowsCutIn
CHECK_DEADLOCK FALSE
