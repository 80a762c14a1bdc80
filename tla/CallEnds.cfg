SPECIFICATION FairSpec
CONSTANTS
  NumTurns = 2
  Frames <- OneThenNone
  TextKinds = {"Notice"}
  EventsCap = 2
  MaxMessages = 3
  Greets = TRUE
  Barging = {2}
  MaxFaults = 2
PROPERTIES CallEnds
CHECK_DEADLOCK FALSE
