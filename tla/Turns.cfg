SPECIFICATION Spec
CONSTANTS
  NumTurns = 2
  Frames <- TwoThenOne
  TextKinds = {"UserTranscript"}
  EventsCap = 2
  MaxMessages = 4
  Greets = TRUE
  Barging = {2}
  MaxFaults = 1
INVARIANTS TypeOK NoticeNeverBlocks LineStaysInItsTurn DriftOnlyWhenPlayed OneTurnPerReply InstantsInOrder
CHECK_DEADLOCK FALSE
