SPECIFICATION Spec
CONSTANTS
  Steps <- TwoSteps
  Conditions = {"clean", "lossy", "left over"}
  Clean = "clean"
  CohortLists <- PlainOrMatrix
  FoundNetem <- Found
  TurnsPerCall = 1
  HeldCalls = 1
  MayCancel = FALSE
  MaxFaults = 0
  Replies = {1, 2, 3, 4}
  Greets = TRUE
  BargesIn = TRUE
  Yields = TRUE
  MaxUtterances = 3
  MayFail = TRUE
  Procs = {"load run", "worker"}
  Warms = {"load run"}
  Threads <- CallersOf
  Texts = {"hello", "goodbye"}
  Lines <- TwoLines
  Defaults = 1
  MaxCrashes = 1
  MaxFailures = 1
  Scripts <- SomeScripts
  Phrases = {"refund", "sorry"}
  Unnamed = "unnamed"
  DefaultId <- Ids
PROPERTY InterfaceIsLeftAsFound
CHECK_DEADLOCK FALSE
