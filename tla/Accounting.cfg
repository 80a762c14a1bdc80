SPECIFICATION BoundedSpec
CONSTANTS
  Partitions = {"p0"}
  NumSteps = 3
  Calls <- ThirdHeld
  Concurrency <- OneByOne
  HeldSteps = {3}
  PartitionOf <- Together
  Run = Run
  OtherRun = OtherRun
  Malformed = Malformed
  OldAssignments <- EmptyAssignments
  OldResults <- LeftResults
  MayOverrun = TRUE
  MayAbort = TRUE
  Workers = {w1}
  NoWorker = NoWorker
  Slots = 2
  CallErrs = {TRUE, FALSE}
  MaxFaults = 1
INVARIANTS WindowIsFull OneOutcomePerCall EveryResultIsCounted FirstResultWins
PROPERTIES KeepsLedger RunEnds
CHECK_DEADLOCK FALSE
