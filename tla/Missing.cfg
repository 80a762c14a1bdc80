SPECIFICATION Spec
CONSTANTS
  Partitions = {"p0"}
  NumSteps = 2
  Calls <- TwoStepCalls
  Concurrency <- Narrow
  HeldSteps = {}
  PartitionOf <- Together
  Run = Run
  OtherRun = OtherRun
  Malformed = Malformed
  OldAssignments <- EmptyAssignments
  OldResults <- EmptyResults
  MayOverrun = TRUE
  MayAbort = FALSE
  Workers = {w1}
  NoWorker = NoWorker
  Slots = 1
  CallErrs = {FALSE}
  MaxFaults = 0
INVARIANTS MissingWereDispatched
CHECK_DEADLOCK FALSE
