SPECIFICATION FairSpec
CONSTANTS
  Partitions = {"p0", "p1"}
  NumSteps = 1
  Calls <- TwoCalls
  Concurrency <- TwoCalls
  HeldSteps = {}
  PartitionOf <- Alternating
  Run = Run
  OtherRun = OtherRun
  Malformed = Malformed
  OldAssignments <- EmptyAssignments
  OldResults <- EmptyResults
  MayOverrun = FALSE
  MayAbort = FALSE
  Workers = {w1, w2}
  NoWorker = NoWorker
  Slots = 2
  CallErrs = {FALSE}
  MaxFaults = 2
PROPERTIES EveryCallIsAnswered AssignmentsSettle
CHECK_DEADLOCK FALSE
