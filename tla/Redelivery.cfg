SPECIFICATION Spec
CONSTANTS
  Partitions = {"p0", "p1"}
  NumSteps = 1
  Calls <- TwoCalls
  Concurrency <- TwoCalls
  HeldSteps = {}
  PartitionOf <- Together
  Run = Run
  OtherRun = OtherRun
  Malformed = Malformed
  OldAssignments <- LeftRecords
  OldResults <- EmptyResults
  MayOverrun = FALSE
  MayAbort = FALSE
  Workers = {w1, w2}
  NoWorker = NoWorker
  Slots = 2
  CallErrs = {FALSE}
  MaxFaults = 2
SYMMETRY Symmetry
INVARIANTS TypeOK CommittedArePublished NoCallIsLost
PROPERTIES CommitsOnlyAdvance
CHECK_DEADLOCK FALSE
