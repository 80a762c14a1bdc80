SPECIFICATION Spec
CONSTANTS
  Callers = {1, 2}
  TurnKinds <- SomeTurns
  MinHalfTurns = 1
  StepCalls = 2
  MaxCalls = 3
  MaxTurns = 2
  StepChoices <- SomeSteps
  Baselines = {"unnamed", "base", "nowhere"}
  Unnamed = "unnamed"
  DefaultName <- Names
  Measured <- SomeMeasures
  JudgeRates <- SomeRates
  Impaired = 1
  MaxSteps = 3
  Words = {"a", "b"}
  MaxWords = 3
  CallChoices <- SomeCalls
  Criteria = 2
  Answers <- SomeAnswers
  Garbled = "garbled"
  PerStep = 1
  MinCalls = 2
  MaxCallsRun = 3
  Tools = {"rejudge", "refresh"}
  Attempts = 2
  AtOnce = 2
  MaxFaults = 1
INVARIANTS FiguresAgree PercentileIsNearestRank VerdictsHold GradesHold PublicationIsSafe ToolsInTurnKeepUp
PROPERTIES EveryActorEnds
CHECK_DEADLOCK FALSE
