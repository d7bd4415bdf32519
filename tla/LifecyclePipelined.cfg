SPECIFICATION Spec
CONSTANTS
  MaxDags = 3
  Target = 3
  FirstRoundWUs = 2
  WUsPerRound = 2
  MaxConcurrentRounds = 2
  MaxRescueAttempts = 1
  HoldPercent = 60
  AdvancePercent = 50
  PilotThrowaway = FALSE
  Faults = {"rmFails", "crash", "planFails", "spoolLost", "timeout", "lost"}
  Operations = {"stop", "release", "fail", "abort"}
INVARIANTS CompletionSound ConcurrentRoundsBounded OverproductionBounded PausedIsQuiet
PROPERTIES ImplementsStateMachine
CHECK_DEADLOCK FALSE
