SPECIFICATION Spec
CONSTANTS
  MaxDags = 4
  Target = 3
  FirstRoundWUs = 2
  WUsPerRound = 2
  MaxConcurrentRounds = 1
  MaxRescueAttempts = 1
  HoldPercent = 60
  AdvancePercent = 50
  PilotThrowaway = FALSE
  Faults = {"rmFails", "rucio", "crash"}
  Operations = {"stop", "release", "fail", "abort"}
INVARIANTS NoDoubleCounting OneDagmanPerDirectory AliveDagmanIsManaged
PROPERTIES RescueFirst
CHECK_DEADLOCK FALSE
