SPECIFICATION LiveSpec
CONSTANTS
  MaxDags = 4
  Target = 3
  FirstRoundWUs = 2
  WUsPerRound = 1
  MaxConcurrentRounds = 2
  MaxRescueAttempts = 1
  HoldPercent = 60
  AdvancePercent = 50
  PilotThrowaway = FALSE
  Faults = {"rmFails", "crash"}
  Operations = {"stop", "fail"}
PROPERTIES StopEnds RequestSettles
CHECK_DEADLOCK FALSE
