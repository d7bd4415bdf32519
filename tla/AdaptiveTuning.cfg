SPECIFICATION TuningSpec
CONSTANTS
  NumSteps = 2
  Cores = 8
  BusyCores = {1, 8}
  Work <- MCWork
  Memories <- MCMemories
  Writes <- MCWrites
  Cgroups <- MCCgroups
  Tmpfs = {TRUE, FALSE}
  EventsPerJob = 400
  PilotPercent = 25
  JobsPerWU = 2
  MaxJobsPerWU = 100
  TargetMerged = 5000
  TargetWalls = {0, 60}
  StartupOverhead = 6
  DefaultPerCore = 2000
  MaxPerCore = 3000
  SafetyPercent = 20
  MinRequestCpus = {4, 16}
  FirstRoundWUs = 1
  WUsPerRound = 2
  Limit = 2
  MaxRounds = 3
  MaxUnread = 1
INVARIANTS TuningTypeOK NeverMoreThanMeasured MergedNearTarget
PROPERTIES PeaksRemembered
CHECK_DEADLOCK FALSE
