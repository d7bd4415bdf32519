SPECIFICATION LiveSpec
CONSTANTS
  Kinds = {"gen", "files", "events"}
  Adaptives = {TRUE, FALSE}
  Limits = {1, 2}
  Throwaways = {TRUE, FALSE}
  RequestNumEvents = 12
  EventsPerJob = 4
  PilotPercent = 50
  TestPercent = 100
  FilterPercent = 100
  TunedEvents = {2, 8}
  Multipliers = {2}
  FirstRoundWUs = 1
  WUsPerRound = 3
  JobsPerWU = 1
  MaxWUsPerRound = 2
  NumFiles = 4
  EventsPerFile = 2
  Sites = {"T1", "T2"}
  PlannerFilesPerJob = 2
  SplitterFilesPerJob = 2
  MaxDags = 6
  MaxFaults = 1
INVARIANTS RoundsDisjoint CountedOnce CompletedMeansDone
PROPERTIES RequestCompletes
CHECK_DEADLOCK FALSE
