SPECIFICATION Spec
CONSTANTS
  Modes = {"cmssw", "simulator", "synthetic", "other"}
  NumSteps = 2
  MaxParallel = 2
  EventsPerJob = 3
  Kept = {2}
  Grace = 1
  Window = 3
  Accounting = "cgroup"
  MaxTicks = 7
  MaxFaults = 2
INVARIANTS WholeOutput KilledOnlyWhenStalled
CHECK_DEADLOCK FALSE
