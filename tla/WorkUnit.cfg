SPECIFICATION LiveSpec
CONSTANTS
  Procs = {"p1", "p2", "p3"}
  Machines = {"n1", "n2", "n3"}
  SiteOf <- MCSiteOf
  Allowed = {}
  Banned = {}
  CmsswCodes = {70, 8021}
  Tails = {}
  Removals = {"zombie"}
  LandingRetries = 1
  ProcRetries = 1
  MergeRetries = 1
  CleanupRetries = 0
  WuRetries = 1
  MaxRescues = 1
  MaxFaults = 3
INVARIANTS MergeWhereTheOutputIs FreshStart BlamedNotElected AvoidsBadMachines
PROPERTIES WorkUnitEnds
CHECK_DEADLOCK FALSE
