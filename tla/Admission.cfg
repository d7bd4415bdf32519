SPECIFICATION Spec
CONSTANTS
  Requests = {"r1", "r2"}
  Rank <- MCRank
  RoundsOf <- MCRoundsOf
  Settings <- MCSettings
  MaxRescues = 1
  MaxCalls = 1
  Operations = {"stop", "release", "fail", "abort"}
  Faults = {"rollback", "plan", "refusal", "timeout"}
  MaxFaults = 1
INVARIANTS CapacityKept PlacesComeBack
PROPERTIES NobodyStarves
CHECK_DEADLOCK FALSE
