SPECIFICATION Spec
CONSTANTS
  Workflows = {"w1", "w2"}
  Sites = {T1, T2}
  T1 = T1
  T2 = T2
  u1 = u1
  u2 = u2
  v = v
  UnitsOf <- MCUnitsOf
  Threshold = 2
  Duration = 2
  Operations = {"ban", "remove"}
  Categories = {"infrastructure"}
  HoldPercent = 60
  MaxRescues = 1
  MaxRounds <- MCMaxRounds
  LastDay = 2
  MaxCalls = 1
  MaxFaults = 1
INVARIANTS PromotionIsEarned
PROPERTIES LessonsAreKept EditsOnlyNarrow
SYMMETRY Symmetry
CHECK_DEADLOCK FALSE
