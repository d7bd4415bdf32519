SPECIFICATION Spec
CONSTANTS
  WorkUnits = {A, B}
  Procs = {p, q}
  Tiers = {"AODSIM", "NANOAODSIM"}
  Sites = {"T1", "T2"}
  First = "AODSIM"
  A = A
  B = B
  p = p
  q = q
  WuRetries = 1
  RetriedIn = {"proc", "merge"}
  MaxFaults = 3
  MaxListFaults = 2
INVARIANTS NothingLost SkippedIsKept MergedOnce
SYMMETRY Symmetry
CHECK_DEADLOCK FALSE
