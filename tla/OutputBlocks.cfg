SPECIFICATION LiveSpec
CONSTANTS
  Datasets = {1, 2}
  WorkUnits = {1, 2, 3}
  TotalUnits = 2
  TargetUnits = 3
  Modes = {"test", "production"}
  Sites = {"local", "T1", "T2"}
  SiteOf <- MCSiteOf
  TempSites = {"T2"}
  Consolidation = TRUE
  Faults = {"rucio", "crash"}
INVARIANTS BlocksKeepUp TapeWaitsForAll MissingRulesAreFound
PROPERTIES TapeRuleFollows
CHECK_DEADLOCK FALSE
