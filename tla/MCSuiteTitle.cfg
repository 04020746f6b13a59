SPECIFICATION SuiteSpec
CONSTANTS
  ORDER <- TwoLayers
  Items <- Mixed
  RETRIES = 4
  Boot = 10
  Commits = {0, 2, 10, 11}
  Guards = {"RANDOMIZE"}
  Others = {"OTHER"}
  MAX_LINES = 6
CHECK_DEADLOCK FALSE
INVARIANTS TitleFirst
