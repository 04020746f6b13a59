SPECIFICATION Spec
CONSTANTS
  Guards = {"RANDOMIZE"}
  Others = {"OTHER"}
  MAX_LINES = 4
CHECK_DEADLOCK FALSE
INVARIANTS SynthesisBranchIsBad
