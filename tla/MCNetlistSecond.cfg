SPECIFICATION Spec
CONSTANTS
  Netlists <- MCNetlists
  Base <- MCBase
  Direction <- MCDirection
  Ties = {"1'b0"}
  CLOCK_PORTS = {"ck", "tck"}
  Declared = {"ck"}
INVARIANT SecondStageIsFlop
CHECK_DEADLOCK FALSE
