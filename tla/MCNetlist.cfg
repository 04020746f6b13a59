SPECIFICATION FairSpec
CONSTANTS
  Netlists <- MCNetlists
  Base <- MCBase
  Direction <- MCDirection
  Ties = {"1'b0"}
  CLOCK_PORTS = {"ck", "tck"}
  Declared = {"ck"}
INVARIANTS PassIsEvaluable TraceComplete VerdictIsDocumented WalkersAgree ReportedClocksAreSole
PROPERTY TraceEnds
CHECK_DEADLOCK FALSE
