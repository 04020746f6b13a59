SPECIFICATION FairSpec
CONSTANT Nets = {a, b, c}
INVARIANTS IInv ReportSound ReportComplete
PROPERTIES AbstractSpec Termination
CHECK_DEADLOCK FALSE
