SPECIFICATION Spec
CONSTANTS
  Jobs = {j1, j2}
  MaxConcurrency = 1
  TimeoutSet = TRUE
SYMMETRY Symmetry
INVARIANT
  OOMReportHonest
CHECK_DEADLOCK FALSE
