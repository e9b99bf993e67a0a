SPECIFICATION Spec
CONSTANTS
  Procs = {p1, p2}
  main = main
  NodeCount = 3
  FirstTid = 3
  MaxTid = 5
  Statuses = {7, 200, 256}
  NULL = NULL
INVARIANT NodeOutlives
CHECK_DEADLOCK FALSE
