SPECIFICATION MCSpec
CONSTANTS
  Clients = {c1}
  p1 = p1
  p2 = p2
  p3 = p3
  Procs <- MCProcs
  Attempts = 2
CHECK_DEADLOCK FALSE
INVARIANTS
  StopLeavesNoDaemon
