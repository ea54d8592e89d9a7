SPECIFICATION Spec
CONSTANTS
  a1 = a1
  a2 = a2
  x1 = x1
  Targets <- MCTargets
  Drives <- MCDrives
  Scenarios <- RestartScenarios
CHECK_DEADLOCK FALSE
INVARIANTS
  RolledBackRestoresAll
