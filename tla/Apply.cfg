SPECIFICATION FairSpec
CONSTANTS
  a1 = a1
  a2 = a2
  x1 = x1
  Targets <- MCTargets
  Drives <- MCDrives
  Scenarios <- MCScenarios
CHECK_DEADLOCK FALSE
INVARIANTS
  RecordedChanges
  IInv
  AbortRestores
  RolledBackIsClean
  SucceededConforms
PROPERTIES
  ImplementsAtomic
  EndsOrWaitsOnHook
