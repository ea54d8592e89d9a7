SPECIFICATION MCSpec
CONSTANTS
  d1 = d1
  d2 = d2
  c1 = c1
  c2 = c2
  j1 = j1
  j2 = j2
  a1 = a1
  a2 = a2
  Targets <- MCTargets
  Drives <- MCDrives
  Scenarios <- MCScenarios
  Daemons <- MCDaemons
  Clients <- MCClients
  Jobs <- MCJobs
  NoDaemon = NoDaemon
  NoJob = NoJob
CHECK_DEADLOCK FALSE
INVARIANTS
  RecordsMatchCalls
  ToldTheTruth
  StopIsAcknowledged
  NotFoundOnlyAfterRestart
  OwnSettingsKept
PROPERTIES
  ViewsMoveForward
  JobsEnd
  StopEnds
