SPECIFICATION MCSpec
CONSTANTS
  Parts = {"targets"}
  Adapters = {a1, a2}
  k1 = k1
  k2 = k2
  m1 = m1
  m2 = m2
  n1 = n1
  n2 = n2
  i1 = i1
  Unset = Unset
  Nothing = Nothing
  Server = Server
  Workstation = Workstation
  None = None
  Keys <- MCKeys
  Macs <- MCMacs
  Documents <- SwapDocuments
  Machines <- MCMachines
  MaxMoves = 0
  Incoming <- MCIncoming
  Names <- MCNames
  Images <- MCImages
CHECK_DEADLOCK FALSE
INVARIANTS
  TargetsFixed
