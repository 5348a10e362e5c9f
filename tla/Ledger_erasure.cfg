SPECIFICATION Spec
CONSTANTS
  n1 = n1
  n2 = n2
  person = person
  note = note
  Node <- MCNode2
  Owner = n1
  Record <- MCRecord
  AppRecord <- NoApp
  MaxBlock = 2
  MaxCrash = 0
  MaxImport = 1
  MaxFlight = 9
  MaxSession = 9
INVARIANT ErasureReplicates
CHECK_DEADLOCK FALSE
