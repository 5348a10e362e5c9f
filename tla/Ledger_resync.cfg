SPECIFICATION Spec
CONSTANTS
  n1 = n1
  n2 = n2
  person = person
  note = note
  Node <- MCNode2
  Owner = n1
  Record <- MCRecords
  AppRecord <- MCApp
  MaxBlock = 2
  MaxCrash = 0
  MaxImport = 2
  MaxFlight = 2
  MaxSession = 1
INVARIANT CoreNeverStranded
CHECK_DEADLOCK FALSE
