SPECIFICATION FairSpec
CONSTANTS
  n1 = n1
  n2 = n2
  person = person
  note = note
  Node <- MCNode2
  Owner = n1
  Record <- MCRecord
  AppRecord <- NoApp
  MaxBlock = 2
  MaxCrash = 1
  MaxImport = 1
  MaxFlight = 9
  MaxSession = 1
INVARIANT TipsCoverLog
INVARIANT EraserStaysErased
PROPERTY PullAnswerComplete
PROPERTY ImplementsCausalLedger
PROPERTY SessionsEnd
CHECK_DEADLOCK FALSE
