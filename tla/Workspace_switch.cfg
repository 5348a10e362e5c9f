SPECIFICATION FairSpec
CONSTANTS
  alfa = alfa
  beta = beta
  call1 = call1
  call2 = call2
  None = None
  Network <- MCNetwork
  Task <- TwoCalls
  Domains = 1
  MaxChange = 2
  MaxSwitch = 3
  MaxFault = 1
  MaxCrash = 0
\* The bounds stop the model, not the program.
CHECK_DEADLOCK FALSE
PROPERTY CallsEnd
PROPERTY ChangesReachDisk
