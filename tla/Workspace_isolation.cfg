SPECIFICATION Spec
CONSTANTS
  alfa = alfa
  beta = beta
  call1 = call1
  call2 = call2
  None = None
  Network <- MCNetwork
  Task <- OneCall
  Domains = 2
  MaxChange = 2
  MaxSwitch = 3
  MaxFault = 0
  MaxCrash = 0
\* The bounds stop the model, not the program.
CHECK_DEADLOCK FALSE
INVARIANT ArchivesSeparate
