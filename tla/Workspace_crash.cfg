SPECIFICATION Spec
CONSTANTS
  alfa = alfa
  beta = beta
  call1 = call1
  call2 = call2
  None = None
  Network <- MCNetwork
  Task <- TwoCalls
  Domains = 2
  MaxChange = 1
  MaxSwitch = 3
  MaxFault = 1
  MaxCrash = 2
\* The bounds stop the model, not the program.
CHECK_DEADLOCK FALSE
INVARIANT MemoryIsolated
INVARIANT NoChangeForgotten
PROPERTY SavesMoveForward
PROPERTY CleanCloseSaves
PROPERTY NeverOlderThanCopy
SYMMETRY Symmetry
