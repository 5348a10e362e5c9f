SPECIFICATION ServicesSpec
CHECK_DEADLOCK FALSE
CONSTANTS
  Running = {"rows", "bus", "sharing", "updates", "clock", "registry", "capture",
             "dependencies"}
  Peer = {p1}
  FailureThreshold = 3
  Slot = {s1, s2}
  Others = 1
  Graces = {0, 1}
  FreeAttempts = 0
  MaxLoginAttempts = 2
  MaxFactorAttempts = 1
  Challenge = {g1}
  NoChallenge = NoChallenge
  Child = {c1, c2, c3}
  NoChild = NoChild
  MaxLoads = 2
  MaxTimers = 2
  MaxRestarts = 2
  Hand = {o1}
  Updater = update
  MaxVersion = 2
  MaxAttempts = 2
  MaxClears = 1
  Node = {n1, n2, n3}
  Writer = {n1}
  Value = {v1, v2}
  Null = Null
  Item = {i1}
  MaxWrites = 3
  MaxImports = 1
  Subscriber = {h1, h2}
  Publication = {q1, q2}
  Byte = {1, 83, 254}
  MaxShares = 4
  MaxProgram = 2
  FallbackAfter = 2
  MaxTime = 2
  MaxCounter = 3
  NodeId = {1, 2, 3}
  Self = 2
  Net = {k1, k2}
  Request = {r1, r2}
  NoNet = NoNet
  Record = {w1, w2}
  Late = {w2}
  Content = {x1}
  MaxDepth = 2
  MaxChanges = 2
  Campo = {f1, f2}
  Required = {f1}
  Text = {x1}
  MaxEdits = 4
  MaxOpened = 2
  Party = {a1, b1}
  Organisation = {scuola}
  NoOrganisation = NoOrganisation
  MaxDials = 2
  MaxStays = 3
  Question = {d1, d2}
  Tool = {t1}
  MaxPassi = 2
  MaxCalls = 2
  MaxConferme = 1
  MaxPerMinute = 1
  MaxPublished = 1
  App = {viaggi, alunni, docenti}
  viaggi = viaggi
  alunni = alunni
  docenti = docenti
  Edge <- MCEdge
  Declared <- MCDeclared
  MaxRelease = 2
  MaxMoves = 1
SYMMETRY Renamings
INVARIANTS
  ReadersAgree
  BusDeliversOnce
  SharesRestore
  TransfersAlone
  RegistrySurvives
  HistoryTellsChanges
  BlocksTellRows
  NeedsAreInstalled
PROPERTIES
  ClockAdvances
  ArchivesOutliveFailures
