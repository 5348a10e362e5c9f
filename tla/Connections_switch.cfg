SPECIFICATION ConnectionSpec
CHECK_DEADLOCK FALSE
CONSTANTS
  Party = {a1, b1}
  Organisation = {scuola, casa}
  NoOrganisation = NoOrganisation
  MaxDials = 1
  MaxStays = 3
INVARIANT NetworkUnderstands
