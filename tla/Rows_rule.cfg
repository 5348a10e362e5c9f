SPECIFICATION RowSpec
CHECK_DEADLOCK FALSE
CONSTANTS
  Node = {n1, n2}
  Writer = {n1}
  Value = {v1, v2}
  Null = Null
  Item = {i1}
  MaxWrites = 2
  MaxImports = 0
INVARIANT RuleReplicates
