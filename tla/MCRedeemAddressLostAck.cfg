SPECIFICATION Spec
CONSTANTS
  Codes = {c1}
  Values = {p}
  Null = Null
  MaxBatch = 2
  Requests = {r1, r2}
  Names = {n1, n2}
  MaxId = 2
  Worlds <- OnlyLostAck
SYMMETRY Symmetry
CHECK_DEADLOCK FALSE
PROPERTIES
  ResultRemains
