SPECIFICATION Spec
CONSTANTS
  Codes = {c1, c2}
  Values = {p}
  Null = Null
  MaxBatch = 2
  Requests = {r1, r2}
  Names = {n1, n2}
  MaxId = 3
  Worlds <- Every
SYMMETRY Symmetry
INVARIANTS
  MailboxIsExclusive
  RepliesConverge
  NoMailboxLeaks
PROPERTIES
  ImplementsLedger
  HandedOutStays
CHECK_DEADLOCK FALSE
