SPECIFICATION Spec
CONSTANTS
  Null = Null
  Sessions = {s1, s2}
  MaxUid = 4
  PageSize = 2
  Flags = {"seen", "flagged"}
  Tasks = {t1, t2}
  Codes = {"c1", "c2"}
  Values = {"vip", "p"}
  MaxBatch = 1
  Kinds = {"role", "address_prefix_once"}
  Kind <- KindOf
  ValuesOf <- AcceptedValues
  Slots = {q1, q2}
  Worlds <- Everyday
CHECK_DEADLOCK FALSE
INVARIANTS
  LateAnswersIgnored
  ValuesFitTypes
PROPERTIES
  NoUpdateLost
  IndexHeals
  ListCatchesUp
