SPECIFICATION Spec
CONSTANTS
  Null = Null
  Names = {n1, n2}
  Users = {u1, u2}
  Slots = {s1, s2}
  MaxId = 3
  Limit = 1
  Batch = 1
  Worlds <- Both
SYMMETRY Symmetry
CHECK_DEADLOCK FALSE
INVARIANTS
  BindOvershoot
  MailsGoWithMailbox
PROPERTIES
  TransfersItsOwn
