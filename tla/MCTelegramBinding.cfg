SPECIFICATION Spec
CONSTANTS
  Null = Null
  Names = {n1, n2}
  Users = {u1, u2}
  Slots = {s1, s2}
  MaxId = 4
  MaxAddress = 2
  Admins = {}
  Mails = {}
  MaxMail = 0
  MaxSecond = 0
  MaxTries = 0
  Required = {}
  GlobalList <- Forwards
  RuleList <- Rules
  Rows = {}
  BatchSize = 1
  Settings <- Cleaning
  Frozen = TRUE
  Worlds <- AllThree
SYMMETRY Symmetry
CHECK_DEADLOCK FALSE
INVARIANTS
  LimitHolds
  OwnerIsListed
  PushFollowsBinding
  BoundIsListed
