SPECIFICATION Spec
CONSTANTS
  Null = Null
  Admins = {r1, r2}
  Mails = {m1, m2}
  MaxMail = 2
  MaxSecond = 1
  MaxTries = 2
  Required = {"is_unread"}
  GlobalList <- Forwards
  RuleList <- Rules
  Rows = {x1, x2}
  BatchSize = 1
  Settings <- Cleaning
  Frozen = TRUE
  Names = {}
  Users = {}
  Slots = {}
  MaxId = 0
  MaxAddress = 1
  Worlds <- LostRead
CHECK_DEADLOCK FALSE
INVARIANTS
  MigrationBringsRawBlob
