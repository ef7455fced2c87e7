SPECIFICATION Spec
CONSTANTS
  Null = Null
  MaxUser = 2
  Emails = {ann, bob}
  Passwords = {w1, w2}
  NoPassword = NoPassword
  Pins = {p1, p2}
  Calls = {k1, k2}
  Roles = {vip, pro, user}
  DefaultRole = user
  AdminRole = pro
  Codes = {c1, c2}
  Values = {vip, pro}
  MaxBatch = 2
  Requests = {r1, r2}
  Fetches = {f1, f2}
  Loads = {g1}
  Mailboxes = {b1, b2}
  Worlds <- Inheritance
CHECK_DEADLOCK FALSE
INVARIANT
  NewUsersHaveDefaultRole
