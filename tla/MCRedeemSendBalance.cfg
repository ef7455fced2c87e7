SPECIFICATION Spec
CONSTANTS
  Codes = {c1, c2}
  Values = {2, 3}
  Null = Null
  MaxBatch = 2
  Requests = {r1, r2}
  Addresses = {a1}
  DefaultBalance = 1
  AdminBalances = {Null}
  MaxSends = 1
SYMMETRY Symmetry
INVARIANTS
  ConsumedOnce
  ReplyIsTruthful
  BalanceAccounts
PROPERTIES
  ImplementsLedger
