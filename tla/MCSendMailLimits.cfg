SPECIFICATION Spec
CONSTANTS
  Null = Null
  Addresses = {a1}
  DefaultBalance = 1
  AdminBalances = {}
  Slots = {s1, s2}
  Configs <- TightOnly
  DailyCap = 1
  MonthlyCap = 2
  Faults = {"deduct", "sendbox", "provider"}
  Credits = {}
  MaxDay = 2
  Month <- TwoDayMonths
  MaxMails = 3
SYMMETRY Symmetry
INVARIANTS
  OvershootBounded
  BalanceFloor
  MonthCoversDays
PROPERTIES
  CurrentCountKept
