SPECIFICATION Spec
CONSTANTS
  Null = Null
  Addresses = {a1}
  DefaultBalance = 1
  AdminBalances = {Null, 0}
  Slots = {s1, s2}
  Configs <- Changing
  DailyCap = 1
  MonthlyCap = 2
  Faults = {"limiter", "deduct", "sendbox", "provider", "crash"}
  Credits = {2}
  MaxDay = 0
  Month <- DayMonths
  MaxMails = 2
SYMMETRY Symmetry
INVARIANTS
  MailsAreCharged
