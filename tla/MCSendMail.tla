----------------------------- MODULE MCSendMail -----------------------------
EXTENDS SendMail, TLC

\* Limits of one day and of one month, tight enough to be reached.
Tight == [daily |-> 1, monthly |-> 2]
DayOnly == [daily |-> -1, monthly |-> Null]
MonthOnly == [daily |-> Null, monthly |-> 1]
NoLimits == [daily |-> Null, monthly |-> Null]

TightOnly == {Tight}
Changing == {MonthOnly, DayOnly, NoLimits}

\* Calendars: every day a month of its own, or two days to a month.
DayMonths(d) == d
TwoDayMonths(d) == d \div 2

Symmetry == Permutations(Slots)
=============================================================================
