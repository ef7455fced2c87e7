------------------------------ MODULE SendMail ------------------------------
(***************************************************************************)
(* Sending mail: sendMail of worker/src/mails_api/send_mail_api.ts with    *)
(* send_balance.ts and send_mail_limit_utils.ts, and the admin's direct    *)
(* route in admin_api/send_mail.ts.  The balance and the two limits are    *)
(* read before the provider is called and written after it, with other     *)
(* requests, the admin and midnight in between.  Every failing counter     *)
(* write is swallowed: the mail is gone, the request goes on.              *)
(***************************************************************************)
EXTENDS SenderTable, FiniteSetsExt

CONSTANTS Slots,         \* requests in flight at a time; a slot is reused
          Configs,       \* send_mail_limit_config values an admin may save
          DailyCap,      \* no daily limit in Configs is above this
          MonthlyCap,    \* no monthly limit in Configs is above this
          Faults,        \* what may fail: a subset of FaultKinds
          Credits,       \* amounts a redeemed code adds to a balance
          MaxDay,        \* bound: the last day
          Month(_),      \* the calendar: the month a day is in
          MaxMails       \* bound: mails the provider accepts

Days == 0..MaxDay
Months == 0..Month(MaxDay)

FaultKinds == {"limiter", "deduct", "sendbox", "provider", "crash"}

\* A limit is Null when disabled and -1 when enabled without a limit.
LimitConfig == [daily : Int \cup {Null}, monthly : Int \cup {Null}]

ASSUME SendMailAssumption ==
  /\ Configs \subseteq LimitConfig /\ Configs # {} /\ Null \notin Configs
  /\ DailyCap \in Nat \ {0} /\ MonthlyCap \in Nat \ {0}
  /\ \A c \in Configs : c.daily # Null => c.daily \in -1..DailyCap
  /\ \A c \in Configs : c.monthly # Null => c.monthly \in -1..MonthlyCap
  /\ Faults \subseteq FaultKinds
  /\ Credits \subseteq Nat
  /\ MaxDay \in Nat /\ MaxMails \in Nat

ASSUME SlotsAssumption == IsFiniteSet(Slots) /\ Slots # {}

ASSUME CalendarAssumption ==
  /\ \A d \in Days : Month(d) \in Nat
  /\ \A d, e \in Days : d <= e => Month(d) <= Month(e)

VARIABLES config,    \* setting send_mail_limit_config
          today,     \* the UTC day
          daily,     \* settings rows send_mail_limit_count:daily:*, 0 if none
          monthly,   \* settings rows send_mail_limit_count:monthly:*
          slot,      \* the requests' local state
          sendbox,   \* rows saved in table sendbox
          accepted,  \* history: mails the provider accepted, by kind
          due        \* history: what each balance comes to when all that is owed is paid

vars == <<sender, adjusted, config, today, daily, monthly, slot, sendbox, accepted, due>>

\* "user" sends on a balance, "exempt" is an admin, a no-limit role or address
\* or a verified recipient, "binding" is the admin's raw route.
Kinds == {"user", "exempt", "binding"}

Slot == [pc : {"idle", "default", "balance", "limits", "daily", "monthly", "send",
               "count", "incDaily", "incMonthly", "cleanup", "deduct", "sendbox"},
         kind : Kinds, from : Addresses \cup {Null},
         rules : Configs \cup {Null}, day : Days]

Idle == [pc |-> "idle", kind |-> "user", from |-> Null, rules |-> Null, day |-> 0]

TypeOK ==
  /\ sender \in [Addresses -> SenderRow]
  /\ adjusted \subseteq Addresses
  /\ config \in Configs
  /\ today \in Days
  /\ daily \in [Days -> Nat]
  /\ monthly \in [Months -> Nat]
  /\ slot \in [Slots -> Slot]
  /\ sendbox \in Nat
  /\ accepted \in [Kinds -> Nat]
  /\ due \in [Addresses -> Int]

Init ==
  /\ SenderInit
  /\ config \in Configs
  /\ today = 0
  /\ daily = [d \in Days |-> 0]
  /\ monthly = [m \in Months |-> 0]
  /\ slot = [s \in Slots |-> Idle]
  /\ sendbox = 0
  /\ accepted = [k \in Kinds |-> 0]
  /\ due = [a \in Addresses |-> DefaultBalance]

Off(c) == c.daily = Null /\ c.monthly = Null
Limited(limit) == limit # Null /\ limit # -1

Put(s, x) == slot' = [slot EXCEPT ![s] = x]
Goto(s, label) == Put(s, [slot[s] EXCEPT !.pc = label])
Leave(s) == Put(s, Idle)

\* On to a step that goes by a configuration and the day its key is made on.
Keyed(s, label, c, d) ==
  Put(s, [slot[s] EXCEPT !.pc = label, !.rules = c, !.day = d])

-----------------------------------------------------------------------------
(* The balance, then the limits. *)

Start(s, a, k) ==
  /\ slot[s].pc = "idle"
  /\ Put(s, [pc |-> IF k = "user" THEN "default" ELSE "limits",
             kind |-> k, from |-> a, rules |-> Null, day |-> 0])
  /\ UNCHANGED <<sender, adjusted, config, today, daily, monthly, sendbox, accepted, due>>

EnsureDefault(s) ==
  /\ slot[s].pc = "default"
  /\ sender' = [sender EXCEPT ![slot[s].from] = WithDefault(@)]
  /\ Goto(s, "balance")
  /\ UNCHANGED <<adjusted, config, today, daily, monthly, sendbox, accepted, due>>

\* Mutant: an empty balance still sends.
EnoughAtZero(x) == x.row /\ x.enabled /\ x.balance # Null /\ x.balance >= 0

\* getEnabledSendBalance, and !balance || balance <= 0 in sendMail.
Enough(x) == x.row /\ x.enabled /\ x.balance # Null /\ x.balance > 0

ReadBalance(s) ==
  /\ slot[s].pc = "balance"
  /\ IF Enough(sender[slot[s].from]) THEN Goto(s, "limits") ELSE Leave(s)
  /\ UNCHANGED <<sender, adjusted, config, today, daily, monthly, sendbox, accepted, due>>

\* The limit check that follows another one, with the day its key was made on.
CheckNext(c, label) ==
  IF label = "daily" /\ Limited(c.daily) THEN "daily"
  ELSE IF label # "send" /\ Limited(c.monthly) THEN "monthly"
  ELSE "send"

Check(s, c, label) ==
  LET next == CheckNext(c, label)
  IN IF next = "send" THEN Keyed(s, "send", Null, 0) ELSE Keyed(s, next, c, today)

ReadLimits(s) ==
  /\ slot[s].pc = "limits"
  /\ Check(s, config, "daily")
  /\ UNCHANGED <<sender, adjusted, config, today, daily, monthly, sendbox, accepted, due>>

\* Mutant: one mail more than the limit.
ReachedLate(count, limit) == count > limit

Reached(count, limit) == count >= limit

\* getCount: a read that fails is swallowed by getSetting and counts as none.
Readings(count) == {count} \cup (IF "limiter" \in Faults THEN {0} ELSE {})

\* The key was made when the configuration had been read; the row is read now.
CheckDaily(s) ==
  /\ slot[s].pc = "daily"
  /\ \E count \in Readings(daily[slot[s].day]) :
       IF Reached(count, slot[s].rules.daily)
         THEN Leave(s)
         ELSE Check(s, slot[s].rules, "monthly")
  /\ UNCHANGED <<sender, adjusted, config, today, daily, monthly, sendbox, accepted, due>>

CheckMonthly(s) ==
  /\ slot[s].pc = "monthly"
  /\ \E count \in Readings(monthly[Month(slot[s].day)]) :
       IF Reached(count, slot[s].rules.monthly)
         THEN Leave(s)
         ELSE Check(s, slot[s].rules, "send")
  /\ UNCHANGED <<sender, adjusted, config, today, daily, monthly, sendbox, accepted, due>>

\* A failing read of the configuration is taken for none: the mail goes through.
LimiterFails(s) ==
  /\ "limiter" \in Faults
  /\ slot[s].pc = "limits"
  /\ Check(s, Null, "send")
  /\ UNCHANGED <<sender, adjusted, config, today, daily, monthly, sendbox, accepted, due>>

-----------------------------------------------------------------------------
(* The provider, then the counts. *)

Rejected(s) ==
  /\ slot[s].pc = "send"
  /\ Leave(s)
  /\ UNCHANGED <<sender, adjusted, config, today, daily, monthly, sendbox, accepted, due>>

Charge(k, a) == IF k = "user" THEN [due EXCEPT ![a] = @ - 1] ELSE due

\* The request's mail is accepted and still to be charged.
Owing(s) ==
  /\ slot[s].kind = "user"
  /\ slot[s].pc \in {"count", "incDaily", "incMonthly", "cleanup", "deduct"}

\* A fault keeps the mail from ever being charged.
Forgiven(s) == IF Owing(s) THEN [due EXCEPT ![slot[s].from] = @ + 1] ELSE due

\* A verified recipient turns a user's mail into one that costs nothing.
Accepted(s, verified) ==
  LET k == IF verified /\ slot[s].kind = "user" THEN "exempt" ELSE slot[s].kind
  IN /\ slot[s].pc = "send"
     /\ accepted["user"] + accepted["exempt"] + accepted["binding"] < MaxMails
     /\ accepted' = [accepted EXCEPT ![k] = @ + 1]
     /\ \/ Put(s, [slot[s] EXCEPT !.pc = "count", !.kind = k]) /\ due' = Charge(k, slot[s].from)
        \/ "provider" \in Faults /\ Leave(s) /\ UNCHANGED due
     /\ UNCHANGED <<sender, adjusted, config, today, daily, monthly, sendbox>>

\* The admin's raw route neither charges nor keeps a copy.
AfterCount(k) ==
  IF k = "user" THEN "deduct" ELSE IF k = "exempt" THEN "sendbox" ELSE "idle"

CountDone(s) ==
  IF slot[s].kind = "binding" THEN Leave(s)
                              ELSE Keyed(s, AfterCount(slot[s].kind), Null, 0)

\* The configuration is read again, and both keys are made from one date each.
ReadCountLimits(s) ==
  /\ slot[s].pc = "count"
  /\ IF Off(config)
       THEN CountDone(s)
       ELSE Keyed(s, IF config.daily # Null THEN "incDaily" ELSE "incMonthly",
                  config, today)
  /\ UNCHANGED <<sender, adjusted, config, today, daily, monthly, sendbox, accepted, due>>

IncDaily(s) ==
  /\ slot[s].pc = "incDaily"
  /\ daily' = [daily EXCEPT ![slot[s].day] = @ + 1]
  /\ Goto(s, IF slot[s].rules.monthly # Null THEN "incMonthly" ELSE "cleanup")
  /\ UNCHANGED <<sender, adjusted, config, today, monthly, sendbox, accepted, due>>

\* Mutant: the month's key is made when the month is counted.
IncMonthlyLate(s) ==
  /\ slot[s].pc = "incMonthly"
  /\ monthly' = [monthly EXCEPT ![Month(today)] = @ + 1]
  /\ Goto(s, "cleanup")
  /\ UNCHANGED <<sender, adjusted, config, today, daily, sendbox, accepted, due>>

IncMonthly(s) ==
  /\ slot[s].pc = "incMonthly"
  /\ monthly' = [monthly EXCEPT ![Month(slot[s].day)] = @ + 1]
  /\ Goto(s, "cleanup")
  /\ UNCHANGED <<sender, adjusted, config, today, daily, sendbox, accepted, due>>

\* Mutant: every count but the request's own is removed.
KeptOwn(count, key) == [k \in DOMAIN count |-> IF k # key THEN 0 ELSE count[k]]

\* DELETE FROM settings WHERE key LIKE ? AND key < ?
Kept(count, key) == [k \in DOMAIN count |-> IF k < key THEN 0 ELSE count[k]]

Cleanup(s) ==
  /\ slot[s].pc = "cleanup"
  /\ daily' = Kept(daily, slot[s].day)
  /\ monthly' = Kept(monthly, Month(slot[s].day))
  /\ CountDone(s)
  /\ UNCHANGED <<sender, adjusted, config, today, sendbox, accepted, due>>

\* Mutant: the exception ends the request.
CountFailsEnds(s) ==
  /\ "limiter" \in Faults
  /\ slot[s].pc \in {"count", "incDaily", "incMonthly", "cleanup"}
  /\ Leave(s)
  /\ UNCHANGED <<sender, adjusted, config, today, daily, monthly, sendbox, accepted, due>>

CountFails(s) ==
  /\ "limiter" \in Faults
  /\ slot[s].pc \in {"count", "incDaily", "incMonthly", "cleanup"}
  /\ CountDone(s)
  /\ UNCHANGED <<sender, adjusted, config, today, daily, monthly, sendbox, accepted, due>>

Deduct(s) ==
  /\ slot[s].pc = "deduct"
  /\ \/ sender' = [sender EXCEPT ![slot[s].from] = Deducted(@)] /\ UNCHANGED due
     \/ "deduct" \in Faults /\ due' = Forgiven(s) /\ UNCHANGED sender
  /\ Goto(s, "sendbox")
  /\ UNCHANGED <<adjusted, config, today, daily, monthly, sendbox, accepted>>

\* INSERT INTO sendbox; its failure is only logged.
SaveSendbox(s) ==
  /\ slot[s].pc = "sendbox"
  /\ \/ sendbox' = sendbox + 1
     \/ "sendbox" \in Faults /\ UNCHANGED sendbox
  /\ Leave(s)
  /\ UNCHANGED <<sender, adjusted, config, today, daily, monthly, accepted, due>>

\* The isolate is killed between two awaits.
Crash(s) ==
  /\ "crash" \in Faults
  /\ slot[s].pc # "idle"
  /\ Leave(s)
  /\ due' = Forgiven(s)
  /\ UNCHANGED <<sender, adjusted, config, today, daily, monthly, sendbox, accepted>>

Request(s) ==
  \/ \E a \in Addresses, k \in Kinds : Start(s, a, k)
  \/ EnsureDefault(s) \/ ReadBalance(s)
  \/ ReadLimits(s) \/ CheckDaily(s) \/ CheckMonthly(s) \/ LimiterFails(s)
  \/ Rejected(s) \/ \E verified \in BOOLEAN : Accepted(s, verified)
  \/ ReadCountLimits(s) \/ IncDaily(s) \/ IncMonthly(s) \/ Cleanup(s) \/ CountFails(s)
  \/ Deduct(s) \/ SaveSendbox(s) \/ Crash(s)

-----------------------------------------------------------------------------
(* The rest of the system, as far as it touches these tables. *)

NewDay ==
  /\ today < MaxDay
  /\ today' = today + 1
  /\ UNCHANGED <<sender, adjusted, config, daily, monthly, slot, sendbox, accepted, due>>

SaveLimits(c) ==
  /\ config' = c
  /\ UNCHANGED <<sender, adjusted, today, daily, monthly, slot, sendbox, accepted, due>>

SenderChanges ==
  /\ SenderStep
  /\ UNCHANGED <<config, today, daily, monthly, slot, sendbox, accepted, due>>

\* A code is redeemed for credits: the default first, then the upsert.
\* Bound: a balance is credited up to its default plus two credits.
Redeem(a, n) ==
  /\ due[a] <= DefaultBalance
  /\ sender' = [sender EXCEPT ![a] = Credited(WithDefault(@), n)]
  /\ due' = [due EXCEPT ![a] = @ + n]
  /\ UNCHANGED <<adjusted, config, today, daily, monthly, slot, sendbox, accepted>>

Environment ==
  \/ NewDay
  \/ \E c \in Configs : SaveLimits(c)
  \/ SenderChanges
  \/ \E a \in Addresses, n \in Credits : Redeem(a, n)

Next == Environment \/ \E s \in Slots : Request(s)

Spec == Init /\ [][Next]_vars

-----------------------------------------------------------------------------
(* Safety. *)

\* Mails of a name that were accepted and are still to be charged.
Unpaid(a) == {s \in Slots : Owing(s) /\ slot[s].from = a}

\* The limits are soft, but only so far: however the requests interleave, and
\* over midnight too, a day or a month counts fewer mails above its limit
\* than there are requests in flight, as long as D1 answers the checks.
OvershootBounded ==
  "limiter" \notin Faults =>
    /\ (\A c \in Configs : Limited(c.daily)) =>
         \A d \in Days : daily[d] < DailyCap + Cardinality(Slots)
    /\ (\A c \in Configs : Limited(c.monthly)) =>
         \A m \in Months : monthly[m] < MonthlyCap + Cardinality(Slots)

\* Requests that read the same positive balance may all send, and the balance
\* goes below zero, but by fewer mails than there are requests in flight.
BalanceFloor ==
  \A a \in Addresses \ adjusted :
    sender[a].row => sender[a].balance > -Cardinality(Slots)

\* Each mail the provider took from a balance is charged once, and no other
\* mail is: only a stopped worker, a lost answer and a failed deduction leave
\* one uncharged, and a counter that fails changes nothing about it.
MailsAreCharged ==
  \A a \in Addresses \ adjusted :
    sender[a].row => sender[a].balance = due[a] + Cardinality(Unpaid(a))

\* The cleanup after each mail removes old days and months only: a late
\* request, whose keys are yesterday's, never resets the count of today.
CurrentCountKept ==
  [][/\ daily'[today] >= daily[today]
     /\ monthly'[Month(today)] >= monthly[Month(today)]]_vars

\* Whoever counts the day counts the month, and no count is given up between.
BothCounted ==
  /\ \A c \in Configs : c.daily # Null => c.monthly # Null
  /\ "limiter" \notin Faults /\ "crash" \notin Faults

\* The days of a month never count more than the month: a mail that is sent
\* around midnight is counted on a day and in the month of that day, as long as
\* both limits are on and no write of a count fails.
MonthCoversDays ==
  BothCounted =>
    \A m \in Months :
      MapThenSumSet(LAMBDA d : daily[d], {d \in Days : Month(d) = m})
        <= monthly[m] + Cardinality({s \in Slots : /\ slot[s].pc = "incMonthly"
                                                   /\ Month(slot[s].day) = m})
=============================================================================
