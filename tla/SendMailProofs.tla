--------------------------- MODULE SendMailProofs ---------------------------
(***************************************************************************)
(* Proofs about SendMail, for any number of requests in flight, any limits *)
(* and any calendar: the balance and the limits are checked and written in *)
(* different steps, and still overshoot by less than the requests there    *)
(* are.  Each bound holds because the requests that passed a check and     *)
(* have not yet written are counted in: their number, added to what is     *)
(* already written, is what a check that passes keeps below the bound.     *)
(* The charges and the counts add up in the same way: what is written and  *)
(* what requests are still to write give what is due.                      *)
(***************************************************************************)
EXTENDS SendMail, SharedLemmas, FiniteSetTheorems, TLAPS

-----------------------------------------------------------------------------
(* Types. *)

Labels == {"idle", "default", "balance", "limits", "daily", "monthly", "send",
           "count", "incDaily", "incMonthly", "cleanup", "deduct", "sendbox"}

\* A request moved on, ended or started is a request again.
LEMMA SlotSteps ==
  ASSUME TypeOK, NEW s \in Slots
  PROVE  /\ slot[s] \in Slot
         /\ \A x \in Slot : Put(s, x) => slot' \in [Slots -> Slot]
         /\ \A l \in Labels : Goto(s, l) => slot' \in [Slots -> Slot]
         /\ Leave(s) => slot' \in [Slots -> Slot]
         /\ \A l \in Labels, c \in Configs \cup {Null}, d \in Days :
              Keyed(s, l, c, d) => slot' \in [Slots -> Slot]
<1>1. slot \in [Slots -> Slot] /\ slot[s] \in Slot
  BY DEF TypeOK
<1>2. \A x \in Slot : Put(s, x) => slot' \in [Slots -> Slot]
  BY <1>1 DEF Put
<1>3. ASSUME NEW l \in Labels, Goto(s, l) PROVE slot' \in [Slots -> Slot]
  <2>1. [slot[s] EXCEPT !.pc = l] \in Slot
    BY <1>1 DEF Slot, Labels
  <2> QED BY <1>2, <1>3, <2>1 DEF Goto
<1>4. ASSUME Leave(s) PROVE slot' \in [Slots -> Slot]
  <2>1. Idle \in Slot
    BY SendMailAssumption DEF Idle, Slot, Kinds, Days
  <2> QED BY <1>2, <1>4, <2>1 DEF Leave
<1>5. ASSUME NEW l \in Labels, NEW c \in Configs \cup {Null}, NEW d \in Days,
             Keyed(s, l, c, d)
      PROVE  slot' \in [Slots -> Slot]
  <2>1. [slot[s] EXCEPT !.pc = l, !.rules = c, !.day = d] \in Slot
    BY <1>1 DEF Slot, Labels
  <2> QED BY <1>2, <1>5, <2>1 DEF Keyed
<1> QED BY <1>1, <1>2, <1>3, <1>4, <1>5

\* The same for the two steps that choose where a request goes.
LEMMA CheckType ==
  ASSUME TypeOK, NEW s \in Slots, NEW c \in Configs \cup {Null}, NEW label,
         Check(s, c, label)
  PROVE  slot' \in [Slots -> Slot]
<1>1. CheckNext(c, label) \in Labels
  BY DEF CheckNext, Labels
<1>2. 0 \in Days /\ today \in Days
  BY SendMailAssumption DEF TypeOK, Days
<1> QED BY <1>1, <1>2, SlotSteps DEF Check

LEMMA CountDoneType ==
  ASSUME TypeOK, NEW s \in Slots, CountDone(s)
  PROVE  slot' \in [Slots -> Slot]
<1>1. AfterCount(slot[s].kind) \in Labels
  BY DEF AfterCount, Labels
<1>2. 0 \in Days
  BY SendMailAssumption DEF Days
<1> QED BY <1>1, <1>2, SlotSteps DEF CountDone

\* Rows of address_sender stay rows.
LEMMA RowTypes ==
  ASSUME NEW x \in SenderRow
  PROVE  /\ WithDefault(x) \in SenderRow
         /\ Deducted(x) \in SenderRow
         /\ \A n \in Nat : Credited(x, n) \in SenderRow
<1>1. WithDefault(x) \in SenderRow
  BY SenderAssumption DEF WithDefault, SenderRow
<1>2. Deducted(x) \in SenderRow
  <2>1. (IF x.balance = Null THEN Null ELSE x.balance - 1) \in Int \cup {Null}
    BY DEF SenderRow
  <2> QED BY <2>1 DEF Deducted, SenderRow
<1>3. ASSUME NEW n \in Nat PROVE Credited(x, n) \in SenderRow
  <2>1. ((IF x.balance = Null THEN 0 ELSE x.balance) + n) \in Int \cup {Null}
    BY DEF SenderRow
  <2> QED BY <2>1 DEF Credited, SenderRow
<1> QED BY <1>1, <1>2, <1>3

\* The admin and the applicants write rows of the table.
LEMMA SenderStepType ==
  ASSUME sender \in [Addresses -> SenderRow], adjusted \subseteq Addresses, SenderStep
  PROVE  /\ sender' \in [Addresses -> SenderRow]
         /\ adjusted' \subseteq Addresses
<1>1. ASSUME NEW a \in Addresses, NEW b \in AdminBalances, NEW on \in BOOLEAN,
             AdminSetSender(a, b, on)
      PROVE  sender' \in [Addresses -> SenderRow] /\ adjusted' \subseteq Addresses
  <2>1. [row |-> TRUE, balance |-> b, enabled |-> on] \in SenderRow
    BY SenderAssumption DEF SenderRow
  <2> QED BY <1>1, <2>1 DEF AdminSetSender
<1>2. ASSUME NEW a \in Addresses, AdminRemoveSender(a)
      PROVE  sender' \in [Addresses -> SenderRow] /\ adjusted' \subseteq Addresses
  <2>1. NoSender \in SenderRow
    BY DEF NoSender, SenderRow
  <2> QED BY <1>2, <2>1 DEF AdminRemoveSender
<1>3. ASSUME NEW a \in Addresses, OpenSender(a)
      PROVE  sender' \in [Addresses -> SenderRow] /\ adjusted' \subseteq Addresses
  <2>1. [row |-> TRUE, balance |-> DefaultBalance, enabled |-> DefaultBalance > 0]
          \in SenderRow
    BY SenderAssumption DEF SenderRow
  <2> QED BY <1>3, <2>1 DEF OpenSender
<1> QED BY <1>1, <1>2, <1>3 DEF SenderStep

\* Every step keeps the types.
LEMMA NextType == TypeOK /\ [Next]_vars => TypeOK'
<1> SUFFICES ASSUME TypeOK, [Next]_vars PROVE TypeOK'
  OBVIOUS
<1> USE DEF TypeOK
<1>l. {"idle", "default", "balance", "limits", "send", "incDaily", "incMonthly",
       "cleanup", "sendbox", "count"} \subseteq Labels
  BY DEF Labels
<1>1. ASSUME NEW s \in Slots, NEW a \in Addresses, NEW k \in Kinds, Start(s, a, k)
      PROVE  TypeOK'
  <2>1. [pc |-> IF k = "user" THEN "default" ELSE "limits",
         kind |-> k, from |-> a, rules |-> Null, day |-> 0] \in Slot
    BY SendMailAssumption DEF Slot, Days
  <2> QED BY <1>1, <2>1, SlotSteps DEF Start
<1>2. ASSUME NEW s \in Slots, EnsureDefault(s) PROVE TypeOK'
  <2>1. \A a \in Addresses : WithDefault(sender[a]) \in SenderRow
    BY RowTypes
  <2>2. slot' \in [Slots -> Slot]
    BY <1>2, <1>l, SlotSteps DEF EnsureDefault
  <2> QED BY <1>2, <2>1, <2>2 DEF EnsureDefault
<1>3. ASSUME NEW s \in Slots, ReadBalance(s) PROVE TypeOK'
  BY <1>3, <1>l, SlotSteps DEF ReadBalance
<1>4. ASSUME NEW s \in Slots, ReadLimits(s) PROVE TypeOK'
  <2>1. slot' \in [Slots -> Slot]
    BY <1>4, CheckType DEF ReadLimits
  <2> QED BY <1>4, <2>1 DEF ReadLimits
<1>5. ASSUME NEW s \in Slots, CheckDaily(s) \/ CheckMonthly(s) \/ LimiterFails(s)
      PROVE  TypeOK'
  <2>1. slot[s].rules \in Configs \cup {Null}
    BY SlotSteps DEF Slot
  <2>2. slot' \in [Slots -> Slot]
    BY <1>5, <2>1, SlotSteps, CheckType DEF CheckDaily, CheckMonthly, LimiterFails
  <2> QED BY <1>5, <2>2 DEF CheckDaily, CheckMonthly, LimiterFails
<1>f. ASSUME NEW s \in Slots PROVE Forgiven(s) \in [Addresses -> Int]
  <2>1. \A a \in Addresses : due[a] + 1 \in Int
    OBVIOUS
  <2> QED BY <2>1 DEF Forgiven
<1>6. ASSUME NEW s \in Slots, Rejected(s) \/ Crash(s) PROVE TypeOK'
  <2>1. CASE Rejected(s)
    BY <2>1, SlotSteps DEF Rejected
  <2>2. CASE Crash(s)
    BY <2>2, <1>f, SlotSteps DEF Crash
  <2> QED BY <1>6, <2>1, <2>2
<1>7. ASSUME NEW s \in Slots, NEW v \in BOOLEAN, Accepted(s, v) PROVE TypeOK'
  <2> DEFINE k == IF v /\ slot[s].kind = "user" THEN "exempt" ELSE slot[s].kind
  <2>1. k \in Kinds
    BY SlotSteps DEF Slot, Kinds
  <2>2. slot' \in [Slots -> Slot]
    <3>1. [slot[s] EXCEPT !.pc = "count", !.kind = k] \in Slot
      BY <2>1, SlotSteps DEF Slot
    <3> QED BY <1>7, <3>1, SlotSteps DEF Accepted
  <2>3. accepted' \in [Kinds -> Nat]
    BY <1>7, <2>1 DEF Accepted
  <2>4. due' \in [Addresses -> Int]
    <3>1. Charge(k, slot[s].from) \in [Addresses -> Int]
      <4>1. \A a \in Addresses : due[a] - 1 \in Int
        OBVIOUS
      <4> QED BY <4>1 DEF Charge
    <3> QED BY <1>7, <3>1 DEF Accepted
  <2> QED BY <1>7, <2>2, <2>3, <2>4 DEF Accepted
<1>8. ASSUME NEW s \in Slots, ReadCountLimits(s) PROVE TypeOK'
  <2>1. slot' \in [Slots -> Slot]
    BY <1>8, <1>l, SlotSteps, CountDoneType DEF ReadCountLimits
  <2> QED BY <1>8, <2>1 DEF ReadCountLimits
<1>9. ASSUME NEW s \in Slots, IncDaily(s) PROVE TypeOK'
  <2>1. slot' \in [Slots -> Slot]
    BY <1>9, <1>l, SlotSteps DEF IncDaily
  <2>2. \A d \in Days : daily[d] + 1 \in Nat
    OBVIOUS
  <2>3. daily' \in [Days -> Nat]
    BY <1>9, <2>2 DEF IncDaily
  <2> QED BY <1>9, <2>1, <2>3 DEF IncDaily
<1>10. ASSUME NEW s \in Slots, IncMonthly(s) PROVE TypeOK'
  <2>1. slot' \in [Slots -> Slot]
    BY <1>10, <1>l, SlotSteps DEF IncMonthly
  <2>2. \A m \in Months : monthly[m] + 1 \in Nat
    OBVIOUS
  <2>3. monthly' \in [Months -> Nat]
    BY <1>10, <2>2 DEF IncMonthly
  <2> QED BY <1>10, <2>1, <2>3 DEF IncMonthly
<1>11. ASSUME NEW s \in Slots, Cleanup(s) PROVE TypeOK'
  <2>1. slot' \in [Slots -> Slot]
    BY <1>11, CountDoneType DEF Cleanup
  <2> QED BY <1>11, <2>1 DEF Cleanup, Kept
<1>12. ASSUME NEW s \in Slots, CountFails(s) PROVE TypeOK'
  <2>1. slot' \in [Slots -> Slot]
    BY <1>12, CountDoneType DEF CountFails
  <2> QED BY <1>12, <2>1 DEF CountFails
<1>13. ASSUME NEW s \in Slots, Deduct(s) PROVE TypeOK'
  <2>1. slot' \in [Slots -> Slot]
    BY <1>13, <1>l, SlotSteps DEF Deduct
  <2>2. \A a \in Addresses : Deducted(sender[a]) \in SenderRow
    BY RowTypes
  <2>3. sender' \in [Addresses -> SenderRow]
    BY <1>13, <2>2 DEF Deduct
  <2>4. due' \in [Addresses -> Int]
    BY <1>13, <1>f DEF Deduct
  <2> QED BY <1>13, <2>1, <2>3, <2>4 DEF Deduct
<1>14. ASSUME NEW s \in Slots, SaveSendbox(s) PROVE TypeOK'
  BY <1>14, SlotSteps DEF SaveSendbox
<1>15. CASE NewDay
  BY <1>15, SendMailAssumption DEF NewDay, Days
<1>16. ASSUME NEW c \in Configs, SaveLimits(c) PROVE TypeOK'
  BY <1>16 DEF SaveLimits
<1>17. CASE SenderChanges
  BY <1>17, SenderStepType DEF SenderChanges
<1>18. ASSUME NEW a \in Addresses, NEW n \in Credits, Redeem(a, n) PROVE TypeOK'
  <2>1. n \in Nat
    BY SendMailAssumption
  <2>2. \A b \in Addresses : Credited(WithDefault(sender[b]), n) \in SenderRow
    BY <2>1, RowTypes
  <2> QED BY <1>18, <2>1, <2>2 DEF Redeem
<1>19. CASE UNCHANGED vars
  BY <1>19 DEF vars
<1> QED
  BY <1>1, <1>2, <1>3, <1>4, <1>5, <1>6, <1>7, <1>8, <1>9, <1>10, <1>11, <1>12,
     <1>13, <1>14, <1>15, <1>16, <1>17, <1>18, <1>19 DEF Next, Environment, Request

\* The initial tables and requests are well typed.
LEMMA InitType == Init => TypeOK
<1>1. NoSender \in SenderRow /\ Idle \in Slot
  BY SendMailAssumption DEF NoSender, SenderRow, Idle, Slot, Kinds, Days
<1> QED
  BY <1>1, SendMailAssumption, SenderAssumption DEF Init, SenderInit, TypeOK, Days

\* Tables, requests and history keep their types whatever the interleaving.
THEOREM SendMailTypeOK == Spec => []TypeOK
<1> QED BY InitType, NextType, PTL DEF Spec

-----------------------------------------------------------------------------
(* The balance. *)

PassedAt == {"limits", "daily", "monthly", "send", "count", "incDaily", "incMonthly",
             "cleanup", "deduct"}

\* Requests that found a balance on a name and have not yet charged it.
Passed(a) ==
  {s \in Slots : slot[s].kind = "user" /\ slot[s].from = a /\ slot[s].pc \in PassedAt}

\* Charging all of them at once would still leave the floor.
FloorAt(a) ==
  IF sender[a].row
    THEN /\ sender[a].balance \in Int
         /\ sender[a].balance + Cardinality(Slots) > Cardinality(Passed(a))
    ELSE Passed(a) = {}

\* The inductive invariant behind BalanceFloor, which alone is not inductive:
\* it does not say how many charges are still to come.
FloorInv ==
  /\ \A a \in Addresses \ adjusted : FloorAt(a)
  /\ \A s \in Slots : slot[s].pc = "deduct" => slot[s].kind = "user"

LEMMA SlotsCounted ==
  /\ Cardinality(Slots) \in Nat \ {0}
  /\ \A T \in SUBSET Slots :
       /\ IsFiniteSet(T) /\ Cardinality(T) \in Nat
       /\ Cardinality(T) <= Cardinality(Slots)
       /\ \A R \in SUBSET T : Cardinality(R) <= Cardinality(T)
       /\ \A s \in T : Cardinality(T \ {s}) = Cardinality(T) - 1
<1>1. Cardinality(Slots) \in Nat \ {0}
  BY SlotsAssumption, FS_CardinalityType, FS_EmptySet
<1>2. ASSUME NEW T \in SUBSET Slots
      PROVE  /\ IsFiniteSet(T) /\ Cardinality(T) \in Nat
             /\ Cardinality(T) <= Cardinality(Slots)
  BY SlotsAssumption, FS_Subset, FS_CardinalityType
<1>3. ASSUME NEW T \in SUBSET Slots, NEW R \in SUBSET T
      PROVE  Cardinality(R) <= Cardinality(T)
  BY <1>2, FS_Subset
<1>4. ASSUME NEW T \in SUBSET Slots, NEW s \in T
      PROVE  Cardinality(T \ {s}) = Cardinality(T) - 1
  BY <1>2, FS_RemoveElement
<1> QED BY <1>1, <1>2, <1>3, <1>4

\* A name keeps its floor when no further request passes its check and its
\* balance does not fall.
LEMMA FloorKept ==
  ASSUME NEW a, FloorAt(a), Passed(a)' \subseteq Passed(a),
         \/ sender'[a] = sender[a]
         \/ ~sender[a].row /\ sender'[a].row /\ sender'[a].balance \in Nat
         \/ /\ sender[a].row /\ sender'[a].row /\ sender'[a].balance \in Int
            /\ sender[a].balance <= sender'[a].balance
  PROVE  FloorAt(a)'
<1>1. Passed(a) \in SUBSET Slots /\ Passed(a)' \in SUBSET Slots
  BY DEF Passed
<1>2. /\ Cardinality(Passed(a)') <= Cardinality(Passed(a))
      /\ Cardinality(Passed(a)) \in Nat /\ Cardinality(Passed(a)') \in Nat
      /\ Cardinality(Slots) \in Nat \ {0}
  BY <1>1, SlotsCounted
<1>3. CASE sender'[a] = sender[a]
  BY <1>1, <1>2, <1>3 DEF FloorAt
<1>4. CASE ~sender[a].row /\ sender'[a].row /\ sender'[a].balance \in Nat
  <2>1. Cardinality(Passed(a)') = 0
    BY <1>4, FS_EmptySet DEF FloorAt
  <2> QED BY <1>2, <1>4, <2>1 DEF FloorAt
<1>5. CASE /\ sender[a].row /\ sender'[a].row /\ sender'[a].balance \in Int
           /\ sender[a].balance <= sender'[a].balance
  BY <1>2, <1>5 DEF FloorAt
<1> QED BY <1>3, <1>4, <1>5

\* What a request may become without having passed a check it had not passed.
Quiet(s, x) ==
  /\ x.kind = "user" /\ x.pc \in PassedAt =>
       slot[s].kind = "user" /\ slot[s].pc \in PassedAt /\ x.from = slot[s].from
  /\ x.pc = "deduct" => x.kind = "user"

LEMMA QuietPassed ==
  ASSUME TypeOK, FloorInv, NEW s \in Slots, NEW x, Put(s, x), Quiet(s, x)
  PROVE  /\ \A a : Passed(a)' \subseteq Passed(a)
         /\ \A t \in Slots : slot'[t].pc = "deduct" => slot'[t].kind = "user"
BY DEF TypeOK, Put, Quiet, Passed, FloorInv

LEMMA QuietFloor ==
  ASSUME TypeOK, FloorInv, NEW s \in Slots, NEW x, Put(s, x), Quiet(s, x),
         UNCHANGED <<sender, adjusted>>
  PROVE  FloorInv'
BY QuietPassed, FloorKept DEF FloorInv

LEMMA StutterFloor ==
  ASSUME FloorInv, UNCHANGED <<slot, sender, adjusted>>
  PROVE  FloorInv'
BY DEF FloorInv, FloorAt, Passed

\* Ending, and moving on with a key, are quiet where the request had passed.
LEMMA QuietMoves ==
  ASSUME TypeOK, FloorInv, NEW s \in Slots, UNCHANGED <<sender, adjusted>>
  PROVE  /\ Leave(s) => FloorInv'
         /\ \A l \in Labels :
              Goto(s, l) /\ slot[s].pc \in PassedAt /\ l # "deduct" => FloorInv'
         /\ \A l, c, d :
              /\ Keyed(s, l, c, d) /\ slot[s].pc \in PassedAt
              /\ l = "deduct" => slot[s].kind = "user"
              => FloorInv'
<1>1. slot[s] \in Slot
  BY DEF TypeOK
<1>2. ASSUME Leave(s) PROVE FloorInv'
  <2>1. Quiet(s, Idle)
    BY DEF Quiet, Idle, PassedAt
  <2> QED BY <1>2, <2>1, QuietFloor DEF Leave
<1>3. ASSUME NEW l \in Labels, Goto(s, l), slot[s].pc \in PassedAt, l # "deduct"
      PROVE  FloorInv'
  <2>1. Quiet(s, [slot[s] EXCEPT !.pc = l])
    BY <1>1, <1>3 DEF Quiet, Slot
  <2> QED BY <1>3, <2>1, QuietFloor DEF Goto
<1>4. ASSUME NEW l, NEW c, NEW d, Keyed(s, l, c, d), slot[s].pc \in PassedAt,
             l = "deduct" => slot[s].kind = "user"
      PROVE  FloorInv'
  <2>1. Quiet(s, [slot[s] EXCEPT !.pc = l, !.rules = c, !.day = d])
    BY <1>1, <1>4 DEF Quiet, Slot
  <2> QED BY <1>4, <2>1, QuietFloor DEF Keyed
<1> QED BY <1>2, <1>3, <1>4

LEMMA CheckFloor ==
  ASSUME TypeOK, FloorInv, NEW s \in Slots, UNCHANGED <<sender, adjusted>>,
         slot[s].pc \in PassedAt, NEW c, NEW label, Check(s, c, label)
  PROVE  FloorInv'
<1>1. CheckNext(c, label) # "deduct"
  BY DEF CheckNext
<1> QED BY <1>1, QuietMoves DEF Check

LEMMA CountDoneFloor ==
  ASSUME TypeOK, FloorInv, NEW s \in Slots, UNCHANGED <<sender, adjusted>>,
         slot[s].pc \in PassedAt, CountDone(s)
  PROVE  FloorInv'
<1>1. AfterCount(slot[s].kind) = "deduct" => slot[s].kind = "user"
  BY DEF AfterCount
<1> QED BY <1>1, QuietMoves DEF CountDone

\* The check that passes: the balance it read covers every request in flight.
LEMMA ReadBalanceFloor ==
  ASSUME TypeOK, FloorInv, NEW s \in Slots, ReadBalance(s)
  PROVE  FloorInv'
<1>1. CASE Leave(s)
  BY <1>1, QuietMoves DEF ReadBalance
<1>2. CASE Enough(sender[slot[s].from]) /\ Goto(s, "limits")
  <2>0. slot[s] \in Slot /\ UNCHANGED <<sender, adjusted>>
    BY DEF TypeOK, ReadBalance
  <2>1. slot' = [slot EXCEPT ![s] = [slot[s] EXCEPT !.pc = "limits"]]
    BY <1>2 DEF Goto, Put
  <2>2. \A t \in Slots : slot'[t].pc = "deduct" => slot'[t].kind = "user"
    BY <2>0, <2>1 DEF FloorInv, TypeOK
  <2>3. ASSUME NEW a \in Addresses \ adjusted, a # slot[s].from PROVE FloorAt(a)'
    <3>1. Passed(a)' \subseteq Passed(a)
      BY <2>0, <2>1, <2>3 DEF Passed, TypeOK, Slot
    <3> QED BY <2>0, <2>3, <3>1, FloorKept DEF FloorInv
  <2>4. ASSUME NEW a \in Addresses \ adjusted, a = slot[s].from PROVE FloorAt(a)'
    <3>1. sender[a].row /\ sender[a].balance # Null /\ sender[a].balance > 0
      BY <1>2, <2>4 DEF Enough
    <3>2. sender[a].balance \in Int
      BY <3>1, <2>4 DEF FloorInv, FloorAt
    <3>3. Passed(a)' \in SUBSET Slots
      BY DEF Passed
    <3>4. Cardinality(Passed(a)') \in Nat /\ Cardinality(Slots) \in Nat
          /\ Cardinality(Passed(a)') <= Cardinality(Slots)
      BY <3>3, SlotsCounted
    <3> QED BY <2>0, <3>1, <3>2, <3>4 DEF FloorAt
  <2> QED BY <2>0, <2>2, <2>3, <2>4 DEF FloorInv
<1> QED BY <1>1, <1>2 DEF ReadBalance

\* The charge: one request less to come, one credit less on the balance.
LEMMA DeductFloor ==
  ASSUME TypeOK, FloorInv, NEW s \in Slots, Deduct(s)
  PROVE  FloorInv'
<1>0. slot[s] \in Slot /\ slot[s].kind = "user" /\ slot[s].pc = "deduct"
  BY DEF TypeOK, FloorInv, Deduct
<1>1. slot' = [slot EXCEPT ![s] = [slot[s] EXCEPT !.pc = "sendbox"]] /\ adjusted' = adjusted
  BY DEF Deduct, Goto, Put
<1>2. \A t \in Slots : slot'[t].pc = "deduct" => slot'[t].kind = "user"
  BY <1>0, <1>1 DEF FloorInv, TypeOK
<1>3. \A a : Passed(a)' \subseteq Passed(a) \ {s}
  BY <1>0, <1>1 DEF Passed, TypeOK, Slot, PassedAt
<1>4. ASSUME NEW a \in Addresses \ adjusted, sender'[a] = sender[a] PROVE FloorAt(a)'
  BY <1>3, <1>4, FloorKept DEF FloorInv
<1>5. ASSUME NEW a \in Addresses \ adjusted, a = slot[s].from,
             sender' = [sender EXCEPT ![a] = Deducted(sender[a])]
      PROVE  FloorAt(a)'
  <2>1. s \in Passed(a)
    BY <1>0, <1>5 DEF Passed, PassedAt
  <2>2. /\ sender[a].row /\ sender[a].balance \in Int
        /\ sender[a].balance + Cardinality(Slots) > Cardinality(Passed(a))
    BY <2>1 DEF FloorInv, FloorAt
  <2>3. sender[a] \in SenderRow /\ sender[a].balance # Null
    BY <2>2, SenderAssumption DEF TypeOK
  <2>4. sender'[a].row /\ sender'[a].balance = sender[a].balance - 1
    BY <1>5, <2>2, <2>3 DEF Deducted, SenderRow, TypeOK
  <2>5. Passed(a) \in SUBSET Slots /\ Passed(a) \ {s} \in SUBSET Slots
        /\ Passed(a)' \in SUBSET (Passed(a) \ {s})
    BY <1>3 DEF Passed
  <2>6. /\ Cardinality(Passed(a)') <= Cardinality(Passed(a)) - 1
        /\ Cardinality(Passed(a)) \in Nat /\ Cardinality(Passed(a)') \in Nat
        /\ Cardinality(Slots) \in Nat
    BY <2>1, <2>5, SlotsCounted
  <2> QED BY <2>2, <2>4, <2>6 DEF FloorAt
<1>6. ASSUME NEW a \in Addresses \ adjusted PROVE FloorAt(a)'
  <2>1. \/ sender' = sender
        \/ sender' = [sender EXCEPT ![slot[s].from] = Deducted(sender[slot[s].from])]
    BY DEF Deduct
  <2>2. CASE a = slot[s].from
    BY <1>4, <1>5, <2>1, <2>2
  <2>3. CASE a # slot[s].from
    BY <1>4, <2>1, <2>3 DEF TypeOK
  <2> QED BY <2>2, <2>3
<1> QED BY <1>1, <1>2, <1>6 DEF FloorInv

\* Default balances, credits and applications only raise a row or open one.
LEMMA RaisedFloor ==
  ASSUME TypeOK, FloorInv, NEW b, NEW n \in Nat,
         \A a : Passed(a)' \subseteq Passed(a),
         \A t \in Slots : slot'[t].pc = "deduct" => slot'[t].kind = "user",
         adjusted' = adjusted,
         \A a \in Addresses : a # b => sender'[a] = sender[a],
         b \in Addresses =>
           \/ sender'[b] = WithDefault(sender[b])
           \/ sender'[b] = Credited(WithDefault(sender[b]), n)
           \/ /\ ~sender[b].row
              /\ sender'[b] = [row |-> TRUE, balance |-> DefaultBalance,
                               enabled |-> DefaultBalance > 0]
  PROVE  FloorInv'
<1>1. ASSUME NEW a \in Addresses \ adjusted PROVE FloorAt(a)'
  <2>0. FloorAt(a) /\ sender[a] \in SenderRow
    BY DEF FloorInv, TypeOK
  <2>1. CASE a # b
    BY <2>0, <2>1, FloorKept
  <2>2. CASE a = b /\ sender[a].row
    <3>1. sender[a].balance \in Int /\ sender[a].balance # Null
      BY <2>0, <2>2, SenderAssumption DEF FloorAt
    <3>2. WithDefault(sender[a]) = sender[a]
      BY <2>2 DEF WithDefault
    <3>3. /\ Credited(sender[a], n).row
          /\ Credited(sender[a], n).balance = sender[a].balance + n
      BY <2>0, <2>2, <3>1 DEF Credited, SenderRow
    <3>4. \/ sender'[a] = sender[a]
          \/ /\ sender'[a].row /\ sender'[a].balance \in Int
             /\ sender[a].balance <= sender'[a].balance
      BY <2>2, <3>1, <3>2, <3>3
    <3> QED BY <2>0, <2>2, <3>4, FloorKept
  <2>3. CASE a = b /\ ~sender[a].row
    <3>1. /\ \/ WithDefault(sender[a]) = sender[a]
             \/ /\ WithDefault(sender[a]).row
                /\ WithDefault(sender[a]).balance = DefaultBalance
          /\ Credited(sender[a], n).row /\ Credited(sender[a], n).balance = n
      BY <2>3 DEF WithDefault, Credited
    <3>2. ASSUME WithDefault(sender[a]).row,
                 WithDefault(sender[a]).balance = DefaultBalance
          PROVE  /\ Credited(WithDefault(sender[a]), n).row
                 /\ Credited(WithDefault(sender[a]), n).balance = DefaultBalance + n
      <4>1. WithDefault(sender[a]) \in SenderRow /\ DefaultBalance # Null
        BY <2>0, RowTypes, SenderAssumption
      <4> QED BY <3>2, <4>1 DEF Credited, SenderRow
    <3>3. \/ sender'[a] = sender[a]
          \/ sender'[a].row /\ sender'[a].balance \in Nat
      BY <2>3, <3>1, <3>2, SenderAssumption
    <3> QED BY <2>0, <2>3, <3>3, FloorKept
  <2> QED BY <2>1, <2>2, <2>3
<1> QED BY <1>1 DEF FloorInv

LEMMA NextFloor == TypeOK /\ FloorInv /\ [Next]_vars => FloorInv'
<1> SUFFICES ASSUME TypeOK, FloorInv, [Next]_vars PROVE FloorInv'
  OBVIOUS
<1>1. ASSUME NEW s \in Slots, NEW a \in Addresses, NEW k \in Kinds, Start(s, a, k)
      PROVE  FloorInv'
  <2> DEFINE x == [pc |-> IF k = "user" THEN "default" ELSE "limits",
                   kind |-> k, from |-> a, rules |-> Null, day |-> 0]
  <2>1. Quiet(s, x)
    BY DEF Quiet, PassedAt
  <2>2. Put(s, x) /\ UNCHANGED <<sender, adjusted>>
    BY <1>1 DEF Start
  <2> QED BY <2>1, <2>2, QuietFloor
<1>2. ASSUME NEW s \in Slots, EnsureDefault(s) PROVE FloorInv'
  <2> DEFINE x == [slot[s] EXCEPT !.pc = "balance"]
             b == slot[s].from
  <2>1. slot[s] \in Slot
    BY DEF TypeOK
  <2>2. Quiet(s, x)
    BY <2>1 DEF Quiet, PassedAt, Slot
  <2>3. Put(s, x) /\ adjusted' = adjusted
        /\ sender' = [sender EXCEPT ![b] = WithDefault(sender[b])]
    BY <1>2 DEF EnsureDefault, Goto
  <2>4. /\ \A a : Passed(a)' \subseteq Passed(a)
        /\ \A t \in Slots : slot'[t].pc = "deduct" => slot'[t].kind = "user"
    BY <2>2, <2>3, QuietPassed
  <2>5. /\ \A a \in Addresses : a # b => sender'[a] = sender[a]
        /\ b \in Addresses => sender'[b] = WithDefault(sender[b])
    BY <2>3 DEF TypeOK
  <2> HIDE DEF b, x
  <2> QED BY <2>3, <2>4, <2>5, RaisedFloor
<1>3. ASSUME NEW s \in Slots, ReadBalance(s) PROVE FloorInv'
  BY <1>3, ReadBalanceFloor
<1>4. ASSUME NEW s \in Slots, ReadLimits(s) PROVE FloorInv'
  BY <1>4, CheckFloor DEF ReadLimits, PassedAt
<1>5. ASSUME NEW s \in Slots, CheckDaily(s) \/ CheckMonthly(s) \/ LimiterFails(s)
      PROVE  FloorInv'
  BY <1>5, CheckFloor, QuietMoves DEF CheckDaily, CheckMonthly, LimiterFails, PassedAt
<1>6. ASSUME NEW s \in Slots, Rejected(s) \/ Crash(s) \/ SaveSendbox(s) PROVE FloorInv'
  BY <1>6, QuietMoves DEF Rejected, Crash, SaveSendbox
<1>7. ASSUME NEW s \in Slots, NEW v \in BOOLEAN, Accepted(s, v) PROVE FloorInv'
  <2> DEFINE k == IF v /\ slot[s].kind = "user" THEN "exempt" ELSE slot[s].kind
             x == [slot[s] EXCEPT !.pc = "count", !.kind = k]
  <2>1. slot[s] \in Slot /\ slot[s].pc \in PassedAt
    BY <1>7 DEF TypeOK, Accepted, PassedAt
  <2>2. Quiet(s, x)
    BY <2>1 DEF Quiet, Slot
  <2>3. (Put(s, x) \/ Leave(s)) /\ UNCHANGED <<sender, adjusted>>
    BY <1>7 DEF Accepted
  <2> QED BY <2>2, <2>3, QuietFloor, QuietMoves
<1>8. ASSUME NEW s \in Slots, ReadCountLimits(s) PROVE FloorInv'
  BY <1>8, CountDoneFloor, QuietMoves DEF ReadCountLimits, PassedAt
<1>9. ASSUME NEW s \in Slots, IncDaily(s) \/ IncMonthly(s) PROVE FloorInv'
  <2>1. "incMonthly" \in Labels /\ "cleanup" \in Labels
    BY DEF Labels
  <2> QED BY <1>9, <2>1, QuietMoves DEF IncDaily, IncMonthly, PassedAt
<1>10. ASSUME NEW s \in Slots, Cleanup(s) \/ CountFails(s) PROVE FloorInv'
  BY <1>10, CountDoneFloor DEF Cleanup, CountFails, PassedAt
<1>11. ASSUME NEW s \in Slots, Deduct(s) PROVE FloorInv'
  BY <1>11, DeductFloor
<1>12. CASE NewDay \/ \E c \in Configs : SaveLimits(c)
  BY <1>12, StutterFloor DEF NewDay, SaveLimits
<1>13. CASE SenderChanges
  <2>1. /\ \A a : Passed(a)' \subseteq Passed(a)
        /\ \A t \in Slots : slot'[t].pc = "deduct" => slot'[t].kind = "user"
    BY <1>13 DEF SenderChanges, Passed, FloorInv
  <2>2. ASSUME NEW a \in Addresses, sender[a].row, adjusted' = adjusted \cup {a},
               \A b \in Addresses : b # a => sender'[b] = sender[b]
        PROVE  FloorInv'
    <3>1. ASSUME NEW b \in Addresses \ adjusted' PROVE FloorAt(b)'
      BY <2>1, <2>2, <3>1, FloorKept DEF FloorInv
    <3> QED BY <2>1, <3>1 DEF FloorInv
  <2>3. ASSUME NEW a \in Addresses, NEW b \in AdminBalances, NEW on \in BOOLEAN,
               AdminSetSender(a, b, on)
        PROVE  FloorInv'
    BY <2>2, <2>3 DEF AdminSetSender, TypeOK
  <2>4. ASSUME NEW a \in Addresses, AdminRemoveSender(a) PROVE FloorInv'
    BY <2>2, <2>4 DEF AdminRemoveSender, TypeOK
  <2>5. ASSUME NEW a \in Addresses, OpenSender(a) PROVE FloorInv'
    <3>1. /\ adjusted' = adjusted
          /\ \A b \in Addresses : b # a => sender'[b] = sender[b]
          /\ ~sender[a].row
          /\ sender'[a] = [row |-> TRUE, balance |-> DefaultBalance,
                           enabled |-> DefaultBalance > 0]
      BY <2>5 DEF OpenSender, TypeOK
    <3>2. 0 \in Nat
      OBVIOUS
    <3> QED BY <2>1, <3>1, <3>2, RaisedFloor
  <2> QED BY <1>13, <2>3, <2>4, <2>5 DEF SenderChanges, SenderStep
<1>14. ASSUME NEW a \in Addresses, NEW n \in Credits, Redeem(a, n) PROVE FloorInv'
  <2>1. /\ \A b : Passed(b)' \subseteq Passed(b)
        /\ \A t \in Slots : slot'[t].pc = "deduct" => slot'[t].kind = "user"
    BY <1>14 DEF Redeem, Passed, FloorInv
  <2>2. /\ n \in Nat /\ adjusted' = adjusted
        /\ \A b \in Addresses : b # a => sender'[b] = sender[b]
        /\ sender'[a] = Credited(WithDefault(sender[a]), n)
    BY <1>14, SendMailAssumption DEF Redeem, TypeOK
  <2> QED BY <2>1, <2>2, RaisedFloor
<1>15. CASE UNCHANGED vars
  BY <1>15, StutterFloor DEF vars
<1> QED
  BY <1>1, <1>2, <1>3, <1>4, <1>5, <1>6, <1>7, <1>8, <1>9, <1>10, <1>11, <1>12,
     <1>13, <1>14, <1>15 DEF Next, Environment, Request

\* A balance no admin touched stays above minus the number of requests in
\* flight, whatever fails between its check and its charge.
THEOREM SendMailBalanceFloor == Spec => []BalanceFloor
<1>1. Init => FloorInv
  <2> SUFFICES ASSUME Init PROVE FloorInv
    OBVIOUS
  <2>1. \A a \in Addresses : ~sender[a].row /\ Passed(a) = {}
    BY DEF Init, SenderInit, NoSender, Passed, PassedAt, Idle
  <2>2. \A s \in Slots : slot[s].pc # "deduct"
    BY DEF Init, Idle
  <2> QED BY <2>1, <2>2 DEF FloorInv, FloorAt
<1>2. TypeOK /\ FloorInv => BalanceFloor
  <2> SUFFICES ASSUME FloorInv, NEW a \in Addresses \ adjusted, sender[a].row
               PROVE  sender[a].balance > -Cardinality(Slots)
    BY DEF BalanceFloor
  <2>1. Passed(a) \in SUBSET Slots
    BY DEF Passed
  <2>2. Cardinality(Passed(a)) \in Nat /\ Cardinality(Slots) \in Nat
    BY <2>1, SlotsCounted
  <2> QED BY <2>2 DEF FloorInv, FloorAt
<1> QED BY <1>1, <1>2, NextFloor, SendMailTypeOK, PTL DEF Spec

-----------------------------------------------------------------------------
(* The charges. *)

OwingAt == {"count", "incDaily", "incMonthly", "cleanup", "deduct"}

\* The request x is one whose mail name a still has to pay.
Owes(x, a) == x.kind = "user" /\ x.pc \in OwingAt /\ x.from = a

\* A row is what is due and what is still to be charged; a name without a row
\* has sent nothing and got no credit.
ChargedAt(a) ==
  IF sender[a].row
    THEN sender[a].balance \in Int /\ sender[a].balance = due[a] + Cardinality(Unpaid(a))
    ELSE due[a] = DefaultBalance

\* The inductive invariant behind MailsAreCharged.  It needs FloorInv, too: a
\* request that owes has passed, and a name with such a request has a row.
ChargedInv == \A a \in Addresses \ adjusted : ChargedAt(a)

LEMMA OwingPassed ==
  ASSUME TypeOK, NEW a
  PROVE  /\ Unpaid(a) = {s \in Slots : Owes(slot[s], a)}
         /\ Unpaid(a) \in SUBSET Slots /\ Unpaid(a) \subseteq Passed(a)
         /\ Cardinality(Unpaid(a)) \in Nat
<1>1. Unpaid(a) = {s \in Slots : Owes(slot[s], a)} /\ Unpaid(a) \in SUBSET Slots
  BY DEF Unpaid, Owing, Owes, OwingAt
<1>2. Unpaid(a) \subseteq Passed(a)
  BY DEF Unpaid, Owing, Passed, PassedAt
<1> QED BY <1>1, <1>2, SlotsCounted

\* What is due and what is owed move together, or not at all.
LEMMA DueMoves ==
  ASSUME TypeOK, TypeOK', FloorInv, NEW a \in Addresses \ adjusted, ChargedAt(a),
         sender'[a] = sender[a],
         \/ due'[a] = due[a] /\ Unpaid(a)' = Unpaid(a)
         \/ \E s \in Unpaid(a) : due'[a] = due[a] + 1 /\ Unpaid(a)' = Unpaid(a) \ {s}
         \/ \E s \in Passed(a) \ Unpaid(a) :
              due'[a] = due[a] - 1 /\ Unpaid(a)' = Unpaid(a) \cup {s}
  PROVE  ChargedAt(a)'
<1>0. due[a] \in Int /\ due'[a] \in Int /\ Cardinality(Unpaid(a)) \in Nat
      /\ Unpaid(a) \in SUBSET Slots
  BY OwingPassed DEF TypeOK
<1>1. CASE due'[a] = due[a] /\ Unpaid(a)' = Unpaid(a)
  BY <1>1 DEF ChargedAt
<1>2. ASSUME NEW s \in Unpaid(a), due'[a] = due[a] + 1, Unpaid(a)' = Unpaid(a) \ {s}
      PROVE  ChargedAt(a)'
  <2>1. Cardinality(Unpaid(a)') = Cardinality(Unpaid(a)) - 1
    BY <1>0, <1>2, SlotsCounted
  <2>2. sender[a].row
    BY OwingPassed DEF FloorInv, FloorAt
  <2> QED BY <1>0, <1>2, <2>1, <2>2 DEF ChargedAt
<1>3. ASSUME NEW s \in Passed(a) \ Unpaid(a), due'[a] = due[a] - 1,
             Unpaid(a)' = Unpaid(a) \cup {s}
      PROVE  ChargedAt(a)'
  <2>1. Cardinality(Unpaid(a)') = Cardinality(Unpaid(a)) + 1
    BY <1>0, <1>3, SlotsCounted, FS_AddElement
  <2>2. sender[a].row
    BY DEF FloorInv, FloorAt
  <2> QED BY <1>0, <1>3, <2>1, <2>2 DEF ChargedAt
<1> QED BY <1>1, <1>2, <1>3

\* A request that owes what it owed before changes nothing.
LEMMA SameOwed ==
  ASSUME TypeOK, NEW s \in Slots, NEW x, Put(s, x),
         \A a : Owes(x, a) <=> Owes(slot[s], a)
  PROVE  \A a : Unpaid(a)' = Unpaid(a)
<1>1. \A a : Unpaid(a) = {t \in Slots : Owes(slot[t], a)}
  BY OwingPassed
<1>2. \A a : Unpaid(a)' = {t \in Slots : Owes(slot'[t], a)}
  BY DEF Unpaid, Owing, Owes, OwingAt
<1>3. \A t \in Slots : slot'[t] = IF t = s THEN x ELSE slot[t]
  BY DEF Put, TypeOK
<1> QED BY <1>1, <1>2, <1>3

LEMMA SameCharged ==
  ASSUME TypeOK, TypeOK', FloorInv, ChargedInv, NEW s \in Slots, NEW x, Put(s, x),
         \A a : Owes(x, a) <=> Owes(slot[s], a), UNCHANGED <<sender, adjusted, due>>
  PROVE  ChargedInv'
BY SameOwed, DueMoves DEF ChargedInv

\* Where a request goes on or ends without owing more or less.
LEMMA ChargedMoves ==
  ASSUME TypeOK, TypeOK', FloorInv, ChargedInv, NEW s \in Slots,
         UNCHANGED <<sender, adjusted, due>>
  PROVE  /\ Leave(s) /\ ~Owing(s) => ChargedInv'
         /\ \A l : Goto(s, l) /\ (slot[s].pc \in OwingAt <=> l \in OwingAt) => ChargedInv'
         /\ \A l, c, d :
              Keyed(s, l, c, d) /\ (Owing(s) <=> slot[s].kind = "user" /\ l \in OwingAt)
                => ChargedInv'
<1>1. slot[s] \in Slot
  BY DEF TypeOK
<1>2. ASSUME Leave(s), ~Owing(s) PROVE ChargedInv'
  <2>1. \A a : Owes(Idle, a) <=> Owes(slot[s], a)
    BY <1>2 DEF Owes, Owing, OwingAt, Idle
  <2> QED BY <1>2, <2>1, SameCharged DEF Leave
<1>3. ASSUME NEW l, Goto(s, l), slot[s].pc \in OwingAt <=> l \in OwingAt
      PROVE  ChargedInv'
  <2> DEFINE x == [slot[s] EXCEPT !.pc = l]
  <2>1. x.pc = l /\ x.kind = slot[s].kind /\ x.from = slot[s].from
    BY <1>1 DEF Slot
  <2>2. Put(s, x)
    BY <1>3 DEF Goto
  <2> HIDE DEF x
  <2>3. \A a : Owes(x, a) <=> Owes(slot[s], a)
    BY <1>3, <2>1 DEF Owes
  <2> QED BY <2>2, <2>3, SameCharged
<1>4. ASSUME NEW l, NEW c, NEW d, Keyed(s, l, c, d),
             Owing(s) <=> slot[s].kind = "user" /\ l \in OwingAt
      PROVE  ChargedInv'
  <2> DEFINE x == [slot[s] EXCEPT !.pc = l, !.rules = c, !.day = d]
  <2>1. x.pc = l /\ x.kind = slot[s].kind /\ x.from = slot[s].from
    BY <1>1 DEF Slot
  <2>2. Put(s, x)
    BY <1>4 DEF Keyed
  <2> HIDE DEF x
  <2>3. \A a : Owes(x, a) <=> Owes(slot[s], a)
    BY <1>4, <2>1 DEF Owes, Owing, OwingAt
  <2> QED BY <2>2, <2>3, SameCharged
<1> QED BY <1>2, <1>3, <1>4

LEMMA CountDoneCharged ==
  ASSUME TypeOK, TypeOK', FloorInv, ChargedInv, NEW s \in Slots,
         UNCHANGED <<sender, adjusted, due>>,
         slot[s].pc \in OwingAt, CountDone(s)
  PROVE  ChargedInv'
<1>1. AfterCount(slot[s].kind) \in OwingAt <=> slot[s].kind = "user"
  BY DEF AfterCount, OwingAt
<1>2. Owing(s) <=> slot[s].kind = "user"
  BY DEF Owing, OwingAt
<1> QED BY <1>1, <1>2, ChargedMoves DEF CountDone

LEMMA CheckCharged ==
  ASSUME TypeOK, TypeOK', FloorInv, ChargedInv, NEW s \in Slots,
         UNCHANGED <<sender, adjusted, due>>,
         slot[s].pc \notin OwingAt, NEW c, NEW label, Check(s, c, label)
  PROVE  ChargedInv'
<1>1. CheckNext(c, label) \notin OwingAt /\ ~Owing(s)
  BY DEF CheckNext, OwingAt, Owing
<1>2. "send" \notin OwingAt
  BY DEF OwingAt
<1> QED BY <1>1, <1>2, ChargedMoves DEF Check

\* Accepting a user's mail makes it due and owed in one step.
LEMMA AcceptedCharged ==
  ASSUME TypeOK, TypeOK', FloorInv, ChargedInv, NEW s \in Slots, NEW v \in BOOLEAN,
         Accepted(s, v)
  PROVE  ChargedInv'
<1> DEFINE k == IF v /\ slot[s].kind = "user" THEN "exempt" ELSE slot[s].kind
           x == [slot[s] EXCEPT !.pc = "count", !.kind = k]
           b == slot[s].from
<1>0. /\ slot[s] \in Slot /\ slot[s].pc = "send" /\ UNCHANGED <<sender, adjusted>>
      /\ ~Owing(s) /\ \A a : ~Owes(slot[s], a)
  BY DEF TypeOK, Accepted, Owing, Owes, OwingAt
<1>1. CASE Leave(s) /\ UNCHANGED due
  BY <1>0, <1>1, ChargedMoves
<1>2. CASE Put(s, x) /\ due' = Charge(k, b)
  <2>1. x.pc = "count" /\ x.kind = k /\ x.from = b
    BY <1>0 DEF Slot
  <2>2. CASE k # "user"
    <3>1. \A a : Owes(x, a) <=> Owes(slot[s], a)
      BY <1>0, <2>1, <2>2 DEF Owes
    <3>2. UNCHANGED due
      BY <1>2, <2>2 DEF Charge
    <3> QED BY <1>0, <1>2, <3>1, <3>2, SameCharged
  <2>3. CASE k = "user"
    <3>1. slot[s].kind = "user"
      BY <2>3
    <3>2. due' = [due EXCEPT ![b] = @ - 1]
      BY <1>2, <2>3 DEF Charge
    <3>3. \A t \in Slots : slot'[t] = IF t = s THEN x ELSE slot[t]
      BY <1>2 DEF Put, TypeOK
    <3> HIDE DEF x, k, b
    <3>4. \A a : Owes(x, a) <=> a = b
      BY <2>1, <2>3 DEF Owes, OwingAt
    <3>5. ASSUME NEW a \in Addresses \ adjusted PROVE ChargedAt(a)'
      <4>1. /\ Unpaid(a) = {t \in Slots : Owes(slot[t], a)}
            /\ Unpaid(a)' = {t \in Slots : Owes(slot'[t], a)}
        BY DEF Unpaid, Owing, Owes, OwingAt
      <4>2. CASE a = b
        <5>1. s \in Passed(a)
          BY <1>0, <3>1, <4>2 DEF Passed, PassedAt, b
        <5>2. s \notin Unpaid(a) /\ Unpaid(a)' = Unpaid(a) \cup {s}
          BY <1>0, <3>3, <3>4, <4>1, <4>2
        <5>3. due'[a] = due[a] - 1
          BY <3>2, <4>2 DEF TypeOK
        <5> QED BY <1>0, <5>1, <5>2, <5>3, DueMoves DEF ChargedInv
      <4>3. CASE a # b
        <5>1. Unpaid(a)' = Unpaid(a)
          BY <1>0, <3>3, <3>4, <4>1, <4>3
        <5>2. due'[a] = due[a]
          BY <3>2, <4>3 DEF TypeOK
        <5> QED BY <1>0, <5>1, <5>2, DueMoves DEF ChargedInv
      <4> QED BY <4>2, <4>3
    <3> QED BY <1>0, <3>5 DEF ChargedInv
  <2> QED BY <2>2, <2>3
<1> QED BY <1>1, <1>2 DEF Accepted

\* A request that stops owing has its mail charged or written off.
LEMMA PaidCharged ==
  ASSUME TypeOK, TypeOK', FloorInv, ChargedInv, NEW s \in Slots, NEW x, Put(s, x),
         \A a : ~Owes(x, a), adjusted' = adjusted,
         \/ sender' = sender /\ due' = Forgiven(s)
         \/ /\ Owing(s) /\ due' = due
            /\ sender' = [sender EXCEPT ![slot[s].from] = Deducted(@)]
  PROVE  ChargedInv'
<1> DEFINE b == slot[s].from
<1>1. \A t \in Slots : slot'[t] = IF t = s THEN x ELSE slot[t]
  BY DEF Put, TypeOK
<1>2. ASSUME NEW a \in Addresses \ adjusted PROVE ChargedAt(a)'
  <2>1. /\ Unpaid(a) = {t \in Slots : Owes(slot[t], a)}
        /\ Unpaid(a)' = {t \in Slots : Owes(slot'[t], a)}
    BY DEF Unpaid, Owing, Owes, OwingAt
  <2>2. Unpaid(a)' = Unpaid(a) \ {s}
    BY <1>1, <2>1
  <2>3. s \in Unpaid(a) <=> Owing(s) /\ a = b
    BY DEF Unpaid
  <2>4. CASE s \notin Unpaid(a)
    <3>1. due'[a] = due[a] /\ sender'[a] = sender[a]
      BY <2>3, <2>4 DEF Forgiven, TypeOK
    <3> QED BY <2>2, <2>4, <3>1, DueMoves DEF ChargedInv
  <2>5. CASE s \in Unpaid(a) /\ sender' = sender /\ due' = Forgiven(s)
    <3>1. due'[a] = due[a] + 1
      BY <2>3, <2>5 DEF Forgiven, TypeOK
    <3> QED BY <2>2, <2>5, <3>1, DueMoves DEF ChargedInv
  <2>6. CASE /\ s \in Unpaid(a) /\ due' = due
             /\ sender' = [sender EXCEPT ![b] = Deducted(sender[b])]
    <3>1. sender[a].row /\ a = b
      BY <2>3, <2>6, OwingPassed DEF FloorInv, FloorAt
    <3>2. /\ sender[a].balance \in Int /\ sender[a].balance # Null /\ due[a] \in Int
          /\ sender[a].balance = due[a] + Cardinality(Unpaid(a))
      BY <3>1, SenderAssumption DEF ChargedInv, ChargedAt, TypeOK
    <3>3. sender'[a].row /\ sender'[a].balance = sender[a].balance - 1
      BY <2>6, <3>1, <3>2 DEF Deducted, SenderRow, TypeOK
    <3>4. /\ Cardinality(Unpaid(a)') = Cardinality(Unpaid(a)) - 1
          /\ Cardinality(Unpaid(a)) \in Nat
      BY <2>2, <2>6, SlotsCounted, OwingPassed
    <3> QED BY <2>6, <3>2, <3>3, <3>4 DEF ChargedAt
  <2> QED BY <2>4, <2>5, <2>6
<1> QED BY <1>2 DEF ChargedInv

\* The environment opens rows at the default and credits what is due.
LEMMA OpenedCharged ==
  ASSUME TypeOK, TypeOK', FloorInv, ChargedInv, NEW b, NEW n \in Nat,
         \A a \in Addresses : Unpaid(a)' = Unpaid(a), adjusted' = adjusted,
         \A a \in Addresses : a # b => sender'[a] = sender[a] /\ due'[a] = due[a],
         b \in Addresses =>
           \/ sender'[b] = WithDefault(sender[b]) /\ due'[b] = due[b]
           \/ sender'[b] = Credited(WithDefault(sender[b]), n) /\ due'[b] = due[b] + n
           \/ /\ ~sender[b].row /\ due'[b] = due[b]
              /\ sender'[b] = [row |-> TRUE, balance |-> DefaultBalance,
                               enabled |-> DefaultBalance > 0]
  PROVE  ChargedInv'
<1>1. ASSUME NEW a \in Addresses \ adjusted PROVE ChargedAt(a)'
  <2>0. /\ ChargedAt(a) /\ sender[a] \in SenderRow /\ due[a] \in Int
        /\ Cardinality(Unpaid(a)) \in Nat /\ DefaultBalance \in Nat /\ Null \notin Int
    BY OwingPassed, SenderAssumption DEF ChargedInv, TypeOK
  <2>1. CASE a # b
    BY <2>1, <2>0, DueMoves
  <2>2. CASE a = b /\ sender[a].row
    <3>1. sender[a].balance \in Int /\ sender[a].balance # Null
      BY <2>0, <2>2 DEF ChargedAt
    <3>2. WithDefault(sender[a]) = sender[a]
      BY <2>2 DEF WithDefault
    <3>3. /\ Credited(sender[a], n).row
          /\ Credited(sender[a], n).balance = sender[a].balance + n
      BY <2>0, <2>2, <3>1 DEF Credited, SenderRow
    <3> QED BY <2>0, <2>2, <3>1, <3>2, <3>3 DEF ChargedAt
  <2>3. CASE a = b /\ ~sender[a].row
    <3>1. Cardinality(Unpaid(a)) = 0
      <4>1. Unpaid(a) = {}
        BY <2>3, OwingPassed DEF FloorInv, FloorAt
      <4> QED BY <4>1, FS_EmptySet
    <3>2. due[a] = DefaultBalance
      BY <2>0, <2>3 DEF ChargedAt
    <3>3. CASE sender'[a] = WithDefault(sender[a]) /\ due'[a] = due[a]
      BY <2>0, <2>3, <3>1, <3>2, <3>3 DEF ChargedAt, WithDefault
    <3>4. CASE sender'[a] = Credited(WithDefault(sender[a]), n) /\ due'[a] = due[a] + n
      <4>1. /\ Credited(WithDefault(sender[a]), n).row
            /\ Credited(WithDefault(sender[a]), n).balance = DefaultBalance + n
        <5>1. CASE DefaultBalance > 0
          BY <2>0, <2>3, <5>1 DEF Credited, WithDefault
        <5>2. CASE DefaultBalance = 0
          BY <2>0, <2>3, <5>2 DEF Credited, WithDefault
        <5> QED BY <2>0, <5>1, <5>2
      <4> QED BY <2>0, <3>1, <3>2, <3>4, <4>1 DEF ChargedAt
    <3>5. CASE /\ due'[a] = due[a]
               /\ sender'[a] = [row |-> TRUE, balance |-> DefaultBalance,
                                enabled |-> DefaultBalance > 0]
      BY <2>0, <3>1, <3>2, <3>5 DEF ChargedAt
    <3> QED BY <2>3, <3>3, <3>4, <3>5
  <2> QED BY <2>1, <2>2, <2>3
<1> QED BY <1>1 DEF ChargedInv

LEMMA NextCharged ==
  TypeOK /\ TypeOK' /\ FloorInv /\ ChargedInv /\ [Next]_vars => ChargedInv'
<1> SUFFICES ASSUME TypeOK, TypeOK', FloorInv, ChargedInv, [Next]_vars
             PROVE  ChargedInv'
  OBVIOUS
<1>o. OwingAt = {"count", "incDaily", "incMonthly", "cleanup", "deduct"}
  BY DEF OwingAt
<1>w. ASSUME NEW s \in Slots PROVE Owing(s) => slot[s].pc \in OwingAt
  BY DEF Owing, OwingAt
<1>1. ASSUME NEW s \in Slots, NEW a \in Addresses, NEW k \in Kinds, Start(s, a, k)
      PROVE  ChargedInv'
  <2> DEFINE x == [pc |-> IF k = "user" THEN "default" ELSE "limits",
                   kind |-> k, from |-> a, rules |-> Null, day |-> 0]
  <2>1. \A b : Owes(x, b) <=> Owes(slot[s], b)
    BY <1>1 DEF Start, Owes, OwingAt
  <2>2. Put(s, x) /\ UNCHANGED <<sender, adjusted, due>>
    BY <1>1 DEF Start
  <2> HIDE DEF x
  <2> QED BY <2>1, <2>2, SameCharged
<1>2. ASSUME NEW s \in Slots, EnsureDefault(s) PROVE ChargedInv'
  <2> DEFINE x == [slot[s] EXCEPT !.pc = "balance"]
             b == slot[s].from
  <2>1. slot[s] \in Slot /\ slot[s].pc = "default"
    BY <1>2 DEF TypeOK, EnsureDefault
  <2>2. \A a : Owes(x, a) <=> Owes(slot[s], a)
    BY <2>1 DEF Owes, OwingAt, Slot
  <2>3. /\ Put(s, x) /\ UNCHANGED <<adjusted, due>>
        /\ sender' = [sender EXCEPT ![b] = WithDefault(sender[b])]
    BY <1>2 DEF EnsureDefault, Goto
  <2>4. \A a : Unpaid(a)' = Unpaid(a)
    BY <2>2, <2>3, SameOwed
  <2>5. /\ \A a \in Addresses : a # b => sender'[a] = sender[a]
        /\ b \in Addresses => sender'[b] = WithDefault(sender[b])
    BY <2>3 DEF TypeOK
  <2> HIDE DEF b, x
  <2> QED BY <2>3, <2>4, <2>5, OpenedCharged
<1>3. ASSUME NEW s \in Slots, ReadBalance(s) PROVE ChargedInv'
  BY <1>3, <1>o, <1>w, ChargedMoves DEF ReadBalance
<1>4. ASSUME NEW s \in Slots,
             ReadLimits(s) \/ CheckDaily(s) \/ CheckMonthly(s) \/ LimiterFails(s)
      PROVE  ChargedInv'
  BY <1>4, <1>o, <1>w, CheckCharged, ChargedMoves
     DEF ReadLimits, CheckDaily, CheckMonthly, LimiterFails
<1>5. ASSUME NEW s \in Slots, Rejected(s) \/ SaveSendbox(s) PROVE ChargedInv'
  BY <1>5, <1>o, <1>w, ChargedMoves DEF Rejected, SaveSendbox
<1>6. ASSUME NEW s \in Slots, NEW v \in BOOLEAN, Accepted(s, v) PROVE ChargedInv'
  BY <1>6, AcceptedCharged
<1>7. ASSUME NEW s \in Slots, ReadCountLimits(s) PROVE ChargedInv'
  <2>1. CASE CountDone(s)
    BY <1>7, <1>o, <2>1, CountDoneCharged DEF ReadCountLimits
  <2>2. ASSUME NEW l \in {"incDaily", "incMonthly"}, Keyed(s, l, config, today)
        PROVE  ChargedInv'
    <3>1. Owing(s) <=> slot[s].kind = "user" /\ l \in OwingAt
      BY <1>7, <1>o, <2>2 DEF ReadCountLimits, Owing
    <3> QED BY <1>7, <2>2, <3>1, ChargedMoves DEF ReadCountLimits
  <2> QED BY <1>7, <2>1, <2>2 DEF ReadCountLimits
<1>8. ASSUME NEW s \in Slots, IncDaily(s) \/ IncMonthly(s) PROVE ChargedInv'
  BY <1>8, <1>o, ChargedMoves DEF IncDaily, IncMonthly
<1>9. ASSUME NEW s \in Slots, Cleanup(s) \/ CountFails(s) PROVE ChargedInv'
  BY <1>9, <1>o, CountDoneCharged DEF Cleanup, CountFails
<1>10. ASSUME NEW s \in Slots, Deduct(s) PROVE ChargedInv'
  <2> DEFINE x == [slot[s] EXCEPT !.pc = "sendbox"]
  <2>1. slot[s] \in Slot /\ Owing(s)
    BY <1>10 DEF TypeOK, FloorInv, Deduct, Owing
  <2>2. \A a : ~Owes(x, a)
    BY <2>1 DEF Owes, OwingAt, Slot
  <2>3. Put(s, x)
    BY <1>10 DEF Deduct, Goto
  <2> HIDE DEF x
  <2> QED BY <1>10, <2>1, <2>2, <2>3, PaidCharged DEF Deduct
<1>11. ASSUME NEW s \in Slots, Crash(s) PROVE ChargedInv'
  <2>1. \A a : ~Owes(Idle, a)
    BY DEF Owes, OwingAt, Idle
  <2> QED BY <1>11, <2>1, PaidCharged DEF Crash, Leave
<1>u. slot' = slot => \A a : Unpaid(a)' = Unpaid(a)
  BY DEF Unpaid, Owing
<1>12. CASE NewDay \/ (\E c \in Configs : SaveLimits(c)) \/ UNCHANGED vars
  <2>1. UNCHANGED <<slot, sender, adjusted, due>>
    BY <1>12 DEF NewDay, SaveLimits, vars
  <2> QED BY <1>u, <2>1, DueMoves DEF ChargedInv
<1>13. CASE SenderChanges
  <2>1. UNCHANGED <<slot, due>>
    BY <1>13 DEF SenderChanges
  <2>2. ASSUME NEW a \in Addresses, adjusted' = adjusted \cup {a},
               \A b \in Addresses : b # a => sender'[b] = sender[b]
        PROVE  ChargedInv'
    BY <1>u, <2>1, <2>2, DueMoves DEF ChargedInv
  <2>3. ASSUME NEW a \in Addresses, NEW b \in AdminBalances, NEW on \in BOOLEAN,
               AdminSetSender(a, b, on)
        PROVE  ChargedInv'
    BY <2>2, <2>3 DEF AdminSetSender, TypeOK
  <2>4. ASSUME NEW a \in Addresses, AdminRemoveSender(a) PROVE ChargedInv'
    BY <2>2, <2>4 DEF AdminRemoveSender, TypeOK
  <2>5. ASSUME NEW a \in Addresses, OpenSender(a) PROVE ChargedInv'
    <3>1. /\ adjusted' = adjusted
          /\ \A b \in Addresses : b # a => sender'[b] = sender[b]
          /\ ~sender[a].row
          /\ sender'[a] = [row |-> TRUE, balance |-> DefaultBalance,
                           enabled |-> DefaultBalance > 0]
      BY <2>5 DEF OpenSender, TypeOK
    <3>2. 0 \in Nat
      OBVIOUS
    <3> QED BY <1>u, <2>1, <3>1, <3>2, OpenedCharged
  <2> QED BY <1>13, <2>3, <2>4, <2>5 DEF SenderChanges, SenderStep
<1>14. ASSUME NEW a \in Addresses, NEW n \in Credits, Redeem(a, n) PROVE ChargedInv'
  <2>1. /\ n \in Nat /\ adjusted' = adjusted
        /\ \A b \in Addresses : b # a => sender'[b] = sender[b] /\ due'[b] = due[b]
        /\ sender'[a] = Credited(WithDefault(sender[a]), n) /\ due'[a] = due[a] + n
    BY <1>14, SendMailAssumption DEF Redeem, TypeOK
  <2>2. slot' = slot
    BY <1>14 DEF Redeem
  <2> QED BY <1>u, <2>1, <2>2, OpenedCharged
<1> QED
  BY <1>1, <1>2, <1>3, <1>4, <1>5, <1>6, <1>7, <1>8, <1>9, <1>10, <1>11, <1>12,
     <1>13, <1>14 DEF Next, Environment, Request

\* Each mail the provider took from a balance is charged once or written off by
\* a fault, whatever else happens to the row of its name and however the counts
\* fail: send_balance.ts and sendMail never charge twice and never skip.
THEOREM SendMailMailsAreCharged == Spec => []MailsAreCharged
<1>1. Init => FloorInv /\ ChargedInv
  <2> SUFFICES ASSUME Init PROVE FloorInv /\ ChargedInv
    OBVIOUS
  <2>1. \A a \in Addresses : ~sender[a].row /\ Passed(a) = {} /\ due[a] = DefaultBalance
    BY DEF Init, SenderInit, NoSender, Passed, PassedAt, Idle
  <2>2. \A s \in Slots : slot[s].pc # "deduct"
    BY DEF Init, Idle
  <2> QED BY <2>1, <2>2 DEF FloorInv, FloorAt, ChargedInv, ChargedAt
<1>2. ChargedInv => MailsAreCharged
  BY DEF ChargedInv, ChargedAt, MailsAreCharged
<1> QED BY <1>1, <1>2, InitType, NextType, NextFloor, NextCharged, PTL DEF Spec

-----------------------------------------------------------------------------
(* The limits. *)

\* Keys are never of a day to come, so nothing is counted ahead of its time,
\* and a check goes by the configuration it read.
KeysPast ==
  /\ \A s \in Slots : slot[s].day <= today
  /\ \A s \in Slots : slot[s].pc \in {"daily", "monthly"} => slot[s].rules \in Configs
  /\ \A d \in Days : d > today => daily[d] = 0
  /\ \A m \in Months : m > Month(today) => monthly[m] = 0

\* A request that may still be counted on day d without looking at its count
\* again; a check whose key is of an earlier day is one, too.
OwesDay(x, d) ==
  \/ today <= d /\ x.pc \in {"monthly", "send", "count"}
  \/ today <= d /\ x.pc = "daily" /\ x.day < d
  \/ x.pc = "incDaily" /\ x.day = d

OwesMonth(x, m) ==
  \/ Month(today) <= m /\ x.pc \in {"send", "count"}
  \/ Month(today) <= m /\ x.pc = "monthly" /\ Month(x.day) < m
  \/ x.pc \in {"incDaily", "incMonthly"} /\ Month(x.day) = m

DayPending(d) == {s \in Slots : OwesDay(slot[s], d)}
MonthPending(m) == {s \in Slots : OwesMonth(slot[s], m)}

\* The inductive invariants behind OvershootBounded: what is counted and what
\* may still be counted stay below the bound together.
DayInv ==
  \A d \in Days :
    daily[d] + Cardinality(DayPending(d)) < DailyCap + Cardinality(Slots)
MonthInv ==
  \A m \in Months :
    monthly[m] + Cardinality(MonthPending(m)) < MonthlyCap + Cardinality(Slots)

\* A count stays within its bound if nothing is added to it or to the pending
\* requests, if a pending request is counted, or if a check just passed.
LEMMA BoundKept ==
  ASSUME NEW n \in Nat, NEW m \in Nat, NEW cap \in Nat,
         NEW X \in SUBSET Slots, NEW Y \in SUBSET Slots,
         n + Cardinality(X) < cap + Cardinality(Slots),
         \/ m <= n /\ Y \subseteq X
         \/ m = n + 1 /\ \E s \in X : Y \subseteq X \ {s}
         \/ m < cap
  PROVE  m + Cardinality(Y) < cap + Cardinality(Slots)
<1>1. /\ Cardinality(X) \in Nat /\ Cardinality(Y) \in Nat /\ Cardinality(Slots) \in Nat
      /\ Cardinality(Y) <= Cardinality(Slots)
  BY SlotsCounted
<1>2. CASE m <= n /\ Y \subseteq X
  <2>1. Cardinality(Y) <= Cardinality(X)
    BY <1>2, SlotsCounted
  <2> QED BY <1>1, <1>2, <2>1
<1>3. ASSUME m = n + 1, NEW s \in X, Y \subseteq X \ {s}
      PROVE  m + Cardinality(Y) < cap + Cardinality(Slots)
  <2>1. Cardinality(X \ {s}) = Cardinality(X) - 1
    BY SlotsCounted
  <2>2. Cardinality(Y) <= Cardinality(X \ {s})
    <3>1. X \ {s} \in SUBSET Slots /\ Y \in SUBSET (X \ {s})
      BY <1>3
    <3> QED BY <3>1, SlotsCounted
  <2> QED BY <1>1, <1>3, <2>1, <2>2
<1>4. CASE m < cap
  BY <1>1, <1>4
<1> QED BY <1>2, <1>3, <1>4

\* The day and the rules of what a request becomes.
PastKeyed(x) ==
  x.day <= today /\ (x.pc \in {"daily", "monthly"} => x.rules \in Configs)

LEMMA PutPast ==
  ASSUME TypeOK, KeysPast, NEW s \in Slots, NEW x, Put(s, x), PastKeyed(x),
         today' = today
  PROVE  /\ \A t \in Slots : slot'[t].day <= today'
         /\ \A t \in Slots : slot'[t].pc \in {"daily", "monthly"} => slot'[t].rules \in Configs
BY DEF TypeOK, Put, PastKeyed, KeysPast

\* What each helper makes of a request, in one place.
LEMMA Becomes ==
  ASSUME TypeOK, KeysPast, NEW s \in Slots
  PROVE  /\ slot[s] \in Slot /\ PastKeyed(slot[s]) /\ today \in Days
         /\ Leave(s) => \E x : Put(s, x) /\ PastKeyed(x) /\ x.pc = "idle" /\ x.day = 0
         /\ \A l \in Labels : Goto(s, l) /\ l \notin {"daily", "monthly"} =>
              \E x : Put(s, x) /\ PastKeyed(x) /\ x.pc = l /\ x.day = slot[s].day
         /\ \A l \in Labels, c \in Configs \cup {Null} :
              Keyed(s, l, c, today) /\ (l \in {"daily", "monthly"} => c \in Configs) =>
                \E x : Put(s, x) /\ PastKeyed(x) /\ x.pc = l /\ x.day = today
         /\ \A l \in Labels \ {"daily", "monthly"} : Keyed(s, l, Null, 0) =>
              \E x : Put(s, x) /\ PastKeyed(x) /\ x.pc = l /\ x.day = 0
         /\ CountDone(s) =>
              \E x : Put(s, x) /\ PastKeyed(x) /\ x.pc \in {"idle", "deduct", "sendbox"}
<1>1. slot[s] \in Slot /\ PastKeyed(slot[s]) /\ today \in Days /\ today \in Nat
  BY SendMailAssumption DEF TypeOK, KeysPast, PastKeyed, Days
<1>2. Leave(s) => \E x : Put(s, x) /\ PastKeyed(x) /\ x.pc = "idle" /\ x.day = 0
  <2>1. PastKeyed(Idle) /\ Idle.pc = "idle" /\ Idle.day = 0
    BY <1>1 DEF PastKeyed, Idle
  <2> QED BY <2>1 DEF Leave
<1>3. ASSUME NEW l \in Labels, Goto(s, l), l \notin {"daily", "monthly"}
      PROVE  \E x : Put(s, x) /\ PastKeyed(x) /\ x.pc = l /\ x.day = slot[s].day
  <2> DEFINE x == [slot[s] EXCEPT !.pc = l]
  <2>1. x.pc = l /\ x.day = slot[s].day /\ PastKeyed(x)
    BY <1>1, <1>3 DEF PastKeyed, Slot
  <2>2. Put(s, x)
    BY <1>3 DEF Goto
  <2> QED BY <2>1, <2>2
<1>4. ASSUME NEW l, NEW c, NEW d \in Nat, d <= today, Keyed(s, l, c, d),
             l \in {"daily", "monthly"} => c \in Configs
      PROVE  \E x : Put(s, x) /\ PastKeyed(x) /\ x.pc = l /\ x.day = d
  <2> DEFINE x == [slot[s] EXCEPT !.pc = l, !.rules = c, !.day = d]
  <2>1. x.pc = l /\ x.day = d /\ x.rules = c
    BY <1>1 DEF Slot
  <2>2. PastKeyed(x)
    BY <1>4, <2>1 DEF PastKeyed
  <2>3. Put(s, x)
    BY <1>4 DEF Keyed
  <2> HIDE DEF x
  <2> QED BY <2>1, <2>2, <2>3
<1>5. 0 \in Nat /\ 0 <= today
  BY <1>1
<1>6. CountDone(s) =>
        \E x : Put(s, x) /\ PastKeyed(x) /\ x.pc \in {"idle", "deduct", "sendbox"}
  <2>1. AfterCount(slot[s].kind) \in {"idle", "deduct", "sendbox"}
    BY DEF AfterCount
  <2>2. ASSUME Keyed(s, AfterCount(slot[s].kind), Null, 0)
        PROVE  \E x : Put(s, x) /\ PastKeyed(x) /\ x.pc = AfterCount(slot[s].kind)
    BY <1>4, <1>5, <2>1, <2>2
  <2> QED BY <1>2, <2>1, <2>2 DEF CountDone
<1> QED BY <1>1, <1>2, <1>3, <1>4, <1>5, <1>6

\* A check leads to a check with rules, or to the provider.
LEMMA CheckBecomes ==
  ASSUME TypeOK, KeysPast, NEW s \in Slots, NEW c \in Configs \cup {Null}, NEW label,
         Check(s, c, label), label = "send" \/ c \in Configs
  PROVE  \E x : /\ Put(s, x) /\ PastKeyed(x)
                /\ x.pc = CheckNext(c, label)
                /\ x.pc = "send" \/ x.day = today
<1>1. CheckNext(c, label) \in {"daily", "monthly", "send"}
      /\ (label = "send" => CheckNext(c, label) = "send")
  BY DEF CheckNext
<1>2. CASE CheckNext(c, label) = "send"
  <2>1. "send" \in Labels \ {"daily", "monthly"}
    BY DEF Labels
  <2>2. Keyed(s, "send", Null, 0)
    BY <1>2 DEF Check
  <2> QED BY <1>2, <2>1, <2>2, Becomes
<1>3. CASE CheckNext(c, label) # "send"
  <2>1. CheckNext(c, label) \in Labels /\ c \in Configs
    BY <1>1, <1>3 DEF Labels
  <2>2. Keyed(s, CheckNext(c, label), c, today)
    BY <1>3 DEF Check
  <2> QED BY <2>1, <2>2, Becomes
<1> QED BY <1>2, <1>3

LEMMA PastQuiet ==
  ASSUME TypeOK, KeysPast, NEW s \in Slots, \E x : Put(s, x) /\ PastKeyed(x),
         UNCHANGED <<today, daily, monthly>>
  PROVE  KeysPast'
<1> PICK x : Put(s, x) /\ PastKeyed(x)
  OBVIOUS
<1>1. /\ \A t \in Slots : slot'[t].day <= today'
      /\ \A t \in Slots : slot'[t].pc \in {"daily", "monthly"} => slot'[t].rules \in Configs
  BY PutPast
<1> QED BY <1>1 DEF KeysPast

LEMMA NextPast == TypeOK /\ KeysPast /\ [Next]_vars => KeysPast'
<1> SUFFICES ASSUME TypeOK, KeysPast, [Next]_vars PROVE KeysPast'
  OBVIOUS
<1>l. {"balance", "limits", "sendbox", "incDaily", "incMonthly", "cleanup"} \subseteq Labels
  BY DEF Labels
<1>1. ASSUME NEW s \in Slots, NEW a \in Addresses, NEW k \in Kinds, Start(s, a, k)
      PROVE  KeysPast'
  <2> DEFINE x == [pc |-> IF k = "user" THEN "default" ELSE "limits",
                   kind |-> k, from |-> a, rules |-> Null, day |-> 0]
  <2>1. PastKeyed(x)
    BY DEF PastKeyed, TypeOK, Days
  <2>2. Put(s, x) /\ UNCHANGED <<today, daily, monthly>>
    BY <1>1 DEF Start
  <2> QED BY <2>1, <2>2, PastQuiet
<1>2. ASSUME NEW s \in Slots, EnsureDefault(s) \/ ReadBalance(s) \/ Rejected(s)
             \/ Crash(s) \/ SaveSendbox(s) \/ Deduct(s)
      PROVE  KeysPast'
  <2>1. UNCHANGED <<today, daily, monthly>>
    BY <1>2 DEF EnsureDefault, ReadBalance, Rejected, Crash, SaveSendbox, Deduct
  <2>2. Leave(s) \/ \E l \in {"balance", "limits", "sendbox"} : Goto(s, l)
    BY <1>2 DEF EnsureDefault, ReadBalance, Rejected, Crash, SaveSendbox, Deduct
  <2>3. \E x : Put(s, x) /\ PastKeyed(x)
    BY <1>l, <2>2, Becomes
  <2> QED BY <2>1, <2>3, PastQuiet
<1>3. ASSUME NEW s \in Slots, ReadLimits(s) \/ CheckDaily(s) \/ CheckMonthly(s)
             \/ LimiterFails(s)
      PROVE  KeysPast'
  <2>1. UNCHANGED <<today, daily, monthly>>
    BY <1>3 DEF ReadLimits, CheckDaily, CheckMonthly, LimiterFails
  <2>2. slot[s].rules \in Configs \cup {Null} /\ config \in Configs
        /\ (slot[s].pc \in {"daily", "monthly"} => slot[s].rules \in Configs)
    BY Becomes DEF Slot, TypeOK, PastKeyed
  <2>3. \/ Leave(s)
        \/ Check(s, config, "daily")
        \/ slot[s].rules \in Configs /\ Check(s, slot[s].rules, "monthly")
        \/ \E c \in Configs \cup {Null} : Check(s, c, "send")
    <3>1. CASE ReadLimits(s) \/ LimiterFails(s)
      BY <3>1 DEF ReadLimits, LimiterFails
    <3>2. CASE CheckDaily(s) \/ CheckMonthly(s)
      BY <2>2, <3>2 DEF CheckDaily, CheckMonthly
    <3> QED BY <1>3, <3>1, <3>2
  <2>4. \E x : Put(s, x) /\ PastKeyed(x)
    BY <2>2, <2>3, Becomes, CheckBecomes
  <2> QED BY <2>1, <2>4, PastQuiet
<1>4. ASSUME NEW s \in Slots, NEW v \in BOOLEAN, Accepted(s, v) PROVE KeysPast'
  <2> DEFINE k == IF v /\ slot[s].kind = "user" THEN "exempt" ELSE slot[s].kind
             x == [slot[s] EXCEPT !.pc = "count", !.kind = k]
  <2>1. PastKeyed(x)
    BY Becomes DEF PastKeyed, Slot
  <2>2. (Put(s, x) \/ Leave(s)) /\ UNCHANGED <<today, daily, monthly>>
    BY <1>4 DEF Accepted
  <2>3. \E y : Put(s, y) /\ PastKeyed(y)
    BY <2>1, <2>2, Becomes
  <2> QED BY <2>2, <2>3, PastQuiet
<1>5. ASSUME NEW s \in Slots, ReadCountLimits(s) \/ CountFails(s) PROVE KeysPast'
  <2>1. UNCHANGED <<today, daily, monthly>> /\ config \in Configs
    BY <1>5 DEF ReadCountLimits, CountFails, TypeOK
  <2>2. \/ CountDone(s)
        \/ \E l \in {"incDaily", "incMonthly"} : Keyed(s, l, config, today)
    BY <1>5 DEF ReadCountLimits, CountFails
  <2>3. \E x : Put(s, x) /\ PastKeyed(x)
    BY <1>l, <2>1, <2>2, Becomes
  <2> QED BY <2>1, <2>3, PastQuiet
<1>6. ASSUME NEW s \in Slots, IncDaily(s) \/ IncMonthly(s) \/ Cleanup(s)
      PROVE  KeysPast'
  <2>1. CountDone(s) \/ \E l \in {"incMonthly", "cleanup"} : Goto(s, l)
    BY <1>6 DEF IncDaily, IncMonthly, Cleanup
  <2>2. PICK x : Put(s, x) /\ PastKeyed(x)
    BY <1>l, <2>1, Becomes
  <2>3. today' = today
    BY <1>6 DEF IncDaily, IncMonthly, Cleanup
  <2>4. /\ \A t \in Slots : slot'[t].day <= today'
        /\ \A t \in Slots : slot'[t].pc \in {"daily", "monthly"}
                              => slot'[t].rules \in Configs
    BY <2>2, <2>3, PutPast
  <2>5. slot[s].day <= today /\ slot[s].day \in Days /\ today \in Days
        /\ today \in Int /\ slot[s].day \in Int
    BY Becomes DEF PastKeyed, Slot, Days
  <2>6. Month(slot[s].day) <= Month(today)
        /\ Month(slot[s].day) \in Int /\ Month(today) \in Int
    BY <2>5, CalendarAssumption
  <2>7. ASSUME NEW d \in Days, d > today PROVE daily'[d] = daily[d] \/ daily'[d] = 0
    <3>1. CASE IncDaily(s)
      <4>1. d # slot[s].day /\ daily \in [Days -> Nat]
        BY <2>5, <2>7 DEF Days, TypeOK
      <4> QED BY <3>1, <4>1 DEF IncDaily
    <3>2. CASE IncMonthly(s)
      BY <3>2 DEF IncMonthly
    <3>3. CASE Cleanup(s)
      BY <3>3 DEF Cleanup, Kept, TypeOK
    <3> QED BY <1>6, <3>1, <3>2, <3>3
  <2>8. ASSUME NEW m \in Months, m > Month(today)
        PROVE  monthly'[m] = monthly[m] \/ monthly'[m] = 0
    <3>1. CASE IncMonthly(s)
      <4>1. m # Month(slot[s].day) /\ monthly \in [Months -> Nat]
        BY <2>6, <2>8 DEF Months, TypeOK
      <4> QED BY <3>1, <4>1 DEF IncMonthly
    <3>2. CASE IncDaily(s)
      BY <3>2 DEF IncDaily
    <3>3. CASE Cleanup(s)
      BY <3>3 DEF Cleanup, Kept, TypeOK
    <3> QED BY <1>6, <3>1, <3>2, <3>3
  <2> QED BY <2>3, <2>4, <2>7, <2>8 DEF KeysPast
<1>7. CASE NewDay
  <2>1. today \in Days /\ today' \in Days /\ today <= today' /\ today \in Int
        /\ today' \in Int
    BY <1>7, SendMailAssumption DEF NewDay, TypeOK, Days
  <2>2. Month(today) <= Month(today') /\ Month(today) \in Nat /\ Month(today') \in Nat
    BY <2>1, CalendarAssumption
  <2>3. UNCHANGED <<daily, monthly, slot>>
    BY <1>7 DEF NewDay
  <2>4. \A t \in Slots : slot[t].day \in Int
    BY DEF TypeOK, Slot, Days
  <2> QED BY <2>1, <2>2, <2>3, <2>4 DEF KeysPast, Days, Months
<1>8. CASE \/ \E c \in Configs : SaveLimits(c)
           \/ SenderChanges
           \/ \E a \in Addresses, n \in Credits : Redeem(a, n)
           \/ UNCHANGED vars
  BY <1>8 DEF SaveLimits, SenderChanges, Redeem, vars, KeysPast
<1> QED
  BY <1>1, <1>2, <1>3, <1>4, <1>5, <1>6, <1>7, <1>8 DEF Next, Environment, Request

-----------------------------------------------------------------------------
(* The daily limit. *)

DayLimited == "limiter" \notin Faults /\ \A c \in Configs : Limited(c.daily)

\* A day's bound, for what a step does to its count and its pending requests.
LEMMA DayBound ==
  ASSUME TypeOK, TypeOK', DayInv, NEW d \in Days,
         \/ daily'[d] <= daily[d] /\ DayPending(d)' \subseteq DayPending(d)
         \/ /\ daily'[d] = daily[d] + 1
            /\ \E s \in DayPending(d) : DayPending(d)' \subseteq DayPending(d) \ {s}
         \/ daily'[d] < DailyCap
  PROVE  daily'[d] + Cardinality(DayPending(d)') < DailyCap + Cardinality(Slots)
<1>1. daily[d] \in Nat /\ daily'[d] \in Nat /\ DailyCap \in Nat
  BY SendMailAssumption DEF TypeOK
<1>2. DayPending(d) \in SUBSET Slots /\ DayPending(d)' \in SUBSET Slots
  BY DEF DayPending
<1>3. daily[d] + Cardinality(DayPending(d)) < DailyCap + Cardinality(Slots)
  BY DEF DayInv
<1> QED BY <1>1, <1>2, <1>3, BoundKept

\* A request that owes a day no more than before leaves the day's bound.
LEMMA DayQuiet ==
  ASSUME TypeOK, TypeOK', KeysPast', DayInv, today' = today, NEW s \in Slots, NEW x,
         Put(s, x),
         \A d \in Days : d <= today =>
           /\ daily'[d] <= daily[d]
           /\ OwesDay(x, d) => OwesDay(slot[s], d)
  PROVE  DayInv'
<1>1. ASSUME NEW d \in Days
      PROVE  daily'[d] + Cardinality(DayPending(d)') < DailyCap + Cardinality(Slots)
  <2>1. CASE d <= today
    <3>1. DayPending(d)' \subseteq DayPending(d)
      BY <2>1 DEF DayPending, OwesDay, Put, TypeOK
    <3> QED BY <2>1, <3>1, DayBound
  <2>2. CASE d > today
    <3>1. daily'[d] = 0 /\ 0 < DailyCap
      BY <2>2, SendMailAssumption DEF KeysPast
    <3> QED BY <3>1, DayBound
  <2>3. d \in Int /\ today \in Int
    BY DEF Days, TypeOK
  <2> QED BY <2>1, <2>2, <2>3
<1> QED BY <1>1 DEF DayInv

\* The count of a day is read, and is below the limit.
LEMMA CheckDailyBound ==
  ASSUME TypeOK, TypeOK', KeysPast, KeysPast', DayInv, DayLimited, NEW s \in Slots,
         CheckDaily(s)
  PROVE  DayInv'
<1>0. /\ today' = today /\ daily' = daily /\ slot[s].pc = "daily"
      /\ slot[s] \in Slot /\ slot[s].day <= today /\ slot[s].rules \in Configs
      /\ slot[s].day \in Days /\ today \in Days
  BY Becomes DEF CheckDaily, PastKeyed, Slot
<1>1. CASE Leave(s)
  <2>1. PICK x : Put(s, x) /\ x.pc = "idle"
    BY <1>1, Becomes
  <2>2. \A d \in Days : ~OwesDay(x, d)
    BY <2>1 DEF OwesDay
  <2>3. \A d \in Days : daily'[d] <= daily[d]
    BY <1>0 DEF TypeOK
  <2> QED BY <1>0, <2>1, <2>2, <2>3, DayQuiet
<1>2. CASE /\ ~Reached(daily[slot[s].day], slot[s].rules.daily)
           /\ Check(s, slot[s].rules, "monthly")
  <2>1. PICK x : Put(s, x) /\ x.pc \in {"monthly", "send"}
    <3>1. CheckNext(slot[s].rules, "monthly") \in {"monthly", "send"}
      BY DEF CheckNext
    <3> QED BY <1>0, <1>2, <3>1, CheckBecomes
  <2>2. daily[slot[s].day] < DailyCap
    <3>1. /\ slot[s].rules.daily \in -1..DailyCap /\ DailyCap \in Nat
          /\ daily[slot[s].day] \in Nat
      BY <1>0, SendMailAssumption DEF DayLimited, Limited, TypeOK
    <3> QED BY <1>2, <3>1 DEF Reached
  <2>3. ASSUME NEW d \in Days
        PROVE  daily'[d] + Cardinality(DayPending(d)') < DailyCap + Cardinality(Slots)
    <3>0. d \in Int /\ today \in Int /\ slot[s].day \in Int
      BY <1>0 DEF Days
    <3>1. CASE d = slot[s].day
      BY <1>0, <2>2, <3>1, DayBound
    <3>2. CASE d > today
      <4>1. daily'[d] = 0 /\ 0 < DailyCap
        BY <1>0, <3>2, SendMailAssumption DEF KeysPast
      <4> QED BY <4>1, DayBound
    <3>3. CASE d <= today /\ d # slot[s].day
      <4>1. OwesDay(x, d) => OwesDay(slot[s], d)
        BY <1>0, <2>1, <3>0, <3>3 DEF OwesDay
      <4>2. DayPending(d)' \subseteq DayPending(d)
        BY <1>0, <2>1, <4>1 DEF DayPending, OwesDay, Put, TypeOK
      <4>3. daily'[d] <= daily[d]
        BY <1>0 DEF TypeOK
      <4> QED BY <4>2, <4>3, DayBound
    <3> QED BY <3>0, <3>1, <3>2, <3>3
  <2> QED BY <2>3 DEF DayInv
<1>3. Readings(daily[slot[s].day]) = {daily[slot[s].day]}
  BY DEF Readings, DayLimited
<1> QED BY <1>1, <1>2, <1>3 DEF CheckDaily

\* A pending request is counted.
LEMMA IncDailyBound ==
  ASSUME TypeOK, TypeOK', KeysPast, KeysPast', DayInv, NEW s \in Slots, IncDaily(s)
  PROVE  DayInv'
<1>0. /\ today' = today /\ slot[s].pc = "incDaily" /\ slot[s].day \in Days
      /\ daily' = [daily EXCEPT ![slot[s].day] = daily[slot[s].day] + 1]
      /\ daily \in [Days -> Nat]
  BY Becomes DEF IncDaily, Slot, TypeOK
<1>1. PICK x : Put(s, x) /\ x.pc \in {"incMonthly", "cleanup"}
  <2>1. \E l \in {"incMonthly", "cleanup"} : Goto(s, l)
    BY DEF IncDaily
  <2>2. {"incMonthly", "cleanup"} \subseteq Labels
    BY DEF Labels
  <2> QED BY <2>1, <2>2, Becomes
<1>2. \A d \in Days : DayPending(d)' \subseteq DayPending(d) \ {s}
  BY <1>0, <1>1 DEF DayPending, OwesDay, Put, TypeOK
<1>3. s \in DayPending(slot[s].day)
  BY <1>0 DEF DayPending, OwesDay
<1>4. ASSUME NEW d \in Days
      PROVE  daily'[d] + Cardinality(DayPending(d)') < DailyCap + Cardinality(Slots)
  <2>1. CASE d = slot[s].day
    BY <1>0, <1>2, <1>3, <2>1, DayBound
  <2>2. CASE d # slot[s].day
    <3>1. daily'[d] <= daily[d]
      BY <1>0, <2>2
    <3> QED BY <1>2, <3>1, DayBound
  <2> QED BY <2>1, <2>2
<1> QED BY <1>4 DEF DayInv

LEMMA NextDay ==
  ASSUME TypeOK, TypeOK', KeysPast, KeysPast', DayInv, DayLimited, [Next]_vars
  PROVE  DayInv'
<1>l. {"balance", "limits", "sendbox", "incMonthly", "cleanup", "incDaily"} \subseteq Labels
  BY DEF Labels
<1>t. daily \in [Days -> Nat] /\ today \in Days /\ today \in Int /\ Days \subseteq Int
  BY DEF TypeOK, Days
<1>q. ASSUME NEW s \in Slots, NEW x, Put(s, x), today' = today, daily' = daily,
             \A d \in Days : d <= today /\ OwesDay(x, d) => OwesDay(slot[s], d)
      PROVE  DayInv'
  BY <1>t, <1>q, DayQuiet
<1>1. ASSUME NEW s \in Slots, NEW a \in Addresses, NEW k \in Kinds, Start(s, a, k)
      PROVE  DayInv'
  <2> DEFINE x == [pc |-> IF k = "user" THEN "default" ELSE "limits",
                   kind |-> k, from |-> a, rules |-> Null, day |-> 0]
  <2>1. \A d \in Days : ~OwesDay(x, d)
    BY DEF OwesDay
  <2>2. Put(s, x) /\ UNCHANGED <<today, daily>>
    BY <1>1 DEF Start
  <2> QED BY <1>q, <2>1, <2>2
<1>2. ASSUME NEW s \in Slots, EnsureDefault(s) \/ ReadBalance(s) \/ Rejected(s)
             \/ Crash(s) \/ SaveSendbox(s) \/ Deduct(s) \/ IncMonthly(s)
      PROVE  DayInv'
  <2>1. UNCHANGED <<today, daily>>
    BY <1>2 DEF EnsureDefault, ReadBalance, Rejected, Crash, SaveSendbox, Deduct,
                IncMonthly
  <2>2. Leave(s) \/ \E l \in {"balance", "limits", "sendbox", "cleanup"} : Goto(s, l)
    BY <1>2 DEF EnsureDefault, ReadBalance, Rejected, Crash, SaveSendbox, Deduct, IncMonthly
  <2>3. PICK x : Put(s, x) /\ x.pc \in {"idle", "balance", "limits", "sendbox", "cleanup"}
    BY <1>l, <2>2, Becomes
  <2>4. \A d \in Days : ~OwesDay(x, d)
    BY <2>3 DEF OwesDay
  <2> QED BY <1>q, <2>1, <2>3, <2>4
<1>3. ASSUME NEW s \in Slots, ReadLimits(s) PROVE DayInv'
  <2>1. CheckNext(config, "daily") = "daily" /\ config \in Configs
    BY DEF CheckNext, DayLimited, TypeOK
  <2>2. PICK x : Put(s, x) /\ x.pc = "daily" /\ x.day = today
    BY <1>3, <2>1, CheckBecomes DEF ReadLimits
  <2>3. \A d \in Days : d <= today => ~OwesDay(x, d)
    BY <1>t, <2>2 DEF OwesDay
  <2> QED BY <1>3, <1>q, <2>2, <2>3 DEF ReadLimits
<1>4. ASSUME NEW s \in Slots, CheckDaily(s) PROVE DayInv'
  BY <1>4, CheckDailyBound
<1>5. ASSUME NEW s \in Slots, CheckMonthly(s) PROVE DayInv'
  <2>1. CASE Leave(s)
    <3>1. PICK x : Put(s, x) /\ x.pc = "idle"
      BY <2>1, Becomes
    <3> QED BY <1>5, <1>q, <3>1 DEF CheckMonthly, OwesDay
  <2>2. CASE Check(s, slot[s].rules, "send")
    <3>1. CheckNext(slot[s].rules, "send") = "send"
      BY DEF CheckNext
    <3>2. slot[s].rules \in Configs \cup {Null}
      BY Becomes DEF Slot
    <3>3. PICK x : Put(s, x) /\ x.pc = "send"
      BY <2>2, <3>1, <3>2, CheckBecomes
    <3>4. \A d \in Days : OwesDay(x, d) => OwesDay(slot[s], d)
      BY <1>5, <3>3 DEF OwesDay, CheckMonthly
    <3> QED BY <1>5, <1>q, <3>3, <3>4 DEF CheckMonthly
  <2> QED BY <1>5, <2>1, <2>2 DEF CheckMonthly
<1>6. ASSUME NEW s \in Slots, NEW v \in BOOLEAN, Accepted(s, v) PROVE DayInv'
  <2> DEFINE k == IF v /\ slot[s].kind = "user" THEN "exempt" ELSE slot[s].kind
             x == [slot[s] EXCEPT !.pc = "count", !.kind = k]
  <2>0. slot[s].pc = "send" /\ UNCHANGED <<today, daily>> /\ (Put(s, x) \/ Leave(s))
    BY <1>6 DEF Accepted
  <2>1. x.pc = "count"
    BY Becomes DEF Slot
  <2>2. PICK y : Put(s, y) /\ y.pc \in {"count", "idle"}
    <3> HIDE DEF x
    <3> QED BY <2>0, <2>1, Becomes
  <2>3. \A d \in Days : OwesDay(y, d) => OwesDay(slot[s], d)
    BY <2>0, <2>2 DEF OwesDay
  <2> QED BY <1>q, <2>0, <2>2, <2>3
<1>7. ASSUME NEW s \in Slots, ReadCountLimits(s) PROVE DayInv'
  <2>0. slot[s].pc = "count" /\ UNCHANGED <<today, daily>> /\ config \in Configs
    BY <1>7 DEF ReadCountLimits, TypeOK
  <2>1. CountDone(s) \/ \E l \in {"incDaily", "incMonthly"} : Keyed(s, l, config, today)
    BY <1>7 DEF ReadCountLimits
  <2>2. PICK x : /\ Put(s, x)
                 /\ \/ x.pc \in {"idle", "deduct", "sendbox"}
                    \/ x.pc \in {"incDaily", "incMonthly"} /\ x.day = today
    BY <1>l, <2>0, <2>1, Becomes
  <2>3. \A d \in Days : OwesDay(x, d) => OwesDay(slot[s], d)
    BY <1>t, <2>0, <2>2 DEF OwesDay
  <2> QED BY <1>q, <2>0, <2>2, <2>3
<1>8. ASSUME NEW s \in Slots, IncDaily(s) PROVE DayInv'
  BY <1>8, IncDailyBound
<1>9. ASSUME NEW s \in Slots, Cleanup(s) PROVE DayInv'
  <2>1. PICK x : Put(s, x) /\ x.pc \in {"idle", "deduct", "sendbox"}
    BY <1>9, Becomes DEF Cleanup
  <2>2. \A d \in Days : ~OwesDay(x, d)
    BY <2>1 DEF OwesDay
  <2>3. \A d \in Days : daily'[d] <= daily[d]
    <3>1. \A d \in Days : daily'[d] = daily[d] \/ daily'[d] = 0
      BY <1>9, <1>t DEF Cleanup, Kept
    <3>2. \A d \in Days : daily[d] \in Nat
      BY <1>t
    <3> QED BY <3>1, <3>2
  <2> QED BY <1>9, <2>1, <2>2, <2>3, DayQuiet DEF Cleanup
<1>10. CASE NewDay
  <2>1. UNCHANGED <<daily, slot>> /\ today' = today + 1
    BY <1>10 DEF NewDay
  <2>2. ASSUME NEW d \in Days
        PROVE  daily'[d] + Cardinality(DayPending(d)') < DailyCap + Cardinality(Slots)
    <3>1. DayPending(d)' \subseteq DayPending(d)
      BY <1>t, <2>1 DEF DayPending, OwesDay
    <3>2. daily'[d] <= daily[d]
      BY <1>t, <2>1
    <3> QED BY <3>1, <3>2, DayBound
  <2> QED BY <2>2 DEF DayInv
<1>11. CASE \/ \E c \in Configs : SaveLimits(c)
            \/ SenderChanges
            \/ \E a \in Addresses, n \in Credits : Redeem(a, n)
            \/ UNCHANGED vars
  BY <1>11 DEF SaveLimits, SenderChanges, Redeem, vars, DayInv, DayPending, OwesDay
<1>12. \A s \in Slots : ~LimiterFails(s) /\ ~CountFails(s)
  BY DEF LimiterFails, CountFails, DayLimited
<1>13. ASSUME NEW s \in Slots, Request(s) PROVE DayInv'
  BY <1>1, <1>2, <1>3, <1>4, <1>5, <1>6, <1>7, <1>8, <1>9, <1>12, <1>13 DEF Request
<1> QED BY <1>10, <1>11, <1>13 DEF Next, Environment

-----------------------------------------------------------------------------
(* The monthly limit: the same argument, one check later. *)

MonthLimited == "limiter" \notin Faults /\ \A c \in Configs : Limited(c.monthly)

LEMMA MonthBound ==
  ASSUME TypeOK, TypeOK', MonthInv, NEW m \in Months,
         \/ monthly'[m] <= monthly[m] /\ MonthPending(m)' \subseteq MonthPending(m)
         \/ /\ monthly'[m] = monthly[m] + 1
            /\ \E s \in MonthPending(m) : MonthPending(m)' \subseteq MonthPending(m) \ {s}
         \/ monthly'[m] < MonthlyCap
  PROVE  monthly'[m] + Cardinality(MonthPending(m)') < MonthlyCap + Cardinality(Slots)
<1>1. monthly[m] \in Nat /\ monthly'[m] \in Nat /\ MonthlyCap \in Nat
  BY SendMailAssumption DEF TypeOK
<1>2. MonthPending(m) \in SUBSET Slots /\ MonthPending(m)' \in SUBSET Slots
  BY DEF MonthPending
<1>3. monthly[m] + Cardinality(MonthPending(m)) < MonthlyCap + Cardinality(Slots)
  BY DEF MonthInv
<1> QED BY <1>1, <1>2, <1>3, BoundKept

\* Months and days are numbers, and this month is one of the calendar's.
LEMMA MonthNumbers ==
  ASSUME TypeOK, KeysPast, NEW s \in Slots
  PROVE  /\ Months \subseteq Int /\ Month(today) \in Int
         /\ slot[s].day \in Days /\ Month(slot[s].day) \in Months
         /\ Month(slot[s].day) <= Month(today)
<1>1. slot[s].day \in Days /\ slot[s].day <= today /\ today \in Days
  BY Becomes DEF Slot, PastKeyed
<1>2. MaxDay \in Days /\ slot[s].day <= MaxDay
  BY <1>1, SendMailAssumption DEF Days
<1> QED BY <1>1, <1>2, CalendarAssumption DEF Months

\* A request that owes a month no more than before leaves the month's bound.
LEMMA MonthQuiet ==
  ASSUME TypeOK, TypeOK', KeysPast, KeysPast', MonthInv, today' = today, NEW s \in Slots,
         NEW x, Put(s, x),
         \A m \in Months : m <= Month(today) =>
           /\ monthly'[m] <= monthly[m]
           /\ OwesMonth(x, m) => OwesMonth(slot[s], m)
  PROVE  MonthInv'
<1>1. ASSUME NEW m \in Months
      PROVE  monthly'[m] + Cardinality(MonthPending(m)') < MonthlyCap + Cardinality(Slots)
  <2>1. CASE m <= Month(today)
    <3>1. MonthPending(m)' \subseteq MonthPending(m)
      BY <2>1 DEF MonthPending, OwesMonth, Put, TypeOK
    <3> QED BY <2>1, <3>1, MonthBound
  <2>2. CASE m > Month(today)
    <3>1. monthly'[m] = 0 /\ 0 < MonthlyCap
      BY <2>2, SendMailAssumption DEF KeysPast
    <3> QED BY <3>1, MonthBound
  <2> QED BY <2>1, <2>2, MonthNumbers
<1> QED BY <1>1 DEF MonthInv

\* The count of a month is read, and is below the limit.
LEMMA CheckMonthlyBound ==
  ASSUME TypeOK, TypeOK', KeysPast, KeysPast', MonthInv, MonthLimited, NEW s \in Slots,
         CheckMonthly(s)
  PROVE  MonthInv'
<1> DEFINE k == Month(slot[s].day)
<1>0. /\ today' = today /\ monthly' = monthly /\ slot[s].pc = "monthly"
      /\ slot[s] \in Slot /\ slot[s].rules \in Configs
      /\ Months \subseteq Int /\ k \in Months /\ k <= Month(today) /\ Month(today) \in Int
      /\ monthly \in [Months -> Nat]
  BY Becomes, MonthNumbers DEF CheckMonthly, PastKeyed, TypeOK
<1>1. CASE Leave(s)
  <2>1. PICK x : Put(s, x) /\ x.pc = "idle"
    BY <1>1, Becomes
  <2>2. \A m \in Months : ~OwesMonth(x, m)
    BY <2>1 DEF OwesMonth
  <2>3. ASSUME NEW m \in Months PROVE monthly'[m] <= monthly[m]
    <3>1. monthly'[m] = monthly[m]
      BY <1>0
    <3>2. monthly[m] \in Nat
      BY <1>0
    <3> QED BY <3>1, <3>2
  <2> QED BY <1>0, <2>1, <2>2, <2>3, MonthQuiet
<1>2. CASE /\ ~Reached(monthly[k], slot[s].rules.monthly)
           /\ Check(s, slot[s].rules, "send")
  <2>1. PICK x : Put(s, x) /\ x.pc = "send"
    <3>1. CheckNext(slot[s].rules, "send") = "send"
      BY DEF CheckNext
    <3> QED BY <1>0, <1>2, <3>1, CheckBecomes
  <2>2. monthly[k] < MonthlyCap
    <3>1. /\ slot[s].rules.monthly \in -1..MonthlyCap /\ MonthlyCap \in Nat
          /\ monthly[k] \in Nat
      BY <1>0, SendMailAssumption DEF MonthLimited, Limited
    <3> QED BY <1>2, <3>1 DEF Reached
  <2>3. ASSUME NEW m \in Months
        PROVE  monthly'[m] + Cardinality(MonthPending(m)') < MonthlyCap + Cardinality(Slots)
    <3>1. CASE m = k
      BY <1>0, <2>2, <3>1, MonthBound
    <3>2. CASE m > Month(today)
      <4>1. monthly'[m] = 0 /\ 0 < MonthlyCap
        BY <1>0, <3>2, SendMailAssumption DEF KeysPast
      <4> QED BY <4>1, MonthBound
    <3>3. CASE m <= Month(today) /\ m # k
      <4>1. OwesMonth(x, m) => OwesMonth(slot[s], m)
        BY <1>0, <2>1, <3>3 DEF OwesMonth
      <4>2. MonthPending(m)' \subseteq MonthPending(m)
        BY <1>0, <2>1, <4>1 DEF MonthPending, OwesMonth, Put, TypeOK
      <4>3. monthly'[m] <= monthly[m]
        BY <1>0
      <4> QED BY <4>2, <4>3, MonthBound
    <3> QED BY <1>0, <3>1, <3>2, <3>3
  <2> QED BY <2>3 DEF MonthInv
<1>3. Readings(monthly[k]) = {monthly[k]}
  BY DEF Readings, MonthLimited
<1> QED BY <1>1, <1>2, <1>3 DEF CheckMonthly

\* A pending request is counted.
LEMMA IncMonthlyBound ==
  ASSUME TypeOK, TypeOK', KeysPast, KeysPast', MonthInv, NEW s \in Slots, IncMonthly(s)
  PROVE  MonthInv'
<1> DEFINE k == Month(slot[s].day)
<1>0. /\ today' = today /\ slot[s].pc = "incMonthly" /\ k \in Months
      /\ monthly' = [monthly EXCEPT ![k] = monthly[k] + 1]
      /\ monthly \in [Months -> Nat]
  BY MonthNumbers DEF IncMonthly, TypeOK
<1>1. PICK x : Put(s, x) /\ x.pc = "cleanup"
  <2>1. Goto(s, "cleanup") /\ "cleanup" \in Labels
    BY DEF IncMonthly, Labels
  <2> QED BY <2>1, Becomes
<1>2. \A m \in Months : MonthPending(m)' \subseteq MonthPending(m) \ {s}
  BY <1>0, <1>1 DEF MonthPending, OwesMonth, Put, TypeOK
<1>3. s \in MonthPending(k)
  BY <1>0 DEF MonthPending, OwesMonth
<1>4. ASSUME NEW m \in Months
      PROVE  monthly'[m] + Cardinality(MonthPending(m)') < MonthlyCap + Cardinality(Slots)
  <2>1. CASE m = k
    BY <1>0, <1>2, <1>3, <2>1, MonthBound
  <2>2. CASE m # k
    <3>1. monthly'[m] <= monthly[m]
      BY <1>0, <2>2
    <3> QED BY <1>2, <3>1, MonthBound
  <2> QED BY <2>1, <2>2
<1> QED BY <1>4 DEF MonthInv

LEMMA NextMonth ==
  ASSUME TypeOK, TypeOK', KeysPast, KeysPast', MonthInv, MonthLimited, [Next]_vars
  PROVE  MonthInv'
<1>l. {"balance", "limits", "sendbox", "incMonthly", "cleanup", "incDaily"} \subseteq Labels
  BY DEF Labels
<1>t. monthly \in [Months -> Nat] /\ Months \subseteq Int /\ Month(today) \in Int
  BY CalendarAssumption DEF TypeOK, Months
<1>q. ASSUME NEW s \in Slots, NEW x, Put(s, x), today' = today, monthly' = monthly,
             \A m \in Months : m <= Month(today) /\ OwesMonth(x, m)
                                => OwesMonth(slot[s], m)
      PROVE  MonthInv'
  BY <1>t, <1>q, MonthQuiet
<1>1. ASSUME NEW s \in Slots, NEW a \in Addresses, NEW k \in Kinds, Start(s, a, k)
      PROVE  MonthInv'
  <2> DEFINE x == [pc |-> IF k = "user" THEN "default" ELSE "limits",
                   kind |-> k, from |-> a, rules |-> Null, day |-> 0]
  <2>1. \A m \in Months : ~OwesMonth(x, m)
    BY DEF OwesMonth
  <2>2. Put(s, x) /\ UNCHANGED <<today, monthly>>
    BY <1>1 DEF Start
  <2> QED BY <1>q, <2>1, <2>2
<1>2. ASSUME NEW s \in Slots, EnsureDefault(s) \/ ReadBalance(s) \/ Rejected(s)
             \/ Crash(s) \/ SaveSendbox(s) \/ Deduct(s)
      PROVE  MonthInv'
  <2>1. UNCHANGED <<today, monthly>>
    BY <1>2 DEF EnsureDefault, ReadBalance, Rejected, Crash, SaveSendbox, Deduct
  <2>2. Leave(s) \/ \E l \in {"balance", "limits", "sendbox"} : Goto(s, l)
    BY <1>2 DEF EnsureDefault, ReadBalance, Rejected, Crash, SaveSendbox, Deduct
  <2>3. PICK x : Put(s, x) /\ x.pc \in {"idle", "balance", "limits", "sendbox"}
    BY <1>l, <2>2, Becomes
  <2>4. \A m \in Months : ~OwesMonth(x, m)
    BY <2>3 DEF OwesMonth
  <2> QED BY <1>q, <2>1, <2>3, <2>4
<1>3. ASSUME NEW s \in Slots, ReadLimits(s) \/ CheckDaily(s) PROVE MonthInv'
  <2>1. UNCHANGED <<today, monthly>>
    BY <1>3 DEF ReadLimits, CheckDaily
  <2>2. \/ Leave(s)
        \/ \E c \in Configs, label \in {"daily", "monthly"} : Check(s, c, label)
    BY <1>3, Becomes DEF ReadLimits, CheckDaily, TypeOK, PastKeyed
  <2>3. \A c \in Configs, label \in {"daily", "monthly"} :
          CheckNext(c, label) \in {"daily", "monthly"}
    BY DEF CheckNext, MonthLimited
  <2>4. PICK x : /\ Put(s, x)
                 /\ \/ x.pc = "idle"
                    \/ x.pc \in {"daily", "monthly"} /\ x.day = today
    <3>1. CASE Leave(s)
      BY <3>1, Becomes
    <3>2. ASSUME NEW c \in Configs, NEW label \in {"daily", "monthly"}, Check(s, c, label)
          PROVE  \E x : /\ Put(s, x)
                        /\ x.pc \in {"daily", "monthly"} /\ x.day = today
      <4>1. CheckNext(c, label) \in {"daily", "monthly"}
        BY <2>3
      <4>2. PICK x : Put(s, x) /\ x.pc = CheckNext(c, label) /\ (x.pc = "send" \/ x.day = today)
        BY <3>2, CheckBecomes
      <4> QED BY <4>1, <4>2
    <3> QED BY <2>2, <3>1, <3>2
  <2>5. \A m \in Months : m <= Month(today) => ~OwesMonth(x, m)
    BY <1>t, <2>4 DEF OwesMonth
  <2> QED BY <1>q, <2>1, <2>4, <2>5
<1>4. ASSUME NEW s \in Slots, CheckMonthly(s) PROVE MonthInv'
  BY <1>4, CheckMonthlyBound
<1>5. ASSUME NEW s \in Slots, NEW v \in BOOLEAN, Accepted(s, v) PROVE MonthInv'
  <2> DEFINE k == IF v /\ slot[s].kind = "user" THEN "exempt" ELSE slot[s].kind
             x == [slot[s] EXCEPT !.pc = "count", !.kind = k]
  <2>0. slot[s].pc = "send" /\ UNCHANGED <<today, monthly>> /\ (Put(s, x) \/ Leave(s))
    BY <1>5 DEF Accepted
  <2>1. x.pc = "count"
    BY Becomes DEF Slot
  <2>2. PICK y : Put(s, y) /\ y.pc \in {"count", "idle"}
    <3> HIDE DEF x
    <3> QED BY <2>0, <2>1, Becomes
  <2>3. \A m \in Months : OwesMonth(y, m) => OwesMonth(slot[s], m)
    BY <2>0, <2>2 DEF OwesMonth
  <2> QED BY <1>q, <2>0, <2>2, <2>3
<1>6. ASSUME NEW s \in Slots, ReadCountLimits(s) PROVE MonthInv'
  <2>0. slot[s].pc = "count" /\ UNCHANGED <<today, monthly>> /\ config \in Configs
    BY <1>6 DEF ReadCountLimits, TypeOK
  <2>1. CountDone(s) \/ \E l \in {"incDaily", "incMonthly"} : Keyed(s, l, config, today)
    BY <1>6 DEF ReadCountLimits
  <2>2. PICK x : /\ Put(s, x)
                 /\ \/ x.pc \in {"idle", "deduct", "sendbox"}
                    \/ x.pc \in {"incDaily", "incMonthly"} /\ x.day = today
    BY <1>l, <2>0, <2>1, Becomes
  <2>3. \A m \in Months : OwesMonth(x, m) => OwesMonth(slot[s], m)
    BY <1>t, <2>0, <2>2 DEF OwesMonth
  <2> QED BY <1>q, <2>0, <2>2, <2>3
<1>7. ASSUME NEW s \in Slots, IncDaily(s) PROVE MonthInv'
  <2>1. UNCHANGED <<today, monthly>> /\ slot[s].pc = "incDaily"
        /\ \E l \in {"incMonthly", "cleanup"} : Goto(s, l)
    BY <1>7 DEF IncDaily
  <2>2. PICK x : Put(s, x) /\ x.pc \in {"incMonthly", "cleanup"} /\ x.day = slot[s].day
    BY <1>l, <2>1, Becomes
  <2>3. \A m \in Months : OwesMonth(x, m) => OwesMonth(slot[s], m)
    BY <2>1, <2>2 DEF OwesMonth
  <2> QED BY <1>q, <2>1, <2>2, <2>3
<1>8. ASSUME NEW s \in Slots, IncMonthly(s) PROVE MonthInv'
  BY <1>8, IncMonthlyBound
<1>9. ASSUME NEW s \in Slots, Cleanup(s) PROVE MonthInv'
  <2>1. PICK x : Put(s, x) /\ x.pc \in {"idle", "deduct", "sendbox"}
    BY <1>9, Becomes DEF Cleanup
  <2>2. \A m \in Months : ~OwesMonth(x, m)
    BY <2>1 DEF OwesMonth
  <2>3. \A m \in Months : monthly'[m] <= monthly[m]
    <3>1. \A m \in Months : monthly'[m] = monthly[m] \/ monthly'[m] = 0
      BY <1>9, <1>t DEF Cleanup, Kept
    <3>2. \A m \in Months : monthly[m] \in Nat
      BY <1>t
    <3> QED BY <3>1, <3>2
  <2> QED BY <1>9, <2>1, <2>2, <2>3, MonthQuiet DEF Cleanup
<1>10. CASE NewDay
  <2>1. UNCHANGED <<monthly, slot>> /\ Month(today) <= Month(today')
        /\ Month(today') \in Int
    <3>1. today \in Days /\ today' \in Days /\ today <= today'
      BY <1>10, SendMailAssumption DEF NewDay, TypeOK, Days
    <3> QED BY <1>10, <3>1, CalendarAssumption DEF NewDay
  <2>2. ASSUME NEW m \in Months
        PROVE  monthly'[m] + Cardinality(MonthPending(m)') < MonthlyCap + Cardinality(Slots)
    <3>1. MonthPending(m)' \subseteq MonthPending(m)
      BY <1>t, <2>1 DEF MonthPending, OwesMonth
    <3>2. monthly'[m] <= monthly[m]
      BY <1>t, <2>1
    <3> QED BY <3>1, <3>2, MonthBound
  <2> QED BY <2>2 DEF MonthInv
<1>11. CASE \/ \E c \in Configs : SaveLimits(c)
            \/ SenderChanges
            \/ \E a \in Addresses, n \in Credits : Redeem(a, n)
            \/ UNCHANGED vars
  BY <1>11 DEF SaveLimits, SenderChanges, Redeem, vars, MonthInv, MonthPending, OwesMonth
<1>12. \A s \in Slots : ~LimiterFails(s) /\ ~CountFails(s)
  BY DEF LimiterFails, CountFails, MonthLimited
<1>13. ASSUME NEW s \in Slots, Request(s) PROVE MonthInv'
  BY <1>1, <1>2, <1>3, <1>4, <1>5, <1>6, <1>7, <1>8, <1>9, <1>12, <1>13 DEF Request
<1> QED BY <1>10, <1>11, <1>13 DEF Next, Environment

-----------------------------------------------------------------------------

LEMMA InitCounts == Init => KeysPast /\ DayInv /\ MonthInv
<1> SUFFICES ASSUME Init PROVE KeysPast /\ DayInv /\ MonthInv
  OBVIOUS
<1>1. KeysPast
  BY DEF Init, Idle, KeysPast
<1>2. Cardinality({}) = 0 /\ Cardinality(Slots) \in Nat /\ DailyCap \in Nat \ {0}
      /\ MonthlyCap \in Nat \ {0}
  BY SlotsCounted, FS_EmptySet, SendMailAssumption
<1>3. \A d : DayPending(d) = {}
  BY DEF Init, Idle, DayPending, OwesDay
<1>4. \A m : MonthPending(m) = {}
  BY DEF Init, Idle, MonthPending, OwesMonth
<1>5. DayInv
  BY <1>2, <1>3 DEF Init, DayInv
<1>6. MonthInv
  BY <1>2, <1>4 DEF Init, MonthInv
<1> QED BY <1>1, <1>5, <1>6

\* For any number of requests in flight: as long as D1 answers the checks, a
\* day and a month count fewer mails above their limit than there are requests.
THEOREM SendMailOvershootBounded == Spec => []OvershootBounded
<1>1. Init => TypeOK /\ KeysPast
  BY InitType, InitCounts
<1>2. TypeOK /\ KeysPast /\ [Next]_vars => TypeOK' /\ KeysPast'
  BY NextType, NextPast
<1>3. Init => (DayLimited => DayInv) /\ (MonthLimited => MonthInv)
  BY InitCounts
<1>4. /\ TypeOK /\ KeysPast /\ TypeOK' /\ KeysPast' /\ [Next]_vars
      /\ (DayLimited => DayInv) /\ (MonthLimited => MonthInv)
      => (DayLimited => DayInv)' /\ (MonthLimited => MonthInv)'
  <2>1. (DayLimited' <=> DayLimited) /\ (MonthLimited' <=> MonthLimited)
    BY DEF DayLimited, MonthLimited, Limited
  <2> QED BY <2>1, NextDay, NextMonth
<1>5. TypeOK /\ (DayLimited => DayInv) /\ (MonthLimited => MonthInv) => OvershootBounded
  <2>1. ASSUME TypeOK, DayInv, NEW d \in Days
        PROVE  daily[d] < DailyCap + Cardinality(Slots)
    <3>1. DayPending(d) \in SUBSET Slots
      BY DEF DayPending
    <3>2. /\ Cardinality(DayPending(d)) \in Nat /\ Cardinality(Slots) \in Nat
          /\ daily[d] \in Nat /\ DailyCap \in Nat
      BY <2>1, <3>1, SlotsCounted, SendMailAssumption DEF TypeOK
    <3> QED BY <2>1, <3>2 DEF DayInv
  <2>2. ASSUME TypeOK, MonthInv, NEW m \in Months
        PROVE  monthly[m] < MonthlyCap + Cardinality(Slots)
    <3>1. MonthPending(m) \in SUBSET Slots
      BY DEF MonthPending
    <3>2. /\ Cardinality(MonthPending(m)) \in Nat /\ Cardinality(Slots) \in Nat
          /\ monthly[m] \in Nat /\ MonthlyCap \in Nat
      BY <2>2, <3>1, SlotsCounted, SendMailAssumption DEF TypeOK
    <3> QED BY <2>2, <3>2 DEF MonthInv
  <2> QED BY <2>1, <2>2 DEF OvershootBounded, DayLimited, MonthLimited
<1> QED BY <1>1, <1>2, <1>3, <1>4, <1>5, PTL DEF Spec

\* The cleanup of one request never resets the count another one is checked by:
\* the keys it goes by are never of a day to come.
THEOREM SendMailCurrentCountKept == Spec => CurrentCountKept
<1>1. Init => TypeOK /\ KeysPast
  BY InitType, InitCounts
<1>2. TypeOK /\ KeysPast /\ [Next]_vars => TypeOK' /\ KeysPast'
  BY NextType, NextPast
<1>3. TypeOK /\ KeysPast /\ [Next]_vars =>
        [/\ daily'[today] >= daily[today]
         /\ monthly'[Month(today)] >= monthly[Month(today)]]_vars
  <2> SUFFICES ASSUME TypeOK, KeysPast, Next
               PROVE  /\ daily'[today] >= daily[today]
                      /\ monthly'[Month(today)] >= monthly[Month(today)]
    BY DEF vars
  <2>0. /\ today \in Days /\ Month(today) \in Months
        /\ daily \in [Days -> Nat] /\ monthly \in [Months -> Nat]
    <3>1. today \in Days /\ MaxDay \in Days /\ today <= MaxDay
      BY SendMailAssumption DEF TypeOK, Days
    <3> QED BY <3>1, CalendarAssumption DEF TypeOK, Months
  <2>1. CASE UNCHANGED <<daily, monthly>>
    BY <2>0, <2>1
  <2>2. ASSUME NEW s \in Slots, IncDaily(s) \/ IncMonthly(s)
        PROVE  /\ daily'[today] >= daily[today]
               /\ monthly'[Month(today)] >= monthly[Month(today)]
    BY <2>0, <2>2 DEF IncDaily, IncMonthly
  <2>3. ASSUME NEW s \in Slots, Cleanup(s)
        PROVE  /\ daily'[today] >= daily[today]
               /\ monthly'[Month(today)] >= monthly[Month(today)]
    <3>1. /\ slot[s].day \in Int /\ slot[s].day <= today /\ today \in Int
          /\ Month(slot[s].day) \in Int /\ Month(slot[s].day) <= Month(today)
          /\ Month(today) \in Int
      BY <2>0, MonthNumbers, SendMailAssumption DEF KeysPast, Days
    <3>2. daily'[today] = daily[today] /\ monthly'[Month(today)] = monthly[Month(today)]
      BY <2>0, <2>3, <3>1 DEF Cleanup, Kept
    <3> QED BY <2>0, <3>2
  <2>4. \/ UNCHANGED <<daily, monthly>>
        \/ \E s \in Slots : IncDaily(s) \/ IncMonthly(s) \/ Cleanup(s)
    BY DEF Next, Environment, Request, NewDay, SaveLimits, SenderChanges, Redeem, Start,
           EnsureDefault, ReadBalance, ReadLimits, CheckDaily, CheckMonthly, LimiterFails,
           Rejected, Accepted, ReadCountLimits, CountFails, Deduct, SaveSendbox, Crash
  <2> QED BY <2>1, <2>2, <2>3, <2>4
<1> QED BY <1>1, <1>2, <1>3, PTL DEF Spec, CurrentCountKept

-----------------------------------------------------------------------------
(* Days and months. *)

DaysOf(m) == {d \in Days : Month(d) = m}

\* Requests that counted their day, or never will, and still count the month.
MonthOpen(m) == {s \in Slots : slot[s].pc = "incMonthly" /\ Month(slot[s].day) = m}

\* The inductive invariant behind MonthCoversDays: which configuration a request
\* counts its day by decides whether it counts the month.
CoverInv ==
  /\ \A m \in Months : Sum(daily, DaysOf(m)) <= monthly[m] + Cardinality(MonthOpen(m))
  /\ \A s \in Slots :
       slot[s].pc = "incDaily" => slot[s].rules \in Configs /\ slot[s].rules.daily # Null

LEMMA DaysCounted ==
  ASSUME TypeOK, NEW m \in Months
  PROVE  /\ IsFiniteSet(DaysOf(m)) /\ \A d \in DaysOf(m) : daily[d] \in Nat
         /\ Sum(daily, DaysOf(m)) \in Nat /\ monthly[m] \in Nat
         /\ MonthOpen(m) \in SUBSET Slots /\ Cardinality(MonthOpen(m)) \in Nat
<1>1. IsFiniteSet(Days)
  <2>1. 0 \in Int /\ MaxDay \in Int
    BY SendMailAssumption
  <2> QED BY <2>1, FS_Interval DEF Days
<1>2. IsFiniteSet(DaysOf(m)) /\ \A d \in DaysOf(m) : daily[d] \in Nat
  BY <1>1, FS_Subset DEF DaysOf, TypeOK
<1>3. MonthOpen(m) \in SUBSET Slots
  BY DEF MonthOpen
<1> QED BY <1>2, <1>3, SumNat, SlotsCounted DEF TypeOK

\* A request that neither counts nor leaves or enters the count of its month.
LEMMA CoverQuiet ==
  ASSUME TypeOK, CoverInv, NEW s \in Slots, NEW x, Put(s, x), UNCHANGED <<daily, monthly>>,
         slot[s].pc # "incMonthly", x.pc \notin {"incMonthly", "incDaily"}
  PROVE  CoverInv'
<1>1. \A t \in Slots : slot'[t] = IF t = s THEN x ELSE slot[t]
  BY DEF Put, TypeOK
<1>2. \A m \in Months : MonthOpen(m)' = MonthOpen(m)
  BY <1>1 DEF MonthOpen
<1>3. \A m \in Months : DaysOf(m)' = DaysOf(m)
  BY DEF DaysOf
<1> QED BY <1>1, <1>2, <1>3 DEF CoverInv

\* The configuration is read again, and decides what is counted.
LEMMA ReadCountCover ==
  ASSUME TypeOK, TypeOK', KeysPast, BothCounted, CoverInv, NEW s \in Slots, ReadCountLimits(s)
  PROVE  CoverInv'
<1>0. slot[s].pc = "count" /\ UNCHANGED <<daily, monthly>> /\ config \in Configs
      /\ slot[s] \in Slot
  BY DEF ReadCountLimits, TypeOK
<1>1. CASE CountDone(s)
  <2>1. PICK x : Put(s, x) /\ x.pc \in {"idle", "deduct", "sendbox"}
    BY <1>1, Becomes
  <2> QED BY <1>0, <2>1, CoverQuiet
<1>2. ASSUME NEW l \in {"incDaily", "incMonthly"}, Keyed(s, l, config, today),
             l = "incDaily" => config.daily # Null
      PROVE  CoverInv'
  <2> DEFINE x == [slot[s] EXCEPT !.pc = l, !.rules = config, !.day = today]
  <2>1. x.pc = l /\ x.rules = config /\ x.day = today
    BY <1>0 DEF Slot
  <2>2. Put(s, x)
    BY <1>2 DEF Keyed
  <2> HIDE DEF x
  <2>3. \A t \in Slots : slot'[t] = IF t = s THEN x ELSE slot[t]
    BY <2>2 DEF Put, TypeOK
  <2>4. \A m \in Months : MonthOpen(m) \in SUBSET MonthOpen(m)'
    BY <1>0, <2>3 DEF MonthOpen
  <2>5. ASSUME NEW m \in Months
        PROVE  Sum(daily', DaysOf(m)') <= monthly'[m] + Cardinality(MonthOpen(m)')
    <3>1. /\ Cardinality(MonthOpen(m)) <= Cardinality(MonthOpen(m)')
          /\ Cardinality(MonthOpen(m)') \in Nat
      <4>1. MonthOpen(m)' \in SUBSET Slots
        BY DEF MonthOpen
      <4> QED BY <2>4, <4>1, SlotsCounted
    <3>2. DaysOf(m)' = DaysOf(m)
      BY DEF DaysOf
    <3> QED BY <1>0, <3>1, <3>2, DaysCounted DEF CoverInv
  <2> QED BY <1>0, <1>2, <2>1, <2>3, <2>5 DEF CoverInv
<1> QED BY <1>1, <1>2 DEF ReadCountLimits

\* A day is counted: its request has the month of that day still to count.
LEMMA IncDailyCover ==
  ASSUME TypeOK, TypeOK', KeysPast, BothCounted, CoverInv, NEW s \in Slots, IncDaily(s)
  PROVE  CoverInv'
<1> DEFINE x == [slot[s] EXCEPT !.pc = "incMonthly"]
           e == slot[s].day
<1>0. /\ slot[s].pc = "incDaily" /\ monthly' = monthly /\ slot[s] \in Slot
      /\ daily' = [daily EXCEPT ![e] = daily[e] + 1] /\ e \in Days /\ Month(e) \in Months
  BY MonthNumbers DEF IncDaily, TypeOK
<1>1. Put(s, x)
  <2>1. slot[s].rules.monthly # Null
    BY <1>0 DEF CoverInv, BothCounted
  <2> QED BY <2>1 DEF IncDaily, Goto
<1>2. x.pc = "incMonthly" /\ x.day = e
  BY <1>0 DEF Slot
<1> HIDE DEF x, e
<1>3. \A t \in Slots : slot'[t] = IF t = s THEN x ELSE slot[t]
  BY <1>1 DEF Put, TypeOK
<1>4. ASSUME NEW m \in Months
      PROVE  Sum(daily', DaysOf(m)') <= monthly'[m] + Cardinality(MonthOpen(m)')
  <2>0. /\ DaysOf(m)' = DaysOf(m) /\ \A d \in DaysOf(m) : daily[d] \in Int /\ daily'[d] \in Int
        /\ IsFiniteSet(DaysOf(m)) /\ Sum(daily, DaysOf(m)) \in Int /\ monthly[m] \in Nat
        /\ MonthOpen(m) \in SUBSET Slots /\ Cardinality(MonthOpen(m)) \in Nat
    <3>1. DaysOf(m)' = DaysOf(m)
      BY DEF DaysOf
    <3>2. \A d \in DaysOf(m) : daily'[d] \in Nat
      BY DEF DaysOf, TypeOK
    <3> QED BY <3>1, <3>2, DaysCounted
  <2>1. CASE m = Month(e)
    <3>1. e \in DaysOf(m)
      BY <1>0, <2>1 DEF DaysOf
    <3>2. /\ daily'[e] = daily[e] + 1
          /\ \A d \in DaysOf(m) \ {e} : daily'[d] = daily[d]
      BY <1>0 DEF DaysOf, TypeOK
    <3>3. Sum(daily', DaysOf(m)) = Sum(daily, DaysOf(m)) + daily'[e] - daily[e]
      BY <2>0, <3>1, <3>2, SumChanged
    <3>4. s \notin MonthOpen(m) /\ MonthOpen(m)' = MonthOpen(m) \cup {s}
      BY <1>0, <1>2, <1>3, <2>1 DEF MonthOpen, e
    <3>5. Cardinality(MonthOpen(m)') = Cardinality(MonthOpen(m)) + 1
      BY <2>0, <3>4, SlotsCounted, FS_AddElement
    <3>6. daily[e] \in Int
      BY <2>0, <3>1
    <3> QED BY <1>0, <2>0, <3>2, <3>3, <3>5, <3>6 DEF CoverInv
  <2>2. CASE m # Month(e)
    <3>1. \A d \in DaysOf(m) : daily'[d] = daily[d]
      BY <1>0, <2>2 DEF DaysOf, TypeOK
    <3>2. Sum(daily', DaysOf(m)) = Sum(daily, DaysOf(m))
      BY <2>0, <3>1, SumSame
    <3>3. MonthOpen(m)' = MonthOpen(m)
      BY <1>0, <1>2, <1>3, <2>2 DEF MonthOpen
    <3> QED BY <1>0, <2>0, <3>2, <3>3 DEF CoverInv
  <2> QED BY <2>1, <2>2
<1> QED BY <1>2, <1>3, <1>4 DEF CoverInv

\* The month is counted, and its request has nothing more to count.
LEMMA IncMonthlyCover ==
  ASSUME TypeOK, TypeOK', KeysPast, CoverInv, NEW s \in Slots, IncMonthly(s)
  PROVE  CoverInv'
<1> DEFINE k == Month(slot[s].day)
<1>0. /\ slot[s].pc = "incMonthly" /\ daily' = daily /\ k \in Months
      /\ monthly' = [monthly EXCEPT ![k] = monthly[k] + 1] /\ monthly \in [Months -> Nat]
  BY MonthNumbers DEF IncMonthly, TypeOK
<1>1. PICK x : Put(s, x) /\ x.pc = "cleanup"
  <2>1. Goto(s, "cleanup") /\ "cleanup" \in Labels
    BY DEF IncMonthly, Labels
  <2> QED BY <2>1, Becomes
<1>3. \A t \in Slots : slot'[t] = IF t = s THEN x ELSE slot[t]
  BY <1>1 DEF Put, TypeOK
<1>4. ASSUME NEW m \in Months
      PROVE  Sum(daily', DaysOf(m)') <= monthly'[m] + Cardinality(MonthOpen(m)')
  <2>0. /\ DaysOf(m)' = DaysOf(m)
        /\ Sum(daily, DaysOf(m)) \in Int /\ monthly[m] \in Nat
        /\ MonthOpen(m) \in SUBSET Slots /\ Cardinality(MonthOpen(m)) \in Nat
        /\ Sum(daily, DaysOf(m)) <= monthly[m] + Cardinality(MonthOpen(m))
    BY DaysCounted DEF DaysOf, CoverInv
  <2>1. CASE m = k
    <3>1. s \in MonthOpen(m) /\ MonthOpen(m)' = MonthOpen(m) \ {s}
      BY <1>0, <1>1, <1>3, <2>1 DEF MonthOpen
    <3>2. Cardinality(MonthOpen(m)') = Cardinality(MonthOpen(m)) - 1
      BY <2>0, <3>1, SlotsCounted
    <3>3. monthly'[m] = monthly[m] + 1
      BY <1>0, <2>1
    <3> QED BY <1>0, <2>0, <3>2, <3>3
  <2>2. CASE m # k
    <3>1. MonthOpen(m)' = MonthOpen(m)
      BY <1>0, <1>1, <1>3, <2>2 DEF MonthOpen
    <3>2. monthly'[m] = monthly[m]
      BY <1>0, <2>2
    <3> QED BY <1>0, <2>0, <3>1, <3>2
  <2> QED BY <2>1, <2>2
<1> QED BY <1>1, <1>3, <1>4 DEF CoverInv

\* The cleanup removes the days of a month whenever it removes the month.
LEMMA CleanupCover ==
  ASSUME TypeOK, TypeOK', KeysPast, CoverInv, NEW s \in Slots, Cleanup(s)
  PROVE  CoverInv'
<1> DEFINE e == slot[s].day
<1>0. /\ slot[s].pc = "cleanup" /\ e \in Days /\ Month(e) \in Months
      /\ daily' = Kept(daily, e) /\ monthly' = Kept(monthly, Month(e))
      /\ Months \subseteq Int /\ Days \subseteq Int
  BY MonthNumbers DEF Cleanup, Days
<1>1. PICK x : Put(s, x) /\ x.pc \in {"idle", "deduct", "sendbox"}
  BY Becomes DEF Cleanup
<1>3. \A t \in Slots : slot'[t] = IF t = s THEN x ELSE slot[t]
  BY <1>1 DEF Put, TypeOK
<1> HIDE DEF e
<1>4. ASSUME NEW m \in Months
      PROVE  Sum(daily', DaysOf(m)') <= monthly'[m] + Cardinality(MonthOpen(m)')
  <2>0. /\ DaysOf(m)' = DaysOf(m) /\ IsFiniteSet(DaysOf(m))
        /\ \A d \in DaysOf(m) : daily[d] \in Nat /\ daily'[d] \in Nat
        /\ Sum(daily, DaysOf(m)) \in Int /\ monthly[m] \in Nat
        /\ Cardinality(MonthOpen(m)) \in Nat
        /\ Sum(daily, DaysOf(m)) <= monthly[m] + Cardinality(MonthOpen(m))
    <3>1. DaysOf(m)' = DaysOf(m)
      BY DEF DaysOf
    <3>2. \A d \in DaysOf(m) : daily'[d] \in Nat
      BY DEF DaysOf, TypeOK
    <3> QED BY <3>1, <3>2, DaysCounted DEF CoverInv
  <2>1. MonthOpen(m)' = MonthOpen(m)
    BY <1>0, <1>1, <1>3 DEF MonthOpen
  <2>2. \A d \in DaysOf(m) : daily'[d] = IF d < e THEN 0 ELSE daily[d]
    BY <1>0 DEF Kept, DaysOf, TypeOK
  <2>3. monthly'[m] = IF m < Month(e) THEN 0 ELSE monthly[m]
    BY <1>0 DEF Kept, TypeOK
  <2>4. CASE m < Month(e)
    <3> DEFINE none == [d \in DaysOf(m) |-> 0]
    <3>1. \A d \in DaysOf(m) : d < e
      <4>1. ASSUME NEW d \in DaysOf(m), e <= d PROVE FALSE
        BY <1>0, <2>4, <4>1, CalendarAssumption DEF DaysOf
      <4> QED BY <1>0, <4>1 DEF DaysOf
    <3>2. \A d \in DaysOf(m) : daily'[d] = daily[d] - daily[d] /\ daily'[d] = 0
      BY <2>0, <2>2, <3>1
    <3>3. Sum(daily', DaysOf(m)) = 0
      BY <2>0, <3>2, SumOfZeros
    <3> QED BY <2>0, <2>1, <2>3, <2>4, <3>3
  <2>5. CASE ~(m < Month(e))
    <3>1. \A d \in DaysOf(m) : daily'[d] <= daily[d]
      BY <2>0, <2>2
    <3>2. Sum(daily', DaysOf(m)) <= Sum(daily, DaysOf(m)) /\ Sum(daily', DaysOf(m)) \in Int
      BY <2>0, <3>1, SumMonotonic, SumType
    <3> QED BY <2>0, <2>1, <2>3, <2>5, <3>2
  <2> QED BY <2>4, <2>5
<1> QED BY <1>1, <1>3, <1>4 DEF CoverInv

LEMMA NextCover ==
  ASSUME TypeOK, TypeOK', KeysPast, BothCounted, CoverInv, [Next]_vars
  PROVE  CoverInv'
<1>l. {"balance", "limits", "sendbox"} \subseteq Labels
  BY DEF Labels
<1>1. ASSUME NEW s \in Slots, NEW a \in Addresses, NEW k \in Kinds, Start(s, a, k)
      PROVE  CoverInv'
  <2> DEFINE x == [pc |-> IF k = "user" THEN "default" ELSE "limits",
                   kind |-> k, from |-> a, rules |-> Null, day |-> 0]
  <2>1. /\ Put(s, x) /\ UNCHANGED <<daily, monthly>> /\ slot[s].pc # "incMonthly"
        /\ x.pc \notin {"incMonthly", "incDaily"}
    BY <1>1 DEF Start
  <2> HIDE DEF x
  <2> QED BY <2>1, CoverQuiet
<1>2. ASSUME NEW s \in Slots, EnsureDefault(s) \/ ReadBalance(s) \/ Rejected(s)
             \/ SaveSendbox(s) \/ Deduct(s)
      PROVE  CoverInv'
  <2>1. UNCHANGED <<daily, monthly>> /\ slot[s].pc # "incMonthly"
    BY <1>2 DEF EnsureDefault, ReadBalance, Rejected, SaveSendbox, Deduct
  <2>2. Leave(s) \/ \E l \in {"balance", "limits", "sendbox"} : Goto(s, l)
    BY <1>2 DEF EnsureDefault, ReadBalance, Rejected, SaveSendbox, Deduct
  <2>3. PICK x : Put(s, x) /\ x.pc \in {"idle", "balance", "limits", "sendbox"}
    BY <1>l, <2>2, Becomes
  <2> QED BY <2>1, <2>3, CoverQuiet
<1>3. ASSUME NEW s \in Slots, ReadLimits(s) \/ CheckDaily(s) \/ CheckMonthly(s)
      PROVE  CoverInv'
  <2>1. UNCHANGED <<daily, monthly>> /\ slot[s].pc \notin {"incMonthly", "incDaily"}
    BY <1>3 DEF ReadLimits, CheckDaily, CheckMonthly
  <2>2. \/ Leave(s)
        \/ \E c \in Configs, label \in {"daily", "monthly", "send"} : Check(s, c, label)
    BY <1>3, Becomes DEF ReadLimits, CheckDaily, CheckMonthly, TypeOK, PastKeyed
  <2>3. \A c \in Configs, label \in {"daily", "monthly", "send"} :
          CheckNext(c, label) \notin {"incMonthly", "incDaily"}
    BY DEF CheckNext
  <2>4. PICK x : Put(s, x) /\ x.pc \notin {"incMonthly", "incDaily"}
    BY <2>2, <2>3, Becomes, CheckBecomes
  <2> QED BY <2>1, <2>4, CoverQuiet
<1>5. ASSUME NEW s \in Slots, NEW v \in BOOLEAN, Accepted(s, v) PROVE CoverInv'
  <2> DEFINE k == IF v /\ slot[s].kind = "user" THEN "exempt" ELSE slot[s].kind
             x == [slot[s] EXCEPT !.pc = "count", !.kind = k]
  <2>0. slot[s].pc = "send" /\ UNCHANGED <<daily, monthly>> /\ (Put(s, x) \/ Leave(s))
    BY <1>5 DEF Accepted
  <2>1. x.pc = "count"
    BY Becomes DEF Slot
  <2>2. PICK y : Put(s, y) /\ y.pc \in {"count", "idle"}
    <3> HIDE DEF x
    <3> QED BY <2>0, <2>1, Becomes
  <2> QED BY <2>0, <2>2, CoverQuiet
<1>6. ASSUME NEW s \in Slots,
             ReadCountLimits(s) \/ IncDaily(s) \/ IncMonthly(s) \/ Cleanup(s)
      PROVE  CoverInv'
  BY <1>6, ReadCountCover, IncDailyCover, IncMonthlyCover, CleanupCover
<1>7. \A s \in Slots : ~LimiterFails(s) /\ ~CountFails(s) /\ ~Crash(s)
  BY DEF LimiterFails, CountFails, Crash, BothCounted
<1>8. CASE Environment \/ UNCHANGED vars
  <2>1. UNCHANGED <<slot, daily, monthly>>
    BY <1>8 DEF Environment, NewDay, SaveLimits, SenderChanges, Redeem, vars
  <2> QED BY <2>1 DEF CoverInv, DaysOf, MonthOpen
<1> QED BY <1>1, <1>2, <1>3, <1>5, <1>6, <1>7, <1>8 DEF Next, Request

\* Whatever the interleaving with midnight, the days of a month never count more
\* than the month: sums of counts, for any calendar and any number of requests.
THEOREM SendMailMonthCoversDays == Spec => []MonthCoversDays
<1>1. Init => TypeOK /\ KeysPast /\ CoverInv
  <2> SUFFICES ASSUME Init PROVE CoverInv
    BY InitType, InitCounts
  <2>1. TypeOK
    BY InitType
  <2>2. ASSUME NEW m \in Months
        PROVE  Sum(daily, DaysOf(m)) <= monthly[m] + Cardinality(MonthOpen(m))
    <3>1. \A d \in DaysOf(m) : daily[d] = 0
      BY DEF Init, DaysOf
    <3>2. Sum(daily, DaysOf(m)) = 0
      BY <2>1, <3>1, DaysCounted, SumOfZeros
    <3> QED BY <2>1, <3>2, DaysCounted
  <2> QED BY <2>2 DEF Init, Idle, CoverInv
<1>2. TypeOK /\ KeysPast /\ [Next]_vars => TypeOK' /\ KeysPast'
  BY NextType, NextPast
<1>3. /\ TypeOK /\ TypeOK' /\ KeysPast /\ [Next]_vars /\ (BothCounted => CoverInv)
      => (BothCounted => CoverInv)'
  <2>1. BothCounted' <=> BothCounted
    BY DEF BothCounted
  <2> QED BY <2>1, NextCover
<1>4. (BothCounted => CoverInv) => MonthCoversDays
  BY DEF CoverInv, MonthCoversDays, Sum, DaysOf, MonthOpen
<1> QED BY <1>1, <1>2, <1>3, <1>4, PTL DEF Spec
=============================================================================
