---------------------- MODULE RedeemSendBalanceProofs ----------------------
(***************************************************************************)
(* For every number of requests, codes, mailboxes and every setting of the *)
(* default balance: a code for sending credits is consumed once, replies   *)
(* are truthful, balances add up, and the handler implements the ledger.   *)
(***************************************************************************)
EXTENDS RedeemSendBalance, SharedLemmas

\* The request has passed getRedeemCodeForRedemption, so its local state is set.
LocalsSet ==
  \A r \in Requests :
    req[r].pc \in {"address", "default", "claim", "balance"} =>
      /\ req[r].code \in Codes
      /\ req[r].value \in Values
      /\ req[r].to \in Addresses
      /\ req[r].reply = "none"

\* A credit belongs to a request that took its code and has not reported a
\* refusal, and a code that gave a credit was issued.
GrantsAccounted ==
  \A g \in grants :
    /\ codes[g.code].status # "unissued"
    /\ req[g.by].pc \in {"balance", "done"}
    /\ req[g.by].reply # "refused"

\* A request that is about to report success gave a credit.
SuccessIsGranted ==
  \A r \in Requests :
    (req[r].pc = "balance" \/ req[r].reply = "ok") => \E g \in grants : g.by = r

\* The inductive invariant: ConsumedOnce is not inductive by itself, because a
\* code's grant must also outlive the code's row, which TableShape and
\* GrantsAccounted say, and the batch must act on well-defined local state.
IInv ==
  /\ TypeOK
  /\ TableShape
  /\ LocalsSet
  /\ GrantsAccounted
  /\ SuccessIsGranted
  /\ ConsumedOnce

-----------------------------------------------------------------------------
(* The initial state. *)

\* Every request starts with nothing redeemed and nothing granted.
LEMMA InitIInv == Init => IInv
<1> SUFFICES ASSUME Init PROVE IInv
  OBVIOUS
<1> USE DEF Init, SenderInit
<1>1. TypeOK
  <2>1. codes \in [Codes -> CodeRow(Result)]
    BY DEF CodesInit, CodeRow, NoRow
  <2>2. NoSender \in SenderRow
    BY DEF NoSender, SenderRow
  <2>3. Idle \in RequestState
    BY DEF Idle, RequestState
  <2> QED BY <2>1, <2>2, <2>3 DEF TypeOK
<1>2. TableShape
  BY DEF TableShape, CodesInit, NoRow
<1>3. LocalsSet /\ GrantsAccounted /\ SuccessIsGranted
  BY DEF LocalsSet, GrantsAccounted, SuccessIsGranted, Idle
<1>4. ConsumedOnce
  BY DEF ConsumedOnce, CodesInit, NoRow
<1> QED BY <1>1, <1>2, <1>3, <1>4 DEF IInv

-----------------------------------------------------------------------------
(* Types. *)

\* Moving a request on, or ending it, keeps the shape of its local state.
LEMMA RequestSteps ==
  ASSUME TypeOK, NEW r \in Requests,
         NEW label \in {"start", "address", "default", "claim", "balance", "done"},
         NEW answer \in {"none", "ok", "refused", "lost"}
  PROVE  /\ Goto(r, label) \in [Requests -> RequestState]
         /\ Finish(r, answer) \in [Requests -> RequestState]
<1>1. req \in [Requests -> RequestState]
  BY DEF TypeOK
<1>2. [req[r] EXCEPT !.pc = label] \in RequestState
  BY <1>1 DEF RequestState
<1>3. [req[r] EXCEPT !.pc = "done", !.reply = answer] \in RequestState
  BY <1>1 DEF RequestState
<1> QED BY <1>1, <1>2, <1>3 DEF Goto, Finish

\* The admin and the applicants write rows of the table.
LEMMA SenderStepType ==
  ASSUME sender \in [Addresses -> SenderRow], adjusted \subseteq Addresses, SenderStep
  PROVE  /\ sender' \in [Addresses -> SenderRow]
         /\ adjusted' \subseteq Addresses
<1>1. ASSUME NEW a \in Addresses, NEW b \in AdminBalances, NEW on \in BOOLEAN,
             AdminSetSender(a, b, on)
      PROVE  sender' \in [Addresses -> SenderRow] /\ adjusted' \subseteq Addresses
  <2>1. [row |-> TRUE, balance |-> b, enabled |-> on] \in SenderRow
    BY SenderAssumption DEF SenderRow
  <2> QED BY <1>1, <2>1 DEF AdminSetSender
<1>2. ASSUME NEW a \in Addresses, AdminRemoveSender(a)
      PROVE  sender' \in [Addresses -> SenderRow] /\ adjusted' \subseteq Addresses
  <2>1. NoSender \in SenderRow
    BY DEF NoSender, SenderRow
  <2> QED BY <1>2, <2>1 DEF AdminRemoveSender
<1>3. ASSUME NEW a \in Addresses, OpenSender(a)
      PROVE  sender' \in [Addresses -> SenderRow] /\ adjusted' \subseteq Addresses
  <2>1. [row |-> TRUE, balance |-> DefaultBalance, enabled |-> DefaultBalance > 0]
          \in SenderRow
    BY SenderAssumption DEF SenderRow
  <2> QED BY <1>3, <2>1 DEF OpenSender
<1> QED BY <1>1, <1>2, <1>3 DEF SenderStep

\* A claimed row is a row of the table again, and so is a credited sender.
LEMMA ClaimTypes ==
  ASSUME TypeOK, NEW c \in Codes, NEW a \in Addresses, NEW v \in Values
  PROVE  /\ Redeemed(c, [to |-> a, amount |-> v]) \in CodeRow(Result)
         /\ Credited(sender[a], v) \in SenderRow
<1>1. codes[c] \in CodeRow(Result) /\ sender[a] \in SenderRow
  BY DEF TypeOK
<1>2. [to |-> a, amount |-> v] \in Result
  BY DEF Result
<1>3. Redeemed(c, [to |-> a, amount |-> v]) \in CodeRow(Result)
  BY <1>1, <1>2 DEF Redeemed, CodeRow
<1>4. v \in Int
  BY SendBalanceAssumption
<1>5. CASE sender[a].row
  <2>1. ((IF sender[a].balance = Null THEN 0 ELSE sender[a].balance) + v) \in Int
    BY <1>1, <1>4 DEF SenderRow
  <2> QED BY <1>1, <1>3, <1>5, <2>1 DEF Credited, SenderRow
<1>6. CASE ~sender[a].row
  BY <1>3, <1>4, <1>6 DEF Credited, SenderRow
<1> QED BY <1>5, <1>6

\* The steps of redeemSendBalance, the admin and the mailer keep the types.
LEMMA NextType == TypeOK /\ LocalsSet /\ [Next]_vars => TypeOK'
<1> SUFFICES ASSUME TypeOK, LocalsSet, [Next]_vars PROVE TypeOK'
  OBVIOUS
<1>0. NoSender \in SenderRow
  BY DEF NoSender, SenderRow
<1>1. ASSUME NEW r \in Requests, NEW c \in Codes, NEW a \in Addresses, ReadCode(r, c, a)
      PROVE  TypeOK'
  <2>1. CASE Available(c) /\ ~codes[c].redeemed
    <3>1. codes[c].value \in Values \cup {Null}
      BY DEF TypeOK, CodeRow
    <3>2. [pc |-> "address", code |-> c, value |-> codes[c].value, to |-> a,
           reply |-> "none"] \in RequestState
      BY <3>1 DEF RequestState
    <3> QED BY <1>1, <2>1, <3>2 DEF ReadCode, TypeOK
  <2>2. CASE ~(Available(c) /\ ~codes[c].redeemed)
    BY <1>1, <2>2, RequestSteps DEF ReadCode, TypeOK
  <2> QED BY <2>1, <2>2
<1>2. ASSUME NEW r \in Requests, FindAddress(r) PROVE TypeOK'
  BY <1>2, RequestSteps DEF FindAddress, TypeOK
<1>3. ASSUME NEW r \in Requests, EnsureDefault(r) PROVE TypeOK'
  <2>1. \A s \in SenderRow : WithDefault(s) \in SenderRow
    BY SenderAssumption DEF WithDefault, SenderRow
  <2> QED BY <1>3, <2>1, RequestSteps DEF EnsureDefault, TypeOK
<1>4. ASSUME NEW r \in Requests, ClaimAndCredit(r) PROVE TypeOK'
  <2> DEFINE c == req[r].code
             v == req[r].value
             a == req[r].to
             box == [to |-> a, amount |-> v]
             g == [code |-> c, value |-> v, to |-> a, by |-> r]
  <2>1. c \in Codes /\ v \in Values /\ a \in Addresses
    BY <1>4 DEF ClaimAndCredit, LocalsSet
  <2>2. CASE codes' = [codes EXCEPT ![c] = Redeemed(c, box)]
             /\ sender' = [sender EXCEPT ![a] = Credited(sender[a], v)]
             /\ grants' = grants \cup {g}
             /\ req' = Goto(r, "balance")
             /\ UNCHANGED <<address, sent, adjusted>>
    <3>1. Redeemed(c, box) \in CodeRow(Result) /\ Credited(sender[a], v) \in SenderRow
      BY <2>1, ClaimTypes
    <3>2. g \in Grant
      BY <2>1 DEF Grant
    <3>3. req' \in [Requests -> RequestState]
      BY <2>2, RequestSteps
    <3> HIDE DEF c, v, a, box, g
    <3> QED BY <2>1, <2>2, <3>1, <3>2, <3>3 DEF TypeOK
  <2>3. CASE req' = Finish(r, "refused")
             /\ UNCHANGED <<codes, address, sender, grants, sent, adjusted>>
    BY <2>3, RequestSteps DEF TypeOK
  <2> QED BY <1>4, <2>2, <2>3 DEF ClaimAndCredit
<1>5. ASSUME NEW r \in Requests, ReadBalance(r) PROVE TypeOK'
  BY <1>5, RequestSteps DEF ReadBalance, TypeOK
<1>6. ASSUME NEW r \in Requests, Abandon(r) PROVE TypeOK'
  BY <1>6, RequestSteps DEF Abandon, TypeOK
<1>7. CASE TableChanges
  BY <1>7, TableStepType DEF TableChanges, TypeOK
<1>8. ASSUME NEW a \in Addresses, CreateAddress(a) PROVE TypeOK'
  BY <1>8 DEF CreateAddress, TypeOK
<1>9. ASSUME NEW a \in Addresses, DeleteAddress(a) PROVE TypeOK'
  BY <1>0, <1>9 DEF DeleteAddress, TypeOK
<1>10. CASE SenderChanges
  BY <1>10, SenderStepType DEF SenderChanges, TypeOK
<1>11. ASSUME NEW a \in Addresses, Deduct(a) PROVE TypeOK'
  <2>1. sender[a] \in SenderRow
    BY DEF TypeOK
  <2>2. (IF sender[a].balance = Null THEN Null ELSE sender[a].balance - 1)
          \in Int \cup {Null}
    BY <2>1 DEF SenderRow
  <2>3. Deducted(sender[a]) \in SenderRow
    BY <2>1, <2>2 DEF Deducted, SenderRow
  <2> QED BY <1>11, <2>3 DEF Deduct, TypeOK
<1>12. CASE UNCHANGED vars
  BY <1>12 DEF vars, TypeOK
<1> QED
  BY <1>1, <1>2, <1>3, <1>4, <1>5, <1>6, <1>7, <1>8, <1>9, <1>10, <1>11, <1>12
     DEF Next, Environment, Request

-----------------------------------------------------------------------------
(* The inductive step. *)

\* What a step of one request leaves of the requests' local state.
LEMMA RequestFields ==
  ASSUME TypeOK, NEW r \in Requests, NEW label, NEW answer
  PROVE  /\ \A q \in Requests \ {r} : /\ Goto(r, label)[q] = req[q]
                                      /\ Finish(r, answer)[q] = req[q]
         /\ Goto(r, label)[r].pc = label
         /\ Goto(r, label)[r].code = req[r].code
         /\ Goto(r, label)[r].value = req[r].value
         /\ Goto(r, label)[r].to = req[r].to
         /\ Goto(r, label)[r].reply = req[r].reply
         /\ Finish(r, answer)[r].pc = "done"
         /\ Finish(r, answer)[r].reply = answer
<1>1. req \in [Requests -> RequestState] /\ req[r] \in RequestState
  BY DEF TypeOK
<1> QED BY <1>1 DEF Goto, Finish, RequestState

\* The parts of the invariant beyond the types.
Claims ==
  /\ TableShape
  /\ LocalsSet
  /\ GrantsAccounted
  /\ SuccessIsGranted
  /\ ConsumedOnce

\* A step that touches neither codes nor requests nor grants keeps the claims:
\* all of mail sending, mailbox management and the admin's sender edits.
LEMMA StutterClaims ==
  ASSUME Claims, UNCHANGED <<codes, req, grants>>
  PROVE  Claims'
BY DEF Claims, TableShape, LocalsSet, GrantsAccounted, SuccessIsGranted, ConsumedOnce

\* A request that has not claimed yet, or only replies, may move on or end
\* without harm, as long as it reports success exactly after its claim.
LEMMA QuietRequest ==
  ASSUME TypeOK, Claims, NEW r \in Requests, UNCHANGED <<codes, grants>>,
         \/ /\ req[r].pc \in {"address", "default"}
            /\ \E label \in {"default", "claim"} : req' = Goto(r, label)
         \/ /\ req[r].pc \in {"start", "address", "claim"}
            /\ req' = Finish(r, "refused")
         \/ /\ req[r].pc = "balance"
            /\ req' = Finish(r, "ok")
         \/ req' = Finish(r, "lost") /\ req[r].pc # "start"
  PROVE  Claims'
<1> USE DEF Claims
<1>0. \A g \in grants : g.by \in Requests
  BY DEF TypeOK, Grant
<1>1. CASE /\ req[r].pc \in {"address", "default"}
           /\ \E label \in {"default", "claim"} : req' = Goto(r, label)
  <2>1. PICK label \in {"default", "claim"} : req' = Goto(r, label)
    BY <1>1
  <2> QED
    BY <1>0, <1>1, <2>1, RequestFields
       DEF TableShape, LocalsSet, GrantsAccounted, SuccessIsGranted, ConsumedOnce
<1>2. CASE /\ req[r].pc \in {"start", "address", "claim"}
           /\ req' = Finish(r, "refused")
  BY <1>0, <1>2, RequestFields
     DEF TableShape, LocalsSet, GrantsAccounted, SuccessIsGranted, ConsumedOnce
<1>3. CASE req[r].pc = "balance" /\ req' = Finish(r, "ok")
  BY <1>0, <1>3, RequestFields
     DEF TableShape, LocalsSet, GrantsAccounted, SuccessIsGranted, ConsumedOnce
<1>4. CASE req' = Finish(r, "lost") /\ req[r].pc # "start"
  <2>1. \A g \in grants : req'[g.by].pc \in {"balance", "done"}
    BY <1>0, <1>4, RequestFields DEF GrantsAccounted
  <2> QED
    BY <1>0, <1>4, <2>1, RequestFields
       DEF TableShape, LocalsSet, GrantsAccounted, SuccessIsGranted, ConsumedOnce
<1> QED BY <1>1, <1>2, <1>3, <1>4

\* The admin and the clock do not disturb what was redeemed.
LEMMA TableClaims == ASSUME TypeOK, Claims, TableChanges PROVE Claims'
<1> USE DEF Claims
<1>1. /\ TableShape'
      /\ \A c \in Codes :
           /\ codes[c].status # "unissued" => codes'[c].status # "unissued"
           /\ codes[c].status = "deleted" => codes'[c].status = "deleted"
           /\ codes'[c].status = "live" =>
                /\ codes'[c].redeemed = codes[c].redeemed
                /\ codes'[c].result = codes[c].result
  BY TableStepKeeps DEF TableChanges, TypeOK
<1>2. grants' = grants /\ req' = req /\ \A g \in grants : g.code \in Codes
  BY DEF TableChanges, TypeOK, Grant
<1>3. ConsumedOnce'
  <2>1. ASSUME NEW c \in Codes, codes'[c].status = "live"
        PROVE  codes'[c].redeemed <=> \E g \in grants : g.code = c
    <3>1. codes[c].status \in {"unissued", "live", "deleted"}
      BY DEF TypeOK, CodeRow
    <3>2. CASE codes[c].status = "live"
      BY <1>1, <2>1, <3>2 DEF ConsumedOnce
    <3>3. CASE codes[c].status = "unissued"
      <4>1. ~codes[c].redeemed
        <5>1. codes[c] = NoRow("unissued")
          BY <3>3 DEF TableShape
        <5> QED BY <5>1 DEF NoRow
      <4>2. codes'[c].redeemed = codes[c].redeemed
        BY <1>1, <2>1
      <4>3. ~ \E g \in grants : g.code = c
        BY <3>3 DEF GrantsAccounted
      <4> QED BY <4>1, <4>2, <4>3
    <3>4. CASE codes[c].status = "deleted"
      BY <1>1, <2>1, <3>4
    <3> QED BY <3>1, <3>2, <3>3, <3>4
  <2> QED BY <1>2, <2>1 DEF ConsumedOnce
<1>4. GrantsAccounted'
  BY <1>1, <1>2 DEF GrantsAccounted
<1> QED BY <1>1, <1>2, <1>3, <1>4 DEF LocalsSet, SuccessIsGranted

\* The batch of redeemSendBalance: when it claims, nothing was granted for the
\* code before, and the code and its one grant are recorded together.
LEMMA ClaimClaims ==
  ASSUME TypeOK, Claims, NEW r \in Requests, ClaimAndCredit(r)
  PROVE  Claims'
<1> DEFINE c == req[r].code
           v == req[r].value
           a == req[r].to
           box == [to |-> a, amount |-> v]
           g == [code |-> c, value |-> v, to |-> a, by |-> r]
<1>1. c \in Codes /\ v \in Values /\ a \in Addresses /\ req[r].pc = "claim"
      /\ req[r].reply = "none"
  BY DEF ClaimAndCredit, LocalsSet, Claims
<1>2. CASE req' = Finish(r, "refused") /\ UNCHANGED <<codes, sender, grants>>
  BY <1>1, <1>2, QuietRequest
<1>3. CASE /\ Claimable(c, v)
           /\ codes' = [codes EXCEPT ![c] = Redeemed(c, box)]
           /\ grants' = grants \cup {g}
           /\ req' = Goto(r, "balance")
  <2>1. /\ codes[c].status = "live" /\ codes[c].redeemed = FALSE
        /\ \A h \in grants : h.code # c
    <3>1. codes[c].status = "live" /\ ~codes[c].redeemed
      BY <1>3 DEF Claimable, Available
    <3>2. codes[c].redeemed \in BOOLEAN
      BY <1>1 DEF TypeOK, CodeRow
    <3> QED BY <1>1, <3>1, <3>2 DEF Claims, ConsumedOnce
  <2>2. codes'[c].status = "live" /\ codes'[c].redeemed = TRUE
    BY <1>1, <1>3, <2>1 DEF Redeemed, TypeOK, CodeRow
  <2>3. \A d \in Codes \ {c} : codes'[d] = codes[d]
    BY <1>3 DEF TypeOK
  <2>4. g.code = c /\ g.by = r
    OBVIOUS
  <2>5. \A h \in grants : h.by \in Requests /\ h.by # r
    BY <1>1 DEF Claims, GrantsAccounted, TypeOK, Grant
  <2>6. g \in grants' /\ \A h \in grants' : h = g \/ h \in grants
    BY <1>3
  <2> HIDE DEF c, v, a, g, box
  <2>7. TableShape'
    <3>1. codes'[c].value = codes[c].value
      BY <1>1, <1>3 DEF Redeemed, TypeOK, CodeRow
    <3> QED BY <2>1, <2>2, <2>3, <3>1 DEF Claims, TableShape
  <2>8. LocalsSet'
    BY <1>1, <1>3, RequestFields DEF Claims, LocalsSet, c, v, a
  <2>9. GrantsAccounted'
    <3>1. ASSUME NEW h \in grants'
          PROVE  /\ codes'[h.code].status # "unissued"
                 /\ req'[h.by].pc \in {"balance", "done"}
                 /\ req'[h.by].reply # "refused"
      <4>1. CASE h = g
        BY <1>1, <1>3, <2>2, <2>4, <4>1, RequestFields
      <4>2. CASE h \in grants
        <5>1. h.code \in Codes
          BY <4>2 DEF TypeOK, Grant
        <5> QED BY <1>3, <2>1, <2>2, <2>3, <2>5, <4>2, <5>1, RequestFields
                   DEF Claims, GrantsAccounted
      <4> QED BY <2>6, <4>1, <4>2
    <3> QED BY <3>1 DEF GrantsAccounted
  <2>10. SuccessIsGranted'
    BY <1>3, <2>4, <2>6, RequestFields DEF Claims, SuccessIsGranted
  <2>11. ConsumedOnce'
    <3>1. ASSUME NEW h \in grants', NEW k \in grants', h.code = k.code
          PROVE  h = k
      BY <2>1, <2>4, <2>6, <3>1 DEF Claims, ConsumedOnce
    <3>2. ASSUME NEW d \in Codes, codes'[d].status = "live"
          PROVE  codes'[d].redeemed <=> \E h \in grants' : h.code = d
      <4>1. CASE d = c
        BY <2>2, <2>4, <2>6, <4>1
      <4>2. CASE d # c
        BY <1>3, <2>3, <2>4, <2>6, <3>2, <4>2 DEF Claims, ConsumedOnce
      <4> QED BY <4>1, <4>2
    <3> QED BY <3>1, <3>2 DEF ConsumedOnce
  <2> QED BY <2>7, <2>8, <2>9, <2>10, <2>11 DEF Claims
<1> QED BY <1>2, <1>3 DEF ClaimAndCredit

\* Every step of the system keeps the inductive invariant.
LEMMA NextIInv == IInv /\ [Next]_vars => IInv'
<1> SUFFICES ASSUME IInv, [Next]_vars PROVE Claims'
  BY NextType DEF IInv, Claims
<1>0. TypeOK /\ Claims
  BY DEF IInv, Claims
<1>1. ASSUME NEW r \in Requests, NEW c \in Codes, NEW a \in Addresses, ReadCode(r, c, a)
      PROVE  Claims'
  <2>1. CASE Available(c) /\ ~codes[c].redeemed
    <3> DEFINE local == [pc |-> "address", code |-> c, value |-> codes[c].value,
                         to |-> a, reply |-> "none"]
    <3>1. codes[c].value \in Values
      BY <1>0, <2>1 DEF Claims, TableShape, Available
    <3>2. /\ req' = [req EXCEPT ![r] = local]
          /\ req[r].pc = "start" /\ UNCHANGED <<codes, grants>>
      BY <1>1, <2>1 DEF ReadCode
    <3>3. \A g \in grants : g.by \in Requests /\ g.by # r
      BY <1>0, <3>2 DEF Claims, GrantsAccounted, TypeOK, Grant
    <3>4. req'[r] = local /\ \A q \in Requests \ {r} : req'[q] = req[q]
      BY <1>0, <3>2 DEF TypeOK
    <3> QED
      BY <1>0, <3>1, <3>2, <3>3, <3>4
         DEF Claims, TableShape, LocalsSet, GrantsAccounted, SuccessIsGranted, ConsumedOnce
  <2>2. CASE ~(Available(c) /\ ~codes[c].redeemed)
    BY <1>0, <1>1, <2>2, QuietRequest DEF ReadCode
  <2> QED BY <2>1, <2>2
<1>2. ASSUME NEW r \in Requests, FindAddress(r) PROVE Claims'
  BY <1>0, <1>2, QuietRequest DEF FindAddress
<1>3. ASSUME NEW r \in Requests, EnsureDefault(r) PROVE Claims'
  BY <1>0, <1>3, QuietRequest DEF EnsureDefault
<1>4. ASSUME NEW r \in Requests, ClaimAndCredit(r) PROVE Claims'
  BY <1>0, <1>4, ClaimClaims
<1>5. ASSUME NEW r \in Requests, ReadBalance(r) PROVE Claims'
  BY <1>0, <1>5, QuietRequest DEF ReadBalance
<1>6. ASSUME NEW r \in Requests, Abandon(r) PROVE Claims'
  BY <1>0, <1>6, QuietRequest DEF Abandon
<1>7. CASE TableChanges
  BY <1>0, <1>7, TableClaims
<1>8. ASSUME NEW a \in Addresses,
             CreateAddress(a) \/ DeleteAddress(a) \/ Deduct(a)
      PROVE  Claims'
  BY <1>0, <1>8, StutterClaims
     DEF CreateAddress, DeleteAddress, Deduct
<1>9. CASE SenderChanges
  BY <1>0, <1>9, StutterClaims DEF SenderChanges
<1>10. CASE UNCHANGED vars
  BY <1>0, <1>10, StutterClaims DEF vars
<1> QED
  BY <1>1, <1>2, <1>3, <1>4, <1>5, <1>6, <1>7, <1>8, <1>9, <1>10 DEF Next, Environment, Request

-----------------------------------------------------------------------------
(* What follows. *)

\* The inductive invariant holds in every state of every execution.
THEOREM SendBalanceIInv == Spec => []IInv
<1>1. Init => IInv
  BY InitIInv
<1>2. IInv /\ [Next]_vars => IInv'
  BY NextIInv
<1> QED BY <1>1, <1>2, PTL DEF Spec

\* Tables, requests and history keep their types whatever the interleaving.
THEOREM SendBalanceTypeOK == Spec => []TypeOK
<1>1. IInv => TypeOK
  BY DEF IInv
<1> QED BY <1>1, SendBalanceIInv, PTL

\* For any number of concurrent requests, a code is marked redeemed exactly
\* when its one credit was given: the batch of redeemSendBalance never parts.
THEOREM SendBalanceConsumedOnce == Spec => []ConsumedOnce
<1>1. IInv => ConsumedOnce
  BY DEF IInv
<1> QED BY <1>1, SendBalanceIInv, PTL

\* A caller told "success" got its credit, one told "refused" got none.
THEOREM SendBalanceReplyIsTruthful == Spec => []ReplyIsTruthful
<1>1. IInv => ReplyIsTruthful
  BY DEF IInv, SuccessIsGranted, GrantsAccounted, ReplyIsTruthful
<1> QED BY <1>1, SendBalanceIInv, PTL

\* Only the claiming batch gives a credit, and it does so at the present offer.
LEMMA GrantStep ==
  ASSUME [Next]_vars
  PROVE  \/ grants' = grants
         \/ \E r \in Requests :
              /\ ClaimAndCredit(r)
              /\ Claimable(req[r].code, req[r].value)
              /\ grants' = grants \cup {[code |-> req[r].code, value |-> req[r].value,
                                         to |-> req[r].to, by |-> r]}
BY DEF Next, Environment, Request, TableChanges, CreateAddress, DeleteAddress,
       SenderChanges, Deduct, ReadCode, FindAddress,
       EnsureDefault, ClaimAndCredit, ReadBalance, Abandon, vars

\* However stale the row a request read, the credit it gives is the one the
\* code is on offer for in that very step.
THEOREM SendBalanceGrantHonoursOffer == Spec => GrantHonoursOffer
<1>1. [Next]_vars => [\A g \in grants' \ grants :
                        /\ Available(g.code)
                        /\ codes[g.code].value = g.value]_vars
  BY GrantStep DEF Claimable
<1> QED BY <1>1, PTL DEF Spec, GrantHonoursOffer

-----------------------------------------------------------------------------
(* The refinement. *)

\* Before anything is issued the ledger is in its initial state.
LEMMA InitInLedger == Init => Ledger!Init
BY DEF Init, SenderInit, CodesInit, NoRow, Ledger!Init, LedgerState, LedgerOffer, Available

\* The batch, when it claims, is the exchange of the ledger.
LEMMA ClaimInLedger ==
  ASSUME IInv, NEW r \in Requests, ClaimAndCredit(r),
         Claimable(req[r].code, req[r].value)
  PROVE  Ledger!Spend(req[r].code, req[r].to, r)
<1> DEFINE c == req[r].code
           v == req[r].value
           a == req[r].to
           box == [to |-> a, amount |-> v]
<1>1. c \in Codes /\ v \in Values /\ a \in Addresses
  BY DEF ClaimAndCredit, LocalsSet, IInv
<1>2. /\ codes' = [codes EXCEPT ![c] = Redeemed(c, box)]
      /\ grants' = grants \cup {[code |-> c, value |-> v, to |-> a, by |-> r]}
  BY DEF ClaimAndCredit
<1>3. /\ codes[c].status = "live" /\ ~codes[c].redeemed
      /\ Available(c) /\ codes[c].value = v
  BY DEF Claimable, Available
<1>4. LedgerState[c] = "open" /\ LedgerOffer[c] = v /\ v # Null
  BY <1>1, <1>3, NullAssumption DEF LedgerState, LedgerOffer
<1>5. /\ codes'[c].status = "live" /\ codes'[c].value = v
      /\ codes'[c].enabled = codes[c].enabled /\ codes'[c].expired = codes[c].expired
      /\ \A d \in Codes \ {c} : codes'[d] = codes[d]
  BY <1>1, <1>2, <1>3 DEF IInv, TypeOK, CodeRow, Redeemed
<1>6. codes'[c].redeemed
  BY <1>1, <1>2 DEF IInv, TypeOK, CodeRow, Redeemed
<1> HIDE DEF c, v, a, box
<1>7. LedgerState' = [LedgerState EXCEPT ![c] = "spent"]
  BY <1>1, <1>5, <1>6 DEF LedgerState
<1>8. LedgerOffer' = LedgerOffer
  <2>1. \A d \in Codes : codes'[d].value = codes[d].value
    BY <1>3, <1>5
  <2>2. \A d \in Codes : Available(d)' <=> Available(d)
    BY <1>3, <1>5, Zenon DEF Available
  <2> QED BY <2>1, <2>2 DEF LedgerOffer
<1> QED BY <1>2, <1>4, <1>7, <1>8 DEF Ledger!Spend, c, v, a

\* Every step of the system is a step of the ledger or leaves it alone.
LEMMA NextInLedger == IInv /\ [Next]_vars => [Ledger!Next]_(Ledger!ledgerVars)
<1> SUFFICES ASSUME IInv, [Next]_vars
             PROVE  [Ledger!Next]_(Ledger!ledgerVars)
  OBVIOUS
<1>1. ASSUME NEW r \in Requests, ClaimAndCredit(r),
             Claimable(req[r].code, req[r].value)
      PROVE  Ledger!Next
  <2>1. req[r].code \in Codes /\ req[r].to \in Addresses
    BY <1>1 DEF ClaimAndCredit, LocalsSet, IInv
  <2> QED BY <1>1, <2>1, ClaimInLedger DEF Ledger!Next
<1>2. ASSUME TableChanges PROVE Ledger!Next
  <2>1. grants' = grants
    BY <1>2 DEF TableChanges
  <2>2. \/ \E S \in SUBSET Codes, o \in Values \cup {Null} : Ledger!Issue(S, o)
        \/ \E c \in Codes :
             \/ \E o \in Values \cup {Null} : Ledger!Reoffer(c, o)
             \/ Ledger!Lapse(c) \/ Ledger!Retire(c)
    BY <1>2, <2>1, TableStepInLedger
       DEF TableChanges, IInv, TypeOK, Ledger!Issue, Ledger!Reoffer, Ledger!Lapse,
           Ledger!Retire
  <2> QED BY <2>2 DEF Ledger!Next
<1>3. ASSUME UNCHANGED <<codes, grants>> PROVE UNCHANGED Ledger!ledgerVars
  BY <1>3 DEF Ledger!ledgerVars, LedgerState, LedgerOffer, Available
<1>4. \/ TableChanges
      \/ UNCHANGED <<codes, grants>>
      \/ \E r \in Requests : ClaimAndCredit(r) /\ Claimable(req[r].code, req[r].value)
  BY DEF Next, Environment, Request, CreateAddress, DeleteAddress,
         SenderChanges, Deduct, ReadCode, FindAddress,
         EnsureDefault, ClaimAndCredit, ReadBalance, Abandon, vars
<1> QED BY <1>1, <1>2, <1>3, <1>4

\* Redeeming codes for credits implements the ledger.
THEOREM SendBalanceImplementsLedger == Spec => ImplementsLedger
<1>1. Init => Ledger!Init
  BY InitInLedger
<1>2. IInv /\ [Next]_vars => [Ledger!Next]_(Ledger!ledgerVars)
  BY NextInLedger
<1> QED BY <1>1, <1>2, SendBalanceIInv, PTL DEF Spec, ImplementsLedger, Ledger!Spec

-----------------------------------------------------------------------------
(* The balances. *)

GrantsTo(a) == {g \in grants : g.to = a}

ValueOf == [g \in Grant |-> g.value]

\* A row is the default, the credits and the mails; without a row there are none.
AccountAt(a) ==
  IF sender[a].row
    THEN /\ sender[a].balance \in Int
         /\ sender[a].balance = DefaultBalance - sent[a] + Sum(ValueOf, GrantsTo(a))
    ELSE sent[a] = 0 /\ GrantsTo(a) = {}

\* The inductive invariant behind BalanceAccounts: a request that is about to
\* claim found or made the row, so its credit never stands in for the default.
AccountInv ==
  /\ IsFiniteSet(grants)
  /\ \A a \in Addresses \ adjusted : AccountAt(a)
  /\ \A r \in Requests :
       req[r].pc = "claim" /\ req[r].to \notin adjusted /\ DefaultBalance > 0
         => sender[req[r].to].row

\* The sum of the credits, written with a function.
LEMMA CreditSum ==
  ASSUME NEW S \in SUBSET Grant, IsFiniteSet(S)
  PROVE  MapThenSumSet(LAMBDA g : g.value, S) = Sum(ValueOf, S)
<1> DEFINE Body(h) == [s \in SUBSET S |-> IF s = {} THEN 0
                         ELSE (CHOOSE x \in s : TRUE).value
                              + h[s \ {CHOOSE x \in s : TRUE}]]
           sums == CHOOSE h : h = Body(h)
<1>1. MapThenSumSet(LAMBDA g : g.value, S) = sums[S]
  BY DEF MapThenSumSet, MapThenFoldSet
<1>2. \A h : h = Body(h) <=> Sums(h, ValueOf, S)
  <2>1. ASSUME NEW h PROVE Body(h) = [s \in SUBSET S |-> Added(ValueOf, h, s)]
    <3>1. ASSUME NEW s \in SUBSET S, s # {}
          PROVE  ValueOf[TheOne(s)] = (CHOOSE x \in s : TRUE).value
      <4>1. TheOne(s) \in Grant
        BY <3>1 DEF TheOne
      <4> QED BY <4>1 DEF ValueOf, TheOne
    <3> QED BY <3>1 DEF Added, TheOne
  <2> QED BY <2>1 DEF Sums
<1>3. sums = Body(sums)
  <2> HIDE DEF Body
  <2>1. PICK g : Sums(g, ValueOf, S)
    BY SumsExist
  <2>2. g = Body(g)
    BY <1>2, <2>1
  <2> QED BY <2>2
<1>4. Sums(sums, ValueOf, S)
  BY <1>2, <1>3
<1>5. PICK g : Sums(g, ValueOf, S) /\ Sum(ValueOf, S) = g[S]
  BY SumIs
<1> HIDE DEF sums
<1> QED BY <1>1, <1>4, <1>5, SumsAgree

LEMMA CreditsCounted ==
  ASSUME TypeOK, IsFiniteSet(grants), NEW a
  PROVE  /\ GrantsTo(a) \in SUBSET Grant /\ IsFiniteSet(GrantsTo(a))
         /\ \A g \in GrantsTo(a) : ValueOf[g] \in Int
         /\ Sum(ValueOf, GrantsTo(a)) \in Int
<1>1. GrantsTo(a) \in SUBSET Grant /\ IsFiniteSet(GrantsTo(a))
  BY FS_Subset DEF GrantsTo, TypeOK
<1>2. \A g \in Grant : ValueOf[g] \in Int
  <2>1. ASSUME NEW g \in Grant PROVE ValueOf[g] \in Int
    <3>1. ValueOf[g] = g.value /\ g.value \in Values
      BY DEF ValueOf, Grant
    <3>2. \A v \in Values : v \in Int
      BY SendBalanceAssumption
    <3> QED BY <3>1, <3>2
  <2> QED BY <2>1
<1> QED BY <1>1, <1>2, SumType

LEMMA SameAccount ==
  ASSUME NEW a, AccountAt(a), sender'[a] = sender[a], sent'[a] = sent[a],
         GrantsTo(a)' = GrantsTo(a)
  PROVE  AccountAt(a)'
BY DEF AccountAt

\* A step that leaves names, credits and mails alone, and moves at most one
\* request, not to its claim.
LEMMA QuietAccount ==
  ASSUME TypeOK, AccountInv, UNCHANGED <<sender, grants, sent, adjusted>>,
         \A r \in Requests : req'[r].pc = "claim" => req'[r] = req[r]
  PROVE  AccountInv'
<1>1. \A a : GrantsTo(a)' = GrantsTo(a)
  BY DEF GrantsTo
<1> QED BY <1>1, SameAccount DEF AccountInv

\* Where the admin sets or removes a row, its account ends.
LEMMA AdjustedAccount ==
  ASSUME TypeOK, LocalsSet, AccountInv, NEW b, UNCHANGED <<grants, sent, req>>,
         adjusted' = adjusted \cup {b},
         \A a \in Addresses : a # b => sender'[a] = sender[a]
  PROVE  AccountInv'
<1>1. \A a : GrantsTo(a)' = GrantsTo(a)
  BY DEF GrantsTo
<1>2. \A a \in Addresses \ adjusted' : AccountAt(a)'
  BY <1>1, SameAccount DEF AccountInv
<1>3. ASSUME NEW r \in Requests, req'[r].pc = "claim", req'[r].to \notin adjusted',
             DefaultBalance > 0
      PROVE  sender'[req'[r].to].row
  <2>1. req[r].to \in Addresses /\ req[r].to # b /\ req'[r] = req[r]
    BY <1>3 DEF LocalsSet
  <2> QED BY <1>3, <2>1 DEF AccountInv
<1> QED BY <1>2, <1>3 DEF AccountInv

\* A row is opened: at the default, which nothing has been added to or taken from.
LEMMA OpenedAccount ==
  ASSUME TypeOK, LocalsSet, AccountInv, NEW b \in Addresses, UNCHANGED <<grants, sent, adjusted>>,
         \A a \in Addresses : a # b => sender'[a] = sender[a],
         ~sender[b].row, sender'[b].row, sender'[b].balance = DefaultBalance,
         \A r \in Requests : req'[r].pc = "claim" => req'[r].to \in Addresses
                                /\ ((req[r].pc = "claim" /\ req'[r].to = req[r].to) \/ req'[r].to = b)
  PROVE  AccountInv'
<1>1. \A a : GrantsTo(a)' = GrantsTo(a)
  BY DEF GrantsTo
<1>2. ASSUME NEW a \in Addresses \ adjusted' PROVE AccountAt(a)'
  <2>1. CASE a # b
    BY <1>1, <1>2, <2>1, SameAccount DEF AccountInv
  <2>2. CASE a = b
    <3>1. sent[a] = 0 /\ GrantsTo(a)' = {} /\ DefaultBalance \in Nat
      BY <1>1, <1>2, <2>2, SenderAssumption DEF AccountInv, AccountAt
    <3> QED BY <2>2, <3>1, SumOfNone DEF AccountAt
  <2> QED BY <2>1, <2>2
<1> QED BY <1>2 DEF AccountInv

\* The batch that claims: its credit is a new one.
LEMMA ClaimAccount ==
  ASSUME TypeOK, Claims, AccountInv, NEW r \in Requests, ClaimAndCredit(r),
         Claimable(req[r].code, req[r].value)
  PROVE  AccountInv'
<1> DEFINE v == req[r].value
           b == req[r].to
           g == [code |-> req[r].code, value |-> v, to |-> b, by |-> r]
<1>1. /\ b \in Addresses /\ v \in Values /\ v \in Nat /\ req[r].code \in Codes
      /\ req[r].pc = "claim" /\ UNCHANGED <<sent, adjusted>>
      /\ grants' = grants \cup {g} /\ req' = Goto(r, "balance")
      /\ sender' = [sender EXCEPT ![b] = Credited(sender[b], v)]
  BY SendBalanceAssumption DEF Claims, LocalsSet, ClaimAndCredit
<1>2. g \notin grants /\ g \in Grant /\ g.to = b /\ ValueOf[g] = v
  <2>1. \A h \in grants : h.by # r
    BY <1>1 DEF Claims, GrantsAccounted
  <2> QED BY <1>1, <2>1 DEF Grant, ValueOf
<1>3. \A q \in Requests : req'[q].pc = "claim" => req'[q] = req[q]
  BY <1>1, RequestFields DEF Goto, TypeOK
<1> HIDE DEF g, v, b
<1>4. IsFiniteSet(grants')
  BY <1>1, FS_AddElement DEF AccountInv
<1>5. ASSUME NEW a \in Addresses \ adjusted' PROVE AccountAt(a)'
  <2>1. CASE a # b
    <3>1. GrantsTo(a)' = GrantsTo(a)
      BY <1>1, <1>2, <2>1 DEF GrantsTo
    <3> QED BY <1>1, <1>5, <2>1, <3>1, SameAccount DEF AccountInv, TypeOK
  <2>2. CASE a = b
    <3>0. /\ AccountAt(a) /\ sender[a] \in SenderRow /\ sent[a] \in Nat
          /\ DefaultBalance \in Nat /\ Null \notin Int
      BY <1>1, <1>5, SenderAssumption DEF AccountInv, TypeOK
    <3>1. GrantsTo(a)' = GrantsTo(a) \cup {g} /\ g \notin GrantsTo(a)
      BY <1>1, <1>2, <2>2 DEF GrantsTo
    <3>2. /\ Sum(ValueOf, GrantsTo(a)') = v + Sum(ValueOf, GrantsTo(a))
          /\ Sum(ValueOf, GrantsTo(a)) \in Int
      <4>1. \A h \in GrantsTo(a) \cup {g} : ValueOf[h] \in Int
        BY <1>1, <1>2, CreditsCounted DEF AccountInv
      <4> QED BY <1>2, <3>1, <4>1, SumWith, CreditsCounted DEF AccountInv
    <3>3. sender'[a] = Credited(sender[a], v)
      BY <1>1, <2>2 DEF TypeOK
    <3>4. CASE sender[a].row
      <4>1. sender'[a].row /\ sender'[a].balance = sender[a].balance + v
        BY <3>0, <3>3, <3>4 DEF Credited, SenderRow, AccountAt
      <4> QED BY <1>1, <3>0, <3>2, <3>4, <4>1 DEF AccountAt
    <3>5. CASE ~sender[a].row
      <4>1. sender'[a].row /\ sender'[a].balance = v
        BY <3>3, <3>5 DEF Credited
      <4>2. sent[a] = 0 /\ GrantsTo(a) = {} /\ DefaultBalance = 0
        <5>1. ~(DefaultBalance > 0)
          BY <1>1, <1>5, <2>2, <3>5 DEF AccountInv, b
        <5> QED BY <3>0, <3>5, <5>1 DEF AccountAt
      <4>3. Sum(ValueOf, GrantsTo(a)') = v
        BY <1>1, <3>2, <4>2, SumOfNone
      <4> QED BY <1>1, <4>1, <4>2, <4>3 DEF AccountAt
    <3> QED BY <3>4, <3>5
  <2> QED BY <2>1, <2>2
<1>6. ASSUME NEW q \in Requests, req'[q].pc = "claim", req'[q].to \notin adjusted',
             DefaultBalance > 0
      PROVE  sender'[req'[q].to].row
  <2>1. req[q].pc = "claim" /\ req'[q].to = req[q].to /\ req[q].to \in Addresses
    BY <1>3, <1>6 DEF Claims, LocalsSet
  <2>2. sender[req[q].to].row
    BY <1>1, <1>6, <2>1 DEF AccountInv
  <2>3. \A s \in SenderRow : s.row => Credited(s, v).row
    BY DEF Credited, SenderRow
  <2> QED BY <1>1, <2>1, <2>2, <2>3 DEF TypeOK
<1> QED BY <1>4, <1>5, <1>6 DEF AccountInv

LEMMA NextAccount == IInv /\ AccountInv /\ [Next]_vars => AccountInv'
<1> SUFFICES ASSUME IInv, AccountInv, [Next]_vars PROVE AccountInv'
  OBVIOUS
<1>0. TypeOK /\ Claims /\ LocalsSet
  BY DEF IInv, Claims
<1>1. ASSUME NEW r \in Requests,
             \/ \E c \in Codes, a \in Addresses : ReadCode(r, c, a)
             \/ FindAddress(r) \/ ReadBalance(r) \/ Abandon(r)
      PROVE  AccountInv'
  <2>1. UNCHANGED <<sender, grants, sent, adjusted>>
    BY <1>1 DEF ReadCode, FindAddress, ReadBalance, Abandon
  <2>2. req'[r].pc # "claim" /\ \A q \in Requests \ {r} : req'[q] = req[q]
    <3>1. CASE \E c \in Codes, a \in Addresses : ReadCode(r, c, a)
      <4>1. PICK c \in Codes, a \in Addresses : ReadCode(r, c, a)
        BY <3>1
      <4> QED BY <1>0, <4>1, RequestFields DEF ReadCode, TypeOK
    <3>2. CASE FindAddress(r)
      BY <1>0, <3>2, RequestFields DEF FindAddress
    <3>3. CASE ReadBalance(r) \/ Abandon(r)
      BY <1>0, <3>3, RequestFields DEF ReadBalance, Abandon
    <3> QED BY <1>1, <3>1, <3>2, <3>3
  <2>3. \A q \in Requests : req'[q].pc = "claim" => req'[q] = req[q]
    BY <2>2
  <2> QED BY <1>0, <2>1, <2>3, QuietAccount
<1>2. ASSUME NEW r \in Requests, EnsureDefault(r) PROVE AccountInv'
  <2> DEFINE b == req[r].to
  <2>1. /\ b \in Addresses /\ UNCHANGED <<grants, sent, adjusted>>
        /\ sender' = [sender EXCEPT ![b] = WithDefault(sender[b])] /\ req' = Goto(r, "claim")
    BY <1>0, <1>2 DEF EnsureDefault, LocalsSet
  <2>2. /\ req'[r].pc = "claim" /\ req'[r].to = b
        /\ \A q \in Requests \ {r} : req'[q] = req[q]
    BY <1>0, <2>1 DEF Goto, TypeOK, RequestState
  <2>3. \A q \in Requests : req'[q].pc = "claim" => req'[q].to \in Addresses
          /\ ((req[q].pc = "claim" /\ req'[q].to = req[q].to) \/ req'[q].to = b)
    BY <1>0, <2>1, <2>2 DEF LocalsSet
  <2>4. CASE DefaultBalance > 0 /\ ~sender[b].row
    <3>1. /\ sender'[b].row /\ sender'[b].balance = DefaultBalance
          /\ \A a \in Addresses : a # b => sender'[a] = sender[a]
      BY <1>0, <2>1, <2>4 DEF WithDefault, TypeOK
    <3> HIDE DEF b
    <3> QED BY <1>0, <2>1, <2>3, <2>4, <3>1, OpenedAccount
  <2>5. CASE ~(DefaultBalance > 0 /\ ~sender[b].row)
    <3>1. sender' = sender
      BY <1>0, <2>1, <2>5 DEF WithDefault, TypeOK
    <3>2. \A a \in Addresses \ adjusted' : AccountAt(a)'
      <4>1. \A a : GrantsTo(a)' = GrantsTo(a)
        BY <2>1 DEF GrantsTo
      <4> QED BY <2>1, <3>1, <4>1, SameAccount DEF AccountInv
    <3> QED BY <2>1, <2>2, <2>5, <3>1, <3>2 DEF AccountInv
  <2> QED BY <2>4, <2>5
<1>3. ASSUME NEW r \in Requests, ClaimAndCredit(r) PROVE AccountInv'
  <2>1. CASE Claimable(req[r].code, req[r].value)
    BY <1>0, <1>3, <2>1, ClaimAccount
  <2>2. CASE ~Claimable(req[r].code, req[r].value)
    <3>1. req' = Finish(r, "refused") /\ UNCHANGED <<sender, grants, sent, adjusted>>
      BY <1>3, <2>2 DEF ClaimAndCredit
    <3>2. \A q \in Requests : req'[q].pc = "claim" => req'[q] = req[q]
      BY <1>0, <3>1 DEF Finish, TypeOK, RequestState
    <3> QED BY <1>0, <3>1, <3>2, QuietAccount
  <2> QED BY <2>1, <2>2
<1>4. CASE TableChanges \/ (\E a \in Addresses : CreateAddress(a)) \/ UNCHANGED vars
  <2>1. UNCHANGED <<sender, grants, sent, adjusted, req>>
    BY <1>4 DEF TableChanges, CreateAddress, vars
  <2> QED BY <1>0, <2>1, QuietAccount
<1>5. ASSUME NEW b \in Addresses, DeleteAddress(b) PROVE AccountInv'
  BY <1>0, <1>5, AdjustedAccount DEF DeleteAddress, TypeOK
<1>6. CASE SenderChanges
  <2>1. UNCHANGED <<grants, sent, req>>
    BY <1>6 DEF SenderChanges
  <2>2. ASSUME NEW b \in Addresses, NEW n \in AdminBalances, NEW on \in BOOLEAN,
               AdminSetSender(b, n, on)
        PROVE  AccountInv'
    BY <1>0, <2>1, <2>2, AdjustedAccount DEF AdminSetSender, TypeOK
  <2>3. ASSUME NEW b \in Addresses, AdminRemoveSender(b) PROVE AccountInv'
    BY <1>0, <2>1, <2>3, AdjustedAccount DEF AdminRemoveSender, TypeOK
  <2>4. ASSUME NEW b \in Addresses, OpenSender(b) PROVE AccountInv'
    <3>1. /\ adjusted' = adjusted /\ ~sender[b].row
          /\ \A a \in Addresses : a # b => sender'[a] = sender[a]
          /\ sender'[b] = [row |-> TRUE, balance |-> DefaultBalance,
                           enabled |-> DefaultBalance > 0]
      BY <1>0, <2>4 DEF OpenSender, TypeOK
    <3>2. \A r \in Requests : req'[r].pc = "claim" => req'[r].to \in Addresses
                                /\ ((req[r].pc = "claim" /\ req'[r].to = req[r].to) \/ req'[r].to = b)
      BY <1>0, <2>1 DEF LocalsSet
    <3> QED BY <1>0, <2>1, <3>1, <3>2, OpenedAccount
  <2> QED BY <1>6, <2>2, <2>3, <2>4 DEF SenderChanges, SenderStep
<1>7. ASSUME NEW b \in Addresses, Deduct(b) PROVE AccountInv'
  <2>1. /\ UNCHANGED <<grants, req, adjusted>> /\ sender[b].row
        /\ sender' = [sender EXCEPT ![b] = Deducted(sender[b])]
        /\ sent' = [sent EXCEPT ![b] = sent[b] + 1]
    BY <1>7 DEF Deduct
  <2>2. \A a : GrantsTo(a)' = GrantsTo(a)
    BY <2>1 DEF GrantsTo
  <2>3. ASSUME NEW a \in Addresses \ adjusted' PROVE AccountAt(a)'
    <3>1. CASE a # b
      BY <1>0, <2>1, <2>2, <2>3, <3>1, SameAccount DEF AccountInv, TypeOK
    <3>2. CASE a = b
      <4>1. /\ AccountAt(a) /\ sender[a] \in SenderRow /\ sent[a] \in Nat /\ Null \notin Int
            /\ DefaultBalance \in Nat /\ Sum(ValueOf, GrantsTo(a)) \in Int
        BY <1>0, <2>1, <2>3, CreditsCounted, SenderAssumption DEF AccountInv, TypeOK
      <4>2. /\ sender'[a].row /\ sender'[a].balance = sender[a].balance - 1
            /\ sent'[a] = sent[a] + 1
        BY <1>0, <2>1, <3>2, <4>1 DEF Deducted, SenderRow, AccountAt, TypeOK
      <4> QED BY <2>1, <2>2, <3>2, <4>1, <4>2 DEF AccountAt
    <3> QED BY <3>1, <3>2
  <2>4. \A a \in Addresses : sender[a].row => sender'[a].row
    BY <1>0, <2>1 DEF Deducted, SenderRow, TypeOK
  <2> QED BY <1>0, <2>1, <2>3, <2>4 DEF AccountInv, LocalsSet
<1> QED
  BY <1>1, <1>2, <1>3, <1>4, <1>5, <1>6, <1>7 DEF Next, Environment, Request

\* However redemptions, mails and second defaults interleave, a row no admin
\* touched is worth exactly what was put in and taken out: no update is lost.
THEOREM SendBalanceBalanceAccounts == Spec => []BalanceAccounts
<1>1. Init => IInv /\ AccountInv
  <2> SUFFICES ASSUME Init PROVE AccountInv
    BY InitIInv
  <2>1. \A a : GrantsTo(a) = {}
    BY DEF Init, GrantsTo
  <2> QED BY <2>1, FS_EmptySet DEF Init, SenderInit, NoSender, Idle, AccountInv, AccountAt
<1>2. IInv /\ AccountInv /\ [Next]_vars => IInv' /\ AccountInv'
  BY NextIInv, NextAccount
<1>3. IInv /\ AccountInv => BalanceAccounts
  <2> SUFFICES ASSUME IInv, AccountInv, NEW a \in Addresses \ adjusted, sender[a].row
               PROVE  sender[a].balance = DefaultBalance - sent[a]
                        + MapThenSumSet(LAMBDA g : g.value, {g \in grants : g.to = a})
    BY DEF BalanceAccounts
  <2>1. GrantsTo(a) \in SUBSET Grant /\ IsFiniteSet(GrantsTo(a))
    BY CreditsCounted DEF IInv, AccountInv
  <2>2. MapThenSumSet(LAMBDA g : g.value, GrantsTo(a)) = Sum(ValueOf, GrantsTo(a))
    BY <2>1, CreditSum
  <2> QED BY <2>2 DEF AccountInv, AccountAt, GrantsTo
<1> QED BY <1>1, <1>2, <1>3, PTL DEF Spec

-----------------------------------------------------------------------------
(* The ledger itself, by whomever it is implemented: any codes, values,    *)
(* targets and claimants, and any state of its own.                        *)

CONSTANTS Targets, Claimants, Withheld
VARIABLES state, offer, paid

Promise == INSTANCE RedeemLedger

LedgerInv == Promise!LedgerTypeOK /\ Promise!PaidAtMostOnce /\ Promise!OpenIsUnpaid

\* The ledger starts with nothing issued and nothing paid.
LEMMA LedgerInit == Promise!Init => LedgerInv
BY DEF Promise!Init, LedgerInv, Promise!LedgerTypeOK, Promise!PaidAtMostOnce, Promise!OpenIsUnpaid

\* PaidAtMostOnce needs OpenIsUnpaid: a code is spent only while it is open.
LEMMA LedgerNext == LedgerInv /\ [Promise!Next]_(Promise!ledgerVars) => LedgerInv'
<1> SUFFICES ASSUME LedgerInv, [Promise!Next]_(Promise!ledgerVars) PROVE LedgerInv'
  OBVIOUS
<1> USE DEF LedgerInv
<1>0. \A p \in paid : p.code \in Codes
  BY DEF Promise!LedgerTypeOK, Promise!Payment
<1>1. ASSUME NEW S \in SUBSET Codes, NEW o \in Values \cup {Withheld}, Promise!Issue(S, o)
      PROVE  LedgerInv'
  BY <1>0, <1>1 DEF Promise!Issue, Promise!LedgerTypeOK, Promise!PaidAtMostOnce, Promise!OpenIsUnpaid
<1>2. ASSUME NEW c \in Codes, NEW o \in Values \cup {Withheld}, Promise!Reoffer(c, o)
      PROVE  LedgerInv'
  BY <1>2 DEF Promise!Reoffer, Promise!LedgerTypeOK, Promise!PaidAtMostOnce, Promise!OpenIsUnpaid
<1>3. ASSUME NEW c \in Codes, Promise!Lapse(c) PROVE LedgerInv'
  BY <1>3 DEF Promise!Lapse, Promise!LedgerTypeOK, Promise!PaidAtMostOnce, Promise!OpenIsUnpaid
<1>4. ASSUME NEW c \in Codes, NEW t \in Targets, NEW r \in Claimants, Promise!Spend(c, t, r)
      PROVE  LedgerInv'
  <2> DEFINE p == [code |-> c, value |-> offer[c], to |-> t, by |-> r]
  <2>1. p \in Promise!Payment /\ p.code = c
    BY <1>4 DEF Promise!Spend, Promise!LedgerTypeOK, Promise!Payment
  <2>2. \A q \in paid : q.code # c
    BY <1>4 DEF Promise!Spend, Promise!OpenIsUnpaid
  <2>3. paid' = paid \cup {p}
    BY <1>4 DEF Promise!Spend
  <2> HIDE DEF p
  <2>4. Promise!LedgerTypeOK'
    BY <1>4, <2>1, <2>3 DEF Promise!Spend, Promise!LedgerTypeOK
  <2>5. Promise!PaidAtMostOnce'
    BY <2>1, <2>2, <2>3 DEF Promise!PaidAtMostOnce
  <2>6. Promise!OpenIsUnpaid'
    BY <1>0, <1>4, <2>1, <2>2, <2>3 DEF Promise!Spend, Promise!LedgerTypeOK, Promise!OpenIsUnpaid
  <2> QED BY <2>4, <2>5, <2>6
<1>5. ASSUME NEW c \in Codes, Promise!Retire(c) PROVE LedgerInv'
  BY <1>0, <1>5 DEF Promise!Retire, Promise!LedgerTypeOK, Promise!PaidAtMostOnce, Promise!OpenIsUnpaid
<1>6. CASE UNCHANGED Promise!ledgerVars
  BY <1>6 DEF Promise!ledgerVars, Promise!LedgerTypeOK, Promise!PaidAtMostOnce, Promise!OpenIsUnpaid
<1> QED BY <1>1, <1>2, <1>3, <1>4, <1>5, <1>6 DEF Promise!Next

\* No code of any implementation is exchanged twice: this is what the
\* refinements of the three redemption handlers rest on.
THEOREM LedgerPaysOnce == Promise!Spec => []Promise!PaidAtMostOnce
<1>1. LedgerInv => Promise!PaidAtMostOnce
  BY DEF LedgerInv
<1> QED BY <1>1, LedgerInit, LedgerNext, PTL DEF Promise!Spec
=============================================================================
