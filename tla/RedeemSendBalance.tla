------------------------- MODULE RedeemSendBalance -------------------------
(***************************************************************************)
(* Redeeming a code for sending credits: redeemCode and redeemSendBalance  *)
(* of worker/src/redeem_api/redeem_code.ts.  Requests run concurrently;    *)
(* between two awaited D1 calls of one request any step of another, of the *)
(* admin, of mail sending or of the clock may come.  A request may also    *)
(* end at any await (an exception, a killed isolate) with its reply lost.  *)
(***************************************************************************)
EXTENDS RedeemCodeTable, SenderTable, FiniteSetsExt

CONSTANTS Requests,  \* the redemption requests
          MaxSends   \* bound: deductions per mailbox

ASSUME SendBalanceAssumption ==
  /\ Values \subseteq Nat \ {0}
  /\ Null \notin Codes
  /\ MaxSends \in Nat

VARIABLES address,   \* the names in table address
          req,       \* the requests' local state
          grants,    \* history: every credit given for a code
          sent       \* history: deductions made for a name

vars == <<codes, address, sender, req, grants, sent, adjusted>>

Result == [to : Addresses, amount : Values]

Idle == [pc |-> "start", code |-> Null, value |-> Null, to |-> Null,
         reply |-> "none"]

RequestState ==
  [pc : {"start", "address", "default", "claim", "balance", "done"},
   code : Codes \cup {Null}, value : Values \cup {Null},
   to : Addresses \cup {Null}, reply : {"none", "ok", "refused", "lost"}]

Grant == [code : Codes, value : Values, to : Addresses, by : Requests]

TypeOK ==
  /\ codes \in [Codes -> CodeRow(Result)]
  /\ address \subseteq Addresses
  /\ sender \in [Addresses -> SenderRow]
  /\ req \in [Requests -> RequestState]
  /\ grants \subseteq Grant
  /\ sent \in [Addresses -> Nat]
  /\ adjusted \subseteq Addresses

Init ==
  /\ CodesInit
  /\ SenderInit
  /\ address = {}
  /\ req = [r \in Requests |-> Idle]
  /\ grants = {}
  /\ sent = [a \in Addresses |-> 0]

-----------------------------------------------------------------------------
(* The steps of a request. *)

Goto(r, label) == [req EXCEPT ![r] = [@ EXCEPT !.pc = label]]

Finish(r, answer) ==
  [req EXCEPT ![r] = [@ EXCEPT !.pc = "done", !.reply = answer]]

\* getRedeemCodeForRedemption: the row is read and remembered.
ReadCode(r, c, a) ==
  /\ req[r].pc = "start"
  /\ IF Available(c) /\ ~codes[c].redeemed
       THEN req' = [req EXCEPT ![r] = [pc |-> "address", code |-> c,
                      value |-> codes[c].value, to |-> a, reply |-> "none"]]
       ELSE req' = Finish(r, "refused")
  /\ UNCHANGED <<codes, address, sender, grants, sent, adjusted>>

\* SELECT id FROM address WHERE name = ?
FindAddress(r) ==
  /\ req[r].pc = "address"
  /\ req' = IF req[r].to \in address THEN Goto(r, "default")
                                     ELSE Finish(r, "refused")
  /\ UNCHANGED <<codes, address, sender, grants, sent, adjusted>>

EnsureDefault(r) ==
  /\ req[r].pc = "default"
  /\ sender' = [sender EXCEPT ![req[r].to] = WithDefault(@)]
  /\ req' = Goto(r, "claim")
  /\ UNCHANGED <<codes, address, grants, sent, adjusted>>

\* The batch: the code is claimed, and changes() = 1 lets the credit through.
ClaimAndCredit(r) ==
  LET c == req[r].code
      v == req[r].value
      a == req[r].to
  IN /\ req[r].pc = "claim"
     /\ \/ /\ Claimable(c, v)
           /\ codes' = [codes EXCEPT ![c] = Redeemed(c, [to |-> a, amount |-> v])]
           /\ sender' = [sender EXCEPT ![a] = Credited(@, v)]
           /\ grants' = grants \cup {[code |-> c, value |-> v, to |-> a, by |-> r]}
           /\ req' = Goto(r, "balance")
        \/ /\ ~Claimable(c, v)
           /\ req' = Finish(r, "refused")
           /\ UNCHANGED <<codes, sender, grants>>
     /\ UNCHANGED <<address, sent, adjusted>>

\* SELECT balance, then the reply with success.
ReadBalance(r) ==
  /\ req[r].pc = "balance"
  /\ req' = Finish(r, "ok")
  /\ UNCHANGED <<codes, address, sender, grants, sent, adjusted>>

\* Mutant: every exception is answered as a refusal.
AbandonAsRefusal(r) ==
  /\ req[r].pc \notin {"start", "done"}
  /\ req' = Finish(r, "refused")
  /\ UNCHANGED <<codes, address, sender, grants, sent, adjusted>>

\* A call throws or the isolate dies: the caller learns nothing.  After the
\* batch this is also a batch that committed and whose answer was lost.
Abandon(r) ==
  /\ req[r].pc \notin {"start", "done"}
  /\ req' = Finish(r, "lost")
  /\ UNCHANGED <<codes, address, sender, grants, sent, adjusted>>

Request(r) ==
  \/ \E c \in Codes, a \in Addresses : ReadCode(r, c, a)
  \/ FindAddress(r)
  \/ EnsureDefault(r)
  \/ ClaimAndCredit(r)
  \/ ReadBalance(r)
  \/ Abandon(r)

-----------------------------------------------------------------------------
(* The rest of the system, as far as it touches these tables. *)

TableChanges ==
  /\ TableStep
  /\ UNCHANGED <<address, sender, req, grants, sent, adjusted>>

CreateAddress(a) ==
  /\ a \notin address
  /\ address' = address \cup {a}
  /\ UNCHANGED <<codes, sender, req, grants, sent, adjusted>>

\* The admin's deleteAddress: one batch, the sender row goes with the name.
DeleteAddress(a) ==
  /\ a \in address
  /\ address' = address \ {a}
  /\ sender' = [sender EXCEPT ![a] = NoSender]
  /\ adjusted' = adjusted \cup {a}
  /\ UNCHANGED <<codes, req, grants, sent>>

\* The admin edits sender rows, mailboxes apply for sending.
SenderChanges ==
  /\ SenderStep
  /\ UNCHANGED <<codes, address, req, grants, sent>>

\* A mail is sent.
Deduct(a) ==
  /\ sender[a].row
  /\ sent[a] < MaxSends
  /\ sender' = [sender EXCEPT ![a] = Deducted(@)]
  /\ sent' = [sent EXCEPT ![a] = @ + 1]
  /\ UNCHANGED <<codes, address, req, grants, adjusted>>

Environment ==
  \/ TableChanges
  \/ SenderChanges
  \/ \E a \in Addresses : CreateAddress(a) \/ DeleteAddress(a) \/ Deduct(a)

Next == Environment \/ \E r \in Requests : Request(r)

Spec == Init /\ [][Next]_vars

-----------------------------------------------------------------------------
(* Safety. *)

\* However the requests interleave, one code credits one mailbox once, and a
\* code is marked redeemed exactly when its credit was given: the two updates
\* of the batch never part.
ConsumedOnce ==
  /\ \A g, h \in grants : g.code = h.code => g = h
  /\ \A c \in Codes : codes[c].status = "live" =>
       (codes[c].redeemed <=> \E g \in grants : g.code = c)

\* A request that reports success gave a credit itself, and one that reports
\* a refusal gave none; only a lost reply leaves the caller in doubt.
ReplyIsTruthful ==
  \A r \in Requests :
    /\ req[r].reply = "ok" => \E g \in grants : g.by = r
    /\ req[r].reply = "refused" => \A g \in grants : g.by # r

\* A mailbox whose sender row no admin touched holds the default balance once,
\* plus every credit redeemed for it, minus every mail sent: no concurrent
\* redemption, deduction or second default is lost or counted twice.
BalanceAccounts ==
  \A a \in Addresses \ adjusted :
    sender[a].row =>
      sender[a].balance =
        DefaultBalance - sent[a]
        + MapThenSumSet(LAMBDA g : g.value, {g \in grants : g.to = a})

\* A credit is given only in a step in which the code is still on offer at
\* that value, whatever the admin or the clock did since the request read it.
GrantHonoursOffer ==
  [][\A g \in grants' \ grants :
       /\ Available(g.code)
       /\ codes[g.code].value = g.value]_vars

-----------------------------------------------------------------------------
(* The handler implements the ledger. *)

Ledger == INSTANCE RedeemLedger WITH
            Targets <- Addresses, Claimants <- Requests, Withheld <- Null,
            state <- LedgerState, offer <- LedgerOffer, paid <- grants

\* Redemption of credits is an exchange in a ledger that pays a code at most
\* once, at the value it is offered at in the step that closes it.
ImplementsLedger == Ledger!Spec
=============================================================================
