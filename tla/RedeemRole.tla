----------------------------- MODULE RedeemRole -----------------------------
(***************************************************************************)
(* Redeeming a code for a role: redeemCode and redeemRole of               *)
(* worker/src/redeem_api/redeem_code.ts.  The checks the handler makes     *)
(* before its batch (the user exists, the present role may be replaced)    *)
(* are separate queries; the batch repeats the second check but not the    *)
(* first, and its four statements communicate through SQLite's changes().  *)
(***************************************************************************)
EXTENDS UserAccounts, RedeemCodeTable

CONSTANT Requests     \* the redemption requests

ASSUME RoleAssumption == Values \subseteq Roles /\ Null \notin Codes

VARIABLES req,       \* the requests' local state
          grants     \* history: every role written for a code

roleVars == <<codes, req, grants>>

Idle == [pc |-> "start", code |-> Null, value |-> Null, email |-> Null, to |-> Null,
         reply |-> "none"]

RoleInit ==
  /\ CodesInit
  /\ req = [r \in Requests |-> Idle]
  /\ grants = {}

-----------------------------------------------------------------------------
(* The steps of a request. *)

Goto(r, label) == [req EXCEPT ![r] = [@ EXCEPT !.pc = label]]

Finish(r, answer) ==
  [req EXCEPT ![r] = [@ EXCEPT !.pc = "done", !.reply = answer]]

ReadCode(r, c, e) ==
  /\ req[r].pc = "start"
  /\ IF Available(c) /\ ~codes[c].redeemed
       THEN req' = [req EXCEPT ![r] = [Idle EXCEPT !.pc = "user", !.code = c,
                      !.value = codes[c].value, !.email = e]]
       ELSE req' = Finish(r, "refused")
  /\ UNCHANGED <<codes, grants, accountVars>>

\* SELECT id, user_email FROM users WHERE user_email = ? COLLATE NOCASE
FindUser(r) ==
  /\ req[r].pc = "user"
  /\ LET ids == Ids(req[r].email)
     IN req' = IF ids = {} THEN Finish(r, "refused")
               ELSE [req EXCEPT ![r] = [@ EXCEPT !.pc = "role", !.to = CHOOSE i \in ids : TRUE]]
  /\ UNCHANGED <<codes, grants, accountVars>>

\* The roles a redemption of v may replace: none, the default one and v itself.
Replaceable(role, v) == role \in {Null, DefaultRole, v}

\* SELECT role_text FROM user_roles; a conflict is answered with 409.
CheckRole(r) ==
  /\ req[r].pc = "role"
  /\ req' = IF Replaceable(roles[req[r].to], req[r].value)
              THEN Goto(r, "batch") ELSE Finish(r, "refused")
  /\ UNCHANGED <<codes, grants, accountVars>>

\* Mutants: an upsert without its WHERE clause, and a batch without the
\* statement that removes the mark.
WritableAlways(role, v) == TRUE
KeepMark(row, enc) == row

\* The WHERE clause of ON CONFLICT(user_id) DO UPDATE repeats that check.
Writable(role, v) == Replaceable(role, v)

\* UPDATE redeem_codes SET result = NULL WHERE result = ? AND redeemed = 0
Unmark(row, enc) ==
  [row EXCEPT !.result = IF @ = enc /\ ~row.redeemed THEN Null ELSE @]

\* The four statements of the batch, each on the state the one before left:
\* mark the code with this request's result, write the role if the mark took,
\* close the code if the role was written, remove a mark that did not close.
Batch(r) ==
  LET c == req[r].code
      v == req[r].value
      u == req[r].to
      enc == [to |-> u, role |-> v, by |-> r]
      marked == Claimable(c, v)
      afterMark == [codes[c] EXCEPT !.result = IF marked THEN enc ELSE @]
      written == marked /\ Writable(roles[u], v)
      closed == written /\ afterMark.result = enc /\ ~afterMark.redeemed
      afterClose == [afterMark EXCEPT !.redeemed = closed \/ @]
  IN /\ req[r].pc = "batch"
     /\ codes' = [codes EXCEPT ![c] = Unmark(afterClose, enc)]
     /\ IF written
          THEN /\ roles' = [roles EXCEPT ![u] = v]
               /\ grants' = grants \cup
                              {[code |-> c, value |-> v, to |-> u, by |-> r]}
          ELSE UNCHANGED <<roles, grants>>
     /\ req' = IF closed THEN Goto(r, "reply") ELSE Finish(r, "refused")
     /\ UNCHANGED <<users, verifying, pins, call, mailed, adjusted>>

Reply(r) ==
  /\ req[r].pc = "reply"
  /\ req' = Finish(r, "ok")
  /\ UNCHANGED <<codes, grants, accountVars>>

\* A call throws or the isolate dies: the caller learns nothing.
Abandon(r) ==
  /\ req[r].pc \notin {"start", "done"}
  /\ req' = Finish(r, "lost")
  /\ UNCHANGED <<codes, grants, accountVars>>

Request(r, emails) ==
  \/ \E c \in Codes, e \in emails : ReadCode(r, c, e)
  \/ FindUser(r)
  \/ CheckRole(r)
  \/ Batch(r)
  \/ Reply(r)
  \/ Abandon(r)

RoleStep(emails) ==
  \/ \E r \in Requests : Request(r, emails)
  \/ TableStep /\ UNCHANGED <<req, grants, accountVars>>

-----------------------------------------------------------------------------
(* Safety. *)

\* The stored result is the role that was really given, and a code whose
\* redemption lost the race carries no trace of it.
ResultIsTheGrant ==
  \A c \in Codes :
    IF codes[c].redeemed
      THEN [code |-> c, value |-> codes[c].result.role,
            to |-> codes[c].result.to, by |-> codes[c].result.by] \in grants
      ELSE codes[c].result = Null

\* Concurrent redemptions of different roles for one user consume only one of
\* the codes, unless one of the two roles is the default that may be replaced.
OneRoleWins ==
  \A g, h \in grants :
    (g.to = h.to /\ g.to \notin adjusted /\ g.value # h.value)
      => DefaultRole \in {g.value, h.value}

-----------------------------------------------------------------------------
(* The handler implements the ledger. *)

Ledger == INSTANCE RedeemLedger WITH
            Targets <- Users, Claimants <- Requests, Withheld <- Null,
            state <- LedgerState, offer <- LedgerOffer, paid <- grants

\* Redemption of a role is an exchange in a ledger that pays a code at most
\* once, at the value it is offered at in the step that closes it.
ImplementsLedger == Ledger!Spec
=============================================================================
