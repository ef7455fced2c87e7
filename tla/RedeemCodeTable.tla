-------------------------- MODULE RedeemCodeTable --------------------------
(***************************************************************************)
(* The table redeem_codes (db/schema.sql) and everything that changes it   *)
(* except a redemption: the admin endpoints that create, edit and delete   *)
(* codes, and the clock that makes them expire.  Every statement and every *)
(* batch sent to D1 runs as one transaction, so each is one step.          *)
(*                                                                         *)
(* The code's text, its id and its type never change in a row, and ids are *)
(* AUTOINCREMENT: one element of Codes stands for all three.  A deleted    *)
(* code keeps its place in the function with status "deleted".             *)
(***************************************************************************)
EXTENDS Sql, Integers, FiniteSets

CONSTANTS Codes,     \* every code that is ever issued
          Values,    \* the values parseRedeemValue accepts for the type
          MaxBatch   \* rows inserted by one batch of createRedeemCodes (100)

ASSUME NullAssumption == Null \notin Values
ASSUME MaxBatchAssumption == MaxBatch \in Nat \ {0}

VARIABLE codes

CodeRow(Results) ==
  [status : {"unissued", "live", "deleted"}, value : Values \cup {Null},
   enabled : BOOLEAN, expired : BOOLEAN, redeemed : BOOLEAN,
   result : Results \cup {Null}]

NoRow(status) ==
  [status |-> status, value |-> Null, enabled |-> FALSE, expired |-> FALSE,
   redeemed |-> FALSE, result |-> Null]

NewRow(v, on) ==
  [status |-> "live", value |-> v, enabled |-> on, expired |-> FALSE,
   redeemed |-> FALSE, result |-> Null]

CodesInit == codes = [c \in Codes |-> NoRow("unissued")]

\* SELECT ... WHERE code = ? AND enabled = 1 AND expires_at > now.
Available(c) ==
  /\ codes[c].status = "live"
  /\ codes[c].enabled
  /\ ~codes[c].expired

\* Mutants: a WHERE clause without redeemed = 0, and one without enabled = 1 and
\* the expiry.
ClaimableTwice(c, v) == Available(c) /\ codes[c].value = v
ClaimableWhenOff(c, v) == codes[c].value = v /\ ~codes[c].redeemed

\* The WHERE clause with which each of the three handlers takes the code: the
\* value must still be the one the request read before its other queries.
Claimable(c, v) ==
  /\ Available(c)
  /\ codes[c].value = v
  /\ ~codes[c].redeemed

\* The row after a claim with this result.
Redeemed(c, res) == [codes[c] EXCEPT !.redeemed = TRUE, !.result = res]

-----------------------------------------------------------------------------
\* One batch of createRedeemCodes: all its rows or none.  A request that asks
\* for more than MaxBatch codes is several such steps, and its loop may stop
\* between two of them.
AdminCreateCodes(S, v, on) ==
  /\ S # {} /\ Cardinality(S) <= MaxBatch
  /\ \A c \in S : codes[c].status = "unissued"
  /\ codes' = [c \in Codes |->
                 IF c \in S THEN NewRow(v, on) ELSE codes[c]]

\* UPDATE ... WHERE id = ? AND redeem_type = ? AND redeemed = 0.  The new
\* expires_at is in the future, so the code is not expired any more.
AdminUpdateCode(c, v, on) ==
  /\ codes[c].status = "live"
  /\ ~codes[c].redeemed
  /\ codes' = [codes EXCEPT ![c] = [@ EXCEPT !.value = v, !.enabled = on,
                                             !.expired = FALSE]]

\* DELETE ... WHERE id = ?, redeemed or not.
AdminDeleteCode(c) ==
  /\ codes[c].status = "live"
  /\ codes' = [codes EXCEPT ![c] = NoRow("deleted")]

\* The clock passes expires_at.
CodeExpires(c) ==
  /\ codes[c].status = "live"
  /\ ~codes[c].expired
  /\ codes' = [codes EXCEPT ![c] = [@ EXCEPT !.expired = TRUE]]

TableStep ==
  \/ \E S \in SUBSET Codes, v \in Values, on \in BOOLEAN : AdminCreateCodes(S, v, on)
  \/ \E c \in Codes, v \in Values, on \in BOOLEAN : AdminUpdateCode(c, v, on)
  \/ \E c \in Codes : AdminDeleteCode(c)
  \/ \E c \in Codes : CodeExpires(c)

-----------------------------------------------------------------------------
\* The table as RedeemLedger sees it.
LedgerState ==
  [c \in Codes |->
     IF codes[c].status = "unissued" THEN "unissued"
     ELSE IF codes[c].status = "deleted" THEN "retired"
     ELSE IF codes[c].redeemed THEN "spent" ELSE "open"]

LedgerOffer ==
  [c \in Codes |-> IF Available(c) THEN codes[c].value ELSE Null]
=============================================================================
