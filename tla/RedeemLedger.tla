---------------------------- MODULE RedeemLedger ----------------------------
(***************************************************************************)
(* What a redemption code promises, whatever benefit it carries: a ledger  *)
(* in which a code that is on offer is exchanged, at most once and in one  *)
(* step, for the value it is offered at in that very step.  The three      *)
(* redemption handlers of the worker (send balance, role, mailbox) are     *)
(* each shown to implement this module.                                    *)
(***************************************************************************)
CONSTANTS Codes,     \* the identities of redemption codes
          Values,    \* what a code may be worth
          Targets,   \* who or what receives a benefit
          Claimants, \* the requests that redeem
          Withheld   \* the offer of a code that may not be redeemed now

VARIABLES state,  \* state[c]: where code c is in its life
          offer,  \* offer[c]: the value c can be redeemed for now, or Withheld
          paid    \* the benefits handed out so far

ledgerVars == <<state, offer, paid>>

Payment == [code : Codes, value : Values, to : Targets, by : Claimants]

LedgerTypeOK ==
  /\ state \in [Codes -> {"unissued", "open", "spent", "retired"}]
  /\ offer \in [Codes -> Values \cup {Withheld}]
  /\ paid \subseteq Payment

Init ==
  /\ state = [c \in Codes |-> "unissued"]
  /\ offer = [c \in Codes |-> Withheld]
  /\ paid = {}

\* New codes, all with the same offer, become redeemable.
Issue(S, o) ==
  /\ \A c \in S : state[c] = "unissued"
  /\ state' = [c \in Codes |-> IF c \in S THEN "open" ELSE state[c]]
  /\ offer' = [c \in Codes |-> IF c \in S THEN o ELSE offer[c]]
  /\ UNCHANGED paid

\* The issuer changes or suspends the offer of a code nobody redeemed yet.
Reoffer(c, o) ==
  /\ state[c] = "open"
  /\ offer' = [offer EXCEPT ![c] = o]
  /\ UNCHANGED <<state, paid>>

\* The validity of a code ends.
Lapse(c) ==
  /\ state[c] \in {"open", "spent"}
  /\ offer' = [offer EXCEPT ![c] = Withheld]
  /\ UNCHANGED <<state, paid>>

\* The exchange: closing the code and handing out its benefit are one step.
Spend(c, t, r) ==
  /\ state[c] = "open"
  /\ offer[c] # Withheld
  /\ state' = [state EXCEPT ![c] = "spent"]
  /\ paid' = paid \cup {[code |-> c, value |-> offer[c], to |-> t, by |-> r]}
  /\ UNCHANGED offer

\* The issuer removes a code; it never comes back.
Retire(c) ==
  /\ state[c] \in {"open", "spent"}
  /\ state' = [state EXCEPT ![c] = "retired"]
  /\ offer' = [offer EXCEPT ![c] = Withheld]
  /\ UNCHANGED paid

Next ==
  \/ \E S \in SUBSET Codes, o \in Values \cup {Withheld} : Issue(S, o)
  \/ \E c \in Codes :
       \/ \E o \in Values \cup {Withheld} : Reoffer(c, o)
       \/ Lapse(c)
       \/ \E t \in Targets, r \in Claimants : Spend(c, t, r)
       \/ Retire(c)

Spec == Init /\ [][Next]_ledgerVars

-----------------------------------------------------------------------------
\* No code is ever exchanged for two benefits, in one request or in several.
PaidAtMostOnce ==
  \A p, q \in paid : p.code = q.code => p = q

\* A code that is still open has paid nothing.
OpenIsUnpaid ==
  \A p \in paid : state[p.code] \in {"spent", "retired"}
=============================================================================
