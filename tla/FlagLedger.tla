----------------------------- MODULE FlagLedger -----------------------------
(***************************************************************************)
(* What the IMAP proxy promises of flags: every STORE a client asks for is *)
(* applied, whole, to the flags as they are at that moment, or refused.    *)
(***************************************************************************)
CONSTANTS Clients, Uids, Flags

VARIABLES flags,      \* the flags of each message
          asked       \* the STORE each client waits for, none for {}

flagVars == <<flags, asked>>

Operation == [targets : SUBSET Uids, mode : {"add", "remove", "replace"}, flags : SUBSET Flags]

\* Twisted's modes 1, -1 and 0 of STORE.
Applied(old, op) ==
  [u \in Uids |->
     IF u \notin op.targets THEN old[u]
     ELSE CASE op.mode = "add"     -> old[u] \cup op.flags
            [] op.mode = "remove"  -> old[u] \ op.flags
            [] op.mode = "replace" -> op.flags]

Init == flags = [u \in Uids |-> {}] /\ asked = [c \in Clients |-> {}]

Ask(c) ==
  /\ asked[c] = {}
  /\ \E op \in Operation : asked' = [asked EXCEPT ![c] = {op}]
  /\ UNCHANGED flags

Apply(c) ==
  /\ \E op \in asked[c] : flags' = Applied(flags, op)
  /\ asked' = [asked EXCEPT ![c] = {}]

\* Any number of them at once, when the proxy goes down.
Refuse(all) ==
  /\ \E c \in all : asked[c] # {}
  /\ asked' = [c \in Clients |-> IF c \in all THEN {} ELSE asked[c]]
  /\ UNCHANGED flags

Next == (\E c \in Clients : Ask(c) \/ Apply(c)) \/ \E all \in SUBSET Clients : Refuse(all)

Spec == Init /\ [][Next]_flagVars
=============================================================================
