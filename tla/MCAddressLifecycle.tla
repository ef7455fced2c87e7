------------------------ MODULE MCAddressLifecycle --------------------------
EXTENDS AddressLifecycle, TLC

\* Two users compete for mailboxes and limits while cleanups run.
Binding ==
  [operations |-> {"bind", "transfer", "unbound", "created"}, ids |-> 3, members |-> Users,
   churn |-> FALSE, inboxes |-> {}, crashes |-> FALSE]

\* A user and his mailboxes come and go, mail arrives, and workers stop.
Deleting(u, n) ==
  [operations |-> {"bind", "unbind", "transfer", "delete", "empty"}, ids |-> 2, members |-> {u},
   churn |-> TRUE, inboxes |-> {n}, crashes |-> TRUE]

Both == {Binding} \cup {Deleting(u, n) : u \in Users, n \in Names}

Symmetry == Permutations(Names) \cup Permutations(Users) \cup Permutations(Slots)
=============================================================================
