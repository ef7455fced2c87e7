-------------------------- MODULE MCRedeemAddress --------------------------
EXTENDS RedeemAddress, TLC

\* Everything answers and two codes are issued, or anything fails and one is.
Calm == [lostAcks |-> FALSE, inFlightDeletes |-> FALSE, issues |-> 2]
Faulty == [lostAcks |-> TRUE, inFlightDeletes |-> TRUE, issues |-> 1]
Every == {Calm, Faulty}

\* Only the answer of a claim may be lost.
OnlyLostAck == {[lostAcks |-> TRUE, inFlightDeletes |-> FALSE, issues |-> 1]}

\* Requests, codes and names are interchangeable.
Symmetry == Permutations(Requests) \cup Permutations(Codes) \cup Permutations(Names)
=============================================================================
