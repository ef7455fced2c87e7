------------------------ MODULE MCRedeemSendBalance ------------------------
EXTENDS RedeemSendBalance, TLC

\* Requests and codes are interchangeable.
Symmetry == Permutations(Requests) \cup Permutations(Codes)
=============================================================================
