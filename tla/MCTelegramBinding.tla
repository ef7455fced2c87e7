------------------------- MODULE MCTelegramBinding --------------------------
EXTENDS MCBackground

\* Two requests of one user overlap, and anything may stop or vanish.
Overlapping(u) ==
  [Quiet EXCEPT !.users = {u}, !.slots = Slots, !.ids = 2, !.removals = TRUE, !.stops = TRUE]

\* The requests of two users come one after the other.
Alternating(s) == [Quiet EXCEPT !.users = Users, !.slots = {s}, !.ids = 4]

\* The check of a credential may fail meanwhile.
Doubting(s) == [Alternating(s) EXCEPT !.ids = 3, !.doubts = TRUE]

AllThree ==
  {Overlapping(u) : u \in Users} \cup {Alternating(s) : s \in Slots} \cup {Doubting(s) : s \in Slots}

Symmetry == Permutations(Names) \cup Permutations(Users) \cup Permutations(Slots)
=============================================================================
