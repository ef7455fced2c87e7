---------------------------- MODULE SharedLemmas ----------------------------
(***************************************************************************)
(* What the proofs of several components rest on: what MapThenSumSet       *)
(* computes for every finite set, and what the steps of the table          *)
(* redeem_codes outside a redemption preserve.                             *)
(***************************************************************************)
EXTENDS RedeemCodeTable, FiniteSetsExt, FiniteSetTheorems, WellFoundedInduction, TLAPS

-----------------------------------------------------------------------------
(* Sums.  MapThenSumSet is a recursive function that takes the elements in *)
(* an order CHOOSE fixes: nothing for no element, and one addend more or   *)
(* less with each.  The facts are proved by least counterexamples, which   *)
(* exist because < is well founded on Nat.                                 *)

\* A set of numbers that is not empty has a least element.
LEMMA LeastNat ==
  ASSUME NEW T \in SUBSET Nat, T # {}
  PROVE  \E n \in T : \A m \in T : n <= m
<1>1. IsWellFoundedOn(OpToRel(<, Nat), Nat)
  BY NatLessThanWellFounded
<1>2. PICK n \in T : \A m \in T : <<m, n>> \notin OpToRel(<, Nat)
  BY <1>1, WFMin
<1>3. \A m \in T : ~ (m < n)
  BY <1>2 DEF OpToRel
<1> QED BY <1>3

\* Subsets of a finite set: if there are any, one has the fewest elements, and
\* no proper subset of it is among them.
LEMMA LeastSet ==
  ASSUME NEW S, IsFiniteSet(S), NEW T \in SUBSET (SUBSET S), T # {}
  PROVE  \E A \in T : \A x \in A : A \ {x} \notin T
<1>1. \A A \in SUBSET S : IsFiniteSet(A) /\ Cardinality(A) \in Nat
  BY FS_Subset, FS_CardinalityType
<1> DEFINE sizes == {Cardinality(A) : A \in T}
<1>2. sizes \in SUBSET Nat /\ sizes # {}
  BY <1>1
<1>3. PICK n \in sizes : \A m \in sizes : n <= m
  <2> HIDE DEF sizes
  <2> QED BY <1>2, LeastNat
<1>4. PICK A \in T : Cardinality(A) = n
  OBVIOUS
<1>5. ASSUME NEW x \in A, A \ {x} \in T PROVE FALSE
  <2>1. Cardinality(A \ {x}) = Cardinality(A) - 1 /\ Cardinality(A) \in Nat
    BY <1>1, FS_RemoveElement
  <2>2. Cardinality(A) <= Cardinality(A \ {x})
    BY <1>3, <1>4, <1>5
  <2> QED BY <2>1, <2>2
<1> QED BY <1>5

-----------------------------------------------------------------------------

Sum(f, S) == MapThenSumSet(LAMBDA x : f[x], S)

TheOne(s) == CHOOSE x \in s : TRUE

\* The body of the recursive function behind Sum.
Added(f, g, s) == IF s = {} THEN 0 ELSE f[TheOne(s)] + g[s \ {TheOne(s)}]

Sums(g, f, S) == g = [s \in SUBSET S |-> Added(f, g, s)]

\* There is such a function: the one for sets of up to n elements gives the one
\* for sets of n + 1.
LEMMA SumsExist ==
  ASSUME NEW f, NEW S, IsFiniteSet(S)
  PROVE  \E g : Sums(g, f, S)
<1> DEFINE Upto(n) == {s \in SUBSET S : Cardinality(s) <= n}
           Good(n) == \E g : \A s \in Upto(n) : g[s] = Added(f, g, s)
           Bad == {n \in Nat : ~Good(n)}
<1>0. \A s \in SUBSET S : IsFiniteSet(s) /\ Cardinality(s) \in Nat
  BY FS_Subset, FS_CardinalityType
<1>1. Bad = {}
  <2>1. SUFFICES ASSUME Bad # {} PROVE FALSE
    OBVIOUS
  <2>2. PICK n \in Bad : \A m \in Bad : n <= m
    <3>1. Bad \in SUBSET Nat
      OBVIOUS
    <3> HIDE DEF Bad
    <3> QED BY <2>1, <3>1, LeastNat
  <2>3. CASE n = 0
    <3> DEFINE g == [s \in SUBSET S |-> 0]
    <3>1. \A s \in Upto(n) : s = {}
      BY <1>0, <2>3, FS_EmptySet
    <3>2. \A s \in Upto(n) : g[s] = Added(f, g, s)
      BY <3>1 DEF Added
    <3> HIDE DEF g
    <3>3. Good(n)
      BY <3>2
    <3> QED BY <3>3
  <2>4. CASE n # 0
    <3>1. n - 1 \in Nat /\ n - 1 \notin Bad
      BY <2>2, <2>4
    <3>2. PICK g : \A s \in Upto(n - 1) : g[s] = Added(f, g, s)
      BY <3>1
    <3> DEFINE h == [s \in SUBSET S |-> Added(f, g, s)]
    <3>3. \A s \in Upto(n - 1) : h[s] = g[s]
      BY <3>2
    <3>4. ASSUME NEW s \in Upto(n), s # {} PROVE s \ {TheOne(s)} \in Upto(n - 1)
      <4>1. TheOne(s) \in s
        BY <3>4 DEF TheOne
      <4>2. Cardinality(s \ {TheOne(s)}) = Cardinality(s) - 1
        BY <1>0, <4>1, FS_RemoveElement
      <4> QED BY <1>0, <4>2
    <3>5. \A s \in Upto(n) : h[s] = Added(f, h, s)
      <4>1. ASSUME NEW s \in Upto(n) PROVE h[s] = Added(f, h, s)
        <5>1. h[s] = Added(f, g, s)
          OBVIOUS
        <5>2. s # {} => h[s \ {TheOne(s)}] = g[s \ {TheOne(s)}]
          BY <3>3, <3>4
        <5> HIDE DEF h
        <5> QED BY <5>1, <5>2 DEF Added
      <4> QED BY <4>1
    <3> HIDE DEF h
    <3>6. Good(n)
      BY <3>5
    <3> QED BY <3>6
  <2> QED BY <2>3, <2>4
<1>2. Cardinality(S) \in Nat
  BY <1>0
<1>3. PICK g : \A s \in Upto(Cardinality(S)) : g[s] = Added(f, g, s)
  BY <1>1, <1>2
<1>4. \A s \in SUBSET S : s \in Upto(Cardinality(S))
  BY FS_Subset
<1> DEFINE h == [s \in SUBSET S |-> g[s]]
<1>5. h = [s \in SUBSET S |-> Added(f, h, s)]
  <2>1. \A s \in SUBSET S : Added(f, h, s) = Added(f, g, s)
    <3>1. \A s \in SUBSET S : s \ {TheOne(s)} \in SUBSET S
      OBVIOUS
    <3> QED BY <3>1 DEF Added
  <2>2. \A s \in SUBSET S : g[s] = Added(f, g, s)
    BY <1>3, <1>4
  <2> QED BY <2>1, <2>2
<1> QED BY <1>5 DEF Sums

\* The sum of a set does not depend on the larger set it is computed in, and
\* goes by the addends of its own elements only.
LEMMA SumsAgree ==
  ASSUME NEW f, NEW S, NEW g, Sums(g, f, S), NEW e, NEW R, NEW h, Sums(h, e, R),
         NEW A \in SUBSET S, A \subseteq R, IsFiniteSet(A),
         \A x \in A : f[x] = e[x]
  PROVE  g[A] = h[A]
<1> DEFINE Bad == {s \in SUBSET A : g[s] # h[s]}
<1>1. SUFFICES ASSUME Bad # {} PROVE FALSE
  OBVIOUS
<1>2. PICK s \in Bad : \A x \in s : s \ {x} \notin Bad
  <2>1. Bad \in SUBSET (SUBSET A)
    OBVIOUS
  <2> HIDE DEF Bad
  <2> QED BY <1>1, <2>1, LeastSet
<1>3. g[s] = Added(f, g, s) /\ h[s] = Added(e, h, s)
  <2>1. s \in SUBSET S /\ s \in SUBSET R
    OBVIOUS
  <2> QED BY <2>1 DEF Sums
<1>4. CASE s = {}
  BY <1>3, <1>4 DEF Added
<1>5. CASE s # {}
  <2>1. TheOne(s) \in s
    BY <1>5 DEF TheOne
  <2>2. g[s \ {TheOne(s)}] = h[s \ {TheOne(s)}] /\ f[TheOne(s)] = e[TheOne(s)]
    BY <1>2, <2>1
  <2> QED BY <1>3, <1>5, <2>2 DEF Added
<1> QED BY <1>4, <1>5

LEMMA SumIs ==
  ASSUME NEW f, NEW S, IsFiniteSet(S)
  PROVE  \E g : Sums(g, f, S) /\ Sum(f, S) = g[S]
<1>1. Sum(f, S) = (CHOOSE g : Sums(g, f, S))[S]
  BY DEF Sum, MapThenSumSet, MapThenFoldSet, Sums, Added, TheOne
<1> QED BY <1>1, SumsExist

-----------------------------------------------------------------------------

\* Nothing adds up to nothing.
LEMMA SumOfNone == ASSUME NEW f PROVE Sum(f, {}) = 0
<1>1. PICK g : Sums(g, f, {}) /\ Sum(f, {}) = g[{}]
  BY SumIs, FS_EmptySet
<1>2. g[{}] = Added(f, g, {})
  BY <1>1 DEF Sums
<1> QED BY <1>1, <1>2 DEF Added

\* The same addends have the same sum.
LEMMA SumSame ==
  ASSUME NEW f, NEW e, NEW S, IsFiniteSet(S), \A x \in S : f[x] = e[x]
  PROVE  Sum(f, S) = Sum(e, S)
<1>1. PICK g : Sums(g, f, S) /\ Sum(f, S) = g[S]
  BY SumIs
<1>2. PICK h : Sums(h, e, S) /\ Sum(e, S) = h[S]
  BY SumIs
<1> QED BY <1>1, <1>2, SumsAgree

\* The sum takes one element first.
LEMMA SumFirst ==
  ASSUME NEW f, NEW S, IsFiniteSet(S), S # {}
  PROVE  TheOne(S) \in S /\ Sum(f, S) = f[TheOne(S)] + Sum(f, S \ {TheOne(S)})
<1> DEFINE R == S \ {TheOne(S)}
<1>0. IsFiniteSet(R) /\ TheOne(S) \in S /\ R \in SUBSET S
  BY FS_Subset DEF TheOne
<1>1. PICK g : Sums(g, f, S) /\ Sum(f, S) = g[S]
  BY SumIs
<1>2. PICK h : Sums(h, f, R) /\ Sum(f, R) = h[R]
  BY <1>0, SumIs
<1>3. g[R] = h[R]
  <2> HIDE DEF R
  <2> QED BY <1>0, <1>1, <1>2, SumsAgree
<1>4. g[S] = Added(f, g, S)
  BY <1>1 DEF Sums
<1> QED BY <1>0, <1>1, <1>2, <1>3, <1>4 DEF Added

\* Integers add up to an integer.
LEMMA SumType ==
  ASSUME NEW f, NEW S, IsFiniteSet(S), \A x \in S : f[x] \in Int
  PROVE  Sum(f, S) \in Int
<1> DEFINE Bad == {A \in SUBSET S : Sum(f, A) \notin Int}
<1>1. SUFFICES ASSUME Bad # {} PROVE FALSE
  OBVIOUS
<1>2. PICK A \in Bad : \A x \in A : A \ {x} \notin Bad
  <2>1. Bad \in SUBSET (SUBSET S)
    OBVIOUS
  <2> HIDE DEF Bad
  <2> QED BY <1>1, <2>1, LeastSet
<1>3. A # {}
  BY SumOfNone
<1>4. TheOne(A) \in A /\ Sum(f, A) = f[TheOne(A)] + Sum(f, A \ {TheOne(A)})
  BY <1>3, SumFirst, FS_Subset
<1>5. Sum(f, A \ {TheOne(A)}) \in Int /\ f[TheOne(A)] \in Int
  BY <1>2, <1>4
<1> QED BY <1>4, <1>5

\* Natural numbers add up to one.
LEMMA SumNat ==
  ASSUME NEW f, NEW S, IsFiniteSet(S), \A x \in S : f[x] \in Nat
  PROVE  Sum(f, S) \in Nat
<1> DEFINE Bad == {A \in SUBSET S : Sum(f, A) \notin Nat}
<1>1. SUFFICES ASSUME Bad # {} PROVE FALSE
  OBVIOUS
<1>2. PICK A \in Bad : \A x \in A : A \ {x} \notin Bad
  <2>1. Bad \in SUBSET (SUBSET S)
    OBVIOUS
  <2> HIDE DEF Bad
  <2> QED BY <1>1, <2>1, LeastSet
<1>3. A # {}
  BY SumOfNone
<1>4. TheOne(A) \in A /\ Sum(f, A) = f[TheOne(A)] + Sum(f, A \ {TheOne(A)})
  BY <1>3, SumFirst, FS_Subset
<1>5. Sum(f, A \ {TheOne(A)}) \in Nat /\ f[TheOne(A)] \in Nat
  BY <1>2, <1>4
<1> QED BY <1>4, <1>5

\* Nothing but zeros adds up to nothing.
LEMMA SumOfZeros ==
  ASSUME NEW f, NEW S, IsFiniteSet(S), \A x \in S : f[x] = 0
  PROVE  Sum(f, S) = 0
<1> DEFINE Bad == {A \in SUBSET S : Sum(f, A) # 0}
<1>1. SUFFICES ASSUME Bad # {} PROVE FALSE
  OBVIOUS
<1>2. PICK A \in Bad : \A x \in A : A \ {x} \notin Bad
  <2>1. Bad \in SUBSET (SUBSET S)
    OBVIOUS
  <2> HIDE DEF Bad
  <2> QED BY <1>1, <2>1, LeastSet
<1>3. A # {}
  BY SumOfNone
<1>4. TheOne(A) \in A /\ Sum(f, A) = f[TheOne(A)] + Sum(f, A \ {TheOne(A)})
  BY <1>3, SumFirst, FS_Subset
<1> QED BY <1>2, <1>4

\* Any element may be taken out: the order does not matter.
LEMMA SumWithout ==
  ASSUME NEW f, NEW S, IsFiniteSet(S), \A x \in S : f[x] \in Int, NEW y \in S
  PROVE  Sum(f, S) = f[y] + Sum(f, S \ {y})
<1> DEFINE Bad == {A \in SUBSET S : \E z \in A : Sum(f, A) # f[z] + Sum(f, A \ {z})}
<1>1. SUFFICES ASSUME Bad # {} PROVE FALSE
  OBVIOUS
<1>2. PICK A \in Bad : \A x \in A : A \ {x} \notin Bad
  <2>1. Bad \in SUBSET (SUBSET S)
    OBVIOUS
  <2> HIDE DEF Bad
  <2> QED BY <1>1, <2>1, LeastSet
<1>3. PICK z \in A : Sum(f, A) # f[z] + Sum(f, A \ {z})
  OBVIOUS
<1> DEFINE c == TheOne(A)
<1>4. c \in A /\ Sum(f, A) = f[c] + Sum(f, A \ {c})
  BY SumFirst, FS_Subset
<1>5. c # z
  BY <1>3, <1>4
<1> HIDE DEF c
<1>6. Sum(f, A \ {c}) = f[z] + Sum(f, (A \ {c}) \ {z})
  BY <1>2, <1>4, <1>5
<1>7. Sum(f, A \ {z}) = f[c] + Sum(f, (A \ {z}) \ {c})
  BY <1>2, <1>4, <1>5
<1>8. Sum(f, (A \ {z}) \ {c}) = Sum(f, (A \ {c}) \ {z})
  <2>1. (A \ {z}) \ {c} = (A \ {c}) \ {z}
    OBVIOUS
  <2> QED BY <2>1
<1>9. Sum(f, (A \ {c}) \ {z}) \in Int /\ f[c] \in Int /\ f[z] \in Int
  <2>1. IsFiniteSet((A \ {c}) \ {z})
    BY FS_Subset
  <2> QED BY <1>4, <2>1, SumType
<1>10. Sum(f, A) = f[z] + Sum(f, A \ {z})
  <2> DEFINE rest == Sum(f, (A \ {c}) \ {z})
  <2>1. Sum(f, A) = f[c] + (f[z] + rest) /\ Sum(f, A \ {z}) = f[c] + rest
    BY <1>4, <1>6, <1>7, <1>8
  <2>2. rest \in Int
    BY <1>9
  <2> HIDE DEF rest
  <2> QED BY <1>9, <2>1, <2>2
<1> QED BY <1>3, <1>10

\* An element more, an addend more.
LEMMA SumWith ==
  ASSUME NEW f, NEW S, IsFiniteSet(S), NEW y, y \notin S,
         \A x \in S \cup {y} : f[x] \in Int
  PROVE  Sum(f, S \cup {y}) = f[y] + Sum(f, S)
<1>1. IsFiniteSet(S \cup {y}) /\ (S \cup {y}) \ {y} = S
  BY FS_AddElement
<1> QED BY <1>1, SumWithout

\* One addend that grows, or falls, takes the sum with it.
LEMMA SumChanged ==
  ASSUME NEW f, NEW e, NEW S, IsFiniteSet(S), NEW y \in S,
         \A x \in S : f[x] \in Int /\ e[x] \in Int,
         \A x \in S \ {y} : f[x] = e[x]
  PROVE  Sum(f, S) = Sum(e, S) + f[y] - e[y]
<1>0. IsFiniteSet(S \ {y})
  BY FS_Subset
<1>1. Sum(f, S \ {y}) = Sum(e, S \ {y}) /\ Sum(e, S \ {y}) \in Int
  BY <1>0, SumSame, SumType
<1>2. Sum(f, S) = f[y] + Sum(f, S \ {y}) /\ Sum(e, S) = e[y] + Sum(e, S \ {y})
  BY SumWithout
<1> QED BY <1>1, <1>2

\* Smaller addends add up to less.
LEMMA SumMonotonic ==
  ASSUME NEW f, NEW e, NEW S, IsFiniteSet(S),
         \A x \in S : f[x] \in Int /\ e[x] \in Int /\ f[x] <= e[x]
  PROVE  Sum(f, S) <= Sum(e, S)
<1> DEFINE Bad == {A \in SUBSET S : ~(Sum(f, A) <= Sum(e, A))}
<1>1. SUFFICES ASSUME Bad # {} PROVE FALSE
  OBVIOUS
<1>2. PICK A \in Bad : \A x \in A : A \ {x} \notin Bad
  <2>1. Bad \in SUBSET (SUBSET S)
    OBVIOUS
  <2> HIDE DEF Bad
  <2> QED BY <1>1, <2>1, LeastSet
<1>3. A # {}
  BY SumOfNone
<1>4. PICK x \in A : TRUE
  BY <1>3
<1>5. /\ Sum(f, A) = f[x] + Sum(f, A \ {x}) /\ Sum(e, A) = e[x] + Sum(e, A \ {x})
      /\ Sum(f, A \ {x}) \in Int /\ Sum(e, A \ {x}) \in Int
  <2>1. IsFiniteSet(A) /\ IsFiniteSet(A \ {x})
    BY FS_Subset
  <2> QED BY <2>1, SumWithout, SumType
<1>6. Sum(f, A \ {x}) <= Sum(e, A \ {x})
  BY <1>2
<1> QED BY <1>5, <1>6

-----------------------------------------------------------------------------
(* The table redeem_codes.  The three redemption handlers share these.     *)

\* A row in the table has a value, and rows that are not in it are empty.
TableShape ==
  \A c \in Codes :
    /\ codes[c].status = "live" => codes[c].value \in Values
    /\ codes[c].status # "live" => codes[c] = NoRow(codes[c].status)

\* An admin or the clock never leaves the type of the table (admin endpoints
\* of admin_redeem_code_api.ts and expires_at).
LEMMA TableStepType ==
  ASSUME NEW Results, codes \in [Codes -> CodeRow(Results)], TableStep
  PROVE  codes' \in [Codes -> CodeRow(Results)]
<1>1. ASSUME NEW S \in SUBSET Codes, NEW v \in Values, NEW on \in BOOLEAN,
             AdminCreateCodes(S, v, on)
      PROVE  codes' \in [Codes -> CodeRow(Results)]
  <2>1. NewRow(v, on) \in CodeRow(Results)
    BY DEF CodeRow, NewRow
  <2> QED BY <1>1, <2>1 DEF AdminCreateCodes
<1>2. ASSUME NEW c \in Codes, NEW v \in Values, NEW on \in BOOLEAN,
             AdminUpdateCode(c, v, on)
      PROVE  codes' \in [Codes -> CodeRow(Results)]
  BY <1>2 DEF AdminUpdateCode, CodeRow
<1>3. ASSUME NEW c \in Codes, AdminDeleteCode(c)
      PROVE  codes' \in [Codes -> CodeRow(Results)]
  <2>1. NoRow("deleted") \in CodeRow(Results)
    BY DEF CodeRow, NoRow
  <2> QED BY <1>3, <2>1 DEF AdminDeleteCode
<1>4. ASSUME NEW c \in Codes, CodeExpires(c)
      PROVE  codes' \in [Codes -> CodeRow(Results)]
  BY <1>4 DEF CodeExpires, CodeRow
<1> QED BY <1>1, <1>2, <1>3, <1>4 DEF TableStep

\* An admin or the clock never changes whether a code is redeemed, or by whom:
\* a code enters the table unredeemed, and once it left it never returns.
LEMMA TableStepKeeps ==
  ASSUME NEW Results, codes \in [Codes -> CodeRow(Results)], TableShape, TableStep
  PROVE  /\ TableShape'
         /\ \A c \in Codes :
              /\ codes[c].status # "unissued" => codes'[c].status # "unissued"
              /\ codes[c].status = "deleted" => codes'[c].status = "deleted"
              /\ codes'[c].status = "live" =>
                   /\ codes'[c].redeemed = codes[c].redeemed
                   /\ codes'[c].result = codes[c].result
<1> DEFINE Keeps ==
      /\ TableShape'
      /\ \A c \in Codes :
           /\ codes[c].status # "unissued" => codes'[c].status # "unissued"
           /\ codes[c].status = "deleted" => codes'[c].status = "deleted"
           /\ codes'[c].status = "live" =>
                /\ codes'[c].redeemed = codes[c].redeemed
                /\ codes'[c].result = codes[c].result
<1>1. ASSUME NEW S \in SUBSET Codes, NEW v \in Values, NEW on \in BOOLEAN,
             AdminCreateCodes(S, v, on)
      PROVE  Keeps
  <2>1. \A c \in S : codes[c] = NoRow("unissued")
    BY <1>1 DEF AdminCreateCodes, TableShape
  <2>2. \A c \in Codes : codes'[c] = IF c \in S THEN NewRow(v, on) ELSE codes[c]
    BY <1>1 DEF AdminCreateCodes
  <2>3. NewRow(v, on).status = "live" /\ ~NewRow(v, on).redeemed
        /\ NewRow(v, on).result = Null /\ NewRow(v, on).value \in Values
    BY DEF NewRow
  <2>4. NoRow("unissued").status = "unissued" /\ NoRow("unissued").redeemed = FALSE
        /\ NoRow("unissued").result = Null
    BY DEF NoRow
  <2>5. TableShape'
    BY <2>2, <2>3 DEF TableShape, NoRow
  <2>6. NewRow(v, on).redeemed = FALSE
    BY DEF NewRow
  <2> QED BY <2>1, <2>2, <2>3, <2>4, <2>5, <2>6
<1>2. ASSUME NEW c \in Codes, NEW v \in Values, NEW on \in BOOLEAN,
             AdminUpdateCode(c, v, on)
      PROVE  Keeps
  BY <1>2 DEF AdminUpdateCode, CodeRow, TableShape
<1>3. ASSUME NEW c \in Codes, AdminDeleteCode(c)
      PROVE  Keeps
  BY <1>3 DEF AdminDeleteCode, CodeRow, NoRow, TableShape
<1>4. ASSUME NEW c \in Codes, CodeExpires(c)
      PROVE  Keeps
  BY <1>4 DEF CodeExpires, CodeRow, TableShape
<1> QED BY <1>1, <1>2, <1>3, <1>4 DEF TableStep

-----------------------------------------------------------------------------
(* The table as RedeemLedger sees it. *)

\* The offer of an available code is its value; a code out of the table, off or
\* expired is withheld.
LEMMA RowInLedger ==
  ASSUME NEW c \in Codes
  PROVE  /\ codes[c].status = "unissued" => LedgerState[c] = "unissued"
         /\ codes[c].status = "deleted" => LedgerState[c] = "retired"
         /\ codes[c].status = "live" /\ codes[c].redeemed => LedgerState[c] = "spent"
         /\ codes[c].status = "live" /\ ~codes[c].redeemed => LedgerState[c] = "open"
         /\ LedgerOffer[c] = IF Available(c) THEN codes[c].value ELSE Null
BY DEF LedgerState, LedgerOffer

\* Everything an admin or the clock does to the table is one action of the
\* ledger: an issue, a new offer, a retirement or a lapse.
LEMMA TableStepInLedger ==
  ASSUME NEW Results, codes \in [Codes -> CodeRow(Results)], TableShape, TableStep
  PROVE  \/ \E S \in SUBSET Codes, o \in Values \cup {Null} :
              /\ \A c \in S : LedgerState[c] = "unissued"
              /\ LedgerState' =
                   [c \in Codes |-> IF c \in S THEN "open" ELSE LedgerState[c]]
              /\ LedgerOffer' = [c \in Codes |-> IF c \in S THEN o ELSE LedgerOffer[c]]
         \/ \E c \in Codes :
              \/ \E o \in Values \cup {Null} :
                   /\ LedgerState[c] = "open"
                   /\ LedgerState' = LedgerState
                   /\ LedgerOffer' = [LedgerOffer EXCEPT ![c] = o]
              \/ /\ LedgerState[c] \in {"open", "spent"}
                 /\ LedgerState' \in {LedgerState, [LedgerState EXCEPT ![c] = "retired"]}
                 /\ LedgerOffer' = [LedgerOffer EXCEPT ![c] = Null]
<1> DEFINE Goal == 
         \/ \E S \in SUBSET Codes, o \in Values \cup {Null} :
              /\ \A c \in S : LedgerState[c] = "unissued"
              /\ LedgerState' =
                   [c \in Codes |-> IF c \in S THEN "open" ELSE LedgerState[c]]
              /\ LedgerOffer' = [c \in Codes |-> IF c \in S THEN o ELSE LedgerOffer[c]]
         \/ \E c \in Codes :
              \/ \E o \in Values \cup {Null} :
                   /\ LedgerState[c] = "open"
                   /\ LedgerState' = LedgerState
                   /\ LedgerOffer' = [LedgerOffer EXCEPT ![c] = o]
              \/ /\ LedgerState[c] \in {"open", "spent"}
                 /\ LedgerState' \in {LedgerState, [LedgerState EXCEPT ![c] = "retired"]}
                 /\ LedgerOffer' = [LedgerOffer EXCEPT ![c] = Null]
<1>1. ASSUME NEW S \in SUBSET Codes, NEW v \in Values, NEW on \in BOOLEAN,
             AdminCreateCodes(S, v, on)
      PROVE  Goal
  <2> DEFINE o == IF on THEN v ELSE Null
  <2>1. \A c \in Codes : codes'[c] = IF c \in S THEN NewRow(v, on) ELSE codes[c]
    BY <1>1 DEF AdminCreateCodes
  <2>2. \A c \in S : LedgerState[c] = "unissued"
    BY <1>1 DEF AdminCreateCodes, LedgerState
  <2>3. LedgerState' = [c \in Codes |-> IF c \in S THEN "open" ELSE LedgerState[c]]
    BY <2>1 DEF LedgerState, NewRow
  <2>4. LedgerOffer' = [c \in Codes |-> IF c \in S THEN o ELSE LedgerOffer[c]]
    BY <2>1 DEF LedgerOffer, NewRow, Available
  <2> QED BY <2>2, <2>3, <2>4
<1>2. ASSUME NEW c \in Codes, NEW v \in Values, NEW on \in BOOLEAN,
             AdminUpdateCode(c, v, on)
      PROVE  Goal
  <2> DEFINE o == IF on THEN v ELSE Null
  <2>1. LedgerState[c] = "open"
    BY <1>2 DEF AdminUpdateCode, LedgerState
  <2>2. LedgerState' = LedgerState
    <3>1. \A d \in Codes : /\ codes'[d].status = codes[d].status
                          /\ codes'[d].redeemed = codes[d].redeemed
      BY <1>2 DEF AdminUpdateCode, CodeRow
    <3> QED BY <3>1 DEF LedgerState
  <2>3. LedgerOffer' = [LedgerOffer EXCEPT ![c] = o]
    BY <1>2 DEF AdminUpdateCode, LedgerOffer, Available, CodeRow
  <2> QED BY <2>1, <2>2, <2>3
<1>3. ASSUME NEW c \in Codes, AdminDeleteCode(c)
      PROVE  Goal
  <2>1. LedgerState[c] \in {"open", "spent"}
    BY <1>3 DEF AdminDeleteCode, LedgerState
  <2>2. LedgerState' = [LedgerState EXCEPT ![c] = "retired"]
    BY <1>3 DEF AdminDeleteCode, LedgerState, NoRow
  <2>3. LedgerOffer' = [LedgerOffer EXCEPT ![c] = Null]
    BY <1>3 DEF AdminDeleteCode, LedgerOffer, Available, NoRow
  <2> QED BY <2>1, <2>2, <2>3
<1>4. ASSUME NEW c \in Codes, CodeExpires(c)
      PROVE  Goal
  <2>1. LedgerState[c] \in {"open", "spent"}
    BY <1>4 DEF CodeExpires, LedgerState
  <2>2. LedgerState' = LedgerState
    <3>1. \A d \in Codes : /\ codes'[d].status = codes[d].status
                          /\ codes'[d].redeemed = codes[d].redeemed
      BY <1>4 DEF CodeExpires, CodeRow
    <3> QED BY <3>1 DEF LedgerState
  <2>3. LedgerOffer' = [LedgerOffer EXCEPT ![c] = Null]
    BY <1>4 DEF CodeExpires, LedgerOffer, Available, CodeRow
  <2> QED BY <2>1, <2>2, <2>3
<1> QED BY <1>1, <1>2, <1>3, <1>4 DEF TableStep
=============================================================================
