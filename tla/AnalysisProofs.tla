--------------------------- MODULE AnalysisProofs ---------------------------
(***************************************************************************)
(* TLAPS proofs about what the analysis tools tell.                        *)
(*                                                                         *)
(* Suggest, for every lookup: the rows of the distance table meet the      *)
(* reference (Edits, from the other end of the words) in their last cell,  *)
(* so that the hits are the worthy names with their distances, and every   *)
(* order sort.Slice may leave them in offers the nearest.                  *)
(*                                                                         *)
(* Validate, for every list of requests, and for any four checks: a text   *)
(* is told what its own statements would be told alone.  The catalog is    *)
(* built from the definitions the loader has passed (CatalogInv), and the  *)
(* keys reported so far are those of the statements passed so far          *)
(* (ReportInv).                                                            *)
(***************************************************************************)
EXTENDS Suggest, Validate, FiniteSetTheorems, WellFoundedInduction, TLAPS

-----------------------------------------------------------------------------
(* Numbers, and recursion over them. *)

Below == {n \in Nat \X Nat : n[1] < n[2]}

\* A nonempty set of numbers has a least one.
LEMMA LeastNumber ==
  ASSUME NEW S \in SUBSET Nat, S # {}
  PROVE  \E i \in S : \A j \in S : i <= j
<1>1. IsWellFoundedOn(Below, Nat)
  BY NatLessThanWellFounded DEF OpToRel, Below
<1>2. PICK i \in S : \A j \in S : <<j, i>> \notin Below
  BY <1>1, WFMin, Zenon
<1>3. \A j \in S : ~(j < i)
  BY <1>2 DEF Below
<1> QED BY <1>3

\* A nonempty set of numbers with a bound has a greatest one.
LEMMA GreatestNumber ==
  ASSUME NEW S, S # {}, NEW N \in Nat, S \subseteq 0..N
  PROVE  \E i \in S : \A j \in S : j <= i
<1> DEFINE T == {N - i : i \in S}
<1>1. T \in SUBSET Nat /\ T # {}
  <2>1. \A i \in S : N - i \in Nat
    OBVIOUS
  <2> QED BY <2>1
<1>2. PICK k \in T : \A l \in T : k <= l
  BY <1>1, LeastNumber
<1>3. PICK i \in S : k = N - i
  OBVIOUS
<1>4. \A j \in S : N - j \in T
  OBVIOUS
<1>5. ASSUME NEW j \in S
      PROVE  j <= i
  <2>1. k <= N - j
    BY <1>2, <1>4
  <2> QED BY <1>3, <2>1
<1> QED BY <1>5

\* Induction, for a set in the place of a predicate.
LEMMA Induction ==
  ASSUME NEW S, 0 \in S, \A n \in Nat : n \in S => n + 1 \in S
  PROVE  Nat \subseteq S
<1> SUFFICES ASSUME Nat \ S # {}
             PROVE  FALSE
  OBVIOUS
<1>1. PICK i \in Nat \ S : \A j \in Nat \ S : i <= j
  BY LeastNumber
<1>2. i - 1 \in Nat /\ i - 1 \in S
  BY <1>1
<1> QED BY <1>1, <1>2

\* The least of a nonempty set of numbers.
LEMMA MinNumber ==
  ASSUME NEW S \in SUBSET Nat, S # {}
  PROVE  Min(S) \in S /\ \A i \in S : Min(S) <= i
BY LeastNumber DEF Min

\* A step that decides each point from those of lesser rank has a fixed point:
\* recursive definitions over numbers have a solution.
Decides(step, D, rank, N) ==
  /\ rank \in [D -> Nat] /\ N \in Nat /\ \A p \in D : rank[p] < N
  /\ step \in [[D -> Nat] -> [D -> Nat]]
  /\ \A f, g \in [D -> Nat] : \A p \in D :
       (\A q \in D : rank[q] < rank[p] => f[q] = g[q]) => step[f][p] = step[g][p]

LEMMA Fixpoint ==
  ASSUME NEW D, NEW rank, NEW N, NEW step, Decides(step, D, rank, N)
  PROVE  \E f \in [D -> Nat] : f = step[f]
<1> USE DEF Decides
<1> DEFINE Agrees(f, n) == \A p \in D : rank[p] < n => step[f][p] = f[p]
           S == {n \in Nat : \E f \in [D -> Nat] : Agrees(f, n)}
<1>1. 0 \in S
  <2>1. [p \in D |-> 0] \in [D -> Nat]
    OBVIOUS
  <2>2. \A p \in D : ~(rank[p] < 0)
    OBVIOUS
  <2> QED BY <2>1, <2>2
<1>2. ASSUME NEW n \in Nat, n \in S
      PROVE  n + 1 \in S
  <2>1. PICK f \in [D -> Nat] : Agrees(f, n)
    BY <1>2
  <2> DEFINE g == step[f]
  <2>2. g \in [D -> Nat]
    OBVIOUS
  <2>3. ASSUME NEW p \in D, rank[p] < n + 1
        PROVE  step[g][p] = g[p]
    <3>1. \A q \in D : rank[q] < rank[p] => f[q] = g[q]
      BY <2>1, <2>3
    <3> HIDE DEF g
    <3>2. step[f][p] = step[g][p]
      BY <2>2, <3>1
    <3> QED BY <3>2 DEF g
  <2> HIDE DEF g
  <2>4. Agrees(g, n + 1)
    BY <2>3
  <2> QED BY <2>2, <2>4
<1>3. N \in S
  <2> HIDE DEF S
  <2> QED BY <1>1, <1>2, Induction
<1>4. PICK f \in [D -> Nat] : Agrees(f, N)
  BY <1>3
<1>5. step[f] \in [D -> Nat] /\ \A p \in D : f[p] = step[f][p]
  BY <1>4
<1>6. f = step[f]
  BY <1>5
<1> QED BY <1>6

\* Induction on a rank.
LEMMA RankInduction ==
  ASSUME NEW D, NEW rank \in [D -> Nat], NEW N \in Nat, \A p \in D : rank[p] < N, NEW T,
         \A p \in D : (\A q \in D : rank[q] < rank[p] => q \in T) => p \in T
  PROVE  D \subseteq T
<1> DEFINE S == {n \in Nat : \A p \in D : rank[p] < n => p \in T}
<1>1. 0 \in S
  OBVIOUS
<1>2. ASSUME NEW n \in Nat, n \in S
      PROVE  n + 1 \in S
  <2>1. ASSUME NEW p \in D, rank[p] < n + 1
        PROVE  p \in T
    <3>1. \A q \in D : rank[q] < rank[p] => rank[q] < n
      BY <2>1
    <3> QED BY <1>2, <3>1
  <2> QED BY <2>1
<1>3. N \in S
  <2> HIDE DEF S
  <2> QED BY <1>1, <1>2, Induction
<1> QED BY <1>3

-----------------------------------------------------------------------------
(* The reference: what is left to edit after i bytes of v and j of w. *)

Positions(v, w) == (0..Len(v)) \X (0..Len(w))
Crossing(v, w, swaps, i, j) ==
  swaps /\ i + 2 <= Len(v) /\ j + 2 <= Len(w) /\ v[i + 1] = w[j + 2] /\ v[i + 2] = w[j + 1]
Cost(v, w, i, j) == IF v[i] = w[j] THEN 0 ELSE 1
Moves(v, w, swaps, f, i, j) ==
  {f[<<i + 1, j + 1>>] + Cost(v, w, i + 1, j + 1), f[<<i + 1, j>>] + 1, f[<<i, j + 1>>] + 1}
  \cup (IF Crossing(v, w, swaps, i, j) THEN {f[<<i + 2, j + 2>>] + 1} ELSE {})
Left(v, w, swaps, f, i, j) ==
  IF i = Len(v) THEN Len(w) - j ELSE IF j = Len(w) THEN Len(v) - i ELSE Min(Moves(v, w, swaps, f, i, j))
Rest(v, w, swaps) ==
  CHOOSE f : f = [p \in Positions(v, w) |-> Left(v, w, swaps, f, p[1], p[2])]

\* The reference is what is left before the first bytes.
LEMMA EditsIsRest ==
  ASSUME NEW v, NEW w, NEW swaps
  PROVE  Edits(v, w, swaps) = Rest(v, w, swaps)[<<0, 0>>]
BY DEF Edits, Rest, Positions, Left, Moves, Crossing, Cost

\* Lengths are numbers.
LEMMA Lengths == \A v \in Seq(Nat) : Len(v) \in Nat
  OBVIOUS

\* The moves away from the ends cost numbers.
LEMMA MovesAreNumbers ==
  ASSUME NEW v \in Seq(Nat), NEW w \in Seq(Nat), NEW swaps \in BOOLEAN,
         NEW f \in [Positions(v, w) -> Nat], NEW i \in 0..Len(v), NEW j \in 0..Len(w),
         i # Len(v), j # Len(w)
  PROVE  Moves(v, w, swaps, f, i, j) \in SUBSET Nat /\ Moves(v, w, swaps, f, i, j) # {}
<1>1. i + 1 \in 0..Len(v) /\ j + 1 \in 0..Len(w)
  BY Lengths
<1>2. \A k \in 0..Len(v), l \in 0..Len(w) : f[<<k, l>>] \in Nat
  BY DEF Positions
<1>3. Cost(v, w, i + 1, j + 1) \in Nat
  BY DEF Cost
<1>4. /\ f[<<i + 1, j + 1>>] + Cost(v, w, i + 1, j + 1) \in Nat
      /\ f[<<i + 1, j>>] + 1 \in Nat /\ f[<<i, j + 1>>] + 1 \in Nat
  <2>1. f[<<i + 1, j + 1>>] \in Nat /\ f[<<i + 1, j>>] \in Nat /\ f[<<i, j + 1>>] \in Nat
    BY <1>1, <1>2
  <2>2. \A a, b \in Nat : a + b \in Nat
    OBVIOUS
  <2> QED BY <1>3, <2>1, <2>2
<1>5. ASSUME Crossing(v, w, swaps, i, j)
      PROVE  f[<<i + 2, j + 2>>] + 1 \in Nat
  <2>1. i + 2 \in 0..Len(v) /\ j + 2 \in 0..Len(w)
    BY <1>5, Lengths DEF Crossing
  <2>2. f[<<i + 2, j + 2>>] \in Nat
    BY <1>2, <2>1
  <2> QED BY <2>2
<1> QED BY <1>4, <1>5 DEF Moves

\* What is left is a number, given the positions after it.
LEMMA LeftIsNumber ==
  ASSUME NEW v \in Seq(Nat), NEW w \in Seq(Nat), NEW swaps \in BOOLEAN,
         NEW f \in [Positions(v, w) -> Nat], NEW i \in 0..Len(v), NEW j \in 0..Len(w)
  PROVE  Left(v, w, swaps, f, i, j) \in Nat
<1>1. CASE i = Len(v) \/ j = Len(w)
  BY <1>1 DEF Left
<1>2. CASE i # Len(v) /\ j # Len(w)
  <2>1. Min(Moves(v, w, swaps, f, i, j)) \in Nat
    <3> DEFINE M == Moves(v, w, swaps, f, i, j)
    <3>1. M \in SUBSET Nat /\ M # {}
      BY <1>2, MovesAreNumbers
    <3> HIDE DEF M
    <3>2. Min(M) \in M
      BY <3>1, MinNumber
    <3> QED BY <3>1, <3>2 DEF M
  <2> QED BY <1>2, <2>1 DEF Left
<1> QED BY <1>1, <1>2

Beyond(v, w, i, j) == {q \in Positions(v, w) : q[1] + q[2] > i + j}

\* It is decided by what lies further on.
LEMMA LeftIsLocal ==
  ASSUME NEW v \in Seq(Nat), NEW w \in Seq(Nat), NEW swaps \in BOOLEAN, NEW f, NEW g,
         NEW i \in 0..Len(v), NEW j \in 0..Len(w),
         \A q \in Beyond(v, w, i, j) : f[q] = g[q]
  PROVE  Left(v, w, swaps, f, i, j) = Left(v, w, swaps, g, i, j)
<1>0. Len(v) \in Nat /\ Len(w) \in Nat
  BY Lengths
<1>1. CASE i = Len(v) \/ j = Len(w)
  BY <1>1 DEF Left
<1>2. CASE i # Len(v) /\ j # Len(w)
  <2>1. ASSUME NEW k \in 0..Len(v), NEW l \in 0..Len(w), k + l > i + j
        PROVE  f[<<k, l>>] = g[<<k, l>>]
    BY <2>1 DEF Beyond, Positions
  <2>2. /\ f[<<i + 1, j + 1>>] = g[<<i + 1, j + 1>>] /\ f[<<i + 1, j>>] = g[<<i + 1, j>>]
        /\ f[<<i, j + 1>>] = g[<<i, j + 1>>]
    <3>1. i + 1 \in 0..Len(v) /\ j + 1 \in 0..Len(w)
      BY <1>0, <1>2
    <3>2. (i + 1) + (j + 1) > i + j /\ (i + 1) + j > i + j /\ i + (j + 1) > i + j
      BY ONLY <1>0, i \in 0..Len(v), j \in 0..Len(w)
    <3> QED BY ONLY <2>1, <3>1, <3>2, i \in 0..Len(v), j \in 0..Len(w)
  <2>4. Crossing(v, w, swaps, i, j) => f[<<i + 2, j + 2>>] = g[<<i + 2, j + 2>>]
    <3> SUFFICES ASSUME Crossing(v, w, swaps, i, j)
                 PROVE  f[<<i + 2, j + 2>>] = g[<<i + 2, j + 2>>]
      OBVIOUS
    <3>1. i + 2 \in 0..Len(v) /\ j + 2 \in 0..Len(w) /\ (i + 2) + (j + 2) > i + j
      BY <1>0 DEF Crossing
    <3> QED BY <2>1, <3>1
  <2>3. Moves(v, w, swaps, f, i, j) = Moves(v, w, swaps, g, i, j)
    BY <2>2, <2>4 DEF Moves
  <2> QED BY <2>3 DEF Left
<1> QED BY <1>1, <1>2

\* The reference satisfies its own recursion.
LEMMA RestSolves ==
  ASSUME NEW v \in Seq(Nat), NEW w \in Seq(Nat), NEW swaps \in BOOLEAN
  PROVE  LET f == Rest(v, w, swaps)
         IN /\ f \in [Positions(v, w) -> Nat]
            /\ \A i \in 0..Len(v), j \in 0..Len(w) : f[<<i, j>>] = Left(v, w, swaps, f, i, j)
<1>0. Len(v) \in Nat /\ Len(w) \in Nat
  BY Lengths
<1> DEFINE D == Positions(v, w)
           N == Len(v) + Len(w) + 1
           rank == [p \in D |-> (Len(v) - p[1]) + (Len(w) - p[2])]
           step == [f \in [D -> Nat] |-> [p \in D |-> Left(v, w, swaps, f, p[1], p[2])]]
<1>1. \A p \in D : p[1] \in 0..Len(v) /\ p[2] \in 0..Len(w) /\ p = <<p[1], p[2]>>
  BY DEF Positions
<1>2. rank \in [D -> Nat] /\ N \in Nat /\ \A p \in D : rank[p] < N
  <2>1. \A p \in D : (Len(v) - p[1]) + (Len(w) - p[2]) \in Nat /\ (Len(v) - p[1]) + (Len(w) - p[2]) < N
    BY <1>1
  <2> HIDE DEF D
  <2> QED BY <2>1
<1>3. step \in [[D -> Nat] -> [D -> Nat]]
  <2>1. \A f \in [D -> Nat] : \A p \in D : Left(v, w, swaps, f, p[1], p[2]) \in Nat
    BY <1>1, LeftIsNumber
  <2> HIDE DEF D
  <2> QED BY <2>1
<1>4. ASSUME NEW f, NEW g, NEW p \in D, \A q \in D : rank[q] < rank[p] => f[q] = g[q]
      PROVE  Left(v, w, swaps, f, p[1], p[2]) = Left(v, w, swaps, g, p[1], p[2])
  <2>1. p[1] \in 0..Len(v) /\ p[2] \in 0..Len(w)
    BY <1>1
  <2> DEFINE i == p[1]
             j == p[2]
  <2>2. ASSUME NEW q \in Beyond(v, w, i, j)
        PROVE  f[q] = g[q]
    <3>1. q \in D /\ q[1] \in 0..Len(v) /\ q[2] \in 0..Len(w) /\ q[1] + q[2] > i + j
      BY <1>1 DEF Beyond
    <3>2. rank[p] = (Len(v) - i) + (Len(w) - j) /\ rank[q] = (Len(v) - q[1]) + (Len(w) - q[2])
      BY <3>1
    <3> DEFINE a  == q[1]
               b  == q[2]
               rp == rank[p]
               rq == rank[q]
    <3>3. a \in 0..Len(v) /\ b \in 0..Len(w) /\ i \in 0..Len(v) /\ j \in 0..Len(w) /\ a + b > i + j
      BY <2>1, <3>1
    <3>4. rp = (Len(v) - i) + (Len(w) - j) /\ rq = (Len(v) - a) + (Len(w) - b)
      BY <3>2
    <3> HIDE DEF D, rank, i, j, a, b, rp, rq
    <3>5. rq < rp
      BY <1>0, <3>3, <3>4
    <3> QED BY <1>4, <3>1, <3>5 DEF rp, rq
  <2>3. i \in 0..Len(v) /\ j \in 0..Len(w)
    BY <2>1
  <2> HIDE DEF D, rank, i, j
  <2>4. Left(v, w, swaps, f, i, j) = Left(v, w, swaps, g, i, j)
    BY <2>2, <2>3, LeftIsLocal
  <2> QED BY <2>4 DEF i, j
<1>5. \E f \in [D -> Nat] : f = step[f]
  <2>1. \A f, g \in [D -> Nat] : \A p \in D :
          (\A q \in D : rank[q] < rank[p] => f[q] = g[q]) => step[f][p] = step[g][p]
    <3> SUFFICES ASSUME NEW f \in [D -> Nat], NEW g \in [D -> Nat], NEW p \in D,
                        \A q \in D : rank[q] < rank[p] => f[q] = g[q]
                 PROVE  step[f][p] = step[g][p]
      OBVIOUS
    <3>1. Left(v, w, swaps, f, p[1], p[2]) = Left(v, w, swaps, g, p[1], p[2])
      BY <1>4
    <3> HIDE DEF D, rank
    <3> QED BY <3>1
  <2> HIDE DEF D, N, rank, step
  <2>2. Decides(step, D, rank, N)
    BY ONLY <1>2, <1>3, <2>1 DEF Decides
  <2> QED BY ONLY <2>2, Fixpoint
<1>6. PICK f \in [D -> Nat] : f = step[f]
  BY <1>5
<1>7. f = [p \in D |-> Left(v, w, swaps, f, p[1], p[2])]
  <2> HIDE DEF D
  <2> QED BY <1>6
<1> DEFINE F == Rest(v, w, swaps)
           same == {p \in D : F[p] = f[p]}
<1>8. F = [p \in D |-> Left(v, w, swaps, F, p[1], p[2])]
  BY <1>7 DEF Rest
<1>9. ASSUME NEW p \in D, \A q \in D : rank[q] < rank[p] => q \in same
      PROVE  p \in same
  <2>1. F[p] = Left(v, w, swaps, F, p[1], p[2]) /\ f[p] = Left(v, w, swaps, f, p[1], p[2])
    <3> HIDE DEF D, F
    <3> QED BY <1>7, <1>8
  <2>2. \A q \in D : rank[q] < rank[p] => F[q] = f[q]
    BY <1>9
  <2>3. Left(v, w, swaps, F, p[1], p[2]) = Left(v, w, swaps, f, p[1], p[2])
    <3> HIDE DEF D, F, rank, same
    <3> QED BY <2>2, <1>4
  <2> HIDE DEF D, F
  <2> QED BY <2>1, <2>3
<1>10. D \subseteq same
  <2> HIDE DEF D, F, rank, same, N
  <2> QED BY <1>2, <1>9, RankInduction
<1>11. F \in [D -> Nat]
  <2>1. DOMAIN F = D /\ F = [p \in D |-> F[p]]
    <3> HIDE DEF D, F
    <3> QED BY <1>8
  <2>2. \A p \in D : F[p] \in Nat
    BY <1>10
  <2> HIDE DEF D, F
  <2> QED BY <2>1, <2>2
<1>12. ASSUME NEW i \in 0..Len(v), NEW j \in 0..Len(w)
       PROVE  F[<<i, j>>] = Left(v, w, swaps, F, i, j)
  <2>1. <<i, j>> \in D
    BY DEF Positions
  <2> HIDE DEF D, F
  <2> QED BY <1>8, <2>1
<1> QED BY <1>11, <1>12

\* What is left, as the walks below use it: how it ends, no move beats it, and
\* away from the ends some move attains it.
Attains(v, w, swaps, R, i, j) ==
  \/ R[<<i, j>>] = R[<<i + 1, j + 1>>] + Cost(v, w, i + 1, j + 1)
  \/ R[<<i, j>>] = R[<<i + 1, j>>] + 1
  \/ R[<<i, j>>] = R[<<i, j + 1>>] + 1
  \/ Crossing(v, w, swaps, i, j) /\ R[<<i, j>>] = R[<<i + 2, j + 2>>] + 1

IsRest(v, w, swaps, R) ==
  /\ \A i \in 0..Len(v), j \in 0..Len(w) : R[<<i, j>>] \in Nat
  /\ \A j \in 0..Len(w) : R[<<Len(v), j>>] = Len(w) - j
  /\ \A i \in 0..Len(v) : R[<<i, Len(w)>>] = Len(v) - i
  /\ \A i \in 0..Len(v), j \in 0..Len(w) : i < Len(v) => R[<<i, j>>] <= R[<<i + 1, j>>] + 1
  /\ \A i \in 0..Len(v), j \in 0..Len(w) : j < Len(w) => R[<<i, j>>] <= R[<<i, j + 1>>] + 1
  /\ \A i \in 0..Len(v), j \in 0..Len(w) : i < Len(v) /\ j < Len(w) =>
       /\ R[<<i, j>>] <= R[<<i + 1, j + 1>>] + Cost(v, w, i + 1, j + 1)
       /\ Crossing(v, w, swaps, i, j) => R[<<i, j>>] <= R[<<i + 2, j + 2>>] + 1
       /\ Attains(v, w, swaps, R, i, j)

\* The reference ends, is beaten by no move and attained by one.
LEMMA RestIsRest ==
  ASSUME NEW v \in Seq(Nat), NEW w \in Seq(Nat), NEW swaps \in BOOLEAN
  PROVE  IsRest(v, w, swaps, Rest(v, w, swaps))
<1> DEFINE R == Rest(v, w, swaps)
<1>0. Len(v) \in Nat /\ Len(w) \in Nat
  BY Lengths
<1> USE <1>0
<1>1. /\ R \in [Positions(v, w) -> Nat]
      /\ \A i \in 0..Len(v), j \in 0..Len(w) : R[<<i, j>>] = Left(v, w, swaps, R, i, j)
  BY RestSolves
<1> HIDE DEF R
<1>2. \A i \in 0..Len(v), j \in 0..Len(w) : R[<<i, j>>] \in Nat
  BY <1>1 DEF Positions
<1>3. \A j \in 0..Len(w) : R[<<Len(v), j>>] = Len(w) - j
  <2>1. Len(v) \in 0..Len(v)
    OBVIOUS
  <2> QED BY <1>1, <2>1 DEF Left
<1>4. \A i \in 0..Len(v) : R[<<i, Len(w)>>] = Len(v) - i
  <2> SUFFICES ASSUME NEW i \in 0..Len(v)
               PROVE  R[<<i, Len(w)>>] = Len(v) - i
    OBVIOUS
  <2>1. Len(w) \in 0..Len(w)
    OBVIOUS
  <2>2. R[<<i, Len(w)>>] = Left(v, w, swaps, R, i, Len(w))
    BY <1>1, <2>1
  <2>3. i = Len(v) => Len(w) - Len(w) = Len(v) - i
    OBVIOUS
  <2> QED BY <2>2, <2>3 DEF Left
<1>5. ASSUME NEW i \in 0..Len(v), NEW j \in 0..Len(w), i < Len(v), j < Len(w)
      PROVE  /\ R[<<i, j>>] <= R[<<i + 1, j>>] + 1
             /\ R[<<i, j>>] <= R[<<i, j + 1>>] + 1
             /\ R[<<i, j>>] <= R[<<i + 1, j + 1>>] + Cost(v, w, i + 1, j + 1)
             /\ Crossing(v, w, swaps, i, j) => R[<<i, j>>] <= R[<<i + 2, j + 2>>] + 1
             /\ Attains(v, w, swaps, R, i, j)
  <2> DEFINE M == Moves(v, w, swaps, R, i, j)
  <2>1. i # Len(v) /\ j # Len(w)
    BY <1>5
  <2>2. M \in SUBSET Nat /\ M # {}
    BY <1>1, <2>1, MovesAreNumbers
  <2>3. R[<<i, j>>] = Min(M)
    BY <1>1, <2>1 DEF Left
  <2>4. /\ R[<<i + 1, j + 1>>] + Cost(v, w, i + 1, j + 1) \in M
        /\ R[<<i + 1, j>>] + 1 \in M /\ R[<<i, j + 1>>] + 1 \in M
        /\ Crossing(v, w, swaps, i, j) => R[<<i + 2, j + 2>>] + 1 \in M
    BY DEF Moves
  <2>5. \A m \in M : \/ m = R[<<i + 1, j + 1>>] + Cost(v, w, i + 1, j + 1)
                     \/ m = R[<<i + 1, j>>] + 1 \/ m = R[<<i, j + 1>>] + 1
                     \/ Crossing(v, w, swaps, i, j) /\ m = R[<<i + 2, j + 2>>] + 1
    BY DEF Moves
  <2> HIDE DEF M
  <2>6. Min(M) \in M /\ \A m \in M : Min(M) <= m
    BY <2>2, MinNumber
  <2>7. Attains(v, w, swaps, R, i, j)
    BY <2>3, <2>5, <2>6 DEF Attains
  <2> QED BY <2>3, <2>4, <2>6, <2>7
<1>6. ASSUME NEW i \in 0..Len(v), NEW j \in 0..Len(w), i < Len(v)
      PROVE  R[<<i, j>>] <= R[<<i + 1, j>>] + 1
  <2>1. CASE j = Len(w)
    <3>1. R[<<i, j>>] = Len(v) - i /\ R[<<i + 1, j>>] = Len(v) - (i + 1)
      <4>1. i \in 0..Len(v) /\ i + 1 \in 0..Len(v)
        BY <1>6
      <4> QED BY <1>4, <2>1, <4>1
    <3> QED BY <3>1
  <2>2. CASE j # Len(w)
    <3>1. j < Len(w)
      BY <2>2
    <3> QED BY <1>5, <1>6, <3>1
  <2> QED BY <2>1, <2>2
<1>7. ASSUME NEW i \in 0..Len(v), NEW j \in 0..Len(w), j < Len(w)
      PROVE  R[<<i, j>>] <= R[<<i, j + 1>>] + 1
  <2>1. CASE i = Len(v)
    <3>1. R[<<i, j>>] = Len(w) - j /\ R[<<i, j + 1>>] = Len(w) - (j + 1)
      <4>1. j \in 0..Len(w) /\ j + 1 \in 0..Len(w)
        BY <1>7
      <4> QED BY <1>3, <2>1, <4>1
    <3> QED BY <3>1
  <2>2. CASE i # Len(v)
    <3>1. i < Len(v)
      BY <2>2
    <3> QED BY <1>5, <1>7, <3>1
  <2> QED BY <2>1, <2>2
<1>8. IsRest(v, w, swaps, R)
  BY <1>2, <1>3, <1>4, <1>5, <1>6, <1>7 DEF IsRest
<1> QED BY <1>8 DEF R

\* No text becomes another in fewer edits than their lengths differ by.
LEMMA LengthsDiffer ==
  ASSUME NEW v \in Seq(Nat), NEW w \in Seq(Nat), NEW swaps, NEW R, IsRest(v, w, swaps, R),
         NEW i \in 0..Len(v), NEW j \in 0..Len(w)
  PROVE  R[<<i, j>>] >= (Len(v) - i) - (Len(w) - j) /\ R[<<i, j>>] >= (Len(w) - j) - (Len(v) - i)
<1>0. Len(v) \in Nat /\ Len(w) \in Nat
  BY Lengths
<1> USE <1>0
<1> DEFINE Far(k, l) == R[<<k, l>>] >= (Len(v) - k) - (Len(w) - l) /\ R[<<k, l>>] >= (Len(w) - l) - (Len(v) - k)
           S == {n \in Nat : \A k \in 0..Len(v), l \in 0..Len(w) :
                               (Len(v) - k) + (Len(w) - l) <= n => Far(k, l)}
<1>1. ASSUME NEW k \in 0..Len(v), NEW l \in 0..Len(w), k = Len(v) \/ l = Len(w)
      PROVE  Far(k, l)
  <2> DEFINE x == R[<<k, l>>]
  <2>1. (k = Len(v) => x = Len(w) - l) /\ (l = Len(w) => x = Len(v) - k)
    BY DEF IsRest
  <2> HIDE DEF x
  <2>2. x >= (Len(v) - k) - (Len(w) - l) /\ x >= (Len(w) - l) - (Len(v) - k)
    BY <1>1, <2>1
  <2> QED BY <2>2 DEF x
<1>2. 0 \in S
  <2>1. ASSUME NEW k \in 0..Len(v), NEW l \in 0..Len(w), (Len(v) - k) + (Len(w) - l) <= 0
        PROVE  k = Len(v)
    BY <2>1
  <2> HIDE DEF Far
  <2> QED BY <1>1, <2>1
<1>3. ASSUME NEW n \in Nat, n \in S
      PROVE  n + 1 \in S
  <2>1. ASSUME NEW k \in 0..Len(v), NEW l \in 0..Len(w), (Len(v) - k) + (Len(w) - l) <= n + 1,
               k < Len(v), l < Len(w)
        PROVE  Far(k, l)
    <3>1. Attains(v, w, swaps, R, k, l) /\ Cost(v, w, k + 1, l + 1) \in Nat
      BY <2>1 DEF IsRest, Cost
    <3>2. /\ k + 1 \in 0..Len(v) /\ l + 1 \in 0..Len(w)
          /\ (k + 1) + (l + 1) > k + l /\ (k + 1) + l > k + l /\ k + (l + 1) > k + l
      BY <2>1
    <3>3. \A a \in 0..Len(v), b \in 0..Len(w) : a + b > k + l => Far(a, b) /\ R[<<a, b>>] \in Nat
      <4> SUFFICES ASSUME NEW a \in 0..Len(v), NEW b \in 0..Len(w), a + b > k + l
                   PROVE  Far(a, b) /\ R[<<a, b>>] \in Nat
        OBVIOUS
      <4>1. (Len(v) - a) + (Len(w) - b) <= n
        BY <2>1
      <4>2. R[<<a, b>>] \in Nat
        BY DEF IsRest
      <4> HIDE DEF Far
      <4> QED BY <1>3, <4>1, <4>2
    <3> DEFINE x == R[<<k, l>>]
    <3>x. x \in Nat
      BY DEF IsRest
    <3>4. CASE x = R[<<k + 1, l + 1>>] + Cost(v, w, k + 1, l + 1)
      <4> DEFINE y == R[<<k + 1, l + 1>>]
                 d == Cost(v, w, k + 1, l + 1)
      <4>1. /\ y \in Nat /\ d \in Nat /\ x = y + d
            /\ y >= (Len(v) - (k + 1)) - (Len(w) - (l + 1)) /\ y >= (Len(w) - (l + 1)) - (Len(v) - (k + 1))
        <5>1. Far(k + 1, l + 1) /\ y \in Nat
          <6> HIDE DEF Far
          <6> QED BY <3>2, <3>3
        <5> QED BY <3>1, <3>4, <5>1
      <4> HIDE DEF x, y, d
      <4>2. x >= (Len(v) - k) - (Len(w) - l) /\ x >= (Len(w) - l) - (Len(v) - k)
        BY <4>1
      <4> QED BY <4>2 DEF x
    <3>5. CASE x = R[<<k + 1, l>>] + 1
      <4> DEFINE y == R[<<k + 1, l>>]
      <4>1. /\ y \in Nat /\ x = y + 1
            /\ y >= (Len(v) - (k + 1)) - (Len(w) - l) /\ y >= (Len(w) - l) - (Len(v) - (k + 1))
        <5>1. Far(k + 1, l) /\ y \in Nat
          <6> HIDE DEF Far
          <6> QED BY <3>2, <3>3
        <5> QED BY <3>5, <5>1
      <4> HIDE DEF x, y
      <4>2. x >= (Len(v) - k) - (Len(w) - l) /\ x >= (Len(w) - l) - (Len(v) - k)
        BY <4>1
      <4> QED BY <4>2 DEF x
    <3>6. CASE x = R[<<k, l + 1>>] + 1
      <4> DEFINE y == R[<<k, l + 1>>]
      <4>1. /\ y \in Nat /\ x = y + 1
            /\ y >= (Len(v) - k) - (Len(w) - (l + 1)) /\ y >= (Len(w) - (l + 1)) - (Len(v) - k)
        <5>1. Far(k, l + 1) /\ y \in Nat
          <6> HIDE DEF Far
          <6> QED BY <3>2, <3>3
        <5> QED BY <3>6, <5>1
      <4> HIDE DEF x, y
      <4>2. x >= (Len(v) - k) - (Len(w) - l) /\ x >= (Len(w) - l) - (Len(v) - k)
        BY <4>1
      <4> QED BY <4>2 DEF x
    <3>7. CASE Crossing(v, w, swaps, k, l) /\ x = R[<<k + 2, l + 2>>] + 1
      <4> DEFINE y == R[<<k + 2, l + 2>>]
      <4>1. k + 2 \in 0..Len(v) /\ l + 2 \in 0..Len(w) /\ (k + 2) + (l + 2) > k + l
        BY <3>7 DEF Crossing
      <4>2. /\ y \in Nat /\ x = y + 1
            /\ y >= (Len(v) - (k + 2)) - (Len(w) - (l + 2)) /\ y >= (Len(w) - (l + 2)) - (Len(v) - (k + 2))
        <5>1. Far(k + 2, l + 2) /\ y \in Nat
          <6> HIDE DEF Far
          <6> QED BY <3>3, <4>1
        <5> QED BY <3>7, <5>1
      <4> HIDE DEF x, y
      <4>3. x >= (Len(v) - k) - (Len(w) - l) /\ x >= (Len(w) - l) - (Len(v) - k)
        BY <4>2
      <4> QED BY <4>3 DEF x
    <3> HIDE DEF Far
    <3> QED BY <3>1, <3>4, <3>5, <3>6, <3>7 DEF Attains
  <2>2. ASSUME NEW k \in 0..Len(v), NEW l \in 0..Len(w), (Len(v) - k) + (Len(w) - l) <= n + 1
        PROVE  Far(k, l)
    <3>1. k = Len(v) \/ l = Len(w) \/ (k < Len(v) /\ l < Len(w))
      OBVIOUS
    <3> HIDE DEF Far
    <3> QED BY <1>1, <2>1, <2>2, <3>1
  <2> HIDE DEF Far
  <2> QED BY <2>2
<1>4. (Len(v) - i) + (Len(w) - j) \in S
  <2>1. (Len(v) - i) + (Len(w) - j) \in Nat
    OBVIOUS
  <2> HIDE DEF S
  <2> QED BY <1>2, <1>3, <2>1, Induction
<1>5. Far(i, j)
  <2> HIDE DEF Far
  <2> QED BY <1>4
<1> QED BY <1>5

-----------------------------------------------------------------------------
(* A row of the table, from the two before it. *)

IsRow(c, i, pp, p, v, w, swaps) ==
  /\ c \in [0..Len(w) -> Nat] /\ c[0] = i
  /\ \A j \in 1..Len(w) :
       /\ c[j] <= p[j] + 1 /\ c[j] <= c[j - 1] + 1 /\ c[j] <= p[j - 1] + Cost(v, w, i, j)
       /\ i >= 2 /\ j >= 2 /\ Crossing(v, w, swaps, i - 2, j - 2) => c[j] <= pp[j - 2] + 1
       /\ \/ c[j] = p[j] + 1 \/ c[j] = c[j - 1] + 1 \/ c[j] = p[j - 1] + Cost(v, w, i, j)
          \/ i >= 2 /\ j >= 2 /\ Crossing(v, w, swaps, i - 2, j - 2) /\ c[j] = pp[j - 2] + 1

Keyword == lookup.metric = "keyword"
Words   == Token \in Seq(Nat) /\ Name \in Seq(Nat)
Row     == [0..Len(Name) -> Nat]

\* Lower case is a byte value.
LEMMA LowerIsNumber == \A l \in Nat : Lower(l) \in Nat
BY DEF Lower, UpperA, LowerA

\* Folding keeps the length and lowers each byte.
LEMMA FoldType ==
  ASSUME NEW v \in Seq(Nat)
  PROVE  /\ Fold(v) \in Seq(Nat) /\ Len(Fold(v)) = Len(v)
         /\ \A i \in 1..Len(v) : Fold(v)[i] = Lower(v[i])
<1>1. ASSUME NEW i \in 1..Len(v) PROVE Lower(v[i]) \in Nat
  <2>1. v[i] \in Nat
    BY ONLY v \in Seq(Nat), i \in 1..Len(v)
  <2> QED BY ONLY <2>1, LowerIsNumber
<1>2. Fold(v) = [i \in 1..Len(v) |-> Lower(v[i])]
  BY DEF Fold
<1> HIDE DEF Fold
<1>3. Fold(v) \in [1..Len(v) -> Nat]
  BY <1>1, <1>2
<1>4. Len(v) \in Nat
  OBVIOUS
<1> QED BY <1>2, <1>3, <1>4

\* What a cell is the least of, given the cells before it.
Sources(f, j) ==
  {prev[j] + 1, f[j - 1] + 1, prev[j - 1] + (IF Lower(Token[row + 1]) = Lower(Name[j]) THEN 0 ELSE 1)}
  \cup (IF Swapped(row + 1, j) THEN {SwapCost(j)} ELSE {})
Cell(f, j) == IF j = 0 THEN row + 1 ELSE Min(Sources(f, j))

\* A cell is the least of numbers.
LEMMA SourcesAreNumbers ==
  ASSUME Words, prev \in Row, prevPrev \in Row, NEW f, NEW j \in 1..Len(Name), f[j - 1] \in Nat
  PROVE  Sources(f, j) \in SUBSET Nat /\ Sources(f, j) # {}
<1>1. j \in 0..Len(Name) /\ j - 1 \in 0..Len(Name)
  BY DEF Words
<1>2. prev[j] \in Nat /\ prev[j - 1] \in Nat
  BY <1>1 DEF Row
<1>3. Swapped(row + 1, j) => SwapCost(j) \in Nat
  <2> SUFFICES ASSUME j >= 2
               PROVE  SwapCost(j) \in Nat
    BY DEF Swapped
  <2>1. j - 2 \in 0..Len(Name)
    BY DEF Words
  <2>2. prevPrev[j - 2] \in Nat
    BY <2>1 DEF Row
  <2> QED BY <2>2 DEF SwapCost
<1>4. \A a, b \in Nat : a + b \in Nat
  OBVIOUS
<1> QED BY <1>2, <1>3, <1>4 DEF Sources

\* The row that FillRow fills satisfies its own recursion.
LEMMA RowSolves ==
  ASSUME Words, prev \in Row, prevPrev \in Row, row \in Nat
  PROVE  NextRow \in Row /\ \A j \in 0..Len(Name) : NextRow[j] = Cell(NextRow, j)
<1> DEFINE D == 0..Len(Name)
           N == Len(Name) + 1
           rank == [j \in D |-> j]
           step == [f \in [D -> Nat] |-> [j \in D |-> Cell(f, j)]]
<1>1. Len(Name) \in Nat
  BY DEF Words
<1>2. rank \in [D -> Nat] /\ N \in Nat /\ \A j \in D : rank[j] < N
  BY <1>1
<1>3. \A f, g : \A j \in D : (\A k \in D : rank[k] < rank[j] => f[k] = g[k]) => Cell(f, j) = Cell(g, j)
  <2> SUFFICES ASSUME NEW f, NEW g, NEW j \in D, \A k \in D : rank[k] < rank[j] => f[k] = g[k]
               PROVE  Cell(f, j) = Cell(g, j)
    OBVIOUS
  <2>1. CASE j = 0
    BY <2>1 DEF Cell
  <2>2. CASE j # 0
    <3>1. j - 1 \in D /\ rank[j - 1] < rank[j]
      BY <2>2
    <3>2. f[j - 1] = g[j - 1]
      BY <3>1
    <3> QED BY <2>2, <3>2 DEF Cell, Sources
  <2> QED BY <2>1, <2>2
<1>4. \A f \in [D -> Nat] : \A j \in D : Cell(f, j) \in Nat
  <2> SUFFICES ASSUME NEW f \in [D -> Nat], NEW j \in D
               PROVE  Cell(f, j) \in Nat
    OBVIOUS
  <2>1. CASE j = 0
    BY <2>1 DEF Cell
  <2>2. CASE j # 0
    <3>1. j \in 1..Len(Name) /\ f[j - 1] \in Nat
      BY <1>1, <2>2
    <3> DEFINE M == Sources(f, j)
    <3>2. M \in SUBSET Nat /\ M # {}
      BY <3>1, SourcesAreNumbers
    <3> HIDE DEF M
    <3>3. Min(M) \in Nat
      BY <3>2, MinNumber
    <3> QED BY <2>2, <3>3 DEF Cell, M
  <2> QED BY <2>1, <2>2
<1> HIDE DEF D, N, rank
<1>5. step \in [[D -> Nat] -> [D -> Nat]]
  BY <1>4
<1>6. PICK f \in [D -> Nat] : f = step[f]
  <2>1. \A f, g \in [D -> Nat] : \A j \in D :
          (\A k \in D : rank[k] < rank[j] => f[k] = g[k]) => step[f][j] = step[g][j]
    BY <1>3
  <2> HIDE DEF step
  <2>2. Decides(step, D, rank, N)
    BY ONLY <1>2, <1>5, <2>1 DEF Decides
  <2> QED BY ONLY <2>2, Fixpoint
<1>7. f = [j \in D |-> Cell(f, j)]
  BY <1>6
<1> DEFINE F == CHOOSE c : c = [j \in D |-> Cell(c, j)]
           same == {j \in D : F[j] = f[j]}
<1>8. F = [j \in D |-> Cell(F, j)]
  BY <1>7
<1>9. NextRow = F
  BY DEF NextRow, D, Cell, Sources
<1> HIDE DEF F
<1>10. ASSUME NEW j \in D, \A k \in D : rank[k] < rank[j] => k \in same
       PROVE  j \in same
  <2>1. F[j] = Cell(F, j) /\ f[j] = Cell(f, j)
    BY <1>7, <1>8
  <2>2. \A k \in D : rank[k] < rank[j] => F[k] = f[k]
    BY <1>10
  <2> QED BY <1>3, <2>1, <2>2
<1>11. D \subseteq same
  <2> HIDE DEF same
  <2> QED BY <1>2, <1>10, RankInduction
<1>12. F \in [D -> Nat]
  <2>1. F = [j \in D |-> F[j]]
    BY <1>8
  <2>2. \A j \in D : F[j] \in Nat
    BY <1>11
  <2> QED BY <2>1, <2>2
<1>13. \A j \in D : F[j] = Cell(F, j)
  BY <1>8
<1> QED BY <1>9, <1>12, <1>13 DEF Row, D

\* FillRow fills a row of the table, for words in lower case.
LEMMA NextRowIsRow ==
  ASSUME Words, prev \in Row, prevPrev \in Row, row \in Nat, row < Len(Token)
  PROVE  IsRow(NextRow, row + 1, prevPrev, prev, Fold(Token), Fold(Name), Keyword)
<1> DEFINE c == NextRow
           v == Fold(Token)
           w == Fold(Name)
<1>1. c \in Row /\ \A j \in 0..Len(Name) : c[j] = Cell(c, j)
  BY RowSolves
<1>2. Len(Token) \in Nat /\ Len(Name) \in Nat /\ Len(v) = Len(Token) /\ Len(w) = Len(Name)
  BY FoldType DEF Words
<1>3. (\A k \in 1..Len(Token) : v[k] = Lower(Token[k])) /\ (\A k \in 1..Len(Name) : w[k] = Lower(Name[k]))
  BY FoldType DEF Words
<1> HIDE DEF c, v, w
<1>4. c[0] = row + 1
  BY <1>1, <1>2 DEF Cell
<1>5. ASSUME NEW j \in 1..Len(Name)
      PROVE  /\ c[j] <= prev[j] + 1 /\ c[j] <= c[j - 1] + 1
             /\ c[j] <= prev[j - 1] + Cost(v, w, row + 1, j)
             /\ row + 1 >= 2 /\ j >= 2 /\ Crossing(v, w, Keyword, row + 1 - 2, j - 2) =>
                  c[j] <= prevPrev[j - 2] + 1
             /\ \/ c[j] = prev[j] + 1 \/ c[j] = c[j - 1] + 1
                \/ c[j] = prev[j - 1] + Cost(v, w, row + 1, j)
                \/ /\ row + 1 >= 2 /\ j >= 2 /\ Crossing(v, w, Keyword, row + 1 - 2, j - 2)
                   /\ c[j] = prevPrev[j - 2] + 1
  <2> DEFINE M == Sources(c, j)
  <2>1. j \in 0..Len(Name) /\ j # 0 /\ j - 1 \in 0..Len(Name)
    BY <1>2
  <2>2. c[j - 1] \in Nat
    BY <1>1, <2>1 DEF Row
  <2>3. M \in SUBSET Nat /\ M # {}
    BY <2>2, SourcesAreNumbers
  <2>4. c[j] = Min(M)
    BY <1>1, <2>1 DEF Cell
  <2>5. Cost(v, w, row + 1, j) = IF Lower(Token[row + 1]) = Lower(Name[j]) THEN 0 ELSE 1
    <3>1. row + 1 \in 1..Len(Token)
      BY <1>2
    <3> QED BY <1>3, <3>1 DEF Cost
  <2>6. Swapped(row + 1, j) <=> row + 1 >= 2 /\ j >= 2 /\ Crossing(v, w, Keyword, row + 1 - 2, j - 2)
    <3>1. CASE row + 1 >= 2 /\ j >= 2
      <4> DEFINE i == row + 1
      <4>1. /\ i \in 1..Len(Token) /\ i - 1 \in 1..Len(Token)
            /\ j - 1 \in 1..Len(Name)
        BY <1>2, <3>1
      <4>2. /\ v[i] = Lower(Token[i]) /\ v[i - 1] = Lower(Token[i - 1])
            /\ w[j] = Lower(Name[j]) /\ w[j - 1] = Lower(Name[j - 1])
        BY <1>3, <4>1
      <4>3. /\ i - 2 + 2 = i /\ i - 2 + 1 = i - 1 /\ j - 2 + 2 = j /\ j - 2 + 1 = j - 1
            /\ i <= Len(v) /\ j <= Len(w)
        BY <1>2, <4>1
      <4> HIDE DEF i
      <4>4. Crossing(v, w, Keyword, i - 2, j - 2) <=> Keyword /\ v[i - 1] = w[j] /\ v[i] = w[j - 1]
        BY <4>3 DEF Crossing
      <4>5. Swapped(i, j) <=> Keyword /\ v[i] = w[j - 1] /\ v[i - 1] = w[j]
        BY <3>1, <4>2 DEF Swapped, Keyword, i
      <4> QED BY <3>1, <4>4, <4>5 DEF i
    <3>2. CASE ~(row + 1 >= 2 /\ j >= 2)
      BY <3>2 DEF Swapped
    <3> QED BY <3>1, <3>2
  <2>7. /\ prev[j] + 1 \in M /\ c[j - 1] + 1 \in M /\ prev[j - 1] + Cost(v, w, row + 1, j) \in M
        /\ Swapped(row + 1, j) => prevPrev[j - 2] + 1 \in M
    BY <2>5 DEF Sources, SwapCost
  <2>8. \A m \in M : \/ m = prev[j] + 1 \/ m = c[j - 1] + 1 \/ m = prev[j - 1] + Cost(v, w, row + 1, j)
                     \/ Swapped(row + 1, j) /\ m = prevPrev[j - 2] + 1
    BY <2>5 DEF Sources, SwapCost
  <2> HIDE DEF M
  <2>9. Min(M) \in M /\ \A m \in M : Min(M) <= m
    BY <2>3, MinNumber
  <2>10. c[j] \in M /\ \A m \in M : c[j] <= m
    BY <2>4, <2>9
  <2> QED BY <2>6, <2>7, <2>8, <2>10
<1>6. IsRow(c, row + 1, prevPrev, prev, v, w, Keyword)
  BY <1>1, <1>2, <1>4, <1>5 DEF IsRow, Row
<1> QED BY <1>6 DEF c, v, w

-----------------------------------------------------------------------------
(* The table meets the reference.  A row is covered when no cell and what  *)
(* is left after it cost less than the whole; it is reached when some cell *)
(* of it, or a swap across it, and what is left cost no more.              *)

Covered(p, i, v, w, R) == \A j \in 0..Len(w) : R[<<0, 0>>] <= p[j] + R[<<i, j>>]

Reached(pp, p, i, v, w, swaps, R) ==
  \/ \E j \in 0..Len(w) : p[j] + R[<<i, j>>] <= R[<<0, 0>>]
  \/ \E j \in 2..Len(w) : /\ i >= 1 /\ i < Len(v) /\ Crossing(v, w, swaps, i - 1, j - 2)
                          /\ pp[j - 2] + 1 + R[<<i + 1, j>>] <= R[<<0, 0>>]

Smooth(p, w) == \A j \in 1..Len(w) : p[j] <= p[j - 1] + 1

TableInv(pp, p, i, v, w, swaps, R) ==
  /\ p \in [0..Len(w) -> Nat] /\ pp \in [0..Len(w) -> Nat]
  /\ p[0] = i /\ Smooth(p, w)
  /\ Covered(p, i, v, w, R)
  /\ i >= 1 => Covered(pp, i - 1, v, w, R)
  /\ Reached(pp, p, i, v, w, swaps, R)

\* The first row: the bytes of w that were added.
LEMMA FirstRow ==
  ASSUME NEW v \in Seq(Nat), NEW w \in Seq(Nat), NEW swaps, NEW R, IsRest(v, w, swaps, R), NEW p, NEW pp,
         p = [j \in 0..Len(w) |-> j], pp = [j \in 0..Len(w) |-> 0]
  PROVE  TableInv(pp, p, 0, v, w, swaps, R)
<1>0. Len(v) \in Nat /\ Len(w) \in Nat
  BY Lengths
<1> USE <1>0
<1>1. p \in [0..Len(w) -> Nat] /\ pp \in [0..Len(w) -> Nat] /\ p[0] = 0 /\ Smooth(p, w)
  BY DEF Smooth
<1>2. Covered(p, 0, v, w, R)
  <2> DEFINE S == {j \in Nat : j <= Len(w) => R[<<0, 0>>] <= j + R[<<0, j>>]}
  <2>1. 0 \in S
    BY DEF IsRest
  <2>2. ASSUME NEW j \in Nat, j \in S
        PROVE  j + 1 \in S
    <3> SUFFICES ASSUME j + 1 <= Len(w)
                 PROVE  R[<<0, 0>>] <= (j + 1) + R[<<0, j + 1>>]
      OBVIOUS
    <3>0. 0 \in 0..Len(v) /\ 0 \in 0..Len(w) /\ j \in 0..Len(w) /\ j + 1 \in 0..Len(w) /\ j < Len(w)
      OBVIOUS
    <3>1. R[<<0, j>>] <= R[<<0, j + 1>>] + 1
      BY <3>0 DEF IsRest
    <3>2. R[<<0, j>>] \in Nat /\ R[<<0, j + 1>>] \in Nat /\ R[<<0, 0>>] \in Nat
      BY <3>0 DEF IsRest
    <3>3. R[<<0, 0>>] <= j + R[<<0, j>>]
      BY <2>2, <3>0
    <3> QED BY ONLY <3>1, <3>2, <3>3, j \in Nat
  <2>3. Nat \subseteq S
    <3> HIDE DEF S
    <3> QED BY <2>1, <2>2, Induction
  <2>4. \A j \in 0..Len(w) : R[<<0, 0>>] <= j + R[<<0, j>>]
    <3> SUFFICES ASSUME NEW j \in 0..Len(w)
                 PROVE  R[<<0, 0>>] <= j + R[<<0, j>>]
      OBVIOUS
    <3>1. j \in S /\ j <= Len(w)
      BY <2>3
    <3> QED BY <3>1
  <2>5. \A j \in 0..Len(w) : p[j] = j
    OBVIOUS
  <2> HIDE DEF S
  <2> QED BY <2>4, <2>5 DEF Covered
<1>3. Reached(pp, p, 0, v, w, swaps, R)
  <2>1. p[0] + R[<<0, 0>>] <= R[<<0, 0>>]
    <3>1. 0 \in 0..Len(v) /\ 0 \in 0..Len(w)
      OBVIOUS
    <3>2. R[<<0, 0>>] \in Nat /\ p[0] = 0
      BY <3>1 DEF IsRest
    <3> QED BY <3>2
  <2>2. 0 \in 0..Len(w)
    OBVIOUS
  <2> QED BY <2>1, <2>2 DEF Reached
<1> QED BY <1>1, <1>2, <1>3 DEF TableInv

\* No cell of the next row undercuts the whole.
LEMMA CoveredStep ==
  ASSUME NEW v \in Seq(Nat), NEW w \in Seq(Nat), NEW swaps, NEW R, IsRest(v, w, swaps, R),
         NEW p, NEW pp, NEW c, NEW i \in Nat, i < Len(v), TableInv(pp, p, i, v, w, swaps, R),
         IsRow(c, i + 1, pp, p, v, w, swaps)
  PROVE  Covered(c, i + 1, v, w, R)
<1>0. Len(v) \in Nat /\ Len(w) \in Nat
  BY Lengths
<1> USE <1>0
<1> DEFINE total == R[<<0, 0>>]
           S == {j \in Nat : j <= Len(w) => total <= c[j] + R[<<i + 1, j>>]}
<1>1. i \in 0..Len(v) /\ i + 1 \in 0..Len(v) /\ total \in Nat
  BY DEF IsRest
<1>2. \A j \in 0..Len(w) : /\ R[<<i, j>>] \in Nat /\ R[<<i + 1, j>>] \in Nat /\ p[j] \in Nat /\ c[j] \in Nat
                            /\ total <= p[j] + R[<<i, j>>] /\ R[<<i, j>>] <= R[<<i + 1, j>>] + 1
  BY <1>1 DEF IsRest, TableInv, Covered, IsRow
<1>3. 0 \in S
  <2>1. c[0] = p[0] + 1
    BY DEF IsRow, TableInv
  <2>2. 0 \in 0..Len(w)
    OBVIOUS
  <2>3. /\ R[<<i, 0>>] \in Nat /\ R[<<i + 1, 0>>] \in Nat /\ p[0] \in Nat
        /\ total <= p[0] + R[<<i, 0>>] /\ R[<<i, 0>>] <= R[<<i + 1, 0>>] + 1
    BY <1>2, <2>2
  <2> DEFINE a == p[0]
             x == R[<<i, 0>>]
             y == R[<<i + 1, 0>>]
  <2> HIDE DEF total, a, x, y
  <2>4. /\ c[0] = a + 1 /\ x \in Nat /\ y \in Nat /\ a \in Nat /\ total \in Nat
        /\ total <= a + x /\ x <= y + 1
    BY ONLY <1>1, <2>1, <2>3 DEF a, x, y
  <2>5. total <= (a + 1) + y
    BY ONLY <2>4
  <2> QED BY <2>4, <2>5 DEF y
<1>4. ASSUME NEW k \in Nat, k \in S
      PROVE  k + 1 \in S
  <2> SUFFICES ASSUME k + 1 <= Len(w)
               PROVE  total <= c[k + 1] + R[<<i + 1, k + 1>>]
    OBVIOUS
  <2> DEFINE j == k + 1
             x == R[<<i, j>>]
             y == R[<<i + 1, j>>]
  <2>1. /\ j \in 1..Len(w) /\ j \in 0..Len(w) /\ j - 1 \in 0..Len(w) /\ j - 1 = k
        /\ k \in 0..Len(w) /\ k < Len(w)
    OBVIOUS
  <2>2. total <= c[k] + R[<<i + 1, k>>]
    BY <1>4, <2>1
  <2>3. Cost(v, w, i + 1, j) \in Nat
    BY DEF Cost
  <2>4. /\ R[<<i + 1, k>>] <= R[<<i + 1, j>>] + 1
        /\ R[<<i, k>>] <= R[<<i + 1, j>>] + Cost(v, w, i + 1, j)
    BY <1>1, <2>1 DEF IsRest
  <2> HIDE DEF j
  <2>5. \/ c[j] = p[j] + 1 \/ c[j] = c[j - 1] + 1 \/ c[j] = p[j - 1] + Cost(v, w, i + 1, j)
        \/ i + 1 >= 2 /\ j >= 2 /\ Crossing(v, w, swaps, i + 1 - 2, j - 2) /\ c[j] = pp[j - 2] + 1
    BY <2>1 DEF IsRow
  <2> HIDE DEF total
  <2>10. /\ R[<<i, j>>] \in Nat /\ R[<<i + 1, j>>] \in Nat /\ p[j] \in Nat
         /\ total <= p[j] + R[<<i, j>>] /\ R[<<i, j>>] <= R[<<i + 1, j>>] + 1
    BY <1>2, <2>1
  <2>11. /\ R[<<i, k>>] \in Nat /\ R[<<i + 1, k>>] \in Nat /\ p[k] \in Nat /\ c[k] \in Nat
         /\ total <= p[k] + R[<<i, k>>]
    BY <1>2, <2>1
  <2>6. ASSUME c[j] = p[j] + 1
        PROVE  total <= c[j] + y
    <3>1. x \in Nat /\ y \in Nat /\ p[j] \in Nat /\ total \in Nat /\ total <= p[j] + x /\ x <= y + 1
      BY <1>1, <2>10
    <3> HIDE DEF x, y
    <3>2. total <= (p[j] + 1) + y
      BY ONLY <3>1
    <3> QED BY <2>6, <3>2
  <2>7. ASSUME c[j] = c[j - 1] + 1
        PROVE  total <= c[j] + y
    <3>1. c[j] = c[k] + 1
      BY <2>1, <2>7
    <3> DEFINE z == R[<<i + 1, k>>]
    <3>2. y \in Nat /\ z \in Nat /\ c[k] \in Nat /\ total \in Nat /\ total <= c[k] + z /\ z <= y + 1
      BY <1>1, <2>2, <2>4, <2>10, <2>11
    <3> HIDE DEF y, z
    <3>3. total <= (c[k] + 1) + y
      BY ONLY <3>2
    <3> QED BY <3>1, <3>3
  <2>8. ASSUME c[j] = p[j - 1] + Cost(v, w, i + 1, j)
        PROVE  total <= c[j] + y
    <3>1. c[j] = p[k] + Cost(v, w, i + 1, j)
      BY <2>1, <2>8
    <3> DEFINE z == R[<<i, k>>]
               d == Cost(v, w, i + 1, j)
    <3>2. /\ y \in Nat /\ z \in Nat /\ p[k] \in Nat /\ d \in Nat /\ total \in Nat
          /\ total <= p[k] + z /\ z <= y + d
      BY <1>1, <2>3, <2>4, <2>10, <2>11
    <3> HIDE DEF y, z, d
    <3>3. total <= (p[k] + d) + y
      <4> DEFINE q == p[k]
      <4>1. total \in Nat /\ q \in Nat /\ z \in Nat /\ y \in Nat /\ d \in Nat /\ total <= q + z /\ z <= y + d
        BY <3>2
      <4> HIDE DEF q
      <4>2. q + z <= q + (y + d)
        BY <4>1
      <4>3. q + (y + d) = (q + d) + y
        BY <4>1
      <4>4. total <= (q + d) + y
        BY <4>1, <4>2, <4>3
      <4> QED BY <4>4 DEF q
    <3> QED BY <3>1, <3>3 DEF d
  <2>9. ASSUME i + 1 >= 2 /\ j >= 2 /\ Crossing(v, w, swaps, i + 1 - 2, j - 2) /\ c[j] = pp[j - 2] + 1
        PROVE  total <= c[j] + y
    <3> DEFINE a == i - 1
               b == j - 2
    <3>1. a \in 0..Len(v) /\ b \in 0..Len(w) /\ a < Len(v) /\ b < Len(w) /\ i >= 1
      <4>1. j \in 2..Len(w) /\ i >= 1
        BY ONLY <1>0, <2>1, <2>9, i \in Nat
      <4> QED BY ONLY <1>0, <4>1, i \in Nat, i < Len(v) DEF a, b
    <3>2. i + 1 - 2 = a /\ a + 2 = i + 1 /\ b + 2 = j
      BY <1>1, <2>1
    <3> HIDE DEF a, b
    <3>3. R[<<a, b>>] <= R[<<i + 1, j>>] + 1
      <4>1. Crossing(v, w, swaps, a, b)
        BY <2>9, <3>2 DEF b
      <4>2. R[<<a, b>>] <= R[<<a + 2, b + 2>>] + 1
        BY <3>1, <4>1 DEF IsRest
      <4> QED BY <3>2, <4>2
    <3>4. total <= pp[b] + R[<<a, b>>]
      BY <3>1 DEF TableInv, Covered, a, total
    <3>5. pp[b] \in Nat /\ R[<<a, b>>] \in Nat
      BY <3>1 DEF TableInv, IsRest
    <3>6. c[j] = pp[b] + 1
      BY <2>9 DEF b
    <3> DEFINE z == R[<<a, b>>]
    <3>7. /\ y \in Nat /\ z \in Nat /\ pp[b] \in Nat /\ total \in Nat
          /\ total <= pp[b] + z /\ z <= y + 1
      BY <1>1, <2>10, <3>3, <3>4, <3>5
    <3> HIDE DEF y, z
    <3>8. total <= (pp[b] + 1) + y
      BY ONLY <3>7
    <3> QED BY <3>6, <3>8
  <2> QED BY <2>5, <2>6, <2>7, <2>8, <2>9 DEF j
<1>5. Nat \subseteq S
  <2> HIDE DEF S
  <2> QED BY <1>3, <1>4, Induction
<1> QED BY <1>5 DEF Covered

\* Two places on in both words.
LEMMA TwoOn ==
  ASSUME NEW m \in Nat, NEW n \in Nat, NEW i \in Nat, NEW j \in Nat,
         i + 2 <= m, j + 2 <= n
  PROVE  /\ j + 2 \in 2..n /\ (j + 2) - 2 = j /\ i + 1 < m
         /\ i + 2 \in 0..m /\ j + 2 \in 0..n
OBVIOUS

\* What reaches a row goes on to the next: from its last cell that does, no
\* insertion is left, and each other move leads to the next row or across it.
LEMMA ReachedStep ==
  ASSUME NEW v \in Seq(Nat), NEW w \in Seq(Nat), NEW swaps, NEW R, IsRest(v, w, swaps, R),
         NEW p, NEW pp, NEW c, NEW i \in Nat, i < Len(v), TableInv(pp, p, i, v, w, swaps, R),
         IsRow(c, i + 1, pp, p, v, w, swaps)
  PROVE  Reached(p, c, i + 1, v, w, swaps, R)
<1>0. Len(v) \in Nat /\ Len(w) \in Nat
  BY Lengths
<1> USE <1>0
<1> DEFINE total == R[<<0, 0>>]
           Goal  == \E j \in 0..Len(w) : c[j] + R[<<i + 1, j>>] <= total
           S     == {j \in 0..Len(w) : p[j] + R[<<i, j>>] <= total}
<1>1. i \in 0..Len(v) /\ i + 1 \in 0..Len(v) /\ total \in Nat
  BY DEF IsRest
<1>2. \A j \in 0..Len(w) : /\ R[<<i, j>>] \in Nat /\ R[<<i + 1, j>>] \in Nat
                            /\ p[j] \in Nat /\ pp[j] \in Nat /\ c[j] \in Nat
  BY <1>1 DEF IsRest, TableInv, IsRow
<1>3. CASE S # {}
  <2>1. PICK j \in S : \A k \in S : k <= j
    <3>1. S \subseteq 0..Len(w)
      OBVIOUS
    <3> HIDE DEF S
    <3> QED BY <1>3, <3>1, GreatestNumber
  <2> DEFINE x == R[<<i, j>>]
             a == p[j]
  <2>2. j \in 0..Len(w) /\ a + x <= total /\ a \in Nat /\ x \in Nat
    BY <1>2
  <2> HIDE DEF total
  <2>3. ASSUME c[j] <= a + 1, x = R[<<i + 1, j>>] + 1
        PROVE  Goal
    <3> DEFINE y == R[<<i + 1, j>>]
    <3>1. y \in Nat /\ c[j] \in Nat /\ x = y + 1 /\ c[j] <= a + 1
      BY <1>2, <2>2, <2>3
    <3> HIDE DEF x, y, a
    <3>2. c[j] + y <= total
      BY <1>1, <2>2, <3>1
    <3> QED BY <2>2, <3>2 DEF y
  <2>4. c[j] <= a + 1
    <3>1. CASE j = 0
      <4>1. c[0] = p[0] + 1 /\ p[0] \in Nat
        BY <1>2, <2>2, <3>1 DEF IsRow, TableInv
      <4> QED BY <3>1, <4>1
    <3>2. CASE j # 0
      <4>1. j \in 1..Len(w)
        BY <2>2, <3>2
      <4> QED BY <4>1 DEF IsRow
    <3> QED BY <3>1, <3>2
  <2>5. CASE j = Len(w)
    <3>1. x = Len(v) - i /\ R[<<i + 1, j>>] = Len(v) - (i + 1)
      BY <1>1, <2>5 DEF IsRest
    <3>2. x = R[<<i + 1, j>>] + 1
      BY <1>1, <3>1
    <3> HIDE DEF Goal
    <3>3. Goal
      BY <2>3, <2>4, <3>2
    <3> QED BY <3>3 DEF Goal, Reached, total
  <2>6. CASE j < Len(w)
    <3>1. Attains(v, w, swaps, R, i, j)
      BY <1>1, <2>2, <2>6 DEF IsRest
    <3> DEFINE l == j + 1
    <3>2. l \in 1..Len(w) /\ l \in 0..Len(w) /\ l - 1 = j
      BY ONLY <1>0, <2>2, <2>6 DEF l
    <3>3. CASE x = R[<<i + 1, j + 1>>] + Cost(v, w, i + 1, j + 1)
      <4> DEFINE y == R[<<i + 1, l>>]
                 d == Cost(v, w, i + 1, l)
                 z == c[l]
      <4>1. y \in Nat /\ z \in Nat /\ d \in Nat
        BY <1>2, <3>2 DEF Cost
      <4>2. x = y + d
        BY <3>3
      <4> HIDE DEF l
      <4>3. z <= a + d
        BY <3>2 DEF IsRow
      <4>4. total \in Nat
        BY <1>1
      <4> HIDE DEF x, y, a, d, z
      <4>5. z + y <= total
        BY <2>2, <4>1, <4>2, <4>3, <4>4
      <4> QED BY <3>2, <4>5 DEF Reached, total, y, z
    <3>4. CASE x = R[<<i + 1, j>>] + 1
      <4> HIDE DEF Goal
      <4>1. Goal
        BY <2>3, <2>4, <3>4
      <4> QED BY <4>1 DEF Goal, Reached, total
    <3>5. CASE x = R[<<i, j + 1>>] + 1
      <4> DEFINE y == R[<<i, l>>]
                 z == p[l]
      <4>1. y \in Nat /\ z \in Nat /\ x = y + 1 /\ total \in Nat
        BY <1>1, <1>2, <3>2, <3>5
      <4> HIDE DEF l
      <4>2. z <= a + 1
        BY <3>2 DEF TableInv, Smooth
      <4> HIDE DEF x, y, a, z
      <4>3. z + y <= total
        BY <2>2, <4>1, <4>2
      <4>4. l \in S
        BY <3>2, <4>3 DEF y, z
      <4>5. l <= j
        BY <2>1, <4>4
      <4> QED BY <2>2, <4>5 DEF l
    <3>6. CASE Crossing(v, w, swaps, i, j) /\ x = R[<<i + 2, j + 2>>] + 1
      <4> DEFINE k == j + 2
                 y == R[<<i + 2, k>>]
      <4>0. i + 2 <= Len(v) /\ j + 2 <= Len(w) /\ j \in Nat
        BY <2>2, <3>6 DEF Crossing
      <4>1. k \in 2..Len(w) /\ k - 2 = j /\ i + 1 < Len(v) /\ i + 2 \in 0..Len(v) /\ k \in 0..Len(w)
        BY ONLY <1>0, <4>0, i \in Nat, TwoOn DEF k
      <4>2. y \in Nat /\ x = y + 1
        BY <3>6, <4>1 DEF IsRest
      <4> HIDE DEF k
      <4>3. a + 1 + y <= total
        <5>1. total \in Nat
          BY <1>1
        <5> HIDE DEF x, y, a
        <5> QED BY <2>2, <4>2, <5>1
      <4>4. p[k - 2] + 1 + R[<<i + 1 + 1, k>>] <= total
        <5>1. i + 1 + 1 = i + 2
          OBVIOUS
        <5> QED BY <4>1, <4>3, <5>1
      <4>5. Crossing(v, w, swaps, (i + 1) - 1, k - 2)
        <5>1. (i + 1) - 1 = i
          OBVIOUS
        <5> QED BY <3>6, <4>1, <5>1
      <4>6. i + 1 >= 1 /\ i + 1 < Len(v)
        BY <4>1
      <4> QED BY <4>1, <4>4, <4>5, <4>6, Zenon DEF Reached, total
    <3> QED BY <3>1, <3>3, <3>4, <3>5, <3>6 DEF Attains
  <2> QED BY <2>2, <2>5, <2>6
<1>4. CASE S = {}
  <2>1. ~ \E j \in 0..Len(w) : p[j] + R[<<i, j>>] <= total
    BY <1>4
  <2>2. PICK j \in 2..Len(w) : /\ i >= 1 /\ i < Len(v) /\ Crossing(v, w, swaps, i - 1, j - 2)
                               /\ pp[j - 2] + 1 + R[<<i + 1, j>>] <= total
    BY <2>1 DEF TableInv, Reached
  <2> DEFINE y == R[<<i + 1, j>>]
             b == j - 2
             z == c[j]
             a == pp[b]
  <2>3. j \in 1..Len(w) /\ j \in 0..Len(w) /\ b \in 0..Len(w) /\ i + 1 >= 2 /\ j >= 2 /\ i + 1 - 2 = i - 1
    BY ONLY <1>0, <2>2, i \in Nat DEF b
  <2>4. a \in Nat /\ y \in Nat /\ z \in Nat /\ total \in Nat
    BY <1>1, <1>2, <2>3
  <2>5. z <= a + 1
    <3>1. Crossing(v, w, swaps, i + 1 - 2, j - 2)
      BY <2>2, <2>3
    <3>2. \A k \in 1..Len(w) : i + 1 >= 2 /\ k >= 2 /\ Crossing(v, w, swaps, i + 1 - 2, k - 2)
            => c[k] <= pp[k - 2] + 1
      BY DEF IsRow
    <3> QED BY ONLY <2>3, <3>1, <3>2 DEF z, a, b
  <2>6. a + 1 + y <= total
    BY <2>2
  <2> HIDE DEF y, b, total, z, a
  <2>7. z + y <= total
    BY <2>4, <2>5, <2>6
  <2> QED BY <2>3, <2>7 DEF Reached, total, y, z
<1> QED BY <1>3, <1>4

\* A row more keeps the table right.
LEMMA TableStep ==
  ASSUME NEW v \in Seq(Nat), NEW w \in Seq(Nat), NEW swaps, NEW R, IsRest(v, w, swaps, R),
         NEW p, NEW pp, NEW c, NEW i \in Nat, i < Len(v), TableInv(pp, p, i, v, w, swaps, R),
         IsRow(c, i + 1, pp, p, v, w, swaps)
  PROVE  TableInv(p, c, i + 1, v, w, swaps, R)
<1>1. Covered(c, i + 1, v, w, R) /\ Reached(p, c, i + 1, v, w, swaps, R)
  BY CoveredStep, ReachedStep
<1>2. c \in [0..Len(w) -> Nat] /\ p \in [0..Len(w) -> Nat] /\ c[0] = i + 1 /\ Smooth(c, w)
  BY DEF IsRow, TableInv, Smooth
<1>3. i + 1 - 1 = i
  OBVIOUS
<1>4. Covered(p, i + 1 - 1, v, w, R)
  BY <1>3 DEF TableInv
<1> QED BY <1>1, <1>2, <1>4 DEF TableInv

\* After the last row the last cell holds the distance.
LEMMA LastCell ==
  ASSUME NEW v \in Seq(Nat), NEW w \in Seq(Nat), NEW swaps, NEW R, IsRest(v, w, swaps, R),
         NEW p, NEW pp, TableInv(pp, p, Len(v), v, w, swaps, R)
  PROVE  p[Len(w)] = R[<<0, 0>>]
<1>0. Len(v) \in Nat /\ Len(w) \in Nat
  BY Lengths
<1> USE <1>0
<1> DEFINE total == R[<<0, 0>>]
           n == Len(w)
<1>1. total \in Nat /\ n \in 0..Len(w) /\ Len(v) \in 0..Len(v)
  BY DEF IsRest
<1>2. \A j \in 0..Len(w) : p[j] \in Nat /\ R[<<Len(v), j>>] = n - j
  BY DEF IsRest, TableInv
<1>3. PICK j \in 0..Len(w) : p[j] + R[<<Len(v), j>>] <= total
  <2>1. ~(Len(v) < Len(v))
    OBVIOUS
  <2>2. Reached(pp, p, Len(v), v, w, swaps, R)
    BY DEF TableInv
  <2> QED BY <2>1, <2>2 DEF Reached
<1>4. p[j] + (n - j) <= total
  <2>1. R[<<Len(v), j>>] = n - j
    BY <1>2
  <2> QED BY <1>3, <2>1
<1>5. total <= p[n]
  <2>1. total <= p[n] + R[<<Len(v), n>>]
    BY <1>1 DEF TableInv, Covered
  <2>2. R[<<Len(v), n>>] = 0 /\ p[n] \in Nat
    BY <1>1, <1>2
  <2> QED BY <2>1, <2>2
<1>6. p[n] <= p[j] + (n - j)
  <2> DEFINE S == {k \in Nat : j + k <= n => p[j + k] <= p[j] + k}
  <2>1. 0 \in S
    <3> DEFINE z == p[j]
    <3>1. z \in Nat
      BY <1>2
    <3> HIDE DEF z
    <3>2. z <= z + 0
      BY <3>1
    <3>3. j + 0 = j /\ p[j] <= p[j] + 0
      BY <3>2 DEF z
    <3> QED BY <3>3
  <2>2. ASSUME NEW k \in Nat, k \in S
        PROVE  k + 1 \in S
    <3> SUFFICES ASSUME j + (k + 1) <= n
                 PROVE  p[j + (k + 1)] <= p[j] + (k + 1)
      OBVIOUS
    <3> DEFINE l == j + (k + 1)
    <3>1. l \in 1..Len(w) /\ l \in 0..Len(w) /\ l - 1 = j + k /\ j + k \in 0..Len(w) /\ j + k <= n
      OBVIOUS
    <3>2. p[j + k] <= p[j] + k
      BY <2>2, <3>1
    <3>3. p[l] <= p[l - 1] + 1
      BY <3>1 DEF TableInv, Smooth
    <3>4. p[l] \in Nat /\ p[j + k] \in Nat /\ p[j] \in Nat
      BY <1>2, <3>1
    <3>5. p[l] <= p[j + k] + 1
      BY <3>1, <3>3
    <3> DEFINE x == p[l]
               y == p[j + k]
               z == p[j]
    <3>6. x \in Nat /\ y \in Nat /\ z \in Nat /\ y <= z + k /\ x <= y + 1
      BY <3>2, <3>4, <3>5
    <3> HIDE DEF l, x, y, z
    <3>7. x <= z + (k + 1)
      BY <3>6
    <3> QED BY <3>7 DEF l, x, z
  <2>3. Nat \subseteq S
    <3> HIDE DEF S
    <3> QED BY <2>1, <2>2, Induction
  <2>4. n - j \in Nat /\ j + (n - j) = n
    OBVIOUS
  <2>5. n - j \in S
    BY <2>3, <2>4
  <2> QED BY <2>4, <2>5
<1>7. p[n] \in Nat /\ p[j] \in Nat
  BY <1>1, <1>2
<1> HIDE DEF n, total
<1>8. p[n] <= total
  BY <1>1, <1>4, <1>6, <1>7 DEF n
<1>9. p[n] = total
  BY <1>1, <1>5, <1>7, <1>8
<1> QED BY <1>9 DEF n, total

-----------------------------------------------------------------------------
(* The invariant.  Between names the hits are those of the names looked at; *)
(* within a name the table meets the reference up to the current row.       *)

Typed == /\ lookup \in Lookups /\ ranked \in BOOLEAN
         /\ tried \in 0..Len(lookup.names)

Reference == Rest(Fold(Token), Fold(Name), Keyword)
RowInv == row # NoRow => /\ Asking /\ ~Unfit(Name) /\ row \in 0..Len(Token)
                         /\ TableInv(prevPrev, prev, row, Fold(Token), Fold(Name), Keyword, Reference)

\* The worthy among the names looked at.
Tried == {i \in Worthy : i <= tried}
HitsInv == /\ hits \in Seq([name : Seq(Nat), distance : Nat])
           /\ Len(hits) = Cardinality(Tried)
           /\ \A k \in 1..Len(hits) : \E i \in Tried : hits[k] = Scored(i)
           /\ \A i \in Tried : \E k \in 1..Len(hits) : hits[k] = Scored(i)

SuggestInv == Typed /\ RowInv /\ HitsInv /\ (~ranked => offer = <<>>) /\ SuggestsNearest

\* What a lookup is made of.
LEMMA LookupShape ==
  ASSUME lookup \in Lookups
  PROVE  /\ Token \in Seq(Nat) /\ lookup.names \in Seq(Seq(Nat)) /\ Len(lookup.names) \in Nat
         /\ Len(Token) \in Nat
         /\ \A i \in 1..Len(lookup.names) : lookup.names[i] \in Seq(Nat)
<1>1. Token \in Seq(Nat) /\ lookup.names \in Seq(Seq(Nat))
  BY LookupsAssumption DEF Token, LookupsAssumption
<1> QED BY <1>1

\* While names are left the next one is a word.
LEMMA NameIsWord ==
  ASSUME Typed, tried < Len(lookup.names)
  PROVE  /\ Words /\ tried + 1 \in 1..Len(lookup.names) /\ Name = lookup.names[tried + 1]
         /\ Fold(Token) \in Seq(Nat) /\ Fold(Name) \in Seq(Nat)
         /\ Len(Fold(Token)) = Len(Token) /\ Len(Fold(Name)) = Len(Name)
         /\ Len(Token) \in Nat /\ Len(Name) \in Nat /\ Keyword \in BOOLEAN
<1>1. lookup \in Lookups /\ tried \in Nat /\ Len(lookup.names) \in Nat
  BY LookupShape DEF Typed
<1>2. tried + 1 \in 1..Len(lookup.names)
  BY <1>1
<1>3. Token \in Seq(Nat) /\ Name \in Seq(Nat)
  BY <1>1, <1>2, LookupShape DEF Name
<1> QED BY <1>2, <1>3, FoldType DEF Words, Name, Keyword

\* A distance is a number, and no less than the lengths differ by.
LEMMA DistanceType ==
  ASSUME lookup \in Lookups, NEW w \in Seq(Nat)
  PROVE  /\ Distance(w) \in Nat
         /\ Distance(w) >= Len(Token) - Len(w) /\ Distance(w) >= Len(w) - Len(Token)
<1> DEFINE v == Fold(Token)
           f == Fold(w)
           R == Rest(v, f, Keyword)
           d == R[<<0, 0>>]
<1>1. v \in Seq(Nat) /\ f \in Seq(Nat) /\ Len(v) = Len(Token) /\ Len(f) = Len(w) /\ Keyword \in BOOLEAN
  BY LookupShape, FoldType DEF Keyword
<1>2. Distance(w) = d
  BY EditsIsRest DEF Distance, Keyword
<1> HIDE DEF v, f
<1>3. IsRest(v, f, Keyword, R)
  BY <1>1, RestIsRest
<1> HIDE DEF R
<1>4. 0 \in 0..Len(v) /\ 0 \in 0..Len(f) /\ Len(v) \in Nat /\ Len(f) \in Nat
  BY <1>1
<1>5. d \in Nat
  BY <1>3, <1>4 DEF IsRest
<1>6. d >= (Len(v) - 0) - (Len(f) - 0) /\ d >= (Len(f) - 0) - (Len(v) - 0)
  BY <1>1, <1>3, <1>4, LengthsDiffer
<1>7. d >= Len(v) - Len(f) /\ d >= Len(f) - Len(v)
  <2> HIDE DEF d
  <2> QED BY <1>4, <1>6
<1> QED BY <1>1, <1>2, <1>5, <1>7

\* The limit is a number.
LEMMA LimitType == ASSUME lookup \in Lookups PROVE Limit \in Nat
<1> DEFINE n == MaxDistance(Len(Token))
<1>1. n \in Nat
  BY LookupShape DEF MaxDistance
<1> HIDE DEF n
<1>2. Min({KeywordSuggestionDistanceCap, n}) \in {KeywordSuggestionDistanceCap, n}
  <2>1. {KeywordSuggestionDistanceCap, n} \in SUBSET Nat /\ {KeywordSuggestionDistanceCap, n} # {}
    BY <1>1 DEF KeywordSuggestionDistanceCap
  <2> QED BY <2>1, MinNumber
<1>3. Min({KeywordSuggestionDistanceCap, n}) \in Nat
  BY <1>1, <1>2 DEF KeywordSuggestionDistanceCap
<1> QED BY <1>1, <1>3 DEF Limit, n

\* A name the filters pass over is not worth offering.
LEMMA UnfitIsUnworthy ==
  ASSUME Typed, tried < Len(lookup.names), Unfit(Name)
  PROVE  tried + 1 \notin Worthy
<1> DEFINE w == Name
           d == Distance(w)
           a == Len(w) - Len(Token)
           b == Len(Token) - Len(w)
<1>1. w \in Seq(Nat) /\ w = lookup.names[tried + 1] /\ lookup \in Lookups
  BY NameIsWord DEF Words, Typed
<1>2. CASE w = <<>> \/ Fold(w) = Fold(Token)
  BY <1>1, <1>2 DEF Worthy
<1>3. CASE TooFar(a) \/ TooFar(b)
  <2>1. d \in Nat /\ d >= a /\ d >= b
    BY <1>1, DistanceType
  <2>2. a \in Int /\ b \in Int /\ Limit \in Nat
    BY <1>1, LookupShape, LimitType
  <2> HIDE DEF w, d, a, b
  <2>3. TooFar(d)
    BY <1>3, <2>1, <2>2 DEF TooFar
  <2> QED BY <1>1, <2>3 DEF d, w, Worthy
<1> QED BY <1>2, <1>3 DEF Unfit

\* What does not change with the lookup.
LEMMA SameLookup ==
  ASSUME lookup' = lookup
  PROVE  /\ Token' = Token /\ Worthy' = Worthy /\ Refuses' = Refuses /\ Keyword' = Keyword
         /\ Size' = Size /\ \A i : Scored(i)' = Scored(i)
<1>1. Token' = Token
  BY DEF Token
<1>2. \A w : Distance(w)' = Distance(w)
  BY <1>1 DEF Distance
<1>3. \A d : TooFar(d)' = TooFar(d)
  BY <1>1 DEF TooFar, Limit
<1>4. Worthy' = Worthy
  BY <1>1, <1>2, <1>3 DEF Worthy
<1>5. Refuses' = Refuses
  BY <1>1 DEF Refuses, IsKeyword
<1> QED BY <1>1, <1>2, <1>4, <1>5 DEF Scored, Keyword, Size

\* While no answer is given, the answer need not be right.
LEMMA NoAnswerYet == ASSUME ~ranked PROVE SuggestsNearest
BY DEF SuggestsNearest

\* No name has been looked at.
LEMMA SuggestInitInv == SuggestInit => SuggestInv
<1> SUFFICES ASSUME SuggestInit
             PROVE  SuggestInv
  OBVIOUS
<1> USE DEF SuggestInit
<1>1. Typed
  <2>1. Len(lookup.names) \in Nat
    BY LookupShape
  <2>2. 0 \in 0..Len(lookup.names)
    BY <2>1
  <2> QED BY <2>2 DEF Typed
<1>2. RowInv
  BY DEF RowInv
<1>3. HitsInv
  <2>1. Tried = {}
    BY DEF Tried, Worthy
  <2>2. Cardinality(Tried) = 0
    BY <2>1, FS_EmptySet
  <2> QED BY <2>1, <2>2 DEF HitsInv
<1> QED BY <1>1, <1>2, <1>3, NoAnswerYet DEF SuggestInv

\* A step inside a name leaves the hits.
LEMMA SameHits ==
  ASSUME HitsInv, UNCHANGED <<lookup, tried, hits>>
  PROVE  HitsInv'
<1>1. Tried' = Tried
  BY SameLookup DEF Tried
<1>2. \A i : Scored(i)' = Scored(i)
  BY SameLookup
<1> QED BY <1>1, <1>2 DEF HitsInv

\* Without a question there is no answer to give.
LEMMA RefuseStep == ASSUME SuggestInv, Refuse PROVE SuggestInv'
<1> USE DEF SuggestInv, Refuse
<1>1. Typed'
  BY DEF Typed
<1>2. RowInv'
  BY DEF RowInv
<1>3. HitsInv'
  BY SameHits
<1>4. SuggestsNearest'
  <2> SUFFICES ASSUME ~(lookup.metric = "keyword" /\ IsKeyword(Token))
               PROVE  SuggestsNearest'
    BY DEF SuggestsNearest, IsKeyword, Token
  <2>1. offer' = <<>> /\ Len(offer') = 0
    OBVIOUS
  <2> DEFINE n == IF Token = <<>> /\ lookup.metric # "sample" THEN 0 ELSE Cardinality(Worthy)
  <2>2. n = 0
    <3>1. CASE Token = <<>> /\ lookup.metric # "sample"
      BY <3>1
    <3>2. CASE lookup.names = <<>>
      <4>1. Worthy = {}
        BY <3>2 DEF Worthy
      <4> QED BY <4>1, FS_EmptySet
    <3> QED BY <3>1, <3>2 DEF Refuses
  <2> HIDE DEF n
  <2>3. Min({Size, n}) = 0
    <3>1. {Size, 0} \in SUBSET Nat /\ {Size, 0} # {}
      BY DEF Size, AvailableFunctionsSampleSize, MaxSuggestions
    <3>2. Min({Size, 0}) \in {Size, 0} /\ Min({Size, 0}) <= 0
      BY <3>1, MinNumber
    <3>3. Min({Size, 0}) \in Nat
      BY <3>1, <3>2
    <3>4. Min({Size, 0}) = 0
      <4> DEFINE z == Min({Size, 0})
      <4> HIDE DEF z
      <4>1. z \in Nat /\ z <= 0
        BY <3>2, <3>3 DEF z
      <4>2. z = 0
        BY <4>1
      <4> QED BY <4>2 DEF z
    <3> QED BY <2>2, <3>4
  <2>4. /\ Token' = Token /\ Worthy' = Worthy /\ Size' = Size /\ lookup' = lookup
    BY SameLookup
  <2>5. Len(offer') = Min({Size', IF Token' = <<>> /\ lookup'.metric # "sample" THEN 0 ELSE Cardinality(Worthy')})
    BY <2>1, <2>3, <2>4 DEF n
  <2>6. ~(lookup'.metric = "keyword" /\ IsKeyword(Token)')
    BY <2>4 DEF IsKeyword
  <2>7. \A k \in 1..Len(offer') : FALSE
    BY <2>1
  <2> QED BY <2>5, <2>6, <2>7 DEF SuggestsNearest
<1> QED BY <1>1, <1>2, <1>3, <1>4

\* The filters pass over unworthy names only.
LEMMA SkipNameStep == ASSUME SuggestInv, SkipName PROVE SuggestInv'
<1> USE DEF SuggestInv, SkipName
<1>0. ~ranked /\ tried < Len(lookup.names)
  BY DEF Asking
<1>1. Typed'
  <2>1. tried + 1 \in 0..Len(lookup.names)
    BY <1>0, NameIsWord
  <2> QED BY <2>1 DEF Typed
<1>2. RowInv'
  BY DEF RowInv
<1>3. HitsInv'
  <2>1. tried + 1 \notin Worthy /\ Worthy' = Worthy
    BY <1>0, UnfitIsUnworthy, SameLookup
  <2>2. Tried' = Tried
    <3>1. tried \in Nat /\ Worthy \subseteq Nat
      BY <1>0 DEF Typed, Worthy
    <3>2. \A i \in Worthy : i <= tried + 1 <=> i <= tried
      <4> SUFFICES ASSUME NEW i \in Worthy
                   PROVE  i <= tried + 1 <=> i <= tried
        OBVIOUS
      <4>1. i \in Nat /\ i # tried + 1
        BY <2>1, <3>1
      <4> QED BY <3>1, <4>1
    <3> QED BY <2>1, <3>2 DEF Tried
  <2>3. \A i : Scored(i)' = Scored(i)
    BY SameLookup
  <2> QED BY <2>2, <2>3 DEF HitsInv
<1> QED BY <1>0, <1>1, <1>2, <1>3, NoAnswerYet DEF SuggestsNearest

\* What the operators of a name read is the same after a step inside it.
LEMMA SameName ==
  ASSUME lookup' = lookup, tried' = tried, ranked' = ranked
  PROVE  /\ Token' = Token /\ Name' = Name /\ Keyword' = Keyword /\ Reference' = Reference
         /\ (Asking <=> Asking') /\ (Unfit(Name) <=> Unfit(Name)')
<1>1. Token' = Token /\ Name' = Name /\ Keyword' = Keyword /\ Refuses' = Refuses
  BY SameLookup DEF Name
<1>2. \A d : TooFar(d)' = TooFar(d)
  BY <1>1 DEF TooFar, Limit
<1> QED BY <1>1, <1>2 DEF Reference, Asking, Unfit

\* The first row meets the reference.
LEMMA StartTableStep == ASSUME SuggestInv, StartTable PROVE SuggestInv'
<1> USE DEF SuggestInv, StartTable
<1>0. ~ranked /\ tried < Len(lookup.names)
  BY DEF Asking
<1>1. Typed'
  BY DEF Typed
<1>2. RowInv'
  <2> DEFINE v == Fold(Token)
             w == Fold(Name)
  <2>1. v \in Seq(Nat) /\ w \in Seq(Nat) /\ Len(w) = Len(Name) /\ Keyword \in BOOLEAN /\ Len(Token) \in Nat
    BY <1>0, NameIsWord
  <2>2. IsRest(v, w, Keyword, Reference)
    BY <2>1, RestIsRest DEF Reference
  <2>3. prev' = [j \in 0..Len(w) |-> j] /\ prevPrev' = [j \in 0..Len(w) |-> 0]
    BY <2>1
  <2> HIDE DEF v, w
  <2>4. TableInv(prevPrev', prev', 0, v, w, Keyword, Reference)
    BY <2>1, <2>2, <2>3, FirstRow
  <2>5. row' = 0 /\ 0 \in 0..Len(Token) /\ Asking /\ ~Unfit(Name)
    BY <2>1
  <2> QED BY <2>4, <2>5, SameName DEF RowInv, v, w
<1>3. HitsInv'
  BY SameHits
<1> QED BY <1>0, <1>1, <1>2, <1>3, NoAnswerYet DEF SuggestsNearest

\* Each row meets the reference if the one before does.
LEMMA FillRowStep == ASSUME SuggestInv, FillRow PROVE SuggestInv'
<1> USE DEF SuggestInv, FillRow
<1>0. ~ranked /\ tried < Len(lookup.names)
  BY DEF Asking
<1>1. Typed'
  BY DEF Typed
<1>2. RowInv'
  <2> DEFINE v == Fold(Token)
             w == Fold(Name)
  <2>1. /\ v \in Seq(Nat) /\ w \in Seq(Nat) /\ Len(v) = Len(Token) /\ Len(w) = Len(Name)
        /\ Keyword \in BOOLEAN /\ Len(Token) \in Nat /\ Words
    BY <1>0, NameIsWord
  <2>2. IsRest(v, w, Keyword, Reference)
    BY <2>1, RestIsRest DEF Reference
  <2>3. /\ row \in 0..Len(Token) /\ row \in Nat /\ row < Len(v) /\ row < Len(Token)
        /\ TableInv(prevPrev, prev, row, v, w, Keyword, Reference)
    BY <2>1 DEF RowInv
  <2>4. prev \in Row /\ prevPrev \in Row
    BY <2>1, <2>3 DEF TableInv, Row
  <2>5. IsRow(NextRow, row + 1, prevPrev, prev, v, w, Keyword)
    BY <2>1, <2>3, <2>4, NextRowIsRow
  <2> HIDE DEF v, w
  <2>6. TableInv(prev, NextRow, row + 1, v, w, Keyword, Reference)
    BY <2>1, <2>2, <2>3, <2>5, TableStep
  <2>7. row + 1 \in 0..Len(Token) /\ Asking /\ ~Unfit(Name)
    BY <2>1, <2>3 DEF RowInv, NoRow
  <2>8. TableInv(prevPrev', prev', row', v, w, Keyword, Reference)
    BY <2>6
  <2> QED BY <2>7, <2>8, SameName DEF RowInv, v, w
<1>3. HitsInv'
  BY SameHits
<1> QED BY <1>0, <1>1, <1>2, <1>3, NoAnswerYet DEF SuggestsNearest

\* What appending does to a sequence.
LEMMA AppendShape ==
  ASSUME NEW S, NEW s \in Seq(S), NEW e \in S
  PROVE  /\ Append(s, e) \in Seq(S) /\ Len(s) \in Nat /\ Len(Append(s, e)) = Len(s) + 1
         /\ Append(s, e)[Len(s) + 1] = e /\ \A k \in 1..Len(s) : Append(s, e)[k] = s[k]
OBVIOUS

\* A name becomes a hit exactly when it is worthy.
LEMMA ScoreNameStep == ASSUME SuggestInv, ScoreName PROVE SuggestInv'
<1> USE DEF SuggestInv, ScoreName
<1>0. ~ranked /\ tried < Len(lookup.names)
  BY DEF Asking
<1>n. PICK n : n = tried + 1
  OBVIOUS
<1> DEFINE d == prev[Len(Name)]
<1>1. /\ Words /\ n \in 1..Len(lookup.names) /\ Name = lookup.names[n] /\ Name \in Seq(Nat)
      /\ tried \in Nat /\ lookup \in Lookups
  BY <1>0, <1>n, NameIsWord, LookupShape DEF Typed, Words
<1>2. Typed'
  <2>1. n \in 0..Len(lookup.names)
    BY <1>1, LookupShape
  <2> QED BY <1>n, <2>1 DEF Typed
<1>3. RowInv'
  BY DEF RowInv
<1>4. d = Distance(Name) /\ ~Unfit(Name)
  <2> DEFINE v == Fold(Token)
             w == Fold(Name)
  <2>1. /\ v \in Seq(Nat) /\ w \in Seq(Nat) /\ Len(v) = Len(Token) /\ Len(w) = Len(Name)
        /\ Keyword \in BOOLEAN /\ Len(Token) \in Nat
    BY <1>0, NameIsWord
  <2>2. IsRest(v, w, Keyword, Reference)
    BY <2>1, RestIsRest DEF Reference
  <2>3. row # NoRow
    BY <2>1 DEF NoRow
  <2>4. TableInv(prevPrev, prev, Len(v), v, w, Keyword, Reference) /\ ~Unfit(Name)
    BY <2>1, <2>3 DEF RowInv
  <2>5. Reference[<<0, 0>>] = Distance(Name)
    BY EditsIsRest DEF Reference, Distance, Keyword
  <2> HIDE DEF v, w
  <2>6. prev[Len(w)] = Reference[<<0, 0>>]
    BY <2>1, <2>2, <2>4, LastCell
  <2> QED BY <2>1, <2>4, <2>5, <2>6
<1>5. n \in Worthy <=> ~TooFar(d)
  <2>1. Name # <<>> /\ Fold(Name) # Fold(Token)
    BY <1>4 DEF Unfit
  <2> QED BY <1>1, <1>4, <2>1 DEF Worthy
<1>6. /\ Worthy' = Worthy /\ \A i : Scored(i)' = Scored(i)
  BY SameLookup
<1>7. Scored(n) = [name |-> Name, distance |-> d] /\ d \in Nat
  <2>1. d \in Nat
    BY <1>1, <1>4, DistanceType
  <2> QED BY <1>1, <1>4, <2>1 DEF Scored
<1>8. Worthy \in SUBSET (1..Len(lookup.names)) /\ Worthy \subseteq Nat
  BY DEF Worthy
<1> DEFINE h == [name |-> Name, distance |-> d]
<1>9. h \in [name : Seq(Nat), distance : Nat]
  BY <1>1, <1>7
<1>10. hits' = IF TooFar(d) THEN hits ELSE Append(hits, h)
  OBVIOUS
<1>11. tried' = n
  BY <1>n
<1> HIDE DEF d, h
<1>12. HitsInv'
  <2>1. CASE TooFar(d)
    <3>1. Tried' = Tried
      <4>1. \A i \in Worthy : i <= n <=> i <= tried
        <5> SUFFICES ASSUME NEW i \in Worthy
                     PROVE  i <= n <=> i <= tried
          OBVIOUS
        <5>1. i \in Nat /\ i # n
          BY <1>5, <1>8, <2>1
        <5> QED BY <1>1, <1>n, <5>1
      <4> QED BY <1>6, <1>11, <4>1 DEF Tried
    <3> QED BY <1>6, <1>10, <2>1, <3>1 DEF HitsInv
  <2>2. CASE ~TooFar(d)
    <3>1. Tried' = Tried \cup {n} /\ n \notin Tried
      <4>1. \A i \in Worthy : i <= n <=> i <= tried \/ i = n
        <5> SUFFICES ASSUME NEW i \in Worthy
                     PROVE  i <= n <=> i <= tried \/ i = n
          OBVIOUS
        <5>1. i \in Nat
          BY <1>8
        <5> QED BY <1>1, <1>n, <5>1
      <4>2. n \in Worthy /\ ~(n <= tried)
        BY <1>1, <1>n, <1>5, <2>2
      <4>3. Tried' = {i \in Worthy : i <= n}
        BY <1>6, <1>11 DEF Tried
      <4> QED BY <4>1, <4>2, <4>3 DEF Tried
    <3>2. IsFiniteSet(Tried)
      <4>1. Tried \in SUBSET (1..Len(lookup.names))
        BY <1>8 DEF Tried
      <4>2. Len(lookup.names) \in Int /\ 1 \in Int
        BY <1>1, LookupShape
      <4>3. IsFiniteSet(1..Len(lookup.names))
        BY <4>2, FS_Interval
      <4> QED BY <4>1, <4>3, FS_Subset
    <3>3. Cardinality(Tried') = Cardinality(Tried) + 1
      BY <3>1, <3>2, FS_AddElement
    <3>4. /\ hits' = Append(hits, h) /\ hits \in Seq([name : Seq(Nat), distance : Nat])
          /\ Scored(n) = h
      BY <1>7, <1>10, <2>2 DEF HitsInv, h
    <3>5. /\ hits' \in Seq([name : Seq(Nat), distance : Nat]) /\ Len(hits) \in Nat
          /\ Len(hits') = Len(hits) + 1
          /\ hits'[Len(hits) + 1] = h
          /\ \A k \in 1..Len(hits) : hits'[k] = hits[k]
      <4> DEFINE H == [name : Seq(Nat), distance : Nat]
                 t == Append(hits, h)
      <4>1. hits \in Seq(H) /\ h \in H /\ hits' = t
        BY <1>9, <3>4
      <4> HIDE DEF H
      <4>2. /\ t \in Seq(H) /\ Len(hits) \in Nat /\ Len(t) = Len(hits) + 1
            /\ t[Len(hits) + 1] = h /\ \A k \in 1..Len(hits) : t[k] = hits[k]
        BY <4>1, AppendShape
      <4> HIDE DEF t
      <4> QED BY <4>1, <4>2 DEF H
    <3>6. Len(hits') = Cardinality(Tried')
      BY <3>3, <3>5 DEF HitsInv
    <3>7. ASSUME NEW k \in 1..Len(hits')
          PROVE  \E i \in Tried' : hits'[k] = Scored(i)'
      <4>1. CASE k = Len(hits) + 1
        <5>1. hits'[k] = Scored(n)' /\ n \in Tried'
          BY <1>6, <3>1, <3>4, <3>5, <4>1
        <5> QED BY <5>1
      <4>2. CASE k \in 1..Len(hits)
        <5>1. PICK i \in Tried : hits[k] = Scored(i)
          BY <4>2 DEF HitsInv
        <5>2. i \in Tried' /\ hits'[k] = Scored(i)'
          BY <1>6, <3>1, <3>5, <4>2, <5>1
        <5> QED BY <5>2
      <4>3. Len(hits) \in Nat /\ Len(hits') = Len(hits) + 1
        BY <3>5
      <4>4. k = Len(hits) + 1 \/ k \in 1..Len(hits)
        BY ONLY <4>3, k \in 1..Len(hits')
      <4> QED BY ONLY <4>1, <4>2, <4>4
    <3>8. ASSUME NEW i \in Tried'
          PROVE  \E k \in 1..Len(hits') : hits'[k] = Scored(i)'
      <4>1. CASE i = n
        <5>1. Len(hits) + 1 \in 1..Len(hits') /\ hits'[Len(hits) + 1] = Scored(i)'
          BY <1>6, <3>4, <3>5, <4>1
        <5> QED BY <5>1
      <4>2. CASE i \in Tried
        <5>1. PICK k \in 1..Len(hits) : hits[k] = Scored(i)
          BY <4>2 DEF HitsInv
        <5>2. k \in 1..Len(hits') /\ hits'[k] = Scored(i)'
          BY <1>6, <3>5, <5>1
        <5> QED BY <5>2
      <4> QED BY <3>1, <4>1, <4>2
    <3> QED BY <3>5, <3>6, <3>7, <3>8 DEF HitsInv
  <2> QED BY <2>1, <2>2
<1> QED BY <1>0, <1>2, <1>3, <1>12, NoAnswerYet DEF SuggestsNearest

\* No hit is better than itself.
LEMMA BetterIsStrict ==
  ASSUME NEW h \in [name : Seq(Nat), distance : Nat]
  PROVE  ~Better(h, h)
<1> DEFINE w == h.name
           d == h.distance
<1>1. w \in Seq(Nat) /\ d \in Nat
  OBVIOUS
<1>2. \A k \in 1..Len(w) : w[k] \in Nat
  BY <1>1
<1> HIDE DEF w, d
<1>3. ~Alphabetic(w, w)
  <2>1. Len(w) \in Nat
    BY <1>1
  <2>2. \A k \in 1..Len(w) : ~(w[k] < w[k])
    <3> SUFFICES ASSUME NEW k \in 1..Len(w)
                 PROVE  ~(w[k] < w[k])
      OBVIOUS
    <3> DEFINE x == w[k]
    <3>1. x \in Nat
      BY <1>2
    <3> HIDE DEF x
    <3>2. ~(x < x)
      BY <3>1
    <3> QED BY <3>2 DEF x
  <2>3. ~(Len(w) < Len(w))
    BY <2>1
  <2> QED BY <2>2, <2>3 DEF Alphabetic
<1>4. ~(d < d)
  BY <1>1
<1> QED BY <1>3, <1>4 DEF Better, w, d

\* An order of all hits, sorted and cut, is the answer owed.
LEMMA RankStep == ASSUME SuggestInv, Rank PROVE SuggestInv'
<1>0. /\ ~ranked /\ ~Refuses /\ tried = Len(lookup.names) /\ ranked' = TRUE
      /\ UNCHANGED <<lookup, tried, prevPrev, prev, row, hits>>
      /\ Typed /\ RowInv /\ HitsInv
  BY DEF SuggestInv, Rank
<1>1. Typed'
  BY <1>0 DEF Typed
<1>2. RowInv'
  <2>1. tried \in Nat /\ row = NoRow
    BY <1>0 DEF Typed, RowInv, Asking
  <2> QED BY <1>0, <2>1 DEF RowInv
<1>3. HitsInv'
  BY <1>0, SameHits
<1> DEFINE n == Len(hits)
           m == Min({Size, n})
           H == [name : Seq(Nat), distance : Nat]
<1>4. PICK order \in Arrangements(n) :
        /\ Sorted(order)
        /\ offer' = [k \in 1..m |-> hits[order[k]]]
  BY DEF Rank
<1>5. hits \in Seq(H) /\ n \in Nat /\ n = Cardinality(Tried) /\ \A k \in 1..n : hits[k] \in H
  <2>1. hits \in Seq(H) /\ n = Cardinality(Tried)
    BY <1>0 DEF HitsInv
  <2> HIDE DEF H
  <2> QED BY <2>1
<1>6. m \in Nat /\ m <= n
  <2>1. {Size, n} \in SUBSET Nat /\ {Size, n} # {}
    BY <1>5 DEF Size, AvailableFunctionsSampleSize, MaxSuggestions
  <2>2. m \in {Size, n} /\ m <= n
    BY <2>1, MinNumber
  <2> QED BY <2>1, <2>2
<1> HIDE DEF m
<1>7. Worthy = Tried
  <2>1. \A i \in Worthy : i <= tried
    <3>1. Len(lookup.names) \in Nat
      BY <1>0, LookupShape DEF Typed
    <3> QED BY <1>0, <3>1 DEF Worthy
  <2> QED BY <2>1 DEF Tried
<1>8. /\ Token' = Token /\ Worthy' = Worthy /\ Size' = Size /\ lookup' = lookup
      /\ \A i : Scored(i)' = Scored(i)
      /\ \A g, h : Better(g, h)' <=> Better(g, h)
  BY <1>0, SameLookup DEF Better, SameLength
<1>9. order \in [1..n -> 1..n] /\ \A i \in 1..n : \E k \in 1..n : order[k] = i
  BY DEF Arrangements
<1>10. \A k \in 1..m : k \in 1..n /\ order[k] \in 1..n /\ offer'[k] = hits[order[k]]
  <2> SUFFICES ASSUME NEW k \in 1..m
               PROVE  k \in 1..n /\ order[k] \in 1..n /\ offer'[k] = hits[order[k]]
    OBVIOUS
  <2>1. offer'[k] = hits[order[k]]
    BY <1>4
  <2> HIDE DEF n
  <2>2. k \in 1..n
    BY <1>5, <1>6
  <2>3. order[k] \in 1..n
    BY <1>9, <2>2
  <2> QED BY <2>1, <2>2, <2>3
<1>11. Len(offer') = m
  <2>1. offer' \in [1..m -> H]
    BY <1>4, <1>5, <1>10
  <2> HIDE DEF H
  <2>2. offer' \in Seq(H)
    BY <1>6, <2>1
  <2> QED BY <1>6, <2>1, <2>2
<1>12. ASSUME NEW k \in 1..m
       PROVE  offer'[k] \in {Scored(i) : i \in Worthy}
  <2>1. PICK i \in Tried : hits[order[k]] = Scored(i)
    BY <1>0, <1>10 DEF HitsInv
  <2> QED BY <1>7, <1>10, <2>1
<1>13. ASSUME NEW k \in 1..m, NEW i \in Worthy, Better(Scored(i), offer'[k])
       PROVE  \E j \in 1..(k - 1) : offer'[j] = Scored(i)
  <2>1. PICK l \in 1..n : hits[l] = Scored(i)
    BY <1>0, <1>7 DEF HitsInv
  <2>2. PICK j \in 1..n : order[j] = l
    BY <1>9
  <2>3. Better(hits[order[j]], hits[order[k]])
    BY <1>10, <1>13, <2>1, <2>2
  <2>4. k \in 1..n
    BY <1>10
  <2>5. ~(k < j)
    BY <1>4, <2>3, <2>4 DEF Sorted
  <2>6. k # j
    BY <1>5, <1>10, <2>2, <2>3, BetterIsStrict
  <2>7. j \in 1..(k - 1) /\ j \in 1..m
    BY <1>5, <1>6, <2>4, <2>5, <2>6
  <2>8. offer'[j] = Scored(i)
    BY <1>10, <2>1, <2>2, <2>7
  <2> QED BY <2>7, <2>8
<1>14. ~(lookup.metric = "keyword" /\ IsKeyword(Token)) /\ ~(Token = <<>> /\ lookup.metric # "sample")
  BY <1>0 DEF Refuses
<1>15. SuggestsNearest'
  <2>1. m = Min({Size, Cardinality(Worthy)})
    BY <1>5, <1>7 DEF m
  <2>2. Len(offer') = Min({Size', IF Token' = <<>> /\ lookup'.metric # "sample" THEN 0 ELSE Cardinality(Worthy')})
    BY <1>8, <1>11, <1>14, <2>1
  <2>3. \A k \in 1..Len(offer') :
          /\ offer'[k] \in {Scored(i)' : i \in Worthy'}
          /\ \A i \in Worthy' : Better(Scored(i), offer[k])' => \E j \in 1..(k - 1) : offer'[j] = Scored(i)'
    BY <1>8, <1>11, <1>12, <1>13
  <2>4. ~(lookup'.metric = "keyword" /\ IsKeyword(Token)')
    BY <1>8, <1>14 DEF IsKeyword
  <2> QED BY <2>2, <2>3, <2>4 DEF SuggestsNearest
<1> QED BY <1>0, <1>1, <1>2, <1>3, <1>15 DEF SuggestInv

\* For every lookup, every answer of Suggest, SuggestKeyword and sampleNearest
\* is built from the hits of the names looked at, and the distance of a hit is
\* the least number of edits.
THEOREM SuggestInvariant == SuggestSpec => []SuggestInv
<1>1. SuggestInit => SuggestInv
  BY SuggestInitInv
<1>2. SuggestInv /\ [SuggestNext]_suggestVars => SuggestInv'
  <2> SUFFICES ASSUME SuggestInv, [SuggestNext]_suggestVars
               PROVE  SuggestInv'
    OBVIOUS
  <2>1. CASE Refuse
    BY <2>1, RefuseStep
  <2>2. CASE SkipName
    BY <2>2, SkipNameStep
  <2>3. CASE StartTable
    BY <2>3, StartTableStep
  <2>4. CASE FillRow
    BY <2>4, FillRowStep
  <2>5. CASE ScoreName
    BY <2>5, ScoreNameStep
  <2>6. CASE Rank
    BY <2>6, RankStep
  <2>7. CASE UNCHANGED suggestVars
    <3> USE <2>7 DEF suggestVars
    <3>1. Typed' /\ (~ranked' => offer' = <<>>)
      BY DEF SuggestInv, Typed
    <3>2. RowInv'
      <4>1. /\ row' = row /\ prev' = prev /\ prevPrev' = prevPrev /\ RowInv
            /\ lookup' = lookup /\ tried' = tried /\ ranked' = ranked
        BY DEF SuggestInv
      <4> QED BY <4>1, SameName DEF RowInv
    <3>3. HitsInv'
      BY SameHits DEF SuggestInv
    <3>4. SuggestsNearest'
      <4>1. /\ Token' = Token /\ Worthy' = Worthy /\ Size' = Size /\ lookup' = lookup
            /\ \A i : Scored(i)' = Scored(i)
        BY SameLookup
      <4>2. /\ \A g, h : Better(g, h)' <=> Better(g, h)
            /\ IsKeyword(Token)' <=> IsKeyword(Token)
        BY <4>1 DEF Better, SameLength, IsKeyword
      <4>3. offer' = offer /\ ranked' = ranked /\ SuggestsNearest
        BY DEF SuggestInv
      <4> QED BY <4>1, <4>2, <4>3 DEF SuggestsNearest
    <3> QED BY <3>1, <3>2, <3>3, <3>4 DEF SuggestInv
  <2> QED BY <2>1, <2>2, <2>3, <2>4, <2>5, <2>6, <2>7 DEF SuggestNext
<1> QED BY <1>1, <1>2, PTL DEF SuggestSpec

\* An answer holds the nearest names, nearest first, with their distances and
\* as many as may be shown (suggest.go, keywords.go, functions.go).
THEOREM NearestAreSuggested == SuggestSpec => []SuggestsNearest
<1>1. SuggestInv => SuggestsNearest
  BY DEF SuggestInv
<1> QED BY <1>1, SuggestInvariant, PTL

-----------------------------------------------------------------------------
(* Validate: where the run is, and what it has told. *)

CheckPhases == {"functions", "types", "tables", "columns"}

\* Where the run is.
PlaceInv ==
  /\ request \in Requests
  /\ pair \in 1..Len(request.pairs)
  /\ results \in Seq(BOOLEAN)
  /\ file = 1 \/ ~Single
  /\ Single => phase # "nofiles"
  /\ phase = "schema" /\ ~Single => file = 1
  /\ phase \in CheckPhases \cup {"read", "verdict", "answered"} => file \in 1..Len(Pair.files)

\* The CREATE TABLE statements the loader has passed.
Behind(schema, l, k) == {p \in Creates(schema) : p[1] <= l \/ (p[1] = l + 1 /\ p[2] <= k)}

\* Where the pair's own catalog is in place.
Loaded == \/ phase \in CheckPhases \cup {"verdict"}
          \/ ~Single /\ phase \in {"read", "answered", "nofiles"}
          \/ Checked

CatalogInv ==
  /\ catalog = [loaded |-> catalog.loaded, tables |-> catalog.tables, warnings |-> catalog.warnings]
  /\ phase = "read" /\ Single => catalog = NoCatalog /\ loads = 0
  /\ phase = "schema" =>
       /\ loads \in 0..Len(Pair.schema) /\ stmt \in Nat
       /\ IF loads < Len(Pair.schema) THEN stmt <= Len(SchemaSource.defs) ELSE stmt = 0
       /\ catalog.tables = TablesAt(Pair.schema, Behind(Pair.schema, loads, stmt))
  /\ Loaded => /\ catalog.loaded = (Pair.schema # <<>>)
               /\ catalog.tables = TablesOf(Pair.schema)

\* The statements a check has passed, and what it owes to them.
Order == [functions |-> 1, types |-> 2, tables |-> 3, columns |-> 4, verdict |-> 5]
PassedBy(check) == IF check = phase THEN 1..stmt ELSE IF Order[check] < Order[phase] THEN 1..Len(Text) ELSE {}
Owed(check)   == UNION {Own(check, Text[i]) : i \in PassedBy(check)}

ReportInv ==
  /\ phase = "schema" /\ Single => seen = {} /\ errs = {}
  /\ phase \in CheckPhases => /\ stmt \in 0..Len(Text)
                              /\ phase \in ChecksOf(Pair.schema)
                              /\ seen = Owed(phase)
  /\ phase \in CheckPhases \cup {"verdict"} =>
       /\ \A check \in ChecksOf(Pair.schema) : Told(check) = Owed(check)
       /\ \A e \in errs : e.check \in ChecksOf(Pair.schema)

ValidateInv == PlaceInv /\ CatalogInv /\ ReportInv /\ VerdictIsOwn

-----------------------------------------------------------------------------
(* The schema: places, and the table a definition leaves. *)

\* A definition after all others decides what its name stands for.
LEMMA LastDefinition ==
  ASSUME NEW schema, NEW P, NEW p, ~After(p, p),
         \A q \in P : After(p, q) /\ ~After(q, p)
  PROVE  LET name == DefAt(schema, p).name
             old  == TablesAt(schema, P)
         IN TablesAt(schema, P \cup {p}) =
              [n \in DOMAIN old \cup {name} |-> IF n = name THEN DefAt(schema, p).cols ELSE old[n]]
<1> DEFINE name == DefAt(schema, p).name
           old  == TablesAt(schema, P)
           new  == TablesAt(schema, P \cup {p})
           Named(Q, n) == {q \in Q : DefAt(schema, q).name = n}
           Last(Q, n)  == CHOOSE q \in Named(Q, n) : \A r \in Named(Q, n) : ~After(r, q)
           At(Q) == [n \in {DefAt(schema, q).name : q \in Q} |-> DefAt(schema, Last(Q, n)).cols]
<1>1. old = At(P) /\ new = At(P \cup {p})
  BY DEF TablesAt
<1>2. Last(P \cup {p}, name) = p
  <2>1. p \in Named(P \cup {p}, name) /\ \A r \in Named(P \cup {p}, name) : ~After(r, p)
    OBVIOUS
  <2>2. \A q \in Named(P \cup {p}, name) :
          (\A r \in Named(P \cup {p}, name) : ~After(r, q)) => q = p
    BY <2>1
  <2> HIDE DEF Named
  <2> QED BY <2>1, <2>2
<1>3. ASSUME NEW n, n # name
      PROVE  Named(P \cup {p}, n) = Named(P, n)
  BY <1>3
<1>4. \A n : n # name => Last(P \cup {p}, n) = Last(P, n)
  BY <1>3
<1>5. DOMAIN At(P \cup {p}) = DOMAIN At(P) \cup {name}
  OBVIOUS
<1> HIDE DEF Last
<1>6. \A n \in DOMAIN At(P) \cup {name} :
        At(P \cup {p})[n] = IF n = name THEN DefAt(schema, p).cols ELSE At(P)[n]
  BY <1>2, <1>4
<1>7. At(P \cup {p}) = [n \in DOMAIN At(P) \cup {name} |-> IF n = name THEN DefAt(schema, p).cols ELSE At(P)[n]]
  BY <1>5, <1>6
<1> HIDE DEF At
<1> QED BY ONLY <1>1, <1>7 DEF name, old, new

\* What the request's assumption says of the pair the run is at.
LEMMA PairShape ==
  ASSUME PlaceInv
  PROVE  /\ Listed(Pair.schema) /\ Listed(Pair.files)
         /\ \A i \in 1..Len(Pair.schema) :
              /\ Listed(Pair.schema[i].defs)
              /\ Pair.schema[i].text # "ddl" => Pair.schema[i].defs = <<>>
         /\ \A f \in 1..Len(Pair.files) : Listed(Pair.files[f].stmts)
         /\ Single => Len(request.pairs) = 1 /\ Len(Pair.files) = 1
         /\ Listed(request.pairs)
<1>1. request \in Requests /\ pair \in 1..Len(request.pairs)
  BY DEF PlaceInv
<1>2. Single => Len(request.pairs) = 1 /\ Len(request.pairs[1].files) = 1
  BY <1>1, RequestsAssumption DEF RequestsAssumption, Single
<1>3. Single => pair = 1
  <2>1. 1..1 = {1}
    OBVIOUS
  <2> SUFFICES ASSUME Single
               PROVE  pair = 1
    OBVIOUS
  <2>2. Len(request.pairs) = 1
    BY <1>2
  <2>3. pair \in 1..1
    BY <1>1, <2>2, Zenon
  <2> QED BY <2>1, <2>3
<1> QED BY <1>1, <1>2, <1>3, RequestsAssumption DEF RequestsAssumption, Pair

\* A list has a length, and only the empty one has none.
LEMMA ListLength == ASSUME NEW s, Listed(s) PROVE Len(s) \in Nat /\ (Len(s) = 0 <=> s = <<>>)
  BY DEF Listed

\* What Places are, and that none lies behind the start.
LEMMA PlaceShape ==
  ASSUME NEW schema, NEW p \in Creates(schema)
  PROVE  /\ p = <<p[1], p[2]>>
         /\ p[1] \in 1..Len(schema) /\ p[2] \in 1..Len(schema[p[1]].defs)
         /\ DefAt(schema, p).kind = "table"
<1>1. p \in UNION {{<<i, j>> : j \in 1..Len(schema[i].defs)} : i \in 1..Len(schema)}
  BY DEF Creates, Places
<1>2. PICK i \in 1..Len(schema) : p \in {<<i, j>> : j \in 1..Len(schema[i].defs)}
  BY <1>1
<1>3. PICK j \in 1..Len(schema[i].defs) : p = <<i, j>>
  BY <1>2
<1> QED BY <1>3 DEF Creates

\* A place is a source of the schema and a definition in it.
LEMMA IsPlace ==
  ASSUME NEW schema, NEW i \in 1..Len(schema), NEW j \in 1..Len(schema[i].defs)
  PROVE  <<i, j>> \in Places(schema)
<1>1. <<i, j>> \in {<<i, k>> : k \in 1..Len(schema[i].defs)}
  OBVIOUS
<1> QED BY <1>1 DEF Places

WellListed(schema) == Listed(schema) /\ \A i \in 1..Len(schema) : Listed(schema[i].defs)

\* Places are pairs of numbers.
LEMMA PlaceNumbers ==
  ASSUME NEW schema, WellListed(schema), NEW p \in Creates(schema)
  PROVE  p[1] \in Nat \ {0} /\ p[2] \in Nat \ {0}
<1>1. Len(schema) \in Nat /\ Len(schema[p[1]].defs) \in Nat
  BY PlaceShape, ListLength DEF WellListed
<1> QED BY <1>1, PlaceShape

\* Before the first definition no table is defined.
LEMMA NothingBehind ==
  ASSUME NEW schema, WellListed(schema)
  PROVE  Behind(schema, 0, 0) = {} /\ TablesAt(schema, Behind(schema, 0, 0)) = NoCatalog.tables
<1>1. ASSUME NEW p \in Behind(schema, 0, 0)
      PROVE  FALSE
  BY <1>1, PlaceNumbers DEF Behind
<1>2. Behind(schema, 0, 0) = {}
  BY <1>1
<1>3. DOMAIN TablesAt(schema, {}) = {}
  BY DEF TablesAt
<1> QED BY <1>2, <1>3 DEF TablesAt, NoCatalog

\* The findings of a statement of this file, against its own tables.
LEMMA FoundShape ==
  ASSUME PlaceInv, file \in 1..Len(Pair.files), NEW check \in ChecksOf(Pair.schema),
         NEW i \in 1..Len(Text)
  PROVE  Len(ErrorsOf(check, Text[i].ast, TablesOf(Pair.schema))) \in Nat
<1>1. request \in Requests /\ pair \in 1..Len(request.pairs)
  BY DEF PlaceInv
<1>2. Listed(ErrorsOf(check, Text[i].ast, TablesOf(Pair.schema)))
  BY <1>1, FindingsAssumption DEF FindingsAssumption, Pair, File, Text
<1> QED BY <1>2, ListLength

\* Of the findings with one key there is a first.
LEMMA LeastWithKey ==
  ASSUME NEW found, Len(found) \in Nat, NEW k \in 1..Len(found)
  PROVE  \E i \in 1..Len(found) : /\ found[i].key = found[k].key
                                  /\ \A j \in 1..(i - 1) : found[j].key # found[i].key
<1> DEFINE S == {i \in 1..Len(found) : found[i].key = found[k].key}
<1>1. S \in SUBSET Nat /\ S # {}
  OBVIOUS
<1>2. PICK i \in S : \A j \in S : i <= j
  BY <1>1, LeastNumber
<1>3. ASSUME NEW j \in 1..(i - 1), found[j].key = found[i].key
      PROVE  FALSE
  <2>1. i \in 1..Len(found) /\ j \in 1..Len(found) /\ j < i
    BY <1>2
  <2> QED BY <1>2, <1>3, <2>1
<1> QED BY <1>2, <1>3

-----------------------------------------------------------------------------
(* One lemma per step. *)

\* What a step that stays at its file leaves as it is.
LEMMA SameText ==
  ASSUME UNCHANGED <<request, pair, file>>
  PROVE  /\ Single' = Single /\ Pair' = Pair /\ File' = File /\ Text' = Text
         /\ Unparsable' = Unparsable
         /\ \A check : Alone(check)' = Alone(check)
         /\ \A check, t : Own(check, t)' = Own(check, t)
BY DEF Single, Pair, File, Text, Unparsable, Alone, Own

\* A text that is about to be checked owes nothing and has been told nothing.
LEMMA FreshReport ==
  ASSUME PlaceInv, file \in 1..Len(Pair.files), UNCHANGED <<request, pair, file>>,
         phase' = "functions", stmt' = 0, seen' = {}, errs' = {}
  PROVE  ReportInv'
<1>1. Pair' = Pair /\ Text' = Text
  BY SameText
<1>2. Len(Text) \in Nat
  BY PairShape, ListLength DEF Text, File
<1>3. \A check \in CheckPhases : PassedBy(check)' = {}
  BY DEF PassedBy, Order, CheckPhases
<1>4. \A check \in CheckPhases : Owed(check)' = {}
  BY <1>3 DEF Owed
<1>5. \A check : Told(check)' = {}
  BY DEF Told
<1>6. ChecksOf(Pair.schema)' \subseteq CheckPhases /\ "functions" \in ChecksOf(Pair.schema)'
  BY DEF ChecksOf, CheckPhases
<1>7. stmt' \in 0..Len(Text)' /\ phase' \in ChecksOf(Pair.schema)' /\ seen' = Owed(phase)'
  BY <1>1, <1>2, <1>4, <1>6 DEF CheckPhases
<1>8. \A check \in ChecksOf(Pair.schema)' : Told(check)' = Owed(check)'
  BY <1>4, <1>5, <1>6
<1> QED BY <1>7, <1>8 DEF ReportInv

\* A run starts with no catalog, no findings and no keys.
LEMMA ValidateInitInv == ValidateInit => ValidateInv
<1> SUFFICES ASSUME ValidateInit PROVE ValidateInv
  OBVIOUS
<1>1. PlaceInv
  <2>1. Listed(request.pairs) /\ request.pairs # <<>>
    BY RequestsAssumption DEF RequestsAssumption, ValidateInit
  <2>2. 1 \in 1..Len(request.pairs)
    BY <2>1, ListLength
  <2>3. phase = "read" => Len(Pair.files) = 1
    BY RequestsAssumption DEF RequestsAssumption, ValidateInit, Single, Pair
  <2> QED BY <2>2, <2>3 DEF ValidateInit, PlaceInv, CheckPhases
<1>2. CatalogInv
  <2>1. catalog = [loaded |-> catalog.loaded, tables |-> catalog.tables, warnings |-> catalog.warnings]
    BY DEF ValidateInit, NoCatalog
  <2>2. phase = "schema" => /\ loads \in 0..Len(Pair.schema) /\ stmt \in Nat
                            /\ IF loads < Len(Pair.schema) THEN stmt <= Len(SchemaSource.defs) ELSE stmt = 0
    <3>1. Len(Pair.schema) \in Nat
      BY <1>1, PairShape, ListLength
    <3>2. 1 \in 1..Len(Pair.schema) => Len(Pair.schema[1].defs) \in Nat
      BY <1>1, PairShape, ListLength
    <3> QED BY <3>1, <3>2 DEF ValidateInit, SchemaSource
  <2>4. catalog.tables = TablesAt(Pair.schema, Behind(Pair.schema, loads, stmt))
    BY <1>1, PairShape, NothingBehind DEF ValidateInit, WellListed
  <2>5. ~Loaded
    BY DEF ValidateInit, Loaded, Checked, Answered, CheckPhases
  <2> QED BY <2>1, <2>2, <2>4, <2>5 DEF CatalogInv, ValidateInit
<1>3. ReportInv /\ VerdictIsOwn
  BY DEF ValidateInit, ReportInv, VerdictIsOwn, Checked, Answered, CheckPhases
<1> QED BY <1>1, <1>2, <1>3 DEF ValidateInv

\* A run that aborts has no verdict any more.
LEMMA AbortStep == ASSUME ValidateInv, Abort PROVE ValidateInv'
<1>1. PlaceInv'
  BY SameText DEF ValidateInv, PlaceInv, Abort, CheckPhases
<1>2. CatalogInv'
  BY SameText DEF ValidateInv, CatalogInv, Abort, Loaded, Checked, Answered, CheckPhases
<1>3. ReportInv' /\ VerdictIsOwn'
  BY DEF Abort, ReportInv, VerdictIsOwn, Checked, Answered, CheckPhases
<1> QED BY <1>1, <1>2, <1>3 DEF ValidateInv

\* An unreadable or blank query file is answered without a check.
LEMMA ReadConfigFileStep == ASSUME ValidateInv, ReadConfigFile PROVE ValidateInv'
<1>1. UNCHANGED <<request, pair, file>> /\ phase = "read" /\ phase' = "answered" /\ ~Single
  BY DEF ReadConfigFile
<1>2. ~Checked'
  BY <1>1, SameText DEF Checked, ReadConfigFile
<1>3. PlaceInv'
  <2>1. results' \in Seq(BOOLEAN)
    BY DEF ReadConfigFile, Answer, ValidateInv, PlaceInv
  <2> QED BY <1>1, <2>1, SameText DEF ValidateInv, PlaceInv, CheckPhases
<1>4. CatalogInv'
  BY <1>1, SameText DEF ValidateInv, CatalogInv, ReadConfigFile, Loaded, CheckPhases
<1>5. ReportInv' /\ VerdictIsOwn'
  BY <1>1, <1>2 DEF ReportInv, VerdictIsOwn, CheckPhases
<1> QED BY <1>3, <1>4, <1>5 DEF ValidateInv

\* A text that does not parse is answered at once; another one goes on to the
\* schema, or in a configuration to the checks.
LEMMA ReadStep == ASSUME ValidateInv, Read PROVE ValidateInv'
<1>1. /\ UNCHANGED <<request, pair, file, loads, catalog>> /\ phase = "read"
      /\ stmt' = 0 /\ seen' = {}
  BY DEF Read, FreshSeen
<1>2. /\ Single' = Single /\ Pair' = Pair /\ File' = File /\ Text' = Text
      /\ Unparsable' = Unparsable
  BY <1>1, SameText
<1>3. file \in 1..Len(Pair.files)
  BY <1>1 DEF ValidateInv, PlaceInv
<1>4. CASE Unparsable
  <2>1. phase' = "answered" /\ ~Checked'
    BY <1>2, <1>4 DEF Read, Checked
  <2>2. PlaceInv'
    <3>1. results' \in Seq(BOOLEAN)
      <4>1. results \in Seq(BOOLEAN) /\ results' = Append(results, FALSE)
        BY <1>4 DEF Read, Answer, ValidateInv, PlaceInv
      <4> QED BY <4>1
    <3> QED BY <1>1, <1>2, <1>3, <2>1, <3>1 DEF ValidateInv, PlaceInv, CheckPhases
  <2>3. CatalogInv'
    BY <1>1, <1>2, <2>1 DEF ValidateInv, CatalogInv, Loaded, CheckPhases
  <2>4. ReportInv' /\ VerdictIsOwn'
    BY <2>1 DEF ReportInv, VerdictIsOwn, CheckPhases
  <2> QED BY <2>2, <2>3, <2>4 DEF ValidateInv
<1>5. CASE ~Unparsable
  <2>1. /\ phase' = IF Single THEN "schema" ELSE "functions"
        /\ errs' = {} /\ results' = results
    BY <1>5 DEF Read
  <2>2. ~Checked'
    BY <2>1 DEF Checked, Answered
  <2>3. PlaceInv'
    BY <1>1, <1>2, <1>3, <2>1 DEF ValidateInv, PlaceInv, CheckPhases
  <2>4. CatalogInv'
    <3>1. CASE Single
      <4>1. phase' = "schema" /\ catalog' = NoCatalog /\ loads' = 0
        BY <1>1, <2>1, <3>1 DEF ValidateInv, CatalogInv
      <4>2. NoCatalog.tables = TablesAt(Pair.schema, Behind(Pair.schema, 0, 0))
        BY PairShape, NothingBehind DEF WellListed, ValidateInv
      <4>4. Len(Pair.schema) \in Nat
        BY PairShape, ListLength DEF ValidateInv
      <4>5. 0 < Len(Pair.schema) => 0 <= Len(Pair.schema[1].defs)
        BY <4>4, PairShape, ListLength DEF ValidateInv
      <4>6. /\ loads' \in 0..Len(Pair'.schema) /\ stmt' \in Nat
            /\ (IF loads < Len(Pair.schema) THEN stmt <= Len(SchemaSource.defs) ELSE stmt = 0)'
        BY <1>1, <1>2, <4>1, <4>4, <4>5 DEF SchemaSource
      <4>7. (catalog.tables = TablesAt(Pair.schema, Behind(Pair.schema, loads, stmt)))'
        BY <1>1, <1>2, <4>1, <4>2
      <4>8. (catalog = [loaded |-> catalog.loaded, tables |-> catalog.tables, warnings |-> catalog.warnings])'
        BY <1>1 DEF ValidateInv, CatalogInv
      <4>9. ~Loaded'
        BY <1>2, <2>2, <3>1, <4>1 DEF Loaded, CheckPhases
      <4> QED BY <4>1, <4>6, <4>7, <4>8, <4>9 DEF CatalogInv
    <3>2. CASE ~Single
      BY <1>1, <1>2, <2>1, <3>2 DEF ValidateInv, CatalogInv, Loaded, CheckPhases
    <3> QED BY <3>1, <3>2
  <2>5. ReportInv'
    <3>1. ~Single => ReportInv'
      BY <1>1, <1>3, <2>1, FreshReport DEF ValidateInv
    <3>2. Single => ReportInv'
      BY <1>1, <2>1 DEF ReportInv, CheckPhases
    <3> QED BY <3>1, <3>2
  <2>6. VerdictIsOwn'
    BY <2>2 DEF VerdictIsOwn
  <2> QED BY <2>3, <2>4, <2>5, <2>6 DEF ValidateInv
<1> QED BY <1>4, <1>5

\* While the schema loads, only the catalog and the counters move.
LEMMA LoadingKeeps ==
  ASSUME ValidateInv, phase = "schema", phase' = "schema",
         UNCHANGED <<request, pair, file, seen, errs, results>>
  PROVE  PlaceInv' /\ ReportInv' /\ VerdictIsOwn' /\ ~Loaded'
<1>1. PlaceInv'
  BY SameText DEF ValidateInv, PlaceInv, CheckPhases
<1>2. ReportInv' /\ VerdictIsOwn' /\ ~Loaded'
  BY SameText DEF ValidateInv, ReportInv, VerdictIsOwn, Loaded, Checked, Answered, CheckPhases
<1> QED BY <1>1, <1>2

\* The loader passes one definition; the catalog follows.
LEMMA LoadDefinitionStep == ASSUME ValidateInv, LoadDefinition PROVE ValidateInv'
<1> DEFINE schema == Pair.schema
           p      == <<loads + 1, stmt + 1>>
           d      == DefAt(schema, p)
           before == Behind(schema, loads, stmt)
           after  == Behind(schema, loads, stmt + 1)
<1>1. /\ UNCHANGED <<request, pair, file, loads, phase, seen, errs, results>> /\ phase = "schema"
      /\ loads < Len(schema) /\ stmt < Len(schema[loads + 1].defs)
      /\ stmt' = stmt + 1 /\ catalog' = Define(catalog, schema[loads + 1].defs[stmt + 1])
  BY DEF LoadDefinition, Loading, SchemaSource
<1>2. /\ loads \in 0..Len(schema) /\ stmt \in Nat
      /\ catalog.tables = TablesAt(schema, before)
      /\ catalog = [loaded |-> catalog.loaded, tables |-> catalog.tables, warnings |-> catalog.warnings]
  BY <1>1 DEF ValidateInv, CatalogInv
<1>3. WellListed(schema)
  BY PairShape DEF ValidateInv, WellListed
<1>4. Len(schema) \in Nat /\ loads + 1 \in 1..Len(schema) /\ Len(schema[loads + 1].defs) \in Nat
  <2>1. Len(schema) \in Nat
    BY <1>3, ListLength DEF WellListed
  <2>2. loads + 1 \in 1..Len(schema)
    BY ONLY <1>1, <1>2, <2>1
  <2>3. Len(schema[loads + 1].defs) \in Nat
    BY <1>3, <2>2, ListLength DEF WellListed
  <2> QED BY ONLY <2>1, <2>2, <2>3
<1>5. stmt + 1 \in 1..Len(schema[loads + 1].defs)
  BY <1>1, <1>2, <1>4
<1>6. p \in Places(schema) /\ d = schema[loads + 1].defs[stmt + 1]
  BY <1>4, <1>5, IsPlace DEF DefAt
<1>7. \A q \in before : After(p, q) /\ ~After(q, p)
  <2>1. ASSUME NEW q \in before
        PROVE  After(p, q) /\ ~After(q, p)
    <3>1. q[1] \in Nat /\ q[2] \in Nat
      BY <1>3, PlaceNumbers DEF Behind
    <3> QED BY <1>2, <3>1 DEF Behind, After
  <2> QED BY <2>1
<1>8. ASSUME NEW q \in Creates(schema), q[1] = loads + 1, q[2] = stmt + 1
      PROVE  q = p
  BY <1>8, PlaceShape
<1> DEFINE Result == /\ catalog'.tables = TablesAt(schema, after)
                     /\ catalog' = [loaded |-> catalog'.loaded, tables |-> catalog'.tables, warnings |-> catalog'.warnings]
<1>9. ASSUME d.kind = "table" PROVE Result
  <2>1. after = before \cup {p}
    <3>1. ASSUME NEW q
          PROVE  q \in after <=> q \in before \/ q = p
      <4>1. p \in after
        BY <1>2, <1>6, <1>9 DEF Behind, Creates
      <4>2. q \in before => q \in after
        BY <1>2, <1>3, PlaceNumbers DEF Behind
      <4>3. q \in after => q \in before \/ q = p
        BY <1>2, <1>3, <1>8, PlaceNumbers DEF Behind
      <4> QED BY <4>1, <4>2, <4>3
    <3> QED BY <3>1
  <2>2. ~After(p, p)
    BY <1>2 DEF After
  <2>3. TablesAt(schema, after) =
          [n \in DOMAIN catalog.tables \cup {d.name} |-> IF n = d.name THEN d.cols ELSE catalog.tables[n]]
    <3> DEFINE old == TablesAt(schema, before)
    <3>1. TablesAt(schema, before \cup {p}) =
            [n \in DOMAIN old \cup {d.name} |-> IF n = d.name THEN d.cols ELSE old[n]]
      <4> HIDE DEF before, p, schema
      <4> QED BY <1>7, <2>2, LastDefinition
    <3>2. old = catalog.tables
      BY <1>2
    <3> HIDE DEF old, d, before, after
    <3> QED BY <2>1, <3>1, <3>2
  <2> DEFINE T == [n \in DOMAIN catalog.tables \cup {d.name} |-> IF n = d.name THEN d.cols ELSE catalog.tables[n]]
             W == IF d.name \in DOMAIN catalog.tables THEN catalog.warnings \cup {"redefined"} ELSE catalog.warnings
  <2>4. catalog' = [catalog EXCEPT !.tables = T, !.warnings = W]
    BY <1>1, <1>6, <1>9 DEF Define
  <2> HIDE DEF T, W
  <2>5. catalog' = [loaded |-> catalog.loaded, tables |-> T, warnings |-> W]
    BY <1>2, <2>4
  <2>6. TablesAt(schema, after) = T
    BY <2>3 DEF T
  <2> QED BY <2>5, <2>6
<1>10. ASSUME d.kind # "table" PROVE Result
  <2>1. after = before
    <3>1. ASSUME NEW q \in Creates(schema)
          PROVE  ~(q[1] = loads + 1 /\ q[2] = stmt + 1)
      BY <1>8, <1>10, PlaceShape
    <3> QED BY <1>2, <1>3, <3>1, PlaceNumbers DEF Behind
  <2> QED BY <1>1, <1>2, <1>6, <1>10, <2>1 DEF Define
<1>11. Result
  BY <1>9, <1>10
<1>12. schema' = schema /\ SchemaSource' = schema[loads + 1]
  BY <1>1, SameText DEF SchemaSource
<1>13. CatalogInv'
  <2>1. phase' = "schema" /\ loads' = loads
    BY <1>1
  <2>2. stmt' \in Nat /\ stmt' <= Len(schema[loads + 1].defs)
    BY <1>1, <1>2, <1>4
  <2>3. (catalog.tables = TablesAt(Pair.schema, Behind(Pair.schema, loads, stmt)))'
    BY <1>1, <1>11, <1>12
  <2>4. ~Loaded'
    BY <1>1, LoadingKeeps
  <2> QED BY <1>1, <1>2, <1>11, <1>12, <2>1, <2>2, <2>3, <2>4 DEF CatalogInv
<1> QED BY <1>1, <1>13, LoadingKeeps DEF ValidateInv

\* At the end of a source all of it lies behind, and nothing of the next one.
LEMMA SourceBehind ==
  ASSUME NEW schema, WellListed(schema), NEW l \in Nat, l < Len(schema)
  PROVE  Behind(schema, l + 1, 0) = Behind(schema, l, Len(schema[l + 1].defs))
<1> DEFINE n == Len(schema[l + 1].defs)
<1>1. Len(schema) \in Nat /\ l + 1 \in 1..Len(schema) /\ n \in Nat
  BY ListLength DEF WellListed
<1>2. ASSUME NEW q \in Creates(schema)
      PROVE  (q[1] <= l + 1 \/ (q[1] = l + 2 /\ q[2] <= 0)) <=> (q[1] <= l \/ (q[1] = l + 1 /\ q[2] <= n))
  <2>1. q[1] \in Nat /\ q[2] \in Nat \ {0}
    BY PlaceNumbers
  <2>2. q[1] = l + 1 => q[2] <= n
    BY <1>1, PlaceShape
  <2> QED BY <1>1, <2>1, <2>2
<1>3. l + 1 + 1 = l + 2
  OBVIOUS
<1> QED BY <1>2, <1>3 DEF Behind

\* The next of fewer than n.
LEMMA Successor == ASSUME NEW k \in Nat, NEW n \in Nat, k < n PROVE k + 1 \in 1..n
OBVIOUS

\* The loader passes to the next source: no definition is left behind.
LEMMA NextSourceStep == ASSUME ValidateInv, NextSource PROVE ValidateInv'
<1> DEFINE schema == Pair.schema
<1>1. /\ UNCHANGED <<request, pair, file, phase, seen, errs, results>> /\ phase = "schema"
      /\ loads < Len(schema) /\ loads' = loads + 1 /\ stmt' = 0
  BY DEF NextSource, Loading
<1>2. /\ loads \in 0..Len(schema) /\ stmt \in Nat /\ stmt <= Len(schema[loads + 1].defs)
      /\ catalog.tables = TablesAt(schema, Behind(schema, loads, stmt))
      /\ catalog = [loaded |-> catalog.loaded, tables |-> catalog.tables, warnings |-> catalog.warnings]
  BY <1>1 DEF ValidateInv, CatalogInv, SchemaSource
<1>3. WellListed(schema) /\ Len(schema) \in Nat
  BY PairShape, ListLength DEF ValidateInv, WellListed
<1>4. stmt = Len(schema[loads + 1].defs)
  <2>1. CASE SchemaSource.text = "ddl" /\ stmt = Len(SchemaSource.defs)
    BY <2>1 DEF SchemaSource
  <2>2. CASE SchemaSource.text = "empty"
    <3>1. loads + 1 \in 1..Len(schema) /\ schema[loads + 1].text = "empty"
      BY <1>1, <1>2, <1>3, <2>2 DEF SchemaSource
    <3>2. schema[loads + 1].defs = <<>>
      BY <3>1, PairShape DEF ValidateInv
    <3>3. Len(schema[loads + 1].defs) = 0
      BY <3>2
    <3> QED BY <1>2, <3>3
  <2> QED BY <2>1, <2>2 DEF NextSource
<1>5. /\ catalog'.tables = catalog.tables
      /\ catalog' = [loaded |-> catalog'.loaded, tables |-> catalog'.tables, warnings |-> catalog'.warnings]
  BY <1>2 DEF NextSource
<1>6. Behind(schema, loads + 1, 0) = Behind(schema, loads, stmt)
  BY <1>1, <1>2, <1>3, <1>4, SourceBehind
<1>7. schema' = schema
  BY <1>1, SameText
<1>8. loads' \in 0..Len(schema) /\ stmt' \in Nat
  BY <1>1, <1>2, <1>3
<1>9. (IF loads < Len(Pair.schema) THEN stmt <= Len(SchemaSource.defs) ELSE stmt = 0)'
  <2>1. ASSUME loads' < Len(schema)
        PROVE  stmt' <= Len(schema[loads' + 1].defs)
    <3>1. loads' + 1 \in 1..Len(schema)
      <4>1. loads' \in Nat /\ Len(schema) \in Nat /\ loads' < Len(schema)
        BY <1>3, <1>8, <2>1
      <4> QED BY <4>1, Successor
    <3>2. Len(schema[loads' + 1].defs) \in Nat
      BY <1>3, <3>1, ListLength DEF WellListed
    <3> QED BY <1>1, <3>2
  <2> QED BY <1>1, <1>7, <2>1 DEF SchemaSource
<1>10. (catalog.tables = TablesAt(Pair.schema, Behind(Pair.schema, loads, stmt)))'
  BY <1>1, <1>2, <1>5, <1>6, <1>7
<1>11. phase' = "schema" /\ ~Loaded'
  BY <1>1, LoadingKeeps
<1>12. CatalogInv'
  BY <1>5, <1>7, <1>8, <1>9, <1>10, <1>11 DEF CatalogInv
<1> QED BY <1>1, <1>12, LoadingKeeps DEF ValidateInv

\* All sources passed: the catalog is that of the whole schema.
LEMMA SchemaLoadedStep == ASSUME ValidateInv, SchemaLoaded PROVE ValidateInv'
<1> DEFINE schema == Pair.schema
<1>1. /\ UNCHANGED <<request, pair, file, loads, stmt, seen, errs, results>> /\ phase = "schema"
      /\ loads = Len(schema)
      /\ catalog' = [catalog EXCEPT !.loaded = (schema # <<>>)]
      /\ phase' = IF Single THEN "functions" ELSE IF Pair.files = <<>> THEN "nofiles" ELSE "read"
  BY DEF SchemaLoaded
<1>2. /\ stmt = 0 /\ catalog.tables = TablesAt(schema, Behind(schema, loads, stmt))
      /\ catalog = [loaded |-> catalog.loaded, tables |-> catalog.tables, warnings |-> catalog.warnings]
  <2>1. ~(Len(schema) < Len(schema))
    BY PairShape, ListLength DEF ValidateInv
  <2> QED BY <1>1, <2>1 DEF ValidateInv, CatalogInv
<1>3. Behind(schema, loads, stmt) = Creates(schema)
  BY <1>1, PlaceShape, PairShape, ListLength DEF Behind, ValidateInv
<1>4. /\ catalog'.loaded = (schema # <<>>) /\ catalog'.tables = TablesOf(schema)
      /\ catalog' = [loaded |-> catalog'.loaded, tables |-> catalog'.tables, warnings |-> catalog'.warnings]
  BY <1>1, <1>2, <1>3 DEF TablesOf
<1>5. /\ Single' = Single /\ schema' = schema /\ Pair' = Pair
  BY <1>1, SameText
<1>6. PlaceInv'
  <2>1. ASSUME phase' # "nofiles" PROVE file \in 1..Len(Pair.files)
    <3>1. CASE Single
      BY <3>1, PairShape DEF ValidateInv, PlaceInv
    <3>2. CASE ~Single
      <4>1. file = 1 /\ Pair.files # <<>>
        BY <1>1, <2>1, <3>2 DEF ValidateInv, PlaceInv
      <4>2. Len(Pair.files) \in Nat /\ Len(Pair.files) # 0
        BY <4>1, PairShape, ListLength DEF ValidateInv
      <4> QED BY <4>1, <4>2
    <3> QED BY <3>1, <3>2
  <2>2. phase' \in {"functions", "nofiles", "read"} /\ (Single => phase' # "nofiles")
    BY <1>1
  <2>3. /\ request \in Requests /\ pair \in 1..Len(request.pairs) /\ results \in Seq(BOOLEAN)
        /\ file = 1 \/ ~Single
    BY DEF ValidateInv, PlaceInv
  <2> QED BY <1>1, <1>5, <2>1, <2>2, <2>3 DEF PlaceInv, CheckPhases
<1>7. CatalogInv'
  BY <1>1, <1>4, <1>5 DEF CatalogInv
<1>8. ReportInv' /\ VerdictIsOwn'
  <2>1. CASE Single
    <3>1. file \in 1..Len(Pair.files)
      BY <2>1, PairShape DEF ValidateInv, PlaceInv
    <3>2. seen = {} /\ errs = {}
      BY <1>1, <2>1 DEF ValidateInv, ReportInv
    <3>3. ReportInv'
      BY <1>1, <1>2, <2>1, <3>1, <3>2, FreshReport DEF ValidateInv
    <3> QED BY <1>1, <2>1, <3>3 DEF VerdictIsOwn, Checked, Answered
  <2>2. CASE ~Single
    BY <1>1, <2>2 DEF ReportInv, VerdictIsOwn, Checked, Answered, CheckPhases
  <2> QED BY <2>1, <2>2
<1> QED BY <1>6, <1>7, <1>8 DEF ValidateInv

\* What is reported of a statement has a key of it and the name of the check,
\* and no key is lost.
LEMMA ReportedKeys ==
  ASSUME NEW found, Len(found) \in Nat
  PROVE  /\ \A e \in Reported(found) : e.check = phase /\ \E k \in 1..Len(found) : e.key = found[k].key
         /\ \A key \in Keys(found) : key \in seen \/ \E e \in Reported(found) : e.key = key
<1>1. \A e \in Reported(found) : e.check = phase /\ \E k \in 1..Len(found) : e.key = found[k].key
  BY DEF Reported
<1>2. ASSUME NEW key \in Keys(found), key \notin seen
      PROVE  \E e \in Reported(found) : e.key = key
  <2>1. PICK k \in 1..Len(found) : found[k].key = key
    BY DEF Keys
  <2>2. PICK i \in 1..Len(found) : /\ found[i].key = found[k].key
                                  /\ \A j \in 1..(i - 1) : found[j].key # found[i].key
    BY LeastWithKey
  <2>3. [check |-> phase, code |-> found[i].code, key |-> found[i].key] \in Reported(found)
    BY <1>2, <2>1, <2>2 DEF Reported
  <2> QED BY <2>1, <2>2, <2>3
<1> QED BY <1>1, <1>2

\* A check passes one statement: errs and seen gain what it owes.
LEMMA CheckStatementKeeps == ASSUME ValidateInv, CheckStatementStep PROVE ValidateInv'
<1> DEFINE t     == Text[stmt + 1]
           found == ErrorsOf(phase, t.ast, TablesOf(Pair.schema))
<1>1. /\ UNCHANGED <<request, pair, file, loads, catalog, phase, checks, advice, results>>
      /\ phase \in CheckPhases /\ stmt < Len(Text) /\ stmt' = stmt + 1
  BY DEF CheckStatementStep, CheckPhases
<1>2. /\ stmt \in 0..Len(Text) /\ phase \in ChecksOf(Pair.schema) /\ seen = Owed(phase)
      /\ \A check \in ChecksOf(Pair.schema) : Told(check) = Owed(check)
      /\ \A e \in errs : e.check \in ChecksOf(Pair.schema)
  BY <1>1 DEF ValidateInv, ReportInv
<1>3. catalog.tables = TablesOf(Pair.schema)
  BY <1>1 DEF ValidateInv, CatalogInv, Loaded
<1>4. errs' = errs \cup Reported(found) /\ seen' = seen \cup Keys(found)
  BY <1>3 DEF CheckStatementStep
<1>5. file \in 1..Len(Pair.files) /\ Len(Text) \in Nat
  BY <1>1, PairShape, ListLength DEF ValidateInv, PlaceInv, Text, File
<1>6. stmt + 1 \in 1..Len(Text)
  BY <1>1, <1>2, <1>5
<1>7. Len(found) \in Nat
  BY <1>2, <1>5, <1>6, FoundShape DEF ValidateInv
<1>8. /\ Single' = Single /\ Pair' = Pair /\ File' = File /\ Text' = Text
      /\ \A check, s : Own(check, s)' = Own(check, s)
  BY <1>1, SameText
<1>9. PassedBy(phase)' = PassedBy(phase) \cup {stmt + 1}
  <2>1. 1..(stmt + 1) = (1..stmt) \cup {stmt + 1}
    BY <1>2, <1>5
  <2> QED BY <1>1, <2>1 DEF PassedBy
<1>10. Owed(phase)' = Owed(phase) \cup Keys(found)
  <2>1. Own(phase, t) = Keys(found)
    BY DEF Own
  <2>2. Owed(phase)' = UNION {Own(phase, Text[i]) : i \in PassedBy(phase) \cup {stmt + 1}}
    BY <1>1, <1>8, <1>9 DEF Owed
  <2> HIDE DEF found
  <2>3. ASSUME NEW x
        PROVE  x \in Owed(phase)' <=> x \in Owed(phase) \/ x \in Keys(found)
    <3>1. x \in Owed(phase)' <=> \E i \in PassedBy(phase) \cup {stmt + 1} : x \in Own(phase, Text[i])
      BY <2>2
    <3>2. x \in Owed(phase) <=> \E i \in PassedBy(phase) : x \in Own(phase, Text[i])
      BY DEF Owed
    <3> QED BY <2>1, <3>1, <3>2
  <2> QED BY <2>3
<1>11. \A check \in ChecksOf(Pair.schema) : check # phase => Owed(check)' = Owed(check)
  BY <1>1, <1>8 DEF Owed, PassedBy
<1>12. ChecksOf(Pair.schema) \subseteq CheckPhases
  BY DEF ChecksOf, CheckPhases
<1>13. \A e \in Reported(found) : e.check = phase /\ e.key \in Keys(found)
  BY <1>7, ReportedKeys DEF Keys
<1>14. \A check \in ChecksOf(Pair.schema) : check # phase => Told(check)' = Told(check)
  BY <1>1, <1>4, <1>13 DEF Told
<1>15. Told(phase)' = Told(phase) \cup Keys(found)
  <2>1. ASSUME NEW key \in Told(phase)'
        PROVE  key \in Told(phase) \cup Keys(found)
    BY <1>1, <1>4, <1>13, <2>1 DEF Told
  <2>2. ASSUME NEW key \in Told(phase) \cup Keys(found)
        PROVE  key \in Told(phase)'
    <3>1. key \in Told(phase) \/ \E e \in Reported(found) : e.key = key
      BY <1>2, <1>7, <2>2, ReportedKeys
    <3> QED BY <1>1, <1>4, <1>13, <3>1 DEF Told
  <2> QED BY <2>1, <2>2
<1>16. ReportInv'
  <2>1. \A check \in ChecksOf(Pair.schema) : Told(check)' = Owed(check)'
    <3>1. ASSUME NEW check \in ChecksOf(Pair.schema)
          PROVE  Told(check)' = Owed(check)'
      <4>1. CASE check = phase
        <5>1. Told(phase)' = Owed(phase)'
          BY <1>2, <1>10, <1>15
        <5>2. check = phase /\ check = phase'
          BY <1>1, <4>1
        <5>3. Told(check)' = Told(phase)'
          BY ONLY <5>2 DEF Told
        <5>4. Owed(check)' = Owed(phase)'
          BY ONLY <5>2 DEF Owed, PassedBy
        <5> QED BY ONLY <5>1, <5>3, <5>4
      <4>2. CASE check # phase
        BY <1>2, <1>11, <1>14, <4>2
      <4> QED BY <4>1, <4>2
    <3> QED BY <3>1
  <2>2. \A e \in errs' : e.check \in ChecksOf(Pair.schema)
    BY <1>2, <1>4, <1>13
  <2>3. seen' = Owed(phase)' /\ stmt' \in 0..Len(Text)
    BY <1>1, <1>2, <1>4, <1>5, <1>6, <1>10
  <2>4. phase # "schema"
    BY <1>1 DEF CheckPhases
  <2> QED BY <1>1, <1>2, <1>8, <2>1, <2>2, <2>3, <2>4 DEF ReportInv
<1>17. PlaceInv'
  BY <1>1, <1>8 DEF ValidateInv, PlaceInv
<1>18. ~Checked /\ ~Checked'
  BY <1>1 DEF Checked, Answered, CheckPhases
<1>19. CatalogInv'
  BY <1>1, <1>8, <1>18 DEF ValidateInv, CatalogInv, Loaded, CheckPhases
<1> QED BY <1>16, <1>17, <1>18, <1>19 DEF ValidateInv, VerdictIsOwn

\* A check that has passed every statement owes what it owes to the text.
LEMMA NextCheckStep == ASSUME ValidateInv, NextCheck PROVE ValidateInv'
<1>1. /\ UNCHANGED <<request, pair, file, loads, catalog, errs, checks, advice, results>>
      /\ phase \in CheckPhases /\ stmt = Len(Text) /\ stmt' = 0 /\ seen' = {}
      /\ phase' = CASE phase = "functions" -> "types"
                    [] phase = "types"     -> IF catalog.loaded THEN "tables" ELSE "verdict"
                    [] phase = "tables"    -> "columns"
                    [] phase = "columns"   -> "verdict"
  BY DEF NextCheck, CheckPhases, FreshSeen
<1>2. /\ phase \in ChecksOf(Pair.schema)
      /\ \A check \in ChecksOf(Pair.schema) : Told(check) = Owed(check)
      /\ \A e \in errs : e.check \in ChecksOf(Pair.schema)
  BY <1>1 DEF ValidateInv, ReportInv
<1>3. catalog.loaded = (Pair.schema # <<>>)
  BY <1>1 DEF ValidateInv, CatalogInv, Loaded
<1>4. file \in 1..Len(Pair.files) /\ Len(Text) \in Nat
  BY <1>1, PairShape, ListLength DEF ValidateInv, PlaceInv, Text, File
<1>5. /\ Single' = Single /\ Pair' = Pair /\ File' = File /\ Text' = Text
      /\ \A check, s : Own(check, s)' = Own(check, s)
  BY <1>1, SameText
<1>6. phase' \in (CheckPhases \cup {"verdict"}) \ {"functions"} /\ (phase' \in CheckPhases => phase' \in ChecksOf(Pair.schema))
  BY <1>1, <1>2, <1>3 DEF CheckPhases, ChecksOf
<1>7. \A check \in ChecksOf(Pair.schema) : PassedBy(check)' = PassedBy(check)
  <2>1. 1..0 = {}
    OBVIOUS
  <2>2. CASE phase = "functions"
    BY <1>1, <1>5, <2>1, <2>2 DEF PassedBy, ChecksOf, Order
  <2>3. CASE phase = "types"
    <3>1. CASE catalog.loaded
      BY <1>1, <1>3, <1>5, <2>1, <2>3, <3>1 DEF PassedBy, ChecksOf, Order
    <3>2. CASE ~catalog.loaded
      <4>1. phase' = "verdict" /\ ChecksOf(Pair.schema) = {"functions", "types"}
        BY <1>1, <1>3, <2>3, <3>2 DEF ChecksOf
      <4> QED BY <1>1, <1>5, <2>3, <4>1 DEF PassedBy, Order
    <3> QED BY <3>1, <3>2
  <2>4. CASE phase = "tables"
    BY <1>1, <1>5, <2>1, <2>4 DEF PassedBy, ChecksOf, Order
  <2>5. CASE phase = "columns"
    BY <1>1, <1>5, <2>1, <2>5 DEF PassedBy, ChecksOf, Order
  <2> QED BY <1>1, <2>2, <2>3, <2>4, <2>5 DEF CheckPhases
<1>8. \A check \in ChecksOf(Pair.schema) : Owed(check)' = Owed(check) /\ Told(check)' = Told(check)
  BY <1>1, <1>5, <1>7 DEF Owed, Told
<1>9. Owed(phase)' = {}
  <2>1. 1..0 = {}
    OBVIOUS
  <2>2. PassedBy(phase)' = {}
    BY <1>1, <2>1 DEF PassedBy
  <2> QED BY <2>2 DEF Owed
<1>10. ReportInv'
  <2>1. stmt' \in 0..Len(Text)
    BY <1>1, <1>4
  <2>2. phase' # "schema"
    BY <1>6 DEF CheckPhases
  <2> QED BY <1>1, <1>2, <1>5, <1>6, <1>8, <1>9, <2>1, <2>2 DEF ReportInv
<1>11. PlaceInv'
  BY <1>1, <1>4, <1>5, <1>6 DEF ValidateInv, PlaceInv, CheckPhases
<1>12. ~Checked'
  BY <1>6 DEF Checked, Answered, CheckPhases
<1>13. CatalogInv'
  BY <1>1, <1>5, <1>6 DEF ValidateInv, CatalogInv, Loaded, CheckPhases
<1> QED BY <1>10, <1>11, <1>12, <1>13 DEF ValidateInv, VerdictIsOwn

\* When all checks are through, what was told is what the text owes alone: the
\* status of each check and the verdict follow.
LEMMA VerdictStep == ASSUME ValidateInv, Verdict PROVE ValidateInv'
<1> DEFINE due == ChecksOf(Pair.schema)
<1>1. /\ UNCHANGED <<request, pair, file, loads, catalog, stmt, seen, errs, advice>>
      /\ phase = "verdict" /\ phase' = "answered" /\ results' = Append(results, errs = {})
  BY DEF Verdict, Answer
<1>2. /\ \A check \in due : Told(check) = Owed(check)
      /\ \A e \in errs : e.check \in due
      /\ catalog.loaded = (Pair.schema # <<>>) /\ catalog.tables = TablesOf(Pair.schema)
  BY <1>1 DEF ValidateInv, ReportInv, CatalogInv, Loaded
<1>3. /\ Single' = Single /\ Pair' = Pair /\ File' = File /\ Text' = Text
      /\ \A check : Alone(check)' = Alone(check)
  BY <1>1, SameText
<1>4. \A check \in due : Told(check) = Alone(check)
  <2>1. ASSUME NEW check \in due
        PROVE  PassedBy(check) = 1..Len(Text)
    BY <1>1 DEF PassedBy, Order, ChecksOf
  <2> QED BY <1>2, <2>1 DEF Owed, Alone
<1>5. \A check \in due : Alone(check) = {} <=> \A e \in errs : e.check # check
  BY <1>4 DEF Told
<1>6. (errs = {}) = (\A check \in due : Alone(check) = {})
  BY <1>2, <1>5
<1>7. results \in Seq(BOOLEAN) /\ (errs = {}) \in BOOLEAN
  BY DEF ValidateInv, PlaceInv
<1>8. results' \in Seq(BOOLEAN) /\ results'[Len(results')] = (errs = {})
  <2> DEFINE v == errs = {}
  <2>1. results' = Append(results, v) /\ v \in BOOLEAN
    BY <1>1, <1>7
  <2> HIDE DEF v
  <2>2. results' \in Seq(BOOLEAN) /\ results'[Len(results')] = v
    BY <1>7, <2>1
  <2> QED BY <2>2 DEF v
<1>9. /\ "functions" \in due /\ "types" \in due
      /\ Pair.schema # <<>> => "tables" \in due /\ "columns" \in due
  BY DEF ChecksOf
<1>10. \A which \in SUBSET due : Outcome(which) = Passed(which)
  BY <1>5 DEF Outcome, Passed
<1>11. checks' = [syntax |-> "ok", functions |-> Passed({"functions"}), types |-> Passed({"types"}),
                  names |-> IF Pair.schema = <<>> THEN "skipped" ELSE Passed({"tables", "columns"})]
  <2>1. /\ Outcome({"functions"}) = Passed({"functions"}) /\ Outcome({"types"}) = Passed({"types"})
        /\ Pair.schema # <<>> => Outcome({"tables", "columns"}) = Passed({"tables", "columns"})
    BY <1>9, <1>10
  <2> QED BY <1>2, <2>1 DEF Verdict
<1>12. VerdictIsOwn'
  <2>1. \A which : Passed(which)' = Passed(which)
    BY <1>3 DEF Passed
  <2>2. \A check : Told(check)' = Told(check)
    BY <1>1 DEF Told
  <2> QED BY <1>1, <1>2, <1>3, <1>4, <1>6, <1>8, <1>11, <2>1, <2>2 DEF VerdictIsOwn
<1>13. PlaceInv'
  BY <1>1, <1>3, <1>8 DEF ValidateInv, PlaceInv, CheckPhases
<1>14. CatalogInv'
  BY <1>1, <1>2, <1>3 DEF ValidateInv, CatalogInv, Loaded, CheckPhases
<1>15. ReportInv'
  BY <1>1 DEF ReportInv, CheckPhases
<1> QED BY <1>12, <1>13, <1>14, <1>15 DEF ValidateInv

\* Below the end there is more than one.
LEMMA NotTheOnly == ASSUME NEW n \in Nat, NEW k \in 1..n, k < n PROVE n # 1
OBVIOUS

\* The next file of the pair: the catalog stays.
LEMMA NextFileStep == ASSUME ValidateInv, NextFile PROVE ValidateInv'
<1>1. /\ UNCHANGED <<request, pair, loads, catalog, stmt, seen, errs, results>>
      /\ phase = "answered" /\ phase' = "read" /\ file < Len(Pair.files) /\ file' = file + 1
  BY DEF NextFile
<1>2. Single' = Single /\ Pair' = Pair
  BY <1>1 DEF Single, Pair
<1>3. file \in 1..Len(Pair.files) /\ Len(Pair.files) \in Nat
  BY <1>1, PairShape, ListLength DEF ValidateInv, PlaceInv
<1>4. ~Single
  <2>1. Single => Len(Pair.files) = 1
    BY PairShape DEF ValidateInv
  <2>2. Len(Pair.files) # 1
    BY <1>1, <1>3, NotTheOnly
  <2> QED BY <2>1, <2>2
<1>5. file' \in 1..Len(Pair.files)
  BY <1>1, <1>3
<1>6. PlaceInv'
  BY <1>1, <1>2, <1>4, <1>5 DEF ValidateInv, PlaceInv, CheckPhases
<1>7. CatalogInv'
  BY <1>1, <1>2, <1>4 DEF ValidateInv, CatalogInv, Loaded, CheckPhases
<1>8. ReportInv' /\ VerdictIsOwn'
  BY <1>1 DEF ReportInv, VerdictIsOwn, Checked, Answered, CheckPhases
<1> QED BY <1>6, <1>7, <1>8 DEF ValidateInv

\* The next pair: the catalog of the one before is gone.
LEMMA NextPairStep == ASSUME ValidateInv, NextPair PROVE ValidateInv'
<1>1. /\ UNCHANGED <<request, results>> /\ phase' = "schema"
      /\ pair < Len(request.pairs) /\ pair' = pair + 1 /\ file' = 1
      /\ catalog' = NoCatalog /\ loads' = 0 /\ stmt' = 0
  BY DEF NextPair
<1>2. pair \in 1..Len(request.pairs) /\ Len(request.pairs) \in Nat
  BY PairShape, ListLength DEF ValidateInv, PlaceInv
<1>3. pair' \in 1..Len(request.pairs)
  BY <1>1, <1>2
<1>4. ~Single'
  <2>1. Single => Len(request.pairs) = 1
    BY PairShape DEF ValidateInv
  <2>2. ~Single
    <3>1. Len(request.pairs) # 1
      BY <1>1, <1>2, NotTheOnly
    <3> QED BY <2>1, <3>1
  <2> QED BY <1>1, <2>2 DEF Single
<1>5. PlaceInv'
  BY <1>1, <1>3, <1>4 DEF ValidateInv, PlaceInv, CheckPhases
<1>6. WellListed(Pair.schema)'
  BY <1>1, <1>3, RequestsAssumption DEF ValidateInv, PlaceInv, RequestsAssumption, Pair, WellListed
<1>7. /\ Len(Pair.schema)' \in Nat
      /\ NoCatalog.tables = TablesAt(Pair.schema, Behind(Pair.schema, 0, 0))'
      /\ 0 < Len(Pair.schema)' => Len(SchemaSource.defs)' \in Nat
  <2> DEFINE schema == Pair'.schema
  <2>1. WellListed(schema)
    BY <1>6
  <2> HIDE DEF schema
  <2>2. Len(schema) \in Nat /\ NoCatalog.tables = TablesAt(schema, Behind(schema, 0, 0))
    BY <2>1, ListLength, NothingBehind DEF WellListed
  <2>3. 0 < Len(schema) => Len(schema[1].defs) \in Nat
    BY <2>1, <2>2, ListLength DEF WellListed
  <2> QED BY <1>1, <2>2, <2>3 DEF schema, SchemaSource
<1>8. CatalogInv'
  <2>1. (catalog = [loaded |-> catalog.loaded, tables |-> catalog.tables, warnings |-> catalog.warnings])'
    BY <1>1 DEF NoCatalog
  <2>2. ~Loaded'
    BY <1>1, <1>4 DEF Loaded, Checked, Answered, CheckPhases
  <2> QED BY <1>1, <1>7, <2>1, <2>2 DEF CatalogInv
<1>9. ReportInv' /\ VerdictIsOwn'
  BY <1>1, <1>4 DEF ReportInv, VerdictIsOwn, Checked, Answered, CheckPhases
<1> QED BY <1>5, <1>8, <1>9 DEF ValidateInv

\* The end of the run.
LEMMA FinishStep == ASSUME ValidateInv, Finish PROVE ValidateInv'
<1>1. UNCHANGED <<request, pair, file, catalog, results>> /\ phase' = "done"
  BY DEF Finish
<1>2. PlaceInv' /\ CatalogInv'
  BY <1>1, SameText DEF ValidateInv, PlaceInv, CatalogInv, Loaded, Checked, Answered, CheckPhases
<1>3. ReportInv' /\ VerdictIsOwn'
  BY <1>1 DEF ReportInv, VerdictIsOwn, Checked, Answered, CheckPhases
<1> QED BY <1>2, <1>3 DEF ValidateInv

-----------------------------------------------------------------------------

(***************************************************************************)
(* Whatever was validated before, the catalog is that of the pair's own    *)
(* schema wherever it is used, and a check has been told exactly what the  *)
(* statements it has passed owe it.                                        *)
(***************************************************************************)
THEOREM ValidateInvariant == ValidateSpec => []ValidateInv
<1>1. ValidateInit => ValidateInv
  BY ValidateInitInv
<1>2. ValidateInv /\ [ValidateNext]_validateVars => ValidateInv'
  <2> SUFFICES ASSUME ValidateInv, [ValidateNext]_validateVars
               PROVE  ValidateInv'
    OBVIOUS
  <2>1. CASE InputError
    BY <2>1, AbortStep DEF InputError
  <2>2. CASE ReadConfigFile
    BY <2>2, ReadConfigFileStep
  <2>3. CASE Read
    BY <2>3, ReadStep
  <2>4. CASE LoadDefinition
    BY <2>4, LoadDefinitionStep
  <2>5. CASE NextSource
    BY <2>5, NextSourceStep
  <2>6. CASE SchemaError
    BY <2>6, AbortStep DEF SchemaError
  <2>7. CASE SchemaLoaded
    BY <2>7, SchemaLoadedStep
  <2>8. CASE CheckStatementStep
    BY <2>8, CheckStatementKeeps
  <2>9. CASE NextCheck
    BY <2>9, NextCheckStep
  <2>10. CASE Verdict
    BY <2>10, VerdictStep
  <2>11. CASE NextFile
    BY <2>11, NextFileStep
  <2>12. CASE NextPair
    BY <2>12, NextPairStep
  <2>13. CASE Finish
    BY <2>13, FinishStep
  <2>14. CASE UNCHANGED validateVars
    <3>1. UNCHANGED <<request, pair, file, loads, catalog, phase, stmt, seen, errs, checks, results>>
      BY <2>14 DEF validateVars
    <3>2. PlaceInv'
      BY <3>1, SameText DEF ValidateInv, PlaceInv
    <3>3. CatalogInv'
      BY <3>1, SameText DEF ValidateInv, CatalogInv, Loaded, Checked, Answered, SchemaSource
    <3>4. /\ \A check : Owed(check)' = Owed(check) /\ Told(check)' = Told(check)
          /\ \A which : Passed(which)' = Passed(which)
      BY <3>1, SameText DEF Owed, PassedBy, Told, Passed
    <3>5. ReportInv'
      BY <3>1, <3>4, SameText DEF ValidateInv, ReportInv
    <3>6. VerdictIsOwn'
      BY <3>1, <3>4, SameText DEF ValidateInv, VerdictIsOwn, Checked, Answered
    <3> QED BY <3>2, <3>3, <3>5, <3>6 DEF ValidateInv
  <2> QED BY <2>1, <2>2, <2>3, <2>4, <2>5, <2>6, <2>7, <2>8, <2>9, <2>10, <2>11, <2>12, <2>13, <2>14 DEF ValidateNext
<1> QED BY <1>1, <1>2, PTL DEF ValidateSpec

(***************************************************************************)
(* For every sequence of pairs, files and statements, and any four checks: *)
(* a text is reported with what its statements owe alone against the       *)
(* schema of its pair, and judged by that.                                 *)
(***************************************************************************)
THEOREM VerdictsAreOwn == ValidateSpec => []VerdictIsOwn
<1>1. ValidateInv => VerdictIsOwn
  BY DEF ValidateInv
<1> QED BY <1>1, ValidateInvariant, PTL
=============================================================================
