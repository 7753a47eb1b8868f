--------------------------- MODULE RoutingProofs ---------------------------
(***************************************************************************)
(* TLAPS proofs about version routing, of the command line and of MCP tool *)
(* calls: for every set of quarters and directories, every command line,   *)
(* every content of the directories and every change to it.                *)
(***************************************************************************)
EXTENDS McpRouting, FiniteSetTheorems, WellFoundedInduction, TLAPS

-----------------------------------------------------------------------------
(* Induction over a set of numbers, and functions defined by recursion.    *)

Below == {pair \in Nat \X Nat : pair[1] < pair[2]}

\* A set of numbers that is not empty has a least one.
LEMMA LeastNumber ==
  ASSUME NEW S \in SUBSET Nat, S # {}
  PROVE  \E i \in S : \A j \in S : i <= j
<1>1. IsWellFoundedOn(Below, Nat)
  BY NatLessThanWellFounded DEF OpToRel, Below
<1>2. PICK i \in S : \A j \in S : <<j, i>> \notin Below
  BY <1>1, WFMin, Zenon
<1>3. \A j \in S : ~(j < i)
  BY <1>2 DEF Below
<1> QED BY <1>3

\* Induction, for a set in the place of a predicate.
LEMMA Induction ==
  ASSUME NEW S, 0 \in S, \A n \in Nat : n \in S => n + 1 \in S
  PROVE  Nat \subseteq S
<1> SUFFICES ASSUME Nat \ S # {}
             PROVE  FALSE
  OBVIOUS
<1>1. PICK i \in Nat \ S : \A j \in Nat \ S : i <= j
  BY LeastNumber
<1>2. i - 1 \in Nat /\ i - 1 \in S
  BY <1>1
<1> QED BY <1>1, <1>2

\* A step function has an iteration of every length.
LEMMA Recursion ==
  ASSUME NEW V, NEW start \in V, NEW N \in Nat, NEW step \in [1..N -> [V -> V]]
  PROVE  \E f \in [0..N -> V] :
           /\ f[0] = start
           /\ \A k \in 1..N : f[k] = step[k][f[k - 1]]
<1> DEFINE Iterates(f, n) == /\ f \in [0..n -> V]
                             /\ f[0] = start
                             /\ \A k \in 1..n : f[k] = step[k][f[k - 1]]
           S == {n \in Nat : n <= N => \E f : Iterates(f, n)}
<1>1. 0 \in S
  <2>1. Iterates([k \in 0..0 |-> start], 0)
    OBVIOUS
  <2> QED BY <2>1
<1>2. ASSUME NEW n \in Nat, n \in S
      PROVE  n + 1 \in S
  <2> SUFFICES ASSUME n + 1 <= N
               PROVE  \E g : Iterates(g, n + 1)
    OBVIOUS
  <2>1. PICK f : Iterates(f, n)
    BY <1>2
  <2> DEFINE g == [k \in 0..(n + 1) |-> IF k <= n THEN f[k] ELSE step[n + 1][f[n]]]
  <2>2. f[n] \in V /\ step[n + 1][f[n]] \in V
    BY <2>1
  <2>3. g \in [0..(n + 1) -> V] /\ g[0] = start
    BY <2>1, <2>2
  <2>4. ASSUME NEW k \in 1..(n + 1)
        PROVE  g[k] = step[k][g[k - 1]]
    <3>1. /\ k \in Int /\ k - 1 \in 0..(n + 1) /\ k - 1 <= n
          /\ k <= n => k \in 1..n
          /\ ~(k <= n) => k = n + 1 /\ k - 1 = n
      BY <2>4
    <3>2. g[k - 1] = f[k - 1]
      BY <3>1
    <3>3. CASE k <= n
      <4>1. g[k] = f[k]
        BY <2>4, <3>3
      <4> QED BY <2>1, <3>1, <3>2, <3>3, <4>1
    <3>4. CASE ~(k <= n)
      <4>1. g[k] = step[n + 1][f[n]]
        BY <2>4, <3>4
      <4> QED BY <3>1, <3>2, <3>4, <4>1
    <3> QED BY <3>3, <3>4
  <2> QED BY <2>3, <2>4
<1>3. N \in S
  <2> HIDE DEF S
  <2> QED BY <1>1, <1>2, Induction
<1> QED BY <1>3

-----------------------------------------------------------------------------
(* The command line: both readings of the flag.                            *)

FlagState == [ended : BOOLEAN, needs : {"none", "target", "other"}, value : Value]
FlagStart == [ended |-> FALSE, needs |-> "none", value |-> EmptyValue]

LEMMA ReadTokenType ==
  ASSUME NEW s \in FlagState, NEW t \in Token
  PROVE  ReadToken(s, t) \in FlagState
<1>1. /\ s.ended \in BOOLEAN /\ s.needs \in {"none", "target", "other"}
      /\ s.value \in Value
      /\ t.kind \in {"bare", "sep", "other", "eq", "word"} /\ t.value \in Value
      /\ Text(t) \in Value
  BY DEF FlagState, Token, Text, Value, EmptyValue, Junk
<1> QED BY <1>1 DEF ReadToken, FlagState

\* The recursive definition of FlagStates has its intended value.
LEMMA FlagStatesStep ==
  ASSUME NEW a \in Seq(Token)
  PROVE  /\ FlagStates(a) \in [0..Len(a) -> FlagState]
         /\ FlagStates(a)[0] = FlagStart
         /\ \A k \in 1..Len(a) :
              FlagStates(a)[k] = ReadToken(FlagStates(a)[k - 1], a[k])
<1> DEFINE N == Len(a)
           step == [k \in 1..N |-> [s \in FlagState |-> ReadToken(s, a[k])]]
           Fits(f) == f = [k \in 0..N |-> IF k = 0 THEN FlagStart
                                          ELSE ReadToken(f[k - 1], a[k])]
<1>1. N \in Nat /\ \A k \in 1..N : a[k] \in Token
  OBVIOUS
<1>2. FlagStart \in FlagState
  BY DEF FlagStart, FlagState, Value, EmptyValue
<1>3. step \in [1..N -> [FlagState -> FlagState]]
  BY <1>1, ReadTokenType
<1>4. PICK f \in [0..N -> FlagState] :
        /\ f[0] = FlagStart
        /\ \A k \in 1..N : f[k] = step[k][f[k - 1]]
  <2> HIDE DEF N, step
  <2>1. N \in Nat
    BY <1>1
  <2> QED BY <2>1, <1>2, <1>3, Recursion
<1>5. \A k \in 1..N : f[k - 1] \in FlagState /\ f[k] = ReadToken(f[k - 1], a[k])
  <2> TAKE k \in 1..N
  <2>1. k - 1 \in 0..N
    BY <1>1
  <2>2. f[k - 1] \in FlagState
    BY <2>1
  <2>3. step[k][f[k - 1]] = ReadToken(f[k - 1], a[k])
    BY <2>2
  <2> HIDE DEF step
  <2> QED BY <1>4, <2>2, <2>3
<1>6. Fits(f)
  BY <1>1, <1>4, <1>5
<1>7. FlagStates(a) = CHOOSE g : Fits(g)
  BY DEF FlagStates, FlagStart
<1> DEFINE h == FlagStates(a)
<1>8. Fits(h)
  <2> HIDE DEF Fits
  <2> QED BY <1>6, <1>7
<1>9. /\ h[0] = FlagStart
      /\ \A k \in 1..N : h[k] = ReadToken(h[k - 1], a[k])
  <2> HIDE DEF h
  <2> QED BY <1>1, <1>8
<1>10. DOMAIN h = 0..N /\ h = [k \in 0..N |-> h[k]]
  <2> HIDE DEF h
  <2> QED BY <1>8
<1> DEFINE S == {k \in Nat : k <= N => h[k] \in FlagState}
<1>11. 0 \in S
  BY <1>2, <1>9
<1>12. ASSUME NEW k \in Nat, k \in S
       PROVE  k + 1 \in S
  <2> SUFFICES ASSUME k + 1 <= N
               PROVE  h[k + 1] \in FlagState
    OBVIOUS
  <2> HIDE DEF h
  <2>1. k + 1 \in 1..N /\ (k + 1) - 1 = k /\ h[k] \in FlagState
    BY <1>1, <1>12
  <2> QED BY <1>1, <1>9, <2>1, ReadTokenType
<1>13. Nat \subseteq S
  <2> HIDE DEF S
  <2> QED BY <1>11, <1>12, Induction
<1> QED
  <2> HIDE DEF h
  <2> QED BY <1>1, <1>9, <1>10, <1>13

\* OneFlag: two positions that hold the flag are the same.
LEMMA FlagOnce ==
  ASSUME NEW a \in Seq(Token), OneFlag(a),
         NEW i \in DOMAIN a, a[i].kind \in {"bare", "eq"},
         NEW j \in DOMAIN a, a[j].kind \in {"bare", "eq"}
  PROVE  i = j
<1> DEFINE F == {k \in DOMAIN a : a[k].kind \in {"bare", "eq"}}
<1> SUFFICES ASSUME i # j
             PROVE  FALSE
  OBVIOUS
<1>1. IsFiniteSet(F)
  <2>1. F \subseteq 1..Len(a) /\ IsFiniteSet(1..Len(a))
    BY FS_Interval
  <2> QED BY <2>1, FS_Subset
<1>2. {i, j} \subseteq F /\ Cardinality(F) <= 1
  BY DEF OneFlag
<1>3. IsFiniteSet({i}) /\ Cardinality({i}) = 1
  BY FS_Singleton
<1>4. Cardinality({i} \cup {j}) = 2
  <2>1. j \notin {i}
    OBVIOUS
  <2>2. Cardinality({i} \cup {j}) = Cardinality({i}) + 1
    BY <1>3, <2>1, FS_AddElement, Zenon
  <2> DEFINE both == Cardinality({i} \cup {j})
             one == Cardinality({i})
  <2>3. both = one + 1 /\ one = 1
    BY <1>3, <2>2
  <2> HIDE DEF both, one
  <2>4. both = 2
    BY <2>3
  <2> QED BY <2>4 DEF both
<1>5. {i} \cup {j} = {i, j}
  OBVIOUS
<1>6. Cardinality({i, j}) <= Cardinality(F) /\ Cardinality(F) \in Nat
  BY <1>1, <1>2, FS_Subset, FS_CardinalityType
<1> QED BY <1>2, <1>4, <1>5, <1>6

\* What the flag parser knows after k tokens, in terms of the positions that
\* extractTargetVersion sees.
ValueFrom(a, k, v) ==
  \E i \in FlagsIn(a) :
    \/ i <= k /\ a[i].kind = "eq" /\ v = a[i].value
    \/ i < k /\ a[i].kind = "bare" /\ v = Text(a[i + 1])
ReadSoFar(a, k, s) ==
  /\ s.needs = "other" => k \in DOMAIN a /\ a[k].kind = "other"
  /\ s.needs = "target" => k \in FlagsIn(a) /\ a[k].kind = "bare"
  /\ s.ended => s.needs = "none"
  /\ s.ended \/ (\E i \in FlagsIn(a) : i <= k) \/ (\A i \in 1..k : a[i].kind # "sep")
  /\ s.value = EmptyValue \/ ValueFrom(a, k, s.value)

LEMMA ReadSoFarStep ==
  ASSUME NEW a \in Seq(Token), OneFlag(a), NEW k \in Nat, k + 1 <= Len(a),
         NEW s \in FlagState, ReadSoFar(a, k, s)
  PROVE  ReadSoFar(a, k + 1, ReadToken(s, a[k + 1]))
<1> DEFINE t == a[k + 1]
           r == ReadToken(s, t)
<1>1. /\ DOMAIN a = 1..Len(a) /\ Len(a) \in Nat /\ k + 1 \in DOMAIN a
      /\ t \in Token /\ t.kind \in {"bare", "sep", "other", "eq", "word"}
      /\ FlagsIn(a) \subseteq DOMAIN a
      /\ \A i \in FlagsIn(a) : i \in Nat
  BY DEF Token, FlagsIn
<1>2. \A v : ValueFrom(a, k, v) => ValueFrom(a, k + 1, v)
  BY <1>1 DEF ValueFrom
<1>3. ASSUME t.kind \in {"bare", "eq"}, ~s.ended
      PROVE  k + 1 \in FlagsIn(a)
  <2>1. ~ \E i \in FlagsIn(a) : i <= k
    <3> SUFFICES ASSUME NEW i \in FlagsIn(a), i <= k
                 PROVE  FALSE
      OBVIOUS
    <3>1. i \in DOMAIN a /\ a[i].kind \in {"bare", "eq"}
      BY DEF FlagsIn
    <3>2. i = k + 1
      BY <1>1, <1>3, <3>1, FlagOnce
    <3> QED BY <1>1, <3>2
  <2>2. \A i \in 1..k : a[i].kind # "sep"
    BY <1>3, <2>1 DEF ReadSoFar
  <2> QED BY <1>1, <1>3, <2>2 DEF FlagsIn
<1>4. CASE s.ended
  <2>1. r = s
    BY <1>4 DEF ReadToken
  <2> QED BY <1>2, <1>4, <2>1 DEF ReadSoFar
<1>5. CASE ~s.ended /\ s.needs = "other"
  <2>1. r = [s EXCEPT !.needs = "none", !.value = s.value]
    BY <1>5 DEF ReadToken
  <2>2. r.needs = "none" /\ r.value = s.value /\ r.ended = s.ended
    BY <2>1 DEF FlagState
  <2>3. a[k].kind = "other" /\ k \in DOMAIN a
    BY <1>5 DEF ReadSoFar
  <2>4. t.kind = "word"
    BY <2>3 DEF OneFlag
  <2> QED BY <1>1, <1>2, <1>5, <2>2, <2>4 DEF ReadSoFar
<1>6. CASE ~s.ended /\ s.needs = "target"
  <2>1. r = [s EXCEPT !.needs = "none", !.value = Text(t)]
    BY <1>6 DEF ReadToken
  <2>2. r.needs = "none" /\ r.value = Text(t) /\ r.ended = s.ended
    BY <2>1 DEF FlagState
  <2>3. k \in FlagsIn(a) /\ a[k].kind = "bare"
    BY <1>6 DEF ReadSoFar
  <2>4. ValueFrom(a, k + 1, r.value)
    BY <2>2, <2>3 DEF ValueFrom
  <2> QED BY <1>1, <1>6, <2>2, <2>3, <2>4 DEF ReadSoFar
<1>7. CASE ~s.ended /\ s.needs = "none"
  <2>1. CASE t.kind = "eq"
    <3>1. r.needs = "none" /\ r.value = t.value /\ r.ended = s.ended
      BY <1>7, <2>1 DEF ReadToken, FlagState
    <3>2. k + 1 \in FlagsIn(a)
      BY <1>3, <1>7, <2>1
    <3>3. ValueFrom(a, k + 1, r.value)
      BY <2>1, <3>1, <3>2 DEF ValueFrom
    <3> QED BY <1>1, <1>7, <3>1, <3>2, <3>3 DEF ReadSoFar
  <2>2. CASE t.kind = "bare"
    <3>1. r.needs = "target" /\ r.value = s.value /\ r.ended = s.ended
      BY <1>7, <2>2 DEF ReadToken, FlagState
    <3>2. k + 1 \in FlagsIn(a)
      BY <1>3, <1>7, <2>2
    <3> QED BY <1>1, <1>2, <1>7, <2>2, <3>1, <3>2 DEF ReadSoFar
  <2>3. CASE t.kind = "sep"
    <3>1. r.needs = "none" /\ r.value = s.value /\ r.ended
      BY <1>7, <2>3 DEF ReadToken, FlagState
    <3> QED BY <1>2, <3>1 DEF ReadSoFar
  <2>4. CASE t.kind = "other"
    <3>1. r.needs = "other" /\ r.value = s.value /\ r.ended = s.ended
      BY <1>7, <2>4 DEF ReadToken, FlagState
    <3> QED BY <1>1, <1>2, <1>7, <2>4, <3>1 DEF ReadSoFar
  <2>5. CASE t.kind = "word"
    <3>1. r = s
      BY <1>7, <2>5 DEF ReadToken
    <3> QED BY <1>1, <1>2, <1>7, <2>5, <3>1 DEF ReadSoFar
  <2> QED BY <1>1, <2>1, <2>2, <2>3, <2>4, <2>5
<1> QED BY <1>4, <1>5, <1>6, <1>7 DEF FlagState

LEMMA FlagStatesRead ==
  ASSUME NEW a \in Seq(Token), OneFlag(a)
  PROVE  ReadSoFar(a, Len(a), FlagStates(a)[Len(a)])
<1> DEFINE h == FlagStates(a)
           S == {k \in Nat : k <= Len(a) => ReadSoFar(a, k, h[k])}
<1>1. /\ Len(a) \in Nat
      /\ h \in [0..Len(a) -> FlagState]
      /\ h[0] = FlagStart
      /\ \A k \in 1..Len(a) : h[k] = ReadToken(h[k - 1], a[k])
  BY FlagStatesStep
<1> HIDE DEF h
<1>2. 0 \in S
  BY <1>1 DEF ReadSoFar, FlagStart
<1>3. ASSUME NEW k \in Nat, k \in S
      PROVE  k + 1 \in S
  <2> SUFFICES ASSUME k + 1 <= Len(a)
               PROVE  ReadSoFar(a, k + 1, h[k + 1])
    OBVIOUS
  <2>1. h[k] \in FlagState /\ ReadSoFar(a, k, h[k])
    BY <1>1, <1>3
  <2>2. h[k + 1] = ReadToken(h[k], a[k + 1])
    <3>1. k + 1 \in 1..Len(a) /\ (k + 1) - 1 = k
      BY <1>1
    <3> QED BY <1>1, <3>1
  <2> QED BY <2>1, <2>2, ReadSoFarStep
<1>4. Len(a) \in S
  <2> HIDE DEF S
  <2> QED BY <1>1, <1>2, <1>3, Induction
<1> QED BY <1>1, <1>4 DEF h

\* The two readings of a command line agree: the scan of argv that chooses a
\* backend, and the flag parser of the command that runs there.
LEMMA FlagAgrees ==
  ASSUME NEW a \in Seq(Token), OneFlag(a), FlagValue(a).form = "plain"
  PROVE  Wanted(a) = FlagValue(a).q
<1> DEFINE end == FlagStates(a)[Len(a)]
<1>1. end.needs = "none" /\ FlagValue(a) = end.value
  BY DEF FlagValue, Junk
<1>2. ReadSoFar(a, Len(a), end)
  BY FlagStatesRead
<1> HIDE DEF end
<1>3. PICK i \in FlagsIn(a) :
        \/ a[i].kind = "eq" /\ end.value = a[i].value
        \/ i < Len(a) /\ a[i].kind = "bare" /\ end.value = Text(a[i + 1])
  BY <1>1, <1>2 DEF ReadSoFar, EmptyValue, ValueFrom
<1>4. \A j \in FlagsIn(a) : j = i
  BY FlagOnce DEF FlagsIn
<1>5. i = CHOOSE k \in FlagsIn(a) : \A j \in FlagsIn(a) : k <= j
  BY <1>4 DEF FlagsIn
<1> QED BY <1>1, <1>3, <1>5 DEF Wanted, ParseFromTarget

-----------------------------------------------------------------------------
(* Files, images and the search for a backend.                             *)

\* No sibling's name is a symbolic link: run route_loop shows a process that
\* replaces itself for ever where one is.
NoLinkedSiblings == LinkNames \cap Quarters = {}

HonestDisk == /\ disk \in [Paths -> Node]
              /\ \A p \in Paths : HonestNode(p, disk[p])

\* What a process image can be: built honestly, and of its name's quarter.
HonestImage(i) ==
  /\ i \in [path : Paths, bin : Binary]
  /\ HonestBinary(i.bin)
  /\ i.path[2] # Unknown => i.bin.parser = i.path[2]

LEMMA BuiltOfHonest ==
  ASSUME NEW i, HonestImage(i)
  PROVE  /\ Built(i) \in {i.bin.parser, Unknown}
         /\ i.path[2] # Unknown => Built(i) = i.path[2]
<1>1. i.bin.stamp = NoStamp => Built(i) \in {i.path[2], i.bin.dep}
  BY DEF Built
<1>2. i.path[2] # Unknown => Built(i) = i.path[2]
  BY DEF Built
<1>3. /\ i.bin.stamp \in {i.bin.parser, Malformed, NoStamp}
      /\ i.bin.dep \in {i.bin.parser, Unknown}
      /\ i.path[2] # Unknown => i.bin.parser = i.path[2]
  BY DEF HonestImage, HonestBinary
<1>4. CASE i.path[2] # Unknown
  BY <1>2, <1>3, <1>4
<1>5. CASE i.path[2] = Unknown /\ i.bin.stamp = NoStamp
  BY <1>1, <1>3, <1>5
<1>6. CASE i.path[2] = Unknown /\ i.bin.stamp = Malformed
  BY <1>6, SentinelAssumption DEF Built
<1>7. CASE i.path[2] = Unknown /\ i.bin.stamp \notin {NoStamp, Malformed}
  BY <1>3, <1>7 DEF Built
<1> QED BY <1>4, <1>5, <1>6, <1>7

\* What the shell, an exec or a spawn starts at a path.
LEMMA ImageFacts ==
  ASSUME HonestDisk, NEW p \in Paths, IsExecutable(p)
  PROVE  /\ HonestImage(ImageAt(p))
         /\ NoLinkedSiblings /\ p[2] \in Quarters => ImageAt(p).path = p
<1> DEFINE real == RealPath(p)
           n == disk[real]
<1>1. \A q \in Paths : disk[q] \in Node /\ HonestNode(q, disk[q])
  BY DEF HonestDisk
<1>2. real \in Paths
  <2>1. disk[p].kind = "link" => disk[p] \in LinkNode
    BY <1>1 DEF Node, Absent, FileNode
  <2> QED BY <2>1 DEF RealPath, LinkNode
<1>3. n.kind = "file" /\ n \in FileNode
  <2>1. n.kind = "file"
    BY DEF IsExecutable
  <2>2. n \in Node
    BY <1>1, <1>2
  <2> QED BY <2>1, <2>2 DEF Node, Absent, LinkNode
<1>4. n.bin \in Binary /\ HonestBinary(n.bin) /\ (real[2] # Unknown => n.bin.parser = real[2])
  BY <1>1, <1>2, <1>3 DEF HonestNode, FileNode
<1>5. ImageAt(p) = [path |-> real, bin |-> n.bin]
  BY DEF ImageAt
<1>6. HonestImage(ImageAt(p))
  <2> HIDE DEF real, n
  <2> QED BY <1>2, <1>4, <1>5 DEF HonestImage
<1>7. ASSUME NoLinkedSiblings, p[2] \in Quarters
      PROVE  real = p
  BY <1>1, <1>7 DEF HonestNode, NoLinkedSiblings, RealPath
<1> QED
  <2> HIDE DEF real, n
  <2> QED BY <1>5, <1>6, <1>7

\* FindBackend names a file of the quarter it was asked for.
LEMMA BackendPath ==
  ASSUME NEW i \in [path : Paths, bin : Binary], NEW q \in Quarters
  PROVE  \/ FindBackend(i, q) = NoPath
         \/ FindBackend(i, q) \in Paths /\ FindBackend(i, q)[2] = q
<1> DEFINE dirs == SearchDirs(i)
           hits == {n \in DOMAIN dirs : IsExecutable(<<dirs[n], q>>)}
           first == CHOOSE n \in hits : \A m \in hits : n <= m
<1>1. i.path[1] \in Dirs
  BY DEF Paths
<1>2. dirs \in Seq(Dirs)
  BY <1>1, DiskAssumption DEF SearchDirs
<1>3. CASE hits = {}
  BY <1>3 DEF FindBackend
<1>4. CASE hits # {}
  <2>1. hits \in SUBSET Nat
    BY <1>2
  <2>2. first \in hits
    <3> HIDE DEF hits
    <3> QED BY <1>4, <2>1, LeastNumber
  <2>3. dirs[first] \in Dirs
    <3> HIDE DEF first
    <3> QED BY <1>2, <2>2
  <2>4. FindBackend(i, q) = <<dirs[first], q>>
    BY <1>4 DEF FindBackend
  <2> HIDE DEF first, dirs
  <2> QED BY <2>3, <2>4 DEF Paths, Names
<1> QED BY <1>3, <1>4

LEMMA WantedType ==
  ASSUME NEW a \in Seq(Token)
  PROVE  Wanted(a) \in Names
<1>1. \A t \in Token : t.value.q \in Names /\ Text(t).q \in Names
  BY DEF Token, Value, EmptyValue, Text, Junk, Names
<1> DEFINE i == CHOOSE k \in FlagsIn(a) : \A j \in FlagsIn(a) : k <= j
<1>2. CASE FlagsIn(a) = {}
  BY <1>2 DEF Wanted, Names
<1>3. CASE FlagsIn(a) # {}
  <2>1. FlagsIn(a) \in SUBSET Nat /\ FlagsIn(a) \subseteq DOMAIN a
    BY DEF FlagsIn
  <2>2. i \in FlagsIn(a)
    BY <1>3, <2>1, LeastNumber
  <2> HIDE DEF i
  <2>3. i \in 1..Len(a) /\ a[i] \in Token /\ (i < Len(a) => a[i + 1] \in Token)
    BY <2>1, <2>2
  <2>4. Wanted(a) \in {a[i].value.q, Text(a[i + 1]).q, Unknown}
        /\ (~(i < Len(a)) => Wanted(a) \in {a[i].value.q, Unknown})
    BY <1>3 DEF Wanted, ParseFromTarget, i
  <2> QED BY <1>1, <2>3, <2>4 DEF Names
<1> QED BY <1>2, <1>3

-----------------------------------------------------------------------------
(* The list of backends.                                                   *)

Entry == [quarter : Names, path : Paths]
Self(i) == [quarter |-> Built(i), path |-> i.path]

\* The recursive definition of Walked has its intended value.
LEMMA WalkedStep ==
  ASSUME NEW i, HonestImage(i)
  PROVE  /\ Walked(i)[0] = {Self(i)}
         /\ \A n \in 1..Len(SearchDirs(i)) :
              /\ Walked(i)[n - 1] \in SUBSET Entry
              /\ Walked(i)[n] = Listed(SearchDirs(i)[n], Walked(i)[n - 1])
<1> DEFINE dirs == SearchDirs(i)
           N == Len(dirs)
           step == [n \in 1..N |-> [out \in SUBSET Entry |-> Listed(dirs[n], out)]]
           Fits(f) == f = [n \in 0..N |-> IF n = 0 THEN {Self(i)}
                                          ELSE Listed(dirs[n], f[n - 1])]
<1>1. N \in Nat
  <2>1. i.path[1] \in Dirs
    BY DEF HonestImage, Paths
  <2>2. dirs \in Seq(Dirs)
    BY <2>1, DiskAssumption DEF SearchDirs
  <2> QED BY <2>2
<1>2. {Self(i)} \in SUBSET Entry
  <2>1. Built(i) \in Names /\ i.path \in Paths
    BY BuiltOfHonest DEF HonestImage, Binary, Names
  <2> QED BY <2>1 DEF Self, Entry
<1>3. \A d, out : out \in SUBSET Entry => Listed(d, out) \in SUBSET Entry
  BY DEF Listed, Entry, Names
<1> HIDE DEF dirs
<1>4. step \in [1..N -> [SUBSET Entry -> SUBSET Entry]]
  BY <1>3
<1>5. PICK f \in [0..N -> SUBSET Entry] :
        /\ f[0] = {Self(i)}
        /\ \A n \in 1..N : f[n] = step[n][f[n - 1]]
  <2> DEFINE V == SUBSET Entry
             start == {Self(i)}
  <2>1. N \in Nat /\ start \in V /\ step \in [1..N -> [V -> V]]
    BY <1>1, <1>2, <1>4
  <2> HIDE DEF N, step, V, start
  <2>2. \E f \in [0..N -> V] :
          /\ f[0] = start
          /\ \A n \in 1..N : f[n] = step[n][f[n - 1]]
    BY <2>1, Recursion
  <2> QED BY <2>2 DEF V, start
<1>6. \A n \in 1..N : f[n] = Listed(dirs[n], f[n - 1])
  <2> TAKE n \in 1..N
  <2>1. n - 1 \in 0..N
    BY <1>1
  <2>2. f[n - 1] \in SUBSET Entry
    BY <2>1
  <2>3. step[n][f[n - 1]] = Listed(dirs[n], f[n - 1])
    BY <2>2
  <2> HIDE DEF step
  <2> QED BY <1>5, <2>3
<1>7. Fits(f)
  BY <1>1, <1>5, <1>6
<1>8. Walked(i) = CHOOSE g : Fits(g)
  BY DEF Walked, Self, dirs
<1> DEFINE h == Walked(i)
<1>9. Fits(h)
  <2> HIDE DEF Fits
  <2> QED BY <1>7, <1>8
<1>10. /\ h[0] = {Self(i)}
       /\ \A n \in 1..N : h[n] = Listed(dirs[n], h[n - 1])
  <2> HIDE DEF h
  <2>1. h = [n \in 0..N |-> IF n = 0 THEN {Self(i)} ELSE Listed(dirs[n], h[n - 1])]
    BY <1>9
  <2>2. 0 \in 0..N /\ \A n \in 1..N : n \in 0..N /\ n # 0
    BY <1>1
  <2> HIDE DEF N, Fits
  <2>3. h[0] = {Self(i)}
    BY <2>1, <2>2, Zenon
  <2>4. \A n \in 1..N : h[n] = Listed(dirs[n], h[n - 1])
    BY <2>1, <2>2, Zenon
  <2> QED BY <2>3, <2>4
<1> DEFINE S == {n \in Nat : n <= N => h[n] \in SUBSET Entry}
<1>11. 0 \in S
  BY <1>2, <1>10
<1>12. ASSUME NEW n \in Nat, n \in S
       PROVE  n + 1 \in S
  <2> SUFFICES ASSUME n + 1 <= N
               PROVE  h[n + 1] \in SUBSET Entry
    OBVIOUS
  <2> HIDE DEF h
  <2>1. n + 1 \in 1..N /\ (n + 1) - 1 = n /\ h[n] \in SUBSET Entry
    BY <1>1, <1>12
  <2> QED BY <1>3, <1>10, <2>1
<1>13. Nat \subseteq S
  <2> HIDE DEF S
  <2> QED BY <1>11, <1>12, Induction
<1>14. ASSUME NEW n \in 1..N
       PROVE  h[n - 1] \in SUBSET Entry
  <2> HIDE DEF h
  <2>1. n - 1 \in Nat /\ n - 1 <= N
    BY <1>1
  <2> QED BY <1>13, <2>1
<1> QED
  <2> HIDE DEF h
  <2>1. N = Len(SearchDirs(i)) /\ dirs = SearchDirs(i)
    BY DEF dirs
  <2> QED BY <1>10, <1>14, <2>1 DEF h

\* The paths listed for a quarter.
PathsOf(q, out) == {e.path : e \in {f \in out : f.quarter = q}}
\* Every entry but the first is a file of its quarter's name.
ByName(i, out) == \A e \in out : e = Self(i) \/ e.path[2] = e.quarter

\* One directory more: its backend of a quarter is listed if none was before.
LEMMA ListedStep ==
  ASSUME NEW i, HonestImage(i), NEW out \in SUBSET Entry, ByName(i, out),
         NEW d \in Dirs, NEW q \in Quarters, q # Built(i)
  PROVE  /\ ByName(i, Listed(d, out))
         /\ PathsOf(q, Listed(d, out)) =
              IF PathsOf(q, out) = {} /\ IsExecutable(<<d, q>>)
                THEN {<<d, q>>} ELSE PathsOf(q, out)
<1> DEFINE new == Listed(d, out) \ out
<1>1. \A e \in new : /\ e.path = <<d, e.quarter>> /\ IsExecutable(e.path)
                     /\ ~ \E f \in out : f.path = e.path \/ f.quarter = e.quarter
  BY DEF Listed
<1>2. ByName(i, Listed(d, out))
  BY <1>1 DEF ByName
<1>3. ASSUME NEW f \in out, f.path = <<d, q>>
      PROVE  f.quarter = q
  <2>1. CASE f = Self(i)
    <3>1. f.path = i.path /\ i.path[2] = q /\ q # Unknown
      BY <1>3, <2>1, SentinelAssumption DEF Self
    <3>2. Built(i) = q
      BY <3>1, BuiltOfHonest
    <3> QED BY <3>2
  <2>2. CASE f # Self(i)
    <3>1. f.path[2] = f.quarter
      BY <2>2 DEF ByName
    <3> QED BY <1>3, <3>1
  <2> QED BY <2>1, <2>2
<1> DEFINE e0 == [quarter |-> q, path |-> <<d, q>>]
<1>4. /\ e0 \in [quarter : Quarters, path : Paths]
      /\ e0.path = <<d, q>> /\ e0.quarter = q
  BY DEF Paths, Names
<1>5. e0 \in Listed(d, out) <=> \/ e0 \in out
                                \/ /\ IsExecutable(<<d, q>>)
                                   /\ ~ \E f \in out : f.quarter = q
  <2>1. (\E f \in out : f.path = e0.path \/ f.quarter = e0.quarter)
          <=> (\E f \in out : f.quarter = q)
    BY <1>3, <1>4
  <2> HIDE DEF e0
  <2> QED BY <1>4, <2>1 DEF Listed
<1>6. \A e \in new : e.quarter = q => e = e0
  <2> SUFFICES ASSUME NEW e \in new, e.quarter = q
               PROVE  e = e0
    OBVIOUS
  <2>1. e \in [quarter : Quarters, path : Paths]
    BY DEF Listed
  <2>2. e.path = <<d, q>>
    BY <1>1
  <2> QED BY <2>1, <2>2
<1>7. out \subseteq Listed(d, out)
  BY DEF Listed
<1>8. PathsOf(q, out) = {} <=> ~ \E f \in out : f.quarter = q
  BY DEF PathsOf
<1> HIDE DEF e0
<1>9. CASE PathsOf(q, out) = {} /\ IsExecutable(<<d, q>>)
  <2>1. e0 \in Listed(d, out)
    BY <1>5, <1>8, <1>9
  <2>2. \A e \in Listed(d, out) : e.quarter = q => e = e0
    BY <1>6, <1>8, <1>9
  <2> QED BY <1>2, <1>4, <1>9, <2>1, <2>2 DEF PathsOf
<1>10. CASE ~(PathsOf(q, out) = {} /\ IsExecutable(<<d, q>>))
  <2>1. \A e \in new : e.quarter # q
    BY <1>1, <1>5, <1>6, <1>8, <1>10
  <2>2. PathsOf(q, Listed(d, out)) = PathsOf(q, out)
    BY <1>7, <2>1 DEF PathsOf
  <2> QED BY <1>2, <1>10, <2>2
<1> QED BY <1>9, <1>10

\* The directories listed so far that have a backend of quarter q.
Hits(i, q, n) == {m \in 1..n : IsExecutable(<<SearchDirs(i)[m], q>>)}
FirstHit(i, q, n) ==
  IF Hits(i, q, n) = {} THEN {}
  ELSE {<<SearchDirs(i)[CHOOSE m \in Hits(i, q, n) : \A k \in Hits(i, q, n) : m <= k], q>>}

LEMMA FirstHitStep ==
  ASSUME NEW i, NEW q, NEW n \in Nat
  PROVE  FirstHit(i, q, n + 1) =
           IF FirstHit(i, q, n) = {} /\ IsExecutable(<<SearchDirs(i)[n + 1], q>>)
             THEN {<<SearchDirs(i)[n + 1], q>>} ELSE FirstHit(i, q, n)
<1> DEFINE old == Hits(i, q, n)
           hits == Hits(i, q, n + 1)
           Least(S) == CHOOSE m \in S : \A k \in S : m <= k
<1>1. /\ old \in SUBSET Nat
      /\ \A m \in old : m <= n
      /\ hits = old \cup (IF IsExecutable(<<SearchDirs(i)[n + 1], q>>) THEN {n + 1} ELSE {})
  BY DEF Hits
<1>2. CASE ~IsExecutable(<<SearchDirs(i)[n + 1], q>>)
  <2>1. hits = old
    BY <1>1, <1>2
  <2> QED BY <1>2, <2>1 DEF FirstHit
<1>3. CASE IsExecutable(<<SearchDirs(i)[n + 1], q>>) /\ old = {}
  <2>1. hits = {n + 1}
    BY <1>1, <1>3
  <2>2. Least(hits) = n + 1
    BY <2>1
  <2> HIDE DEF hits
  <2>3. FirstHit(i, q, n + 1) = {<<SearchDirs(i)[Least(hits)], q>>}
    BY <2>1 DEF FirstHit, hits
  <2> QED BY <1>3, <2>2, <2>3 DEF FirstHit
<1>4. CASE IsExecutable(<<SearchDirs(i)[n + 1], q>>) /\ old # {}
  <2> HIDE DEF old, hits
  <2>1. PICK m \in old : \A k \in old : m <= k
    BY <1>1, <1>4, LeastNumber
  <2>2. \A k \in old : (\A l \in old : k <= l) => k = m
    BY <1>1, <2>1
  <2>3. hits = old \cup {n + 1} /\ m <= n + 1 /\ m \in Nat /\ m <= n
    BY <1>1, <1>4, <2>1
  <2>4. m \in hits /\ (\A k \in hits : m <= k)
    BY <2>1, <2>3
  <2>5. \A k \in hits : (\A l \in hits : k <= l) => k = m
    BY <1>1, <2>1, <2>2, <2>3
  <2>6. Least(old) = m
    BY <2>1, <2>2
  <2>7. Least(hits) = m
    BY <2>4, <2>5
  <2>8. FirstHit(i, q, n + 1) = {<<SearchDirs(i)[Least(hits)], q>>}
    BY <2>4 DEF FirstHit, hits
  <2>9. FirstHit(i, q, n) = {<<SearchDirs(i)[Least(old)], q>>}
    BY <1>4 DEF FirstHit, old
  <2> QED BY <2>6, <2>7, <2>8, <2>9
<1> QED BY <1>2, <1>3, <1>4

\* Discover lists for every other quarter what FindBackend finds.
LEMMA DiscoverFinds ==
  ASSUME NEW i, HonestImage(i), NEW q \in Quarters, q # Built(i)
  PROVE  PathsOf(q, Discover(i)) = {FindBackend(i, q)} \ {NoPath}
<1> DEFINE dirs == SearchDirs(i)
           N == Len(dirs)
           w == Walked(i)
           S == {n \in Nat : n <= N => /\ ByName(i, w[n])
                                       /\ PathsOf(q, w[n]) = FirstHit(i, q, n)}
<1>1. /\ w[0] = {Self(i)}
      /\ \A n \in 1..N : w[n - 1] \in SUBSET Entry /\ w[n] = Listed(dirs[n], w[n - 1])
  BY WalkedStep
<1>2. dirs \in Seq(Dirs) /\ N \in Nat
  <2>1. i.path[1] \in Dirs
    BY DEF HonestImage, Paths
  <2>2. dirs \in Seq(Dirs)
    BY <2>1, DiskAssumption DEF SearchDirs
  <2> QED BY <2>2
<1> HIDE DEF w
<1>3. 0 \in S
  <2>1. ByName(i, w[0])
    BY <1>1 DEF ByName
  <2>2. PathsOf(q, w[0]) = {}
    BY <1>1 DEF PathsOf, Self
  <2>3. FirstHit(i, q, 0) = {}
    BY DEF FirstHit, Hits
  <2> QED BY <2>1, <2>2, <2>3
<1>4. ASSUME NEW n \in Nat, n \in S
      PROVE  n + 1 \in S
  <2> SUFFICES ASSUME n + 1 <= N
               PROVE  /\ ByName(i, w[n + 1])
                      /\ PathsOf(q, w[n + 1]) = FirstHit(i, q, n + 1)
    OBVIOUS
  <2> DEFINE d == dirs[n + 1]
  <2>1. n + 1 \in 1..N /\ (n + 1) - 1 = n /\ n <= N
    BY <1>2
  <2>2. w[n] \in SUBSET Entry /\ w[n + 1] = Listed(d, w[n]) /\ d \in Dirs
    <3> HIDE DEF dirs
    <3> QED BY <1>1, <1>2, <2>1
  <2>3. ByName(i, w[n]) /\ PathsOf(q, w[n]) = FirstHit(i, q, n)
    BY <1>4, <2>1
  <2>4. FirstHit(i, q, n + 1) =
          IF FirstHit(i, q, n) = {} /\ IsExecutable(<<d, q>>)
            THEN {<<d, q>>} ELSE FirstHit(i, q, n)
    BY FirstHitStep
  <2> HIDE DEF d
  <2>5. /\ ByName(i, Listed(d, w[n]))
        /\ PathsOf(q, Listed(d, w[n])) =
             IF PathsOf(q, w[n]) = {} /\ IsExecutable(<<d, q>>)
               THEN {<<d, q>>} ELSE PathsOf(q, w[n])
    BY <2>2, <2>3, ListedStep
  <2> QED BY ONLY <2>2, <2>3, <2>4, <2>5
<1>5. N \in S
  <2> HIDE DEF S, N
  <2> QED BY <1>2, <1>3, <1>4, Induction
<1>6. PathsOf(q, Discover(i)) = FirstHit(i, q, N)
  BY <1>2, <1>5 DEF Discover, w
<1>7. Hits(i, q, N) = {n \in DOMAIN dirs : IsExecutable(<<dirs[n], q>>)}
  BY <1>2 DEF Hits
<1>8. CASE Hits(i, q, N) = {}
  <2>1. FindBackend(i, q) = NoPath
    BY <1>7, <1>8 DEF FindBackend
  <2> QED BY <1>6, <1>8, <2>1 DEF FirstHit
<1>9. CASE Hits(i, q, N) # {}
  <2>1. FirstHit(i, q, N) = {FindBackend(i, q)}
    BY <1>7, <1>9 DEF FindBackend, FirstHit
  <2>2. FindBackend(i, q) # NoPath
    <3>1. i \in [path : Paths, bin : Binary]
      BY DEF HonestImage
    <3> DEFINE first == CHOOSE n \in Hits(i, q, N) : \A m \in Hits(i, q, N) : n <= m
    <3>2. first \in Hits(i, q, N)
      <4>1. Hits(i, q, N) \in SUBSET Nat
        BY DEF Hits
      <4> QED BY <1>9, <4>1, LeastNumber
    <3>3. FindBackend(i, q) = <<dirs[first], q>>
      BY <1>7, <1>9 DEF FindBackend
    <3>4. first \in 1..N
      BY <3>2 DEF Hits
    <3> HIDE DEF first
    <3>5. dirs[first] \in Dirs
      <4> HIDE DEF dirs
      <4> QED BY <1>2, <3>4
    <3> QED BY <3>3, <3>5, SentinelAssumption DEF Paths, Names
  <2> QED BY <1>6, <2>1, <2>2
<1> QED BY <1>8, <1>9

-----------------------------------------------------------------------------
(* The inductive invariant.                                                *)

\* The command line: a process that stayed is the one that was wanted, and one
\* exec leads to it.
RouteInv ==
  /\ HonestDisk
  /\ HonestImage(image)
  /\ phase \in {"flags", "command"} => ~Elsewhere
  /\ phase = "exec" => Wanted(argv) \in Quarters /\ next[2] = Wanted(argv)
  /\ NoLinkedSiblings => /\ execs <= 1
                         /\ execs = 1 => Built(image) = Wanted(argv)
                         /\ phase = "exec" => execs = 0

\* Tool calls: a child is of the quarter the server above it was asked for.
Asked(s) == ParseFromTarget(Target(s))
CallInv ==
  /\ \A n \in DOMAIN servers : HonestImage(servers[n].image)
  /\ call.stage = "idle" => servers = <<>> \/ Len(servers) = 1
  /\ call.stage = "local" => ~Forwards(Here)
  /\ NoLinkedSiblings =>
       /\ servers = <<>> \/ Len(servers) \in {1, 2}
       /\ call.stage = "spawning" => /\ Len(servers) = 1
                                     /\ child[2] = Asked(servers[1])
                                     /\ child[2] \in Quarters
       /\ Len(servers) = 2 => /\ servers[2].image.path[2] = Asked(servers[1])
                              /\ Asked(servers[1]) \in Quarters
                              /\ servers[2].default = EmptyValue

RoutingInv == TypeOK /\ RouteInv /\ CallInv

LEMMA RouteUnchanged ==
  ASSUME RouteInv, UNCHANGED routeVars
  PROVE  RouteInv'
BY DEF RouteInv, routeVars, HonestDisk, Elsewhere

LEMMA CallUnchanged ==
  ASSUME CallInv, UNCHANGED mcpVars
  PROVE  CallInv'
BY DEF CallInv, mcpVars, Asked, Target, Forwards, Here

LEMMA InitHolds ==
  ASSUME Init
  PROVE  RoutingInv
<1>1. disk \in [Paths -> Node] /\ HonestDisk
  BY DiskAssumption DEF Init, RouteInit, HonestDisk
<1>2. PICK p \in Paths : IsExecutable(p) /\ image = ImageAt(p)
  BY DEF Init, RouteInit
<1>3. HonestImage(image)
  BY <1>1, <1>2, ImageFacts
<1>4. TypeOK
  <2>1. call \in Call
    BY DEF Init, McpInit, Call, Value, EmptyValue
  <2>2. image \in [path : Paths, bin : Binary]
    BY <1>3 DEF HonestImage
  <2>3. argv \in Seq(Token) /\ changes \in 0..MaxChanges /\ servers = <<>>
        /\ call.stage = "idle" /\ child = NoPath
    BY DiskAssumption, ArgumentAssumption DEF Init, RouteInit, McpInit
  <2> QED BY <1>1, <2>1, <2>2, <2>3 DEF Init, RouteInit, TypeOK
<1>5. RouteInv
  BY <1>1, <1>3 DEF RouteInv, Init, RouteInit
<1>6. CallInv
  BY DEF CallInv, Init, McpInit
<1> QED BY <1>4, <1>5, <1>6 DEF RoutingInv

\* The part of the type invariant that the process and the disk disturb.
LEMMA RouteStep ==
  ASSUME RoutingInv, RouteNext, UNCHANGED mcpVars
  PROVE  RoutingInv'
<1> USE DEF RoutingInv
<1>1. CallInv'
  BY CallUnchanged
<1>2. UNCHANGED <<servers, call, child>>
  BY DEF mcpVars
<1>3. CASE StayHere
  <2>1. TypeOK'
    BY <1>2, <1>3 DEF StayHere, TypeOK
  <2>2. RouteInv'
    BY <1>3 DEF StayHere, RouteInv, HonestDisk, Elsewhere, TypeOK
  <2> QED BY <1>1, <2>1, <2>2
<1>4. CASE Lookup
  <2> DEFINE q == Wanted(argv)
  <2>1. q \in Quarters
    BY <1>4, WantedType DEF Lookup, Elsewhere, Names, TypeOK
  <2>2. next' \in Paths /\ next'[2] = q /\ next' # NoPath
    BY <1>4, <2>1, BackendPath, SentinelAssumption DEF Lookup, TypeOK
  <2>3. TypeOK'
    BY <1>2, <1>4, <2>2 DEF Lookup, TypeOK
  <2>4. NoLinkedSiblings => execs = 0
    BY <1>4 DEF Lookup, Elsewhere, RouteInv, TypeOK
  <2>5. RouteInv'
    BY <1>4, <2>1, <2>2, <2>4 DEF Lookup, RouteInv, HonestDisk
  <2> QED BY <1>1, <2>3, <2>5
<1>5. CASE MissingBackend
  <2>1. TypeOK'
    BY <1>2, <1>5 DEF MissingBackend, TypeOK
  <2>2. RouteInv'
    BY <1>5 DEF MissingBackend, RouteInv, HonestDisk
  <2> QED BY <1>1, <2>1, <2>2
<1>6. CASE Exec
  <2>1. next \in Paths /\ Wanted(argv) \in Quarters /\ next[2] = Wanted(argv)
    BY <1>6 DEF Exec, TypeOK, RouteInv
  <2>2. /\ HonestImage(image')
        /\ NoLinkedSiblings => image'.path = next
    BY <1>6, <2>1, ImageFacts DEF Exec, RouteInv
  <2>3. NoLinkedSiblings => Built(image') = Wanted(argv)
    BY <2>1, <2>2, BuiltOfHonest, SentinelAssumption
  <2>4. TypeOK'
    BY <1>2, <1>6, <2>2 DEF Exec, TypeOK, HonestImage
  <2>5. NoLinkedSiblings => execs' = 1
    BY <1>6 DEF Exec, RouteInv
  <2>6. RouteInv'
    BY <1>6, <2>2, <2>3, <2>5 DEF Exec, RouteInv, HonestDisk
  <2> QED BY <1>1, <2>4, <2>6
<1>7. CASE ExecFails
  <2>1. TypeOK'
    BY <1>2, <1>7 DEF ExecFails, TypeOK
  <2>2. RouteInv'
    BY <1>7 DEF ExecFails, RouteInv, HonestDisk
  <2> QED BY <1>1, <2>1, <2>2
<1>8. CASE ParseFlags
  <2>0. phase' \in {"command", "usage"}
    BY <1>8 DEF ParseFlags
  <2>1. TypeOK'
    BY <1>2, <1>8, <2>0 DEF ParseFlags, TypeOK
  <2>2. RouteInv'
    BY <1>8, <2>0 DEF ParseFlags, RouteInv, HonestDisk, Elsewhere
  <2> QED BY <1>1, <2>1, <2>2
<1>9. ASSUME NEW p \in Paths, NEW n \in Install, Package(p, n)
      PROVE  RoutingInv'
  <2>1. n \in Node /\ HonestNode(p, n)
    BY <1>9, DiskAssumption DEF Package
  <2>2. disk' \in [Paths -> Node] /\ HonestDisk'
    BY <1>9, <2>1 DEF Package, RouteInv, HonestDisk
  <2>3. TypeOK'
    BY <1>2, <1>9, <2>2, DiskAssumption DEF Package, TypeOK
  <2>4. RouteInv'
    BY <1>9, <2>2 DEF Package, RouteInv, Elsewhere
  <2> QED BY <1>1, <2>3, <2>4
<1> QED BY <1>3, <1>4, <1>5, <1>6, <1>7, <1>8, <1>9 DEF RouteNext, Main, Packager

\* A value that names a quarter names one that exists.
LEMMA AskedType ==
  ASSUME TypeOK, NEW s \in Server
  PROVE  Target(s) \in Value /\ Asked(s) \in Names
<1>1. call.param \in Value /\ s.default \in Value
  BY DEF TypeOK, Call, Server
<1>2. Target(s) \in Value
  BY <1>1 DEF Target
<1>3. \A v \in Value : v.q \in Names
  BY DEF Value, Names
<1> QED BY <1>2, <1>3 DEF Asked, ParseFromTarget

LEMMA CallStep ==
  ASSUME RoutingInv, UNCHANGED routeVars,
         Serve \/ (\E v \in Params : Receive(v)) \/ McpStep
  PROVE  RoutingInv'
<1> USE DEF RoutingInv
<1>1. RouteInv'
  BY RouteUnchanged
<1>2. /\ UNCHANGED <<disk, changes, image, argv, phase, next, execs>>
      /\ servers \in Seq(Server) /\ call \in Call
      /\ call.stage # "idle" => servers # <<>>
  BY DEF routeVars, TypeOK
<1>3. CASE Serve
  <2> DEFINE s == [image |-> image, default |-> FlagValue(argv)]
  <2>1. s \in Server
    <3>1. FlagStates(argv)[Len(argv)] \in FlagState
      BY FlagStatesStep DEF TypeOK
    <3>2. FlagValue(argv) \in Value
      BY <3>1 DEF FlagValue, FlagState, Junk, Value
    <3> QED BY <3>2 DEF Server, TypeOK
  <2> HIDE DEF s
  <2>2. servers = <<>> /\ servers' = <<s>> /\ UNCHANGED <<call, child>> /\ call.stage = "idle"
    BY <1>2, <1>3 DEF Serve, s
  <2>3. s.image = image
    BY DEF s
  <2>4. TypeOK'
    BY <1>2, <2>1, <2>2 DEF TypeOK
  <2>5. CallInv'
    BY <1>2, <2>2, <2>3 DEF CallInv, RouteInv
  <2> QED BY <1>1, <2>4, <2>5
<1>4. ASSUME NEW v \in Params, Receive(v)
      PROVE  RoutingInv'
  <2>1. v \in Value
    BY ParamsAssumption
  <2>2. /\ Len(servers) = 1 /\ UNCHANGED <<servers, child>>
        /\ call' = [stage |-> "routing", param |-> v] /\ call.stage = "idle"
    BY <1>4 DEF Receive
  <2>3. call' \in Call /\ call'.stage = "routing"
    BY <2>1, <2>2 DEF Call
  <2>4. TypeOK'
    <3>1. servers # <<>>
      BY <2>2
    <3> QED BY <1>2, <2>2, <2>3, <3>1 DEF TypeOK
  <2>5. /\ servers' = servers /\ call'.stage = "routing" /\ Len(servers) = 1
    BY <2>2, <2>3
  <2>6. (Len(servers) = 1)' /\ (Len(servers) # 2)'
    BY <2>5
  <2>7. CallInv'
    BY <2>5, <2>6 DEF CallInv
  <2> QED BY <1>1, <2>4, <2>7
<1>5. CASE RejectParam
  <2>1. /\ UNCHANGED <<servers, child>> /\ servers # <<>> /\ call'.stage = "toolError"
        /\ call'.param = call.param /\ call' \in Call
    BY <1>2, <1>5 DEF RejectParam, Call, Outcomes
  <2>2. TypeOK'
    BY <1>2, <1>5, <2>1 DEF TypeOK, RejectParam
  <2>3. CallInv'
    BY <2>1 DEF CallInv, Asked, Target
  <2> QED BY <1>1, <2>2, <2>3
<1>6. CASE AnswerHere
  <2>1. /\ UNCHANGED <<servers, child>> /\ servers # <<>> /\ call'.stage = "local"
        /\ call'.param = call.param /\ call' \in Call /\ ~Forwards(Here)
    BY <1>2, <1>6 DEF AnswerHere, Call, Outcomes
  <2>2. TypeOK'
    BY <1>2, <1>6, <2>1 DEF TypeOK, AnswerHere
  <2>3. CallInv'
    BY <2>1 DEF CallInv, Asked, Target, Forwards, Here
  <2> QED BY <1>1, <2>2, <2>3
<1>7. CASE Dispatch
  <2> DEFINE path == FindBackend(Here.image, Asked(Here))
  <2>1. /\ Here \in Server /\ Here.image \in [path : Paths, bin : Binary]
        /\ Len(servers) \in Nat /\ Len(servers) >= 1
    <3>1. Len(servers) \in Nat /\ Len(servers) >= 1 /\ Len(servers) \in DOMAIN servers
      BY <1>2, <1>7 DEF Dispatch
    <3>2. Here \in Server
      BY <1>2, <3>1 DEF Here
    <3> QED BY <3>1, <3>2 DEF Server
  <2>2. Asked(Here) \in Quarters
    BY <1>7, <2>1, AskedType DEF Dispatch, Forwards, Names, Asked
  <2>3. path = NoPath \/ (path \in Paths /\ path[2] = Asked(Here))
    BY <2>1, <2>2, BackendPath
  <2>4. /\ UNCHANGED servers /\ call' \in Call /\ call'.param = call.param
        /\ \/ call'.stage = "toolError" /\ UNCHANGED child
           \/ call'.stage = "spawning" /\ child' = path /\ path # NoPath
    BY <1>2, <1>7 DEF Dispatch, Call, Outcomes, Asked
  <2>5. child = NoPath /\ call.stage = "routing"
    BY <1>7 DEF TypeOK, Dispatch
  <2> HIDE DEF path
  <2>6. TypeOK'
    BY <1>2, <2>3, <2>4, <2>5, SentinelAssumption DEF TypeOK
  <2>7. ASSUME NoLinkedSiblings
        PROVE  Len(servers) = 1
    <3> SUFFICES ASSUME Len(servers) = 2
                 PROVE  FALSE
      BY <1>2, <1>7, <2>7 DEF CallInv, Dispatch
    <3>1. /\ Here = servers[2] /\ servers[1] \in Server
          /\ Here.image.path[2] = Asked(servers[1]) /\ Asked(servers[1]) \in Quarters
          /\ Here.default = EmptyValue
      BY <1>2, <2>7 DEF CallInv, Here
    <3>2. HonestImage(Here.image)
      BY <1>2, <3>1 DEF CallInv
    <3>3. Built(Here.image) = Asked(servers[1])
      BY <3>1, <3>2, BuiltOfHonest, SentinelAssumption
    <3>4. Asked(Here) # Unknown /\ Asked(Here) # Asked(servers[1])
      BY <1>7, <3>3 DEF Dispatch, Forwards, Asked
    <3>5. Target(Here) # EmptyValue
      BY <3>4 DEF Asked, ParseFromTarget, EmptyValue
    <3>6. Target(Here) = Target(servers[1])
      BY <3>1, <3>5 DEF Target
    <3> QED BY <3>4, <3>6 DEF Asked
  <2>8. CallInv'
    <3>1. NoLinkedSiblings => Here = servers[1]
      BY <2>7 DEF Here
    <3>2. \A s : Asked(s)' = Asked(s)
      BY <2>4 DEF Asked, Target
    <3> QED BY <2>2, <2>3, <2>4, <2>5, <2>7, <3>1, <3>2 DEF CallInv
  <2> QED BY <1>1, <2>6, <2>8
<1>8. CASE Spawn
  <2> DEFINE s == [image |-> ImageAt(child), default |-> EmptyValue]
  <2>1. child \in Paths /\ IsExecutable(child) /\ call.stage = "spawning"
    BY <1>8 DEF Spawn, TypeOK
  <2>2. HonestImage(s.image) /\ (NoLinkedSiblings /\ child[2] \in Quarters => s.image.path = child)
    BY <2>1, ImageFacts DEF RouteInv
  <2>3. s.default = EmptyValue /\ s \in Server
    BY <2>2 DEF HonestImage, Server, Value, EmptyValue
  <2> HIDE DEF s
  <2>4. /\ servers' = Append(servers, s) /\ child' = NoPath
        /\ call'.stage = "routing" /\ call'.param = call.param /\ call' \in Call
    BY <1>2, <1>8 DEF Spawn, Call, s
  <2>5. /\ servers' \in Seq(Server) /\ Len(servers') = Len(servers) + 1
        /\ \A n \in DOMAIN servers : n \in DOMAIN servers' /\ servers'[n] = servers[n]
        /\ servers'[Len(servers) + 1] = s
        /\ \A n \in DOMAIN servers' : n \in DOMAIN servers \/ n = Len(servers) + 1
        /\ servers' # <<>>
    BY <1>2, <2>3, <2>4
  <2>6. TypeOK'
    BY <1>2, <2>4, <2>5 DEF TypeOK
  <2>7. \A n \in DOMAIN servers' : HonestImage(servers'[n].image)
    BY <2>2, <2>5 DEF CallInv
  <2>8. ASSUME NoLinkedSiblings
        PROVE  (/\ Len(servers) = 2
                /\ servers[2].image.path[2] = Asked(servers[1])
                /\ Asked(servers[1]) \in Quarters
                /\ servers[2].default = EmptyValue)'
    <3>1. /\ Len(servers) = 1 /\ child[2] = Asked(servers[1])
          /\ child[2] \in Quarters
      BY <2>1, <2>8 DEF CallInv
    <3>2. servers'[1] = servers[1] /\ servers'[2] = s
      BY <2>5, <3>1
    <3>3. Asked(servers[1])' = Asked(servers[1])
      BY <2>4, <3>2 DEF Asked, Target
    <3> QED BY <2>2, <2>3, <2>5, <2>8, <3>1, <3>2, <3>3
  <2>9. CallInv'
    <3>1. call'.stage = "routing"
      BY <2>4
    <3>2. ASSUME NoLinkedSiblings
          PROVE  (Len(servers) \in {1, 2})'
      BY <2>8, <3>2
    <3> QED BY <2>7, <2>8, <3>1, <3>2 DEF CallInv
  <2> QED BY <1>1, <2>6, <2>9
<1>9. CASE SpawnFails
  <2>1. /\ UNCHANGED servers /\ servers # <<>> /\ call'.stage = "failed"
        /\ call'.param = call.param /\ call' \in Call /\ child' = NoPath
    BY <1>2, <1>9 DEF SpawnFails, Call, Outcomes
  <2>2. TypeOK'
    BY <1>2, <2>1 DEF TypeOK
  <2>3. CallInv'
    BY <2>1 DEF CallInv, Asked, Target
  <2> QED BY <1>1, <2>2, <2>3
<1>10. CASE Reply
  <2>1. /\ call' = [stage |-> "idle", param |-> EmptyValue]
        /\ servers' = <<servers[1]>> /\ servers # <<>> /\ UNCHANGED child
        /\ call.stage # "spawning"
    BY <1>2, <1>10 DEF Reply, Outcomes
  <2>2. 1 \in DOMAIN servers /\ servers[1] \in Server
    BY <1>2, <2>1
  <2>3. call' \in Call
    BY <2>1 DEF Call, Value, EmptyValue
  <2>4. TypeOK'
    BY <1>2, <2>1, <2>2, <2>3 DEF TypeOK
  <2>5. CallInv'
    BY <2>1, <2>2 DEF CallInv
  <2> QED BY <1>1, <2>4, <2>5
<1> QED BY <1>3, <1>4, <1>5, <1>6, <1>7, <1>8, <1>9, <1>10 DEF McpStep

-----------------------------------------------------------------------------
(* The theorems.                                                           *)

\* The inductive invariant, for every run of the specification.
THEOREM RoutingInvariant == Spec => []RoutingInv
<1>1. Init => RoutingInv
  BY InitHolds
<1>2. RoutingInv /\ [Next]_vars => RoutingInv'
  <2> SUFFICES ASSUME RoutingInv, [Next]_vars
               PROVE  RoutingInv'
    OBVIOUS
  <2>1. CASE RouteNext /\ UNCHANGED mcpVars
    BY <2>1, RouteStep
  <2>2. CASE Serve \/ (\E v \in Params : Receive(v)) \/ McpStep
    <3>1. UNCHANGED routeVars
      BY <2>2 DEF Serve, Receive, McpStep, RejectParam, AnswerHere, Dispatch, Spawn,
                  SpawnFails, Reply
    <3> QED BY <2>2, <3>1, CallStep
  <2>3. CASE UNCHANGED vars
    <3>1. UNCHANGED routeVars /\ UNCHANGED mcpVars
      BY <2>3 DEF vars
    <3>2. RouteInv' /\ CallInv'
      BY <3>1, RouteUnchanged, CallUnchanged DEF RoutingInv
    <3>3. TypeOK'
      BY <3>1 DEF RoutingInv, TypeOK, routeVars, mcpVars
    <3> QED BY <3>2, <3>3 DEF RoutingInv
  <2> QED BY <2>1, <2>2, <2>3 DEF Next
<1> QED BY <1>1, <1>2, PTL DEF Spec

\* A command that was asked for a quarter runs on the parser of that quarter,
\* wherever siblings are linked to, whatever is installed between the lookup
\* and the exec, and whatever the two readers of the flag may differ about.
THEOREM RightParserAlways == Spec => []RightParser
<1>1. RoutingInv => RightParser
  <2> SUFFICES ASSUME RoutingInv, phase = "command", OneFlag(argv),
                      FlagValue(argv).form = "plain"
               PROVE  image.bin.parser = FlagValue(argv).q
    BY DEF RightParser
  <2>1. argv \in Seq(Token) /\ HonestImage(image) /\ ~Elsewhere
    BY DEF RoutingInv, TypeOK, RouteInv
  <2>2. Wanted(argv) = FlagValue(argv).q
    BY <2>1, FlagAgrees
  <2>3. FlagValue(argv) \in Value
    <3>1. FlagStates(argv)[Len(argv)] \in FlagState
      BY <2>1, FlagStatesStep
    <3> QED BY <3>1 DEF FlagValue, FlagState, Junk, Value
  <2>4. FlagValue(argv).q \in Quarters
    BY <2>3 DEF Value
  <2>5. Built(image) = Wanted(argv)
    BY <2>1, <2>2, <2>4, SentinelAssumption DEF Elsewhere
  <2> QED BY <2>1, <2>2, <2>4, <2>5, BuiltOfHonest, SentinelAssumption
<1> QED BY <1>1, RoutingInvariant, PTL

\* One exec leads to the image that was looked for, if no sibling's name is a
\* link: the image the kernel starts then has the name that was looked up.
THEOREM OneExecAlways == NoLinkedSiblings => (Spec => []OneExec)
<1> SUFFICES ASSUME NoLinkedSiblings
             PROVE  Spec => []OneExec
  OBVIOUS
<1>1. RoutingInv => OneExec
  BY DEF RoutingInv, RouteInv, OneExec
<1> QED BY <1>1, RoutingInvariant, PTL

\* `versions` and the discovery hint list the backends that routing would exec.
THEOREM ListingAlwaysAgrees == Spec => []ListingAgrees
<1>1. RoutingInv => ListingAgrees
  <2> SUFFICES ASSUME RoutingInv, NEW q \in Quarters \ {Built(image)}
               PROVE  {e.path : e \in {f \in Discover(image) : f.quarter = q}}
                        = {FindBackend(image, q)} \ {NoPath}
    BY DEF ListingAgrees
  <2>1. HonestImage(image)
    BY DEF RoutingInv, RouteInv
  <2>2. PathsOf(q, Discover(image)) = {FindBackend(image, q)} \ {NoPath}
    BY <2>1, DiscoverFinds
  <2> QED BY <2>2 DEF PathsOf
<1> QED BY <1>1, RoutingInvariant, PTL

\* A tool call is answered by the parser of the quarter it asks for, here or in
\* a child, if the server knows its own quarter and no sibling's name is a link.
THEOREM AnswersComeFromTheQuarter ==
  NoLinkedSiblings => (Spec => []AnswerFromQuarter)
<1> SUFFICES ASSUME NoLinkedSiblings
             PROVE  Spec => []AnswerFromQuarter
  OBVIOUS
<1>1. RoutingInv => AnswerFromQuarter
  <2> DEFINE top == servers[1]
  <2> SUFFICES ASSUME RoutingInv, call.stage = "local",
                      Built(top.image) # Unknown, Target(top).form = "plain"
               PROVE  Here.image.bin.parser = Target(top).q
    BY Zenon DEF AnswerFromQuarter, Target
  <2>1. /\ servers \in Seq(Server) /\ servers # <<>>
        /\ Len(servers) \in {1, 2}
        /\ \A n \in DOMAIN servers : HonestImage(servers[n].image)
        /\ ~Forwards(Here)
    BY DEF RoutingInv, TypeOK, CallInv
  <2>2. top \in Server /\ HonestImage(top.image)
    BY <2>1
  <2>3. Target(top).q \in Quarters /\ Asked(top) = Target(top).q
    <3>1. Target(top) \in Value
      BY <2>2, AskedType DEF RoutingInv
    <3> QED BY <3>1 DEF Value, Asked, ParseFromTarget
  <2>4. CASE Len(servers) = 1
    <3>1. Here = top
      BY <2>4 DEF Here
    <3>2. Built(top.image) = Asked(top)
      BY <2>1, <2>3, <3>1, SentinelAssumption DEF Forwards, Asked
    <3> QED BY <2>2, <2>3, <3>1, <3>2, BuiltOfHonest
  <2>5. CASE Len(servers) = 2
    <3>1. Here = servers[2] /\ HonestImage(servers[2].image)
      BY <2>1, <2>5 DEF Here
    <3>2. servers[2].image.path[2] = Asked(top)
      BY <2>5 DEF RoutingInv, CallInv
    <3> QED BY <2>3, <3>1, <3>2, SentinelAssumption DEF HonestImage
  <2> QED BY <2>1, <2>4, <2>5
<1> QED BY <1>1, RoutingInvariant, PTL

\* No call is forwarded twice, if no sibling's name is a link: a child is of the
\* quarter that is asked of it, and has no default of its own.
THEOREM OneHopAlways == NoLinkedSiblings => (Spec => []OneHop)
<1> SUFFICES ASSUME NoLinkedSiblings
             PROVE  Spec => []OneHop
  OBVIOUS
<1>1. RoutingInv => OneHop
  <2> SUFFICES ASSUME RoutingInv
               PROVE  Len(servers) <= 2
    BY DEF OneHop
  <2>1. servers = <<>> \/ Len(servers) = 1 \/ Len(servers) = 2
    BY DEF RoutingInv, CallInv
  <2> DEFINE n == Len(servers)
  <2>2. n \in {0, 1, 2}
    BY <2>1
  <2> HIDE DEF n
  <2>3. n <= 2
    BY <2>2
  <2> QED BY <2>3 DEF n
<1> QED BY <1>1, RoutingInvariant, PTL

=============================================================================
