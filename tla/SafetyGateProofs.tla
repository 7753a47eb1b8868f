-------------------------- MODULE SafetyGateProofs --------------------------
(***************************************************************************)
(* TLAPS proofs about the safety gate: what a batch that Check admits, or  *)
(* rejects with a kind, says of every statement in it, for batches of any  *)
(* length over any statements that satisfy ParserFacts.                    *)
(***************************************************************************)
EXTENDS SafetyGate, WellFoundedInduction, TLAPS

Below == {pair \in Nat \X Nat : pair[1] < pair[2]}

\* A set of indexes that is not empty has a least one: what the two CHOOSEs of
\* the gate rely on.
LEMMA LeastIndex ==
  ASSUME NEW S \in SUBSET Nat, S # {}
  PROVE  \E i \in S : \A j \in S : i <= j
<1>1. IsWellFoundedOn(Below, Nat)
  BY NatLessThanWellFounded DEF OpToRel, Below
<1>2. PICK i \in S : \A j \in S : <<j, i>> \notin Below
  BY <1>1, WFMin, Zenon
<1>3. \A j \in S : ~(j < i)
  BY <1>2 DEF Below
<1> QED BY <1>3

-----------------------------------------------------------------------------
\* Every check of a mode and an operation is one of the kinds.
LEMMA ForbiddenKinds ==
  ASSUME NEW mode \in Modes, NEW op \in Operations
  PROVE  Forbidden(mode, op) \subseteq KindSet
BY DEF Modes, Operations, Forbidden, KindSet, Kinds, ReadOnlyChecks, SafeWriteChecks

\* Classify names a check that the statement fails, and of the checks it fails
\* the most specific one.
LEMMA ClassifyNames ==
  ASSUME NEW mode \in Modes, NEW op \in Operations, NEW s, ~Permits(mode, op, s)
  PROVE  \E k \in 1..8 :
           /\ Classify(mode, op, s) = Kinds[k]
           /\ Kinds[k] \in Forbidden(mode, op) /\ Matches(Kinds[k], s)
           /\ \A j \in 1..(k - 1) :
                Kinds[j] \in Forbidden(mode, op) => ~Matches(Kinds[j], s)
<1> DEFINE hits == {i \in 1..Len(Kinds) :
                      Kinds[i] \in Forbidden(mode, op) /\ Matches(Kinds[i], s)}
<1>1. Len(Kinds) = 8
  BY DEF Kinds
<1>2. hits # {}
  <2>1. PICK kind \in Forbidden(mode, op) : Matches(kind, s)
    BY DEF Permits
  <2>2. PICK i \in 1..Len(Kinds) : Kinds[i] = kind
    BY <2>1, ForbiddenKinds DEF KindSet
  <2> QED BY <2>1, <2>2
<1>3. \E i \in hits : \A j \in hits : i <= j
  <2> HIDE DEF hits
  <2>1. hits \in SUBSET Nat
    BY <1>1 DEF hits
  <2> QED BY <2>1, <1>2, LeastIndex
<1> DEFINE k == CHOOSE i \in hits : \A j \in hits : i <= j
<1>4. k \in hits /\ \A j \in hits : k <= j
  BY <1>3
<1>5. Classify(mode, op, s) = Kinds[k]
  BY <1>2 DEF Classify
<1> HIDE DEF k
<1>6. \A j \in 1..(k - 1) : Kinds[j] \in Forbidden(mode, op) => ~Matches(Kinds[j], s)
  BY <1>1, <1>4
<1> QED BY <1>1, <1>4, <1>5, <1>6

\* What CheckParsed answers for a batch with an offending statement: the kind of
\* the first of them.
LEMMA FirstOffender ==
  ASSUME NEW mode \in Modes, NEW op \in Operations, NEW batch \in Seq(Stmts),
         \E i \in 1..Len(batch) : ~Permits(mode, op, batch[i])
  PROVE  \E i \in 1..Len(batch) :
           /\ ~Permits(mode, op, batch[i])
           /\ \A j \in 1..(i - 1) : Permits(mode, op, batch[j])
           /\ CheckParsed(mode, op, batch) = Classify(mode, op, batch[i])
<1> DEFINE bad == {i \in 1..Len(batch) : ~Permits(mode, op, batch[i])}
           b   == CHOOSE i \in bad : \A j \in bad : i <= j
<1>1. bad # {} /\ batch # <<>>
  OBVIOUS
<1>2. b \in bad /\ \A j \in bad : b <= j
  <2> HIDE DEF bad
  <2>1. bad \in SUBSET Nat
    BY DEF bad
  <2> QED BY <2>1, <1>1, LeastIndex
<1>3. CheckParsed(mode, op, batch) = Classify(mode, op, batch[b])
  BY <1>1 DEF CheckParsed
<1> HIDE DEF b
<1>4. \A j \in 1..(b - 1) : Permits(mode, op, batch[j])
  BY <1>2
<1> QED BY <1>2, <1>3, <1>4

\* A batch is admitted when it holds statements and every one of them is
\* permitted, and only then.
LEMMA AdmitsAll ==
  ASSUME NEW mode \in Modes, NEW op \in Operations, NEW batch \in Seq(Stmts)
  PROVE  Admits(mode, op, batch) <=>
           batch # <<>> /\ \A i \in 1..Len(batch) : Permits(mode, op, batch[i])
<1>1. CASE \E i \in 1..Len(batch) : ~Permits(mode, op, batch[i])
  <2>1. PICK i \in 1..Len(batch) :
          /\ ~Permits(mode, op, batch[i])
          /\ CheckParsed(mode, op, batch) = Classify(mode, op, batch[i])
    BY <1>1, FirstOffender
  <2>2. PICK k \in 1..8 : Classify(mode, op, batch[i]) = Kinds[k]
    BY <2>1, ClassifyNames
  <2>3. \A n \in 1..8 : Kinds[n] # "none"
    BY DEF Kinds
  <2> QED BY <1>1, <2>1, <2>2, <2>3 DEF Admits
<1>2. CASE \A i \in 1..Len(batch) : Permits(mode, op, batch[i])
  <2>1. CASE batch = <<>>
    BY <2>1 DEF Admits, CheckParsed
  <2>2. CASE batch # <<>>
    <3>1. {i \in 1..Len(batch) : ~Permits(mode, op, batch[i])} = {}
      BY <1>2
    <3> QED BY <1>2, <2>2, <3>1 DEF Admits, CheckParsed
  <2> QED BY <2>1, <2>2
<1> QED BY <1>1, <1>2

-----------------------------------------------------------------------------
\* Below full_access a statement that execute permits changes rows at most,
\* whatever wraps the change: what the gate promises the cluster.
LEMMA PermittedEffect ==
  ASSUME NEW mode \in {"read_only", "safe_write"}, NEW s \in Stmts,
         Permits(mode, "execute", s)
  PROVE  s.effect \subseteq {"row"}
<1>1. /\ s.effect \subseteq {"row", "schema", "cluster"}
      /\ "schema" \in s.effect => s.schema \/ s.node = "explain"
      /\ "cluster" \in s.effect => s.type = "DCL" \/ s.node \in {"tenant", "explain"}
  BY ParserFacts DEF Statement
<1>2. {"nested_explain", "cluster_admin", "privilege", "schema"} \subseteq
        Forbidden(mode, "execute")
  BY DEF Forbidden, ReadOnlyChecks, SafeWriteChecks
<1>3. /\ ~Matches("nested_explain", s) /\ ~Matches("cluster_admin", s)
      /\ ~Matches("privilege", s) /\ ~Matches("schema", s)
  BY <1>2 DEF Permits
<1>4. s.node # "explain" /\ s.node # "tenant" /\ s.type # "DCL" /\ ~s.schema
  BY <1>3 DEF Matches
<1> QED BY <1>1, <1>4

\* A stronger mode permits what a weaker one does, outside simulate.
LEMMA PermitsGrow ==
  ASSUME NEW mode \in Modes, NEW op \in {"explain", "execute"}, NEW stronger \in Modes,
         Strength(stronger) > Strength(mode), NEW s, Permits(mode, op, s)
  PROVE  Permits(stronger, op, s)
<1>1. \/ mode = "read_only" /\ stronger \in {"safe_write", "full_access"}
      \/ mode = "safe_write" /\ stronger = "full_access"
  BY DEF Modes, Strength
<1>2. Forbidden(stronger, op) \subseteq Forbidden(mode, op)
  BY <1>1 DEF Forbidden, ReadOnlyChecks, SafeWriteChecks
<1> QED BY <1>2 DEF Permits
=============================================================================
