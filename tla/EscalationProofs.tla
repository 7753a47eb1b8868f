-------------------------- MODULE EscalationProofs --------------------------
(***************************************************************************)
(* TLAPS proofs about EscalationLoop: what a caller that follows the       *)
(* gate's suggestions may rely on, for batches of any statements and any   *)
(* bound on their length.                                                  *)
(***************************************************************************)
EXTENDS EscalationLoop, SafetyGateProofs

\* Why the caller is in the mode it is in: what sent it there.
Origin ==
  Retried =>
    /\ call.op \in {"explain", "execute"}
    /\ \/ /\ first = "read_only" /\ call.mode = "safe_write"
          /\ \/ CheckParsed(first, call.op, call.batch) = "write"
             \/ /\ CheckParsed(first, call.op, call.batch) = "schema"
                /\ call.op = "explain"
       \/ /\ first \in {"read_only", "safe_write"} /\ call.mode = "full_access"
          /\ ~Admits(first, call.op, call.batch)
          /\ first = "read_only" => ~Admits("safe_write", call.op, call.batch)

LoopInv ==
  /\ call.mode \in Modes /\ call.op \in Operations /\ call.batch \in Seq(Stmts)
  /\ first \in Modes
  /\ verdict \in KindSet => verdict = CheckParsed(call.mode, call.op, call.batch)
  /\ verdict = "none" => Admits(call.mode, call.op, call.batch)
  /\ Origin

-----------------------------------------------------------------------------
\* The kind of a rejection says what the first offending statement of the batch
\* is, and what it is not.
LEMMA Rejected ==
  ASSUME NEW mode \in Modes, NEW op \in Operations, NEW batch \in Seq(Stmts),
         CheckParsed(mode, op, batch) \in KindSet, batch # <<>>
  PROVE  \E i \in 1..Len(batch), k \in 1..8 :
           /\ \A j \in 1..(i - 1) : Permits(mode, op, batch[j])
           /\ ~Permits(mode, op, batch[i])
           /\ CheckParsed(mode, op, batch) = Kinds[k]
           /\ Kinds[k] \in Forbidden(mode, op) /\ Matches(Kinds[k], batch[i])
           /\ \A m \in 1..(k - 1) :
                Kinds[m] \in Forbidden(mode, op) => ~Matches(Kinds[m], batch[i])
<1>1. \E i \in 1..Len(batch) : ~Permits(mode, op, batch[i])
  <2>1. \A n \in 1..8 : Kinds[n] # "none"
    BY DEF Kinds
  <2>2. ~Admits(mode, op, batch)
    BY <2>1 DEF Admits, KindSet, Kinds
  <2> QED BY <2>2, AdmitsAll
<1>2. PICK i \in 1..Len(batch) :
        /\ ~Permits(mode, op, batch[i])
        /\ \A j \in 1..(i - 1) : Permits(mode, op, batch[j])
        /\ CheckParsed(mode, op, batch) = Classify(mode, op, batch[i])
  BY <1>1, FirstOffender
<1>3. PICK k \in 1..8 :
        /\ Classify(mode, op, batch[i]) = Kinds[k]
        /\ Kinds[k] \in Forbidden(mode, op) /\ Matches(Kinds[k], batch[i])
        /\ \A m \in 1..(k - 1) :
             Kinds[m] \in Forbidden(mode, op) => ~Matches(Kinds[m], batch[i])
  BY <1>2, ClassifyNames
<1> QED BY <1>2, <1>3

\* safe_write admits the first statement that read_only rejects for a write, or,
\* for explain, for a schema change.
LEMMA SafeWriteSuffices ==
  ASSUME NEW op \in {"explain", "execute"}, NEW batch \in Seq(Stmts), batch # <<>>,
         \/ CheckParsed("read_only", op, batch) = "write"
         \/ CheckParsed("read_only", op, batch) = "schema" /\ op = "explain",
         NEW n \in 1..Len(batch), ~Permits("read_only", op, batch[n]),
         \A j \in 1..(n - 1) : Permits("read_only", op, batch[j])
  PROVE  Permits("safe_write", op, batch[n])
<1>1. PICK i \in 1..Len(batch), k \in 1..8 :
        /\ \A j \in 1..(i - 1) : Permits("read_only", op, batch[j])
        /\ ~Permits("read_only", op, batch[i])
        /\ CheckParsed("read_only", op, batch) = Kinds[k]
        /\ \A m \in 1..(k - 1) :
             Kinds[m] \in Forbidden("read_only", op) => ~Matches(Kinds[m], batch[i])
  <2>1. "write" \in KindSet /\ "schema" \in KindSet
    BY DEF KindSet, Kinds
  <2>2. "read_only" \in Modes /\ op \in Operations
    BY DEF Modes, Operations
  <2> QED BY <2>1, <2>2, Rejected
<1>2. i = n
  BY <1>1
<1>3. Kinds[3] = "nested_explain" /\ Kinds[4] = "cluster_admin" /\ Kinds[5] = "privilege"
        /\ Kinds[6] = "schema" /\ Kinds[7] = "write"
  BY DEF Kinds
<1>4. k = 7 \/ (k = 6 /\ op = "explain")
  BY <1>1 DEF Kinds
<1>5. Forbidden("read_only", op) = ReadOnlyChecks
  BY DEF Forbidden
<1>6. /\ ~Matches("nested_explain", batch[n]) /\ ~Matches("cluster_admin", batch[n])
      /\ ~Matches("privilege", batch[n])
      /\ op = "execute" => ~Matches("schema", batch[n])
  <2>1. 3 \in 1..(k - 1) /\ 4 \in 1..(k - 1) /\ 5 \in 1..(k - 1)
        /\ (op = "execute" => 6 \in 1..(k - 1))
    BY <1>4
  <2> QED BY <1>1, <1>2, <1>3, <1>5, <2>1 DEF ReadOnlyChecks
<1>7. Forbidden("safe_write", op) \subseteq
        {"nested_explain", "cluster_admin", "privilege"} \cup
        (IF op = "execute" THEN {"schema"} ELSE {})
  BY DEF Forbidden, SafeWriteChecks
<1> QED BY <1>6, <1>7 DEF Permits

\* Where the suggestion skips safe_write, safe_write would have rejected the batch.
LEMMA SafeWriteFails ==
  ASSUME NEW op \in {"explain", "execute"}, NEW batch \in Seq(Stmts), batch # <<>>,
         \/ CheckParsed("read_only", op, batch) \in {"privilege", "cluster_admin"}
         \/ CheckParsed("read_only", op, batch) = "schema" /\ op = "execute"
  PROVE  ~Admits("safe_write", op, batch)
<1>1. PICK i \in 1..Len(batch), k \in 1..8 :
        /\ CheckParsed("read_only", op, batch) = Kinds[k]
        /\ Matches(Kinds[k], batch[i])
  <2>1. {"privilege", "cluster_admin", "schema"} \subseteq KindSet
    BY DEF KindSet, Kinds
  <2>2. "read_only" \in Modes /\ op \in Operations
    BY DEF Modes, Operations
  <2> QED BY <2>1, <2>2, Rejected
<1>2. Kinds[k] \in Forbidden("safe_write", op)
  BY <1>1 DEF Forbidden, SafeWriteChecks
<1>3. ~Permits("safe_write", op, batch[i])
  BY <1>1, <1>2 DEF Permits
<1> QED BY <1>3, AdmitsAll DEF Modes, Operations

-----------------------------------------------------------------------------
\* The caller is only ever sent to a mode for the reasons Origin lists.
THEOREM LoopInvariant == Spec => []LoopInv
<1>1. Init => LoopInv
  <2> SUFFICES ASSUME Init PROVE LoopInv
    OBVIOUS
  <2>1. call.mode \in Modes /\ call.op \in Operations /\ call.batch \in Seq(Stmts)
    BY LoopAssumption DEF Init, Calls, Batches
  <2>2. "new" \notin KindSet
    BY DEF KindSet, Kinds
  <2> QED BY <2>1, <2>2 DEF Init, LoopInv, Origin, Retried
<1>2. LoopInv /\ [Next]_vars => LoopInv'
  <2> SUFFICES ASSUME LoopInv, [Next]_vars PROVE LoopInv'
    OBVIOUS
  <2> USE DEF LoopInv
  <2>1. CASE Submit
    <3>1. "pending" \notin KindSet
      BY DEF KindSet, Kinds
    <3> QED BY <2>1, <3>1 DEF Submit, Origin, Retried
  <2>2. CASE Check
    BY <2>2 DEF Check, Origin, Retried, Admits
  <2>3. CASE Retry
    <3>1. "pending" \notin KindSet
      BY DEF KindSet, Kinds
    <3>2. /\ verdict \in KindSet /\ call.op # "simulate" /\ verdict \in Escalates
          /\ call'.mode = EscalationTarget(call.mode, call.op, verdict)
          /\ call'.op = call.op /\ call'.batch = call.batch /\ UNCHANGED first
          /\ verdict' = "pending" /\ call'.mode # "none"
      BY <2>3 DEF Retry, Suggested, EscalationTarget
    <3>3. call.op \in {"explain", "execute"}
      BY <3>2 DEF Operations
    <3>4. call.batch # <<>>
      BY <3>2 DEF CheckParsed, Escalates
    <3>5. ~Admits(call.mode, call.op, call.batch)
      BY <3>2 DEF Admits, Escalates
    <3>6. CASE call'.mode = "safe_write"
      <4>1. /\ call.mode = "read_only"
            /\ verdict = "write" \/ (verdict = "schema" /\ call.op = "explain")
        BY <3>2, <3>3, <3>6 DEF EscalationTarget
      <4>2. first = "read_only"
        BY <4>1 DEF Origin, Retried
      <4> QED BY <3>1, <3>2, <3>3, <3>6, <4>1, <4>2 DEF Origin, Retried, Modes
    <3>7. CASE call'.mode # "safe_write"
      <4>1. call'.mode = "full_access"
        BY <3>2, <3>7 DEF EscalationTarget
      <4>2. CASE call.mode = "read_only"
        <5>1. first = "read_only"
          BY <4>2 DEF Origin, Retried
        <5>2. \/ verdict \in {"privilege", "cluster_admin"}
              \/ verdict = "schema" /\ call.op = "execute"
          BY <3>2, <3>7, <4>2 DEF EscalationTarget
        <5>3. ~Admits("safe_write", call.op, call.batch)
          BY <3>2, <3>3, <3>4, <4>2, <5>2, SafeWriteFails
        <5> QED BY <3>1, <3>2, <3>3, <3>5, <4>1, <4>2, <5>1, <5>3 DEF Origin, Retried, Modes
      <4>3. CASE call.mode = "safe_write"
        <5>1. first \in {"read_only", "safe_write"}
          BY <4>3 DEF Origin, Retried, Modes
        <5>2. ~Admits(first, call.op, call.batch)
          <6>1. CASE first = "safe_write"
            BY <6>1, <3>5, <4>3
          <6>2. CASE first = "read_only"
            BY <6>2, <4>3 DEF Origin, Retried, Admits
          <6> QED BY <5>1, <6>1, <6>2
        <5> QED BY <3>1, <3>2, <3>3, <3>5, <4>1, <4>3, <5>1, <5>2 DEF Origin, Retried, Modes
      <4>4. call.mode # "full_access"
        BY <3>2, <3>3, <3>7, <4>1 DEF EscalationTarget
      <4> QED BY <4>2, <4>3, <4>4 DEF Modes
    <3> QED BY <3>6, <3>7
  <2>4. CASE UNCHANGED vars
    BY <2>4 DEF vars, Origin, Retried
  <2> QED BY <2>1, <2>2, <2>3, <2>4 DEF Next
<1> QED BY <1>1, <1>2, PTL DEF Spec

\* A retry gets past the statement it was rejected for.
THEOREM RetriesGetFurther == Spec => []RetryGetsFurther
<1>1. LoopInv => RetryGetsFurther
  <2> SUFFICES ASSUME LoopInv, Retried, NEW n \in 1..Len(call.batch),
                      ~Permits(first, call.op, call.batch[n]),
                      \A j \in 1..(n - 1) : Permits(first, call.op, call.batch[j])
               PROVE  Permits(call.mode, call.op, call.batch[n])
    BY DEF RetryGetsFurther
  <2>1. CASE call.mode = "full_access"
    <3>1. Forbidden("full_access", call.op) = {}
      BY DEF LoopInv, Origin, Forbidden
    <3> QED BY <2>1, <3>1 DEF Permits
  <2>2. CASE call.mode # "full_access"
    <3>1. call.batch # <<>>
      BY DEF LoopInv
    <3> QED BY <2>2, <3>1, SafeWriteSuffices DEF LoopInv, Origin
  <2> QED BY <2>1, <2>2
<1> QED BY <1>1, LoopInvariant, PTL

\* No mode between the first and the suggested one would have done.
THEOREM SuggestionIsSmallest == Spec => []SmallestMode
<1>1. LoopInv => SmallestMode
  BY DEF LoopInv, Origin, SmallestMode, Stronger, Strength, Modes
<1> QED BY <1>1, LoopInvariant, PTL

\* Asking for a stronger mode never turns an admitted batch away.
THEOREM StrongerModesAdmit == Spec => []StrongerAdmits
<1>1. LoopInv => StrongerAdmits
  <2> SUFFICES ASSUME LoopInv, verdict = "none", call.op # "simulate", NEW m \in Modes,
                      Strength(m) > Strength(call.mode)
               PROVE  Admits(m, call.op, call.batch)
    BY DEF StrongerAdmits, Stronger
  <2>1. /\ call.batch # <<>>
        /\ \A i \in 1..Len(call.batch) : Permits(call.mode, call.op, call.batch[i])
    BY AdmitsAll DEF LoopInv
  <2>2. \A i \in 1..Len(call.batch) : Permits(m, call.op, call.batch[i])
    BY <2>1, PermitsGrow DEF LoopInv, Operations
  <2> QED BY <2>1, <2>2, AdmitsAll DEF LoopInv
<1> QED BY <1>1, LoopInvariant, PTL

\* What execute admits below full_access changes rows only.
THEOREM SchemaIsSafe == Spec => []GateStopsSchema
<1>1. LoopInv => GateStopsSchema
  <2> SUFFICES ASSUME LoopInv, verdict = "none", call.op = "execute",
                      call.mode # "full_access", NEW i \in 1..Len(call.batch)
               PROVE  call.batch[i].effect \subseteq {"row"}
    BY DEF GateStopsSchema
  <2>1. Permits(call.mode, "execute", call.batch[i]) /\ call.batch[i] \in Stmts
    BY AdmitsAll DEF LoopInv
  <2> QED BY <2>1, PermittedEffect DEF LoopInv, Modes
<1> QED BY <1>1, LoopInvariant, PTL
=============================================================================
