--------------------------- MODULE EscalationLoop ---------------------------
(***************************************************************************)
(* An agent that follows the safety gate: it submits a batch, and when the *)
(* gate rejects it with a suggested mode, submits it again in that mode.   *)
(***************************************************************************)
EXTENDS SafetyGate

CONSTANT MaxBatch   \* bound: statements in a batch

ASSUME LoopAssumption == MaxBatch \in Nat

VARIABLES
  call,     \* [mode, op, batch] as submitted
  first,    \* the mode of the first attempt
  verdict   \* "new", "pending", or what CheckParsed answered

vars == <<call, first, verdict>>

Batches == UNION {[1..n -> Stmts] : n \in 0..MaxBatch}
Calls   == [mode : Modes, op : Operations, batch : Batches]

TypeOK ==
  /\ call \in Calls
  /\ first \in Modes
  /\ verdict \in {"new", "pending", "none"} \cup KindSet

\* An agent may ask for anything in any mode.
Init == /\ call \in Calls
        /\ first = call.mode
        /\ verdict = "new"

Submit == /\ verdict = "new"
          /\ verdict' = "pending"
          /\ UNCHANGED <<call, first>>

\* Check and the envelope it is rendered into.
Check == /\ verdict = "pending"
         /\ verdict' = CheckParsed(call.mode, call.op, call.batch)
         /\ UNCHANGED <<call, first>>

Suggested == IF verdict \in KindSet
               THEN EscalationTarget(call.mode, call.op, verdict) ELSE "none"

Retry == /\ Suggested # "none"
         /\ call' = [call EXCEPT !.mode = Suggested]
         /\ verdict' = "pending"
         /\ UNCHANGED first

Next == Submit \/ Check \/ Retry
Spec == Init /\ [][Next]_vars

-----------------------------------------------------------------------------
Retried == first # call.mode
Stronger(m1, m2) == Strength(m1) > Strength(m2)

\* A retry gets past the statement that was rejected, whatever follows it.
RetryGetsFurther ==
  Retried => \A i \in 1..Len(call.batch) :
    /\ ~Permits(first, call.op, call.batch[i])
    /\ \A j \in 1..(i - 1) : Permits(first, call.op, call.batch[j])
    => Permits(call.mode, call.op, call.batch[i])

\* suggestionsFor: "pick the smallest mode bump that would admit the call".
SmallestMode ==
  Retried => \A m \in Modes : Stronger(m, first) /\ Stronger(call.mode, m) =>
               ~Admits(m, call.op, call.batch)

\* Asking for more never gets less: a stronger mode admits what a weaker one
\* does, batch by batch (Simulate is wired for read_only only).
StrongerAdmits ==
  verdict = "none" /\ call.op # "simulate" =>
    \A m \in Modes : Stronger(m, call.mode) => Admits(m, call.op, call.batch)

\* Only full_access executes what changes a schema or the cluster's state,
\* wherever it stands in the batch and whatever wraps it.
GateStopsSchema ==
  verdict = "none" /\ call.op = "execute" /\ call.mode # "full_access" =>
    \A i \in 1..Len(call.batch) : call.batch[i].effect \subseteq {"row"}
=============================================================================
