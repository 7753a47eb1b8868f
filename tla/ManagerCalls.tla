---------------------------- MODULE ManagerCalls ----------------------------
(***************************************************************************)
(* A Manager under any sequence of calls, and the promise its callers      *)
(* build on: a call takes effect at once, wholly or not at all.            *)
(***************************************************************************)
EXTENDS ConnManager

\* The callers of Execute add a LIMIT first, where the gate's package says so.
Calls == {[op |-> o, mode |-> m, stmts |-> <<s>>, max |-> k,
           limit |-> o = "execute" /\ Injects(m, k, <<s>>)] :
            o \in Ops \ {"dial"}, m \in Modes, s \in Stmts, k \in Caps}

ManagerNext == \/ \E c \in Calls : Invoke(c)
               \/ Progress \/ Close \/ SessionDrops
ManagerSpec == ConnInit /\ [][ManagerNext]_connVars

Atomic == INSTANCE AtomicCall WITH
  running <- pc # "idle",
  effect  <- IF call.op = "execute" /\ call.stmts # <<>> THEN call.stmts[1].effect ELSE {},
  done    <- applied,
  answer  <- reply

\* The Manager implements the abstract call: no partial effect, no second
\* commit, and "ok" only after the whole effect.
CallIsAtomic == Atomic!Spec
=============================================================================
