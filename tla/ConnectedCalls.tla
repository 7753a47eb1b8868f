--------------------------- MODULE ConnectedCalls ---------------------------
(***************************************************************************)
(* The three calls that reach a cluster, explain, simulate and execute, as *)
(* the MCP handlers and the CLI commands run them: the safety gate, a      *)
(* Manager of their own, one or more of its methods, the deferred Close,   *)
(* and the envelope.                                                       *)
(***************************************************************************)
EXTENDS ConnManager

CONSTANTS
  MaxBatch,    \* bound: statements in a request
  MaxTargets   \* bound: tables a DDL statement names

ASSUME CallsAssumption == MaxBatch \in Nat /\ MaxTargets \in Nat

VARIABLES
  req,      \* the request: [surface, mode, batch, max]
  stage,    \* where the handler is
  results,  \* simulate's steps, or the one result of the others
  left,     \* stats lookups the current step still has
  env       \* the envelope: [status, failure, limited]

vars == <<connVars, req, stage, results, left, env>>
callVars == <<req, stage, results, left, env>>

Batches  == UNION {[1..n -> Stmts] : n \in 0..MaxBatch}
Requests == [surface : Operations, mode : Modes, batch : Batches, max : Caps]
NewEnv   == [status |-> "disconnected", failure |-> "none", limited |-> FALSE]
Strategies == Explains \cup {"execute", "none"}

TypeOK ==
  /\ ConnTypeOK
  /\ req \in Requests
  /\ stage \in {"gate", "open", "dialling", "ready", "running", "stats",
                "lookup", "done"}
  /\ results \in Seq([stmt : Stmts, strategy : Strategies, ok : BOOLEAN, stats : BOOLEAN])
  /\ left \in 0..MaxTargets
  /\ env \in [status : {"disconnected", "connected"}, limited : BOOLEAN,
              failure : {"none", "rejected", "input", "cluster", "steps"}]

Init == /\ ConnInit
        /\ req \in Requests
        /\ stage = "gate" /\ results = <<>> /\ left = 0 /\ env = NewEnv

Current == req.batch[Len(results) + 1]
Method(op, stmts) == [op |-> op, mode |-> req.mode, stmts |-> stmts, max |-> req.max,
                      limit |-> op = "execute" /\ Injects(req.mode, req.max, req.batch)]
Result(ok) == [stmt |-> Current, strategy |-> call.op, ok |-> ok, stats |-> TRUE]

\* ExplainAny: what it explains with, "none" where it has no route.
ExplainRoute(s) == CASE s.type = "DDL" -> "explain_ddl"
                     [] s.type = "DML" -> "explain"
                     [] OTHER          -> "none"

\* dispatchSimulateStep: ANALYZE runs the statement, so writes do without it.
SimulateRoute(s) == CASE s.type = "DDL"               -> "explain_ddl"
                      [] s.type = "DML" /\ s.writes   -> "explain"
                      [] s.type = "DML" /\ ~s.writes  -> "explain_analyze"
                      [] OTHER                        -> "none"

-----------------------------------------------------------------------------
\* The deferred Close and the answer.
Answer(status, failure, limited) ==
  /\ env' = [status |-> status, failure |-> failure, limited |-> limited]
  /\ stage' = "done"

\* Variant of CloseConn: no deferred Close.
CloseConnSkipped == UNCHANGED connVars

CloseConn == /\ conn' = NoSession /\ open' = open \ {conn} /\ txn' = NoTxn
             /\ UNCHANGED <<call, pc, rows, applied, reply>>

\* safety.Check, before there is a Manager.
GateRejects == /\ stage = "gate"
               /\ ~Admits(req.mode, req.surface, req.batch)
               /\ Answer("disconnected", "rejected", FALSE)
               /\ UNCHANGED <<connVars, req, results, left>>

\* Variant of GateAdmits: the gate sees the first statement only.
GateAdmitsFirst ==
  /\ stage = "gate"
  /\ req.batch # <<>> /\ Admits(req.mode, req.surface, SubSeq(req.batch, 1, 1))
  /\ stage' = "open"
  /\ UNCHANGED <<connVars, req, results, left, env>>

GateAdmits == /\ stage = "gate"
              /\ Admits(req.mode, req.surface, req.batch)
              /\ stage' = "open"
              /\ UNCHANGED <<connVars, req, results, left, env>>

\* Execute sends the whole input as one command.
StartExecute == /\ stage = "open" /\ req.surface = "execute"
                /\ Invoke(Method("execute", req.batch))
                /\ stage' = "running"
                /\ UNCHANGED <<req, results, left, env>>

\* ExplainAny takes one statement that has a route.
StartExplain == /\ stage = "open" /\ req.surface = "explain"
                /\ Len(req.batch) = 1 /\ ExplainRoute(Current) # "none"
                /\ Invoke(Method(ExplainRoute(Current), req.batch))
                /\ stage' = "running"
                /\ UNCHANGED <<req, results, left, env>>

ExplainRefuses == /\ stage = "open" /\ req.surface = "explain"
                  /\ Len(req.batch) > 1 \/ ExplainRoute(Current) = "none"
                  /\ Answer("disconnected", "input", FALSE)
                  /\ CloseConn
                  /\ UNCHANGED <<req, results, left>>

\* Simulate fails fast on connect.
StartSimulate == /\ stage = "open" /\ req.surface = "simulate"
                 /\ Invoke(Method("dial", <<>>))
                 /\ stage' = "dialling"
                 /\ UNCHANGED <<req, results, left, env>>

Dialled == /\ stage = "dialling" /\ pc = "idle" /\ reply = "ok"
           /\ stage' = "ready"
           /\ UNCHANGED <<connVars, req, results, left, env>>

\* A method-level error, of the connect or of the single call.
MethodFails == /\ pc = "idle" /\ reply = "error"
               /\ \/ stage = "dialling"
                  \/ stage = "running" /\ req.surface # "simulate"
               /\ Answer("disconnected", "cluster", FALSE)
               /\ CloseConn
               /\ UNCHANGED <<req, results, left>>

MethodOk == /\ stage = "running" /\ req.surface # "simulate"
            /\ pc = "idle" /\ reply = "ok"
            /\ results' = <<Result(TRUE)>>
            /\ Answer("connected", "none", call.limit)
            /\ CloseConn
            /\ UNCHANGED <<req, left>>

\* The next statement of a simulation; the loop never stops early.
StepStarts == /\ stage = "ready" /\ Len(results) < Len(req.batch)
              /\ SimulateRoute(Current) # "none"
              /\ Invoke(Method(SimulateRoute(Current), <<Current>>))
              /\ stage' = "running"
              /\ UNCHANGED <<req, results, left, env>>

StepEnds == /\ stage = "running" /\ req.surface = "simulate" /\ pc = "idle"
            /\ results' = Append(results, Result(reply = "ok"))
            /\ IF reply = "ok" /\ call.op = "explain_ddl"
                 THEN left' \in 0..MaxTargets /\ stage' = "stats"
                 ELSE stage' = "ready" /\ UNCHANGED left
            /\ UNCHANGED <<connVars, req, env>>

\* Variant of LookupEnds: the last table's lookup decides.
LookupEndsLast ==
  /\ stage = "lookup" /\ pc = "idle"
  /\ results' = [results EXCEPT ![Len(results)].stats = (reply = "ok")]
  /\ stage' = "stats"
  /\ UNCHANGED <<connVars, req, left, env>>

\* collectDDLTableStats: one lookup per table, a failure is noted and the rest
\* go on.
LookupStarts == /\ stage = "stats" /\ left > 0
                /\ Invoke(Method("stats", <<>>))
                /\ stage' = "lookup" /\ left' = left - 1
                /\ UNCHANGED <<req, results, env>>

LookupEnds == /\ stage = "lookup" /\ pc = "idle"
              /\ results' = [results EXCEPT ![Len(results)].stats = @ /\ reply = "ok"]
              /\ stage' = "stats"
              /\ UNCHANGED <<connVars, req, left, env>>

StatsDone == /\ stage = "stats" /\ left = 0
             /\ stage' = "ready"
             /\ UNCHANGED <<connVars, req, results, left, env>>

\* StepFailureSummary promotes failed steps and failed lookups.
SimulateAnswers ==
  /\ stage = "ready" /\ Len(results) = Len(req.batch)
  /\ LET bad == \E i \in 1..Len(results) : ~results[i].ok \/ ~results[i].stats
     IN Answer("connected", IF bad THEN "steps" ELSE "none", FALSE)
  /\ CloseConn
  /\ UNCHANGED <<req, results, left>>

Cluster == /\ Progress /\ UNCHANGED callVars
Drop    == SessionDrops /\ UNCHANGED callVars
Handler == \/ GateRejects \/ GateAdmits
           \/ StartExecute \/ StartExplain \/ ExplainRefuses \/ StartSimulate
           \/ Dialled \/ MethodFails \/ MethodOk
           \/ StepStarts \/ StepEnds \/ LookupStarts \/ LookupEnds \/ StatsDone
           \/ SimulateAnswers

Next == Handler \/ Cluster \/ Drop
Spec == Init /\ [][Next]_vars

\* The handler's goroutine runs, and every round trip ends (see ManagerCalls).
FairSpec == Spec /\ WF_vars(Handler) /\ WF_vars(Cluster)

-----------------------------------------------------------------------------
(* Properties. *)

\* "Safety check runs before any cluster contact": there is a session only for
\* a request that every statement of which the gate admits.
ContactOnlyAdmitted ==
  open # {} => \A i \in 1..Len(req.batch) :
                 Permits(req.mode, req.surface, req.batch[i])

\* The mode is a contract on what happens at the cluster, kept by gate and
\* transaction together: explain, simulate and read_only change nothing,
\* safe_write changes rows, and never all of a table's.
ModeIsContract ==
  applied # <<>> =>
    /\ req.surface = "execute" /\ req.mode # "read_only"
    /\ req.mode = "safe_write" => applied = <<{"row"}>> /\ ~call.stmts[1].blind

\* No request leaves a session behind, whichever way it ended.
AnswerLeavesNoSession == stage = "done" => open = {} /\ txn = NoTxn

\* No failure of a step or of one of its lookups is lost: whatever the later
\* ones answer, the envelope of the simulation carries it.
FailureIsSticky ==
  [][\A i \in 1..Len(results) :
       ~results[i].stats \/ ~results[i].ok =>
         /\ ~results'[i].stats \/ ~results'[i].ok
         /\ stage' = "done" => env'.failure = "steps"]_vars

\* Every request is answered, whatever fails and however often.
EveryRequestAnswered == <>(stage = "done")
=============================================================================
