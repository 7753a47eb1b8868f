---------------------------- MODULE ConnManager ----------------------------
(***************************************************************************)
(* conn.Manager and the cluster it talks to: one lazy connection, one      *)
(* transaction per call, and a connection that is dropped on any error.    *)
(*                                                                         *)
(* The Manager is used by one goroutine.  What runs beside it is the       *)
(* cluster, which may answer any round trip with an error, drop a session  *)
(* at any time, and apply a COMMIT whose answer never arrives.             *)
(***************************************************************************)
EXTENDS SafetyGate, FiniteSets

CONSTANTS
  Sessions,   \* bound: sessions the cluster can hold at once
  NoSession,  \* Manager.conn = nil
  MaxRows,    \* bound: rows a statement yields
  Caps        \* bound: the row caps callers pass

ASSUME ConnAssumption ==
  IsFiniteSet(Sessions) /\ NoSession \notin Sessions /\ MaxRows \in Nat

ASSUME CapsAssumption == Caps \subseteq Nat

VARIABLES
  call,     \* the call running, or the last one
  pc,       \* the round trip the call is at, "idle" between calls
  conn,     \* Manager.conn
  open,     \* sessions open at the cluster
  txn,      \* the transaction on conn, as the cluster sees it
  rows,     \* the rows of the call's statement
  applied,  \* what the call changed for good, one entry per commit
  reply     \* what the call returned

connVars == <<call, pc, conn, open, txn, rows, applied, reply>>

Explains == {"explain", "explain_ddl", "explain_analyze"}
Ops      == Explains \cup {"execute", "ping", "stats", "dial"}
Steps    == {"begin", "set", "guard", "query", "rows", "commit", "parse"}
Effects  == {"row", "schema", "cluster"}
Access   == {"none", "ro", "rw"}

NoTxn  == [access |-> "none", safe |-> FALSE, effect |-> {}]
Changes(effect) == IF effect = {} THEN <<>> ELSE <<effect>>
NoRows == [all |-> 0, sent |-> 0, got |-> 0, cut |-> FALSE]

CallType == [op : Ops, mode : Modes, stmts : Seq(Stmts), max : Nat, limit : BOOLEAN]

\* The types, and that no step is taken on a nil connection.
ConnTypeOK ==
  /\ call \in CallType
  /\ pc \in {"idle", "connect"} \cup Steps
  /\ conn \in Sessions \cup {NoSession}
  /\ pc \in Steps => conn # NoSession
  /\ open \subseteq Sessions
  /\ txn \in [access : Access, safe : BOOLEAN, effect : SUBSET Effects]
  /\ rows \in [all : Nat, sent : Nat, got : Nat, cut : BOOLEAN]
  /\ applied \in Seq(SUBSET Effects)
  /\ reply \in {"none", "ok", "error"}

ConnInit ==
  /\ call = [op |-> "ping", mode |-> "read_only", stmts |-> <<>>,
             max |-> 0, limit |-> FALSE]
  /\ pc = "idle" /\ conn = NoSession /\ open = {} /\ txn = NoTxn
  /\ rows = NoRows /\ applied = <<>> /\ reply = "none"

InTxn == call.op \in Explains \cup {"execute"}   \* else at most one autocommit query
Runs  == call.op \in {"execute", "explain_analyze"}  \* the statement itself runs

\* Variant of TxAccess: one transaction shape for everything execute runs.
TxAccessRW == IF call.op \in {"explain", "explain_analyze"} THEN "ro" ELSE "rw"

\* txOptionsForMode, and the options of the runExplain family: ExplainDDL must
\* be read-write, or the cluster refuses the statement it explains.
TxAccess == IF \/ call.op \in {"explain", "explain_analyze"}
               \/ call.op = "execute" /\ call.mode = "read_only"
              THEN "ro" ELSE "rw"

-----------------------------------------------------------------------------
(* The cluster. *)

\* Statements the cluster does not refuse; it may still fail any of them.
Accepts ==
  IF InTxn THEN
    /\ Len(call.stmts) = 1          \* one command per prepared statement
    /\ call.op \in Explains => call.stmts[1].node # "explain"
    /\ Runs /\ txn.access = "ro" => call.stmts[1].effect = {}
    /\ Runs /\ txn.safe => ~call.stmts[1].blind
    /\ call.op = "explain_ddl" => txn.access = "rw"
  ELSE TRUE

Answered == conn \in open      \* the round trip can succeed

\* The cluster ends a session: a restart, a lost network, an idle timeout.
SessionDrops == /\ conn \in open
                /\ open' = open \ {conn}
                /\ txn' = NoTxn
                /\ UNCHANGED <<call, pc, conn, rows, applied, reply>>

-----------------------------------------------------------------------------
(* The Manager. *)

\* A method is called: connect is skipped when there is a connection, whatever
\* state it is in.
Invoke(c) ==
  /\ pc = "idle"
  /\ call' = c
  /\ pc' = IF conn = NoSession THEN "connect"
           ELSE IF c.op \in {"ping", "stats"} THEN "query" ELSE "begin"
  /\ rows' = NoRows /\ applied' = <<>> /\ reply' = "none"
  /\ UNCHANGED <<conn, open, txn>>

\* connect; Simulate calls it on its own, to fail before the first step.
Connect == /\ pc = "connect"
           /\ \E s \in Sessions \ open : conn' = s /\ open' = open \cup {s}
           /\ IF call.op = "dial" THEN pc' = "idle" /\ reply' = "ok"
              ELSE pc' = (IF InTxn THEN "begin" ELSE "query") /\ UNCHANGED reply
           /\ UNCHANGED <<call, txn, rows, applied>>

ConnectFails == /\ pc = "connect"
                /\ pc' = "idle" /\ reply' = "error"
                /\ UNCHANGED <<call, conn, open, txn, rows, applied>>

Begin == /\ pc = "begin" /\ Answered
         /\ txn' = [NoTxn EXCEPT !.access = TxAccess]
         /\ pc' = "set"
         /\ UNCHANGED <<call, conn, open, rows, applied, reply>>

\* SET LOCAL statement_timeout.
SetTimeout == /\ pc = "set" /\ Answered
              /\ pc' = IF call.op = "execute" /\ call.mode = "safe_write"
                         THEN "guard" ELSE "query"
              /\ UNCHANGED <<call, conn, open, txn, rows, applied, reply>>

\* SET LOCAL sql_safe_updates.
SetGuard == /\ pc = "guard" /\ Answered
            /\ txn' = [txn EXCEPT !.safe = TRUE]
            /\ pc' = "query"
            /\ UNCHANGED <<call, conn, open, rows, applied, reply>>

\* The statement of a transaction; its LIMIT, if one was added, bounds it.
Query == /\ pc = "query" /\ InTxn /\ Answered /\ Accepts
         /\ \E n \in 0..MaxRows :
              rows' = [NoRows EXCEPT !.all = n,
                         !.sent = IF call.limit /\ call.max < n THEN call.max ELSE n]
         /\ txn' = [txn EXCEPT !.effect = IF Runs THEN call.stmts[1].effect ELSE {}]
         /\ pc' = "rows"
         /\ UNCHANGED <<call, conn, open, applied, reply>>

\* Ping and GetTableStats: QueryRow and Scan outside a transaction.
QueryRow == /\ pc = "query" /\ ~InTxn /\ Answered
            /\ pc' = "idle" /\ reply' = "ok"
            /\ UNCHANGED <<call, conn, open, txn, rows, applied>>

\* Variant of ReadRows: the cap is checked after the row is appended.
ReadRowsLate ==
  /\ pc = "rows" /\ Answered
  /\ LET capped == call.op = "execute" /\ call.max > 0 /\ rows.sent >= call.max
     IN rows' = [rows EXCEPT !.cut = capped,
                             !.got = IF capped THEN call.max ELSE rows.sent]
  /\ pc' = "commit"
  /\ UNCHANGED <<call, conn, open, txn, applied, reply>>

\* The scan of the rows: execute stops at its cap with rows left, the shape of
\* a DDL plan is one row.
ReadRows == /\ pc = "rows" /\ Answered
            /\ call.op = "explain_ddl" => rows.sent = 1
            /\ LET capped == call.op = "execute" /\ call.max > 0 /\ rows.sent > call.max
               IN rows' = [rows EXCEPT !.cut = capped,
                                       !.got = IF capped THEN call.max ELSE rows.sent]
            /\ pc' = "commit"
            /\ UNCHANGED <<call, conn, open, txn, applied, reply>>

\* Variant of Abandon: the connection is forgotten, not closed.
AbandonNoClose == /\ txn' = NoTxn /\ conn' = NoSession
                  /\ pc' = "idle" /\ reply' = "error"
                  /\ UNCHANGED open

\* An error after connect: the deferred Rollback, Close, and conn = nil.
Abandon == /\ txn' = NoTxn
           /\ open' = open \ {conn}
           /\ conn' = NoSession
           /\ pc' = "idle" /\ reply' = "error"

\* COMMIT: execute is done, the EXPLAIN family still parses what it read.
Commit == /\ pc = "commit" /\ Answered
          /\ applied' = applied \o Changes(txn.effect)
          /\ txn' = NoTxn
          /\ IF call.op \in Explains
               THEN pc' = "parse" /\ UNCHANGED reply
               ELSE pc' = "idle" /\ reply' = "ok"
          /\ UNCHANGED <<call, conn, open, rows>>

\* Variant of CommitUnacked: the call starts over on a new connection.
CommitUnackedRetry == /\ pc = "commit" /\ Answered
                      /\ applied' = applied \o Changes(txn.effect)
                      /\ txn' = NoTxn /\ open' = open \ {conn} /\ conn' = NoSession
                      /\ pc' = "connect"
                      /\ UNCHANGED <<call, rows, reply>>

\* The cluster commits, its answer is lost.
CommitUnacked == /\ pc = "commit" /\ Answered
                 /\ applied' = applied \o Changes(txn.effect)
                 /\ Abandon
                 /\ UNCHANGED <<call, rows>>

ParseOk == /\ pc = "parse"
           /\ pc' = "idle" /\ reply' = "ok"
           /\ UNCHANGED <<call, conn, open, txn, rows, applied>>

\* Variant of StepFails: the call starts over on a new connection.
StepFailsRetry == /\ pc \in Steps
                  /\ txn' = NoTxn /\ open' = open \ {conn} /\ conn' = NoSession
                  /\ pc' = "connect"
                  /\ UNCHANGED <<call, rows, applied, reply>>

\* Any step fails: no answer, an error answered, or output that does not parse.
StepFails == /\ pc \in Steps
             /\ Abandon
             /\ UNCHANGED <<call, rows, applied>>

\* Close: nothing to do without a connection.
Close == /\ pc = "idle"
         /\ conn # NoSession
         /\ open' = open \ {conn} /\ txn' = NoTxn
         /\ conn' = NoSession
         /\ UNCHANGED <<call, pc, rows, applied, reply>>

Progress == \/ Connect \/ ConnectFails \/ Begin \/ SetTimeout \/ SetGuard
            \/ Query \/ QueryRow \/ ReadRows \/ Commit \/ CommitUnacked
            \/ ParseOk \/ StepFails

-----------------------------------------------------------------------------
(* Properties. *)

\* A failed call closes what it drops: the cluster holds no session that the
\* Manager has forgotten, however calls, drops and failures follow each other.
NoLeakedSession == open \subseteq {conn}

\* The connection a call leaves behind carries no transaction into the next
\* one: "an early return releases the txn".
NoTxnBetweenCalls == pc = "idle" => txn = NoTxn

\* Only execute, and only outside read_only, changes anything: even for a
\* statement whose writes the gate cannot see, and even if COMMIT's answer is
\* lost.
OnlyExecuteWrites ==
  applied # <<>> => call.op = "execute" /\ call.mode # "read_only"

\* sql_safe_updates is on before the statement runs: safe_write never commits
\* an UPDATE or DELETE without WHERE.
SafeWriteGuarded ==
  applied # <<>> /\ call.mode = "safe_write" => ~call.stmts[1].blind

\* Rows that execute left out are always reported, as Truncated or as the
\* LIMIT that was added, and a result that is complete is never called cut.
CutIsReported ==
  reply = "ok" /\ call.op = "execute" =>
    /\ rows.cut <=> rows.got < rows.sent
    /\ rows.got < rows.all => rows.cut \/ call.limit
=============================================================================
