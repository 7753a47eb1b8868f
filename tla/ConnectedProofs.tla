-------------------------- MODULE ConnectedProofs --------------------------
(***************************************************************************)
(* TLAPS proofs about conn.Manager and about the calls made of it.  First  *)
(* what every step of a method keeps, for every set of statements and      *)
(* sessions and every row count; then a Manager under any sequence of      *)
(* calls (ManagerCalls): its safety properties, and that it implements     *)
(* AtomicCall; then gate, Manager and envelope together (ConnectedCalls),  *)
(* which also rests on what an admitted batch is (SafetyGateProofs).       *)
(***************************************************************************)
EXTENDS ConnectedCalls, ManagerCalls, SafetyGateProofs

\* A call that changes something: only execute, only as its mode allows.
MayChange == /\ call.op = "execute" /\ call.mode # "read_only"
             /\ call.stmts # <<>>
             /\ call.mode = "safe_write" => ~call.stmts[1].blind

\* Where the connection is, and that a transaction ends with its call.
SessionInv ==
  /\ NoLeakedSession
  /\ pc = "connect" => conn = NoSession
  /\ pc \in {"idle", "connect", "begin", "parse"} => txn = NoTxn
  /\ pc \in Steps \cup {"connect"} /\ ~InTxn => pc \in {"connect", "query"} /\ txn = NoTxn
  /\ pc \in Steps => call.op # "dial"
  /\ pc = "parse" => call.op \in Explains

\* The transaction on a live session has the shape its call asked for, and
\* holds no change that shape rules out.
TxnInv ==
  /\ conn \in open /\ InTxn /\ pc \in {"set", "guard", "query", "rows", "commit"} =>
       txn.access = TxAccess
  /\ conn \in open /\ pc \in {"query", "rows", "commit"} =>
       (call.op = "execute" /\ call.mode = "safe_write" => txn.safe)
  /\ pc \in {"set", "guard", "query"} => txn.effect = {}
  /\ txn.effect # {} => MayChange /\ txn.effect = call.stmts[1].effect
  /\ pc \in {"rows", "commit"} /\ conn \in open /\ call.op = "execute" =>
       call.stmts # <<>> /\ txn.effect = call.stmts[1].effect

\* What a call has changed for good, and what it answers.
AppliedInv ==
  /\ pc # "idle" => applied = <<>> /\ reply = "none"
  /\ applied # <<>> => /\ MayChange /\ applied = <<call.stmts[1].effect>>
                       /\ call.stmts[1].effect # {}
  /\ reply = "ok" /\ call.op = "execute" =>
       call.stmts # <<>> /\ applied = Changes(call.stmts[1].effect)

\* The rows read so far.
RowsInv ==
  /\ rows.sent <= rows.all
  /\ rows.sent < rows.all => call.limit
  /\ pc = "commit" \/ (pc = "idle" /\ reply = "ok" /\ call.op = "execute") =>
       rows.got <= rows.sent /\ (rows.cut <=> rows.got < rows.sent)

CallInv == ConnTypeOK /\ SessionInv /\ TxnInv /\ AppliedInv /\ RowsInv

-----------------------------------------------------------------------------
\* The Manager starts without a connection and without a call.
LEMMA CallInvInit == ConnInit => CallInv
BY ConnAssumption DEF ConnInit, CallInv, ConnTypeOK, CallType, SessionInv, TxnInv,
   AppliedInv, RowsInv, NoLeakedSession, NoTxn, NoRows, Ops, Explains, Modes,
   Steps, Access, Effects, InTxn, Changes

\* A statement's effect is a set of effects (ParserFacts).
LEMMA StmtType == \A s \in Stmts : s.effect \in SUBSET Effects /\ s.blind \in BOOLEAN
BY ParserFacts DEF Statement, Effects

\* A method called between two calls starts from a clean connection; connect on
\* its own is only called without one.
LEMMA InvokeKeeps ==
  ASSUME CallInv, NEW c \in CallType, c.op = "dial" => conn = NoSession, Invoke(c)
  PROVE  CallInv'
<1> USE DEF Invoke, CallInv, SessionInv, TxnInv, AppliedInv, RowsInv, ConnTypeOK,
        Steps, NoTxn
<1>1. ConnTypeOK'
  BY DEF CallType, NoRows
<1>2. SessionInv'
  BY DEF NoLeakedSession, InTxn, Explains, CallType, Ops
<1>3. TxnInv'
  BY DEF InTxn, Explains
<1>4. AppliedInv'
  OBVIOUS
<1>5. RowsInv'
  BY DEF NoRows
<1> QED BY <1>1, <1>2, <1>3, <1>4, <1>5

\* Every answer and every failure of the cluster, the end of a session and
\* Close keep the invariant.
LEMMA CallInvStep ==
  ASSUME CallInv, Progress \/ Close \/ SessionDrops
  PROVE  CallInv'
<1> USE ConnAssumption DEF CallInv, SessionInv, TxnInv, AppliedInv, RowsInv, ConnTypeOK,
        NoLeakedSession, Steps, Answered
<1>1. CASE Connect
  <2>1. ConnTypeOK'
    BY <1>1, StmtType DEF Connect, NoTxn, NoRows, CallType, Access, Effects, TxAccess
  <2>2. SessionInv'
    BY <1>1 DEF Connect, InTxn, NoTxn, CallType, Ops, Explains
  <2>3. TxnInv'
    BY <1>1 DEF Connect, InTxn, NoTxn, TxAccess, MayChange, Runs, Explains, Access
  <2>4. AppliedInv'
    BY <1>1 DEF Connect, Changes, MayChange, InTxn, Explains
  <2>5. RowsInv'
    BY <1>1 DEF Connect, NoRows, CallType, InTxn
  <2> QED BY <2>1, <2>2, <2>3, <2>4, <2>5
<1>2. CASE ConnectFails
  <2>1. ConnTypeOK'
    BY <1>2, StmtType DEF ConnectFails, NoTxn, NoRows, CallType, Access, Effects, TxAccess
  <2>2. SessionInv'
    BY <1>2 DEF ConnectFails, InTxn, NoTxn, CallType, Ops, Explains
  <2>3. TxnInv'
    BY <1>2 DEF ConnectFails, InTxn, NoTxn, TxAccess, MayChange, Runs, Explains, Access
  <2>4. AppliedInv'
    BY <1>2 DEF ConnectFails, Changes, MayChange, InTxn, Explains
  <2>5. RowsInv'
    BY <1>2 DEF ConnectFails, NoRows, CallType, InTxn
  <2> QED BY <2>1, <2>2, <2>3, <2>4, <2>5
<1>3. CASE Begin
  <2>1. ConnTypeOK'
    BY <1>3, StmtType DEF Begin, NoTxn, NoRows, CallType, Access, Effects, TxAccess
  <2>2. SessionInv'
    BY <1>3 DEF Begin, InTxn, NoTxn, CallType, Ops, Explains
  <2>3. TxnInv'
    BY <1>3 DEF Begin, InTxn, NoTxn, TxAccess, MayChange, Runs, Explains, Access
  <2>4. AppliedInv'
    BY <1>3 DEF Begin, Changes, MayChange, InTxn, Explains
  <2>5. RowsInv'
    BY <1>3 DEF Begin, NoRows, CallType, InTxn
  <2> QED BY <2>1, <2>2, <2>3, <2>4, <2>5
<1>4. CASE SetTimeout
  <2>1. ConnTypeOK'
    BY <1>4, StmtType DEF SetTimeout, NoTxn, NoRows, CallType, Access, Effects, TxAccess
  <2>2. SessionInv'
    BY <1>4 DEF SetTimeout, InTxn, NoTxn, CallType, Ops, Explains
  <2>3. TxnInv'
    BY <1>4 DEF SetTimeout, InTxn, NoTxn, TxAccess, MayChange, Runs, Explains, Access
  <2>4. AppliedInv'
    BY <1>4 DEF SetTimeout, Changes, MayChange, InTxn, Explains
  <2>5. RowsInv'
    BY <1>4 DEF SetTimeout, NoRows, CallType, InTxn
  <2> QED BY <2>1, <2>2, <2>3, <2>4, <2>5
<1>5. CASE SetGuard
  <2>1. ConnTypeOK'
    BY <1>5, StmtType DEF SetGuard, NoTxn, NoRows, CallType, Access, Effects, TxAccess
  <2>2. SessionInv'
    BY <1>5 DEF SetGuard, InTxn, NoTxn, CallType, Ops, Explains
  <2>3. TxnInv'
    BY <1>5 DEF SetGuard, InTxn, NoTxn, TxAccess, MayChange, Runs, Explains, Access
  <2>4. AppliedInv'
    BY <1>5 DEF SetGuard, Changes, MayChange, InTxn, Explains
  <2>5. RowsInv'
    BY <1>5 DEF SetGuard, NoRows, CallType, InTxn
  <2> QED BY <2>1, <2>2, <2>3, <2>4, <2>5
<1>6. CASE Query
  <2>1. ConnTypeOK'
    <3>1. call.stmts[1] \in Stmts
      BY <1>6 DEF Query, Accepts, CallType
    <3>2. txn' \in [access : Access, safe : BOOLEAN, effect : SUBSET Effects]
      BY <1>6, <3>1, StmtType DEF Query
    <3>3. rows' \in [all : Nat, sent : Nat, got : Nat, cut : BOOLEAN]
      <4>1. PICK n \in 0..MaxRows :
              rows' = [all |-> n, got |-> 0, cut |-> FALSE,
                       sent |-> IF call.limit /\ call.max < n THEN call.max ELSE n]
        BY <1>6 DEF Query, NoRows
      <4>2. call.max \in Nat
        BY DEF CallType
      <4> QED BY <4>1, <4>2
    <3> QED BY <1>6, <3>2, <3>3 DEF Query
  <2>2. SessionInv'
    BY <1>6 DEF Query, Accepts, InTxn, NoTxn, CallType, Ops, Explains
  <2>3. TxnInv'
    BY <1>6 DEF Query, Accepts, InTxn, NoTxn, TxAccess, MayChange, Runs, Explains, Access
  <2>4. AppliedInv'
    BY <1>6 DEF Query, Accepts, Changes, MayChange, InTxn, Explains
  <2>5. RowsInv'
    BY <1>6 DEF Query, Accepts, NoRows, CallType, InTxn
  <2> QED BY <2>1, <2>2, <2>3, <2>4, <2>5
<1>7. CASE QueryRow
  <2>1. ConnTypeOK'
    BY <1>7, StmtType DEF QueryRow, NoTxn, NoRows, CallType, Access, Effects, TxAccess
  <2>2. SessionInv'
    BY <1>7 DEF QueryRow, InTxn, NoTxn, CallType, Ops, Explains
  <2>3. TxnInv'
    BY <1>7 DEF QueryRow, InTxn, NoTxn, TxAccess, MayChange, Runs, Explains, Access
  <2>4. AppliedInv'
    BY <1>7 DEF QueryRow, Changes, MayChange, InTxn, Explains
  <2>5. RowsInv'
    BY <1>7 DEF QueryRow, NoRows, CallType, InTxn
  <2> QED BY <2>1, <2>2, <2>3, <2>4, <2>5
<1>8. CASE ReadRows
  <2>1. ConnTypeOK'
    BY <1>8, StmtType DEF ReadRows, NoTxn, NoRows, CallType, Access, Effects, TxAccess
  <2>2. SessionInv'
    BY <1>8 DEF ReadRows, InTxn, NoTxn, CallType, Ops, Explains
  <2>3. TxnInv'
    BY <1>8 DEF ReadRows, InTxn, NoTxn, TxAccess, MayChange, Runs, Explains, Access
  <2>4. AppliedInv'
    BY <1>8 DEF ReadRows, Changes, MayChange, InTxn, Explains
  <2>5. RowsInv'
    <3>1. rows'.sent = rows.sent /\ rows'.all = rows.all /\ UNCHANGED call
      BY <1>8 DEF ReadRows
    <3>2. CASE call.op = "execute" /\ call.max > 0 /\ rows.sent > call.max
      <4>1. rows'.got = call.max /\ rows'.cut = TRUE
        BY <1>8, <3>2 DEF ReadRows
      <4> QED BY <3>1, <3>2, <4>1 DEF CallType
    <3>3. CASE ~(call.op = "execute" /\ call.max > 0 /\ rows.sent > call.max)
      <4>1. rows'.got = rows.sent /\ rows'.cut = FALSE
        BY <1>8, <3>3 DEF ReadRows
      <4> QED BY <3>1, <4>1
    <3> QED BY <3>2, <3>3
  <2> QED BY <2>1, <2>2, <2>3, <2>4, <2>5
<1>9. CASE Commit
  <2>1. ConnTypeOK'
    BY <1>9, StmtType DEF Commit, Changes, NoTxn, NoRows, CallType, Access, Effects, TxAccess
  <2>2. SessionInv'
    BY <1>9 DEF Commit, Changes, InTxn, NoTxn, CallType, Ops, Explains
  <2>3. TxnInv'
    BY <1>9 DEF Commit, Changes, InTxn, NoTxn, TxAccess, MayChange, Runs, Explains, Access
  <2>4. AppliedInv'
    BY <1>9 DEF Commit, Changes, Changes, MayChange, InTxn, Explains
  <2>5. RowsInv'
    BY <1>9 DEF Commit, Changes, NoRows, CallType, InTxn
  <2> QED BY <2>1, <2>2, <2>3, <2>4, <2>5
<1>10. CASE CommitUnacked
  <2>1. ConnTypeOK'
    BY <1>10, StmtType DEF CommitUnacked, Abandon, Changes, NoTxn, NoRows, CallType, Access, Effects, TxAccess
  <2>2. SessionInv'
    BY <1>10 DEF CommitUnacked, Abandon, Changes, InTxn, NoTxn, CallType, Ops, Explains
  <2>3. TxnInv'
    BY <1>10 DEF CommitUnacked, Abandon, Changes, InTxn, NoTxn, TxAccess, MayChange, Runs, Explains, Access
  <2>4. AppliedInv'
    BY <1>10 DEF CommitUnacked, Abandon, Changes, Changes, MayChange, InTxn, Explains
  <2>5. RowsInv'
    BY <1>10 DEF CommitUnacked, Abandon, Changes, NoRows, CallType, InTxn
  <2> QED BY <2>1, <2>2, <2>3, <2>4, <2>5
<1>11. CASE ParseOk
  <2>1. ConnTypeOK'
    BY <1>11, StmtType DEF ParseOk, NoTxn, NoRows, CallType, Access, Effects, TxAccess
  <2>2. SessionInv'
    BY <1>11 DEF ParseOk, InTxn, NoTxn, CallType, Ops, Explains
  <2>3. TxnInv'
    BY <1>11 DEF ParseOk, InTxn, NoTxn, TxAccess, MayChange, Runs, Explains, Access
  <2>4. AppliedInv'
    BY <1>11 DEF ParseOk, Changes, MayChange, InTxn, Explains
  <2>5. RowsInv'
    BY <1>11 DEF ParseOk, Explains
  <2> QED BY <2>1, <2>2, <2>3, <2>4, <2>5
<1>12. CASE StepFails
  <2>1. ConnTypeOK'
    BY <1>12, StmtType DEF StepFails, Abandon, NoTxn, NoRows, CallType, Access, Effects, TxAccess
  <2>2. SessionInv'
    BY <1>12 DEF StepFails, Abandon, InTxn, NoTxn, CallType, Ops, Explains
  <2>3. TxnInv'
    BY <1>12 DEF StepFails, Abandon, InTxn, NoTxn, TxAccess, MayChange, Runs, Explains, Access
  <2>4. AppliedInv'
    BY <1>12 DEF StepFails, Abandon, Changes, MayChange, InTxn, Explains
  <2>5. RowsInv'
    BY <1>12 DEF StepFails, Abandon, NoRows, CallType, InTxn
  <2> QED BY <2>1, <2>2, <2>3, <2>4, <2>5
<1>13. CASE SessionDrops
  <2>1. ConnTypeOK'
    BY <1>13, StmtType DEF SessionDrops, NoTxn, NoRows, CallType, Access, Effects, TxAccess
  <2>2. SessionInv'
    BY <1>13 DEF SessionDrops, InTxn, NoTxn, CallType, Ops, Explains
  <2>3. TxnInv'
    BY <1>13 DEF SessionDrops, InTxn, NoTxn, TxAccess, MayChange, Runs, Explains, Access
  <2>4. AppliedInv'
    BY <1>13 DEF SessionDrops, Changes, MayChange, InTxn, Explains
  <2>5. RowsInv'
    BY <1>13 DEF SessionDrops, NoRows, CallType, InTxn
  <2> QED BY <2>1, <2>2, <2>3, <2>4, <2>5
<1>14. CASE Close
  <2>1. ConnTypeOK'
    BY <1>14, StmtType DEF Close, NoTxn, NoRows, CallType, Access, Effects, TxAccess
  <2>2. SessionInv'
    BY <1>14 DEF Close, InTxn, NoTxn, CallType, Ops, Explains
  <2>3. TxnInv'
    BY <1>14 DEF Close, InTxn, NoTxn, TxAccess, MayChange, Runs, Explains, Access
  <2>4. AppliedInv'
    BY <1>14 DEF Close, Changes, MayChange, InTxn, Explains
  <2>5. RowsInv'
    BY <1>14 DEF Close, NoRows, CallType, InTxn
  <2> QED BY <2>1, <2>2, <2>3, <2>4, <2>5
<1> QED BY <1>1, <1>2, <1>3, <1>4, <1>5, <1>6, <1>7, <1>8, <1>9, <1>10, <1>11, <1>12, <1>13, <1>14 DEF Progress

-----------------------------------------------------------------------------
(* Any sequence of calls. *)

\* What a public method is called with is a call, and is not the bare connect.
LEMMA CallsTyped == \A c \in Calls :
  /\ c \in CallType /\ c.op # "dial"
  /\ c.stmts # <<>> /\ c.stmts[1].effect \in SUBSET Effects
<1> SUFFICES ASSUME NEW c \in Calls
             PROVE  /\ c \in CallType /\ c.op # "dial"
                    /\ c.stmts # <<>> /\ c.stmts[1].effect \in SUBSET Effects
  OBVIOUS
<1>1. PICK o \in Ops \ {"dial"}, m \in Modes, s \in Stmts, k \in Caps :
        c = [op |-> o, mode |-> m, stmts |-> <<s>>, max |-> k,
             limit |-> o = "execute" /\ Injects(m, k, <<s>>)]
  BY DEF Calls
<1>2. c.stmts \in Seq(Stmts)
  BY <1>1
<1>3. /\ c.op \in Ops \ {"dial"} /\ c.mode \in Modes /\ c.max \in Nat /\ c.limit \in BOOLEAN
      /\ c = [op |-> c.op, mode |-> c.mode, stmts |-> c.stmts, max |-> c.max,
              limit |-> c.limit]
  BY <1>1, CapsAssumption DEF Injects
<1>4. c \in CallType
  BY <1>2, <1>3 DEF CallType
<1> QED BY <1>1, <1>3, <1>4, StmtType

\* The inductive invariant of the Manager holds whatever is called, and
\* whatever the cluster does.
THEOREM CallInvariant == ManagerSpec => []CallInv
<1>1. ConnInit => CallInv
  BY CallInvInit
<1>2. CallInv /\ [ManagerNext]_connVars => CallInv'
  <2> SUFFICES ASSUME CallInv, [ManagerNext]_connVars
               PROVE  CallInv'
    OBVIOUS
  <2>1. ASSUME NEW c \in Calls, Invoke(c)
        PROVE  CallInv'
    BY <2>1, CallsTyped, InvokeKeeps
  <2>2. CASE Progress \/ Close \/ SessionDrops
    BY <2>2, CallInvStep
  <2>3. CASE UNCHANGED connVars
    BY <2>3 DEF connVars, CallInv, ConnTypeOK, SessionInv, TxnInv, AppliedInv, RowsInv,
       NoLeakedSession, InTxn, TxAccess, MayChange
  <2> QED BY <2>1, <2>2, <2>3 DEF ManagerNext
<1> QED BY <1>1, <1>2, PTL DEF ManagerSpec

\* The variables keep their types, and no method uses a nil connection.
THEOREM ManagerTypes == ManagerSpec => []ConnTypeOK
<1>1. CallInv => ConnTypeOK
  BY DEF CallInv
<1> QED BY <1>1, CallInvariant, PTL

\* However calls fail and sessions end, the cluster holds no session that the
\* Manager has forgotten.
THEOREM SessionsClosed == ManagerSpec => []NoLeakedSession
<1>1. CallInv => NoLeakedSession
  BY DEF CallInv, SessionInv
<1> QED BY <1>1, CallInvariant, PTL

\* No transaction outlives its call on the connection the next one uses.
THEOREM TransactionsEnd == ManagerSpec => []NoTxnBetweenCalls
<1>1. CallInv => NoTxnBetweenCalls
  BY DEF CallInv, SessionInv, NoTxnBetweenCalls
<1> QED BY <1>1, CallInvariant, PTL

\* Nothing but execute outside read_only changes anything, for every statement:
\* the transaction's access mode holds where the gate cannot see.
THEOREM WritesAreExecuted == ManagerSpec => []OnlyExecuteWrites
<1>1. CallInv => OnlyExecuteWrites
  BY DEF CallInv, AppliedInv, MayChange, OnlyExecuteWrites
<1> QED BY <1>1, CallInvariant, PTL

\* safe_write never commits an UPDATE or DELETE without WHERE.
THEOREM WritesAreGuarded == ManagerSpec => []SafeWriteGuarded
<1>1. CallInv => SafeWriteGuarded
  BY DEF CallInv, AppliedInv, MayChange, SafeWriteGuarded
<1> QED BY <1>1, CallInvariant, PTL

\* execute never leaves a row out without saying so, for every number of rows
\* and every cap.
THEOREM CutsAreReported == ManagerSpec => []CutIsReported
<1>1. CallInv => CutIsReported
  <2> SUFFICES ASSUME CallInv, reply = "ok", call.op = "execute"
               PROVE  /\ rows.cut <=> rows.got < rows.sent
                      /\ rows.got < rows.all => rows.cut \/ call.limit
    BY DEF CutIsReported
  <2>1. pc = "idle"
    BY DEF CallInv, AppliedInv
  <2>2. rows.got \in Nat /\ rows.sent \in Nat /\ rows.all \in Nat
    BY DEF CallInv, ConnTypeOK
  <2> QED BY <2>1, <2>2 DEF CallInv, RowsInv
<1> QED BY <1>1, CallInvariant, PTL

-----------------------------------------------------------------------------
\* The Manager implements AtomicCall: a call changes everything its statement
\* says or nothing, once, and answers "ok" only when it has.
THEOREM ManagerIsAtomic == ManagerSpec => CallIsAtomic
<1> DEFINE running == pc # "idle"
           effect == IF call.op = "execute" /\ call.stmts # <<>>
                       THEN call.stmts[1].effect ELSE {}
<1>1. ConnInit => Atomic!Init
  BY DEF ConnInit, Atomic!Init
<1>2. CallInv /\ CallInv' /\ [ManagerNext]_connVars => [Atomic!Next]_(Atomic!vars)
  <2> SUFFICES ASSUME CallInv, CallInv', [ManagerNext]_connVars
               PROVE  [Atomic!Next]_(Atomic!vars)
    OBVIOUS
  <2> USE DEF Atomic!Next, Atomic!vars, Atomic!All
  <2>0. CallInv => /\ pc # "idle" => applied = <<>> /\ reply = "none"
                   /\ call.op # "execute" => applied = <<>>
    BY DEF CallInv, AppliedInv, MayChange
  <2>1. ASSUME NEW c \in Calls, Invoke(c)
        PROVE  Atomic!Start
    BY <2>1, CallsTyped DEF Invoke, Atomic!Start, Effects
  <2>2. CASE Connect
    <3>1. CASE call.op = "dial"
      BY <2>0, <2>2, <3>1 DEF Connect, Atomic!Finish
    <3>2. CASE call.op # "dial"
      BY <2>2, <3>2 DEF Connect
    <3> QED BY <3>1, <3>2
  <2>3. CASE Begin \/ SetTimeout \/ SetGuard \/ Query \/ ReadRows
    BY <2>3 DEF Begin, SetTimeout, SetGuard, Query, ReadRows
  <2>4. CASE ConnectFails \/ StepFails
    <3>1. pc # "idle" /\ pc' = "idle" /\ reply' = "error"
          /\ call' = call /\ applied' = applied
      BY <2>4 DEF ConnectFails, StepFails, Abandon, Steps
    <3> QED BY <3>1 DEF Atomic!Finish
  <2>5. CASE QueryRow \/ ParseOk
    <3>1. call.op # "execute"
      BY <2>5 DEF QueryRow, ParseOk, CallInv, SessionInv, InTxn, Explains
    <3>2. pc # "idle" /\ pc' = "idle" /\ reply' = "ok"
          /\ call' = call /\ applied' = applied
      BY <2>5 DEF QueryRow, ParseOk
    <3> QED BY <2>0, <3>1, <3>2 DEF Atomic!Finish
  <2>6. CASE Commit \/ CommitUnacked
    <3>1. txn.effect = effect
      BY <2>6 DEF Commit, CommitUnacked, Answered, CallInv, TxnInv, MayChange
    <3>2. call' = call /\ pc = "commit" /\ applied = <<>> /\ reply = "none"
      BY <2>0, <2>6 DEF Commit, CommitUnacked
    <3>3. applied' = IF effect = {} THEN <<>> ELSE <<effect>>
      <4>1. applied' = <<>> \o Changes(effect)
        BY <2>6, <3>1, <3>2 DEF Commit, CommitUnacked
      <4> QED BY <4>1 DEF Changes
    <3>4. CASE CommitUnacked
      BY <3>2, <3>3, <3>4 DEF CommitUnacked, Abandon, Atomic!Finish
    <3>5. CASE Commit /\ call.op \in Explains
      <4>1. pc' = "parse" /\ reply' = reply /\ effect = {}
        BY <3>5 DEF Commit, Explains
      <4> QED BY <3>2, <3>3, <4>1
    <3>6. CASE Commit /\ call.op \notin Explains
      <4>1. pc' = "idle" /\ reply' = "ok"
        BY <3>6 DEF Commit
      <4> QED BY <3>2, <3>3, <4>1 DEF Atomic!Finish
    <3> QED BY <2>6, <3>4, <3>5, <3>6
  <2>7. CASE Close \/ SessionDrops \/ UNCHANGED connVars
    BY <2>7 DEF Close, SessionDrops, connVars
  <2> QED BY <2>1, <2>2, <2>3, <2>4, <2>5, <2>6, <2>7 DEF ManagerNext, Progress
<1> QED BY <1>1, <1>2, CallInvariant, PTL DEF ManagerSpec, CallIsAtomic, Atomic!Spec

-----------------------------------------------------------------------------
(* Gate, Manager and envelope. *)

Admitted == Admits(req.mode, req.surface, req.batch)
Waiting  == {"dialling", "running", "lookup"}   \* stages at which a method may run
ResultType == [stmt : Stmts, strategy : Strategies, ok : BOOLEAN, stats : BOOLEAN]

RequestInv ==
  /\ req.surface \in Operations /\ req.mode \in Modes
  /\ req.batch \in Seq(Stmts) /\ req.max \in Nat
  /\ results \in Seq(ResultType)
  /\ left \in 0..MaxTargets
  /\ Len(results) <= Len(req.batch)

\* Where the handler may be while the Manager is at work, and what it has done
\* to get there.
StageInv ==
  /\ stage \in Waiting \cup {"gate", "open", "ready", "stats", "done"}
  /\ pc # "idle" => stage \in Waiting
  /\ stage \in {"gate", "open", "done"} => conn = NoSession
  /\ stage \in {"gate", "open"} => applied = <<>>
  /\ stage \notin {"gate", "done"} => Admitted
  /\ applied # <<>> => Admitted
  /\ call.op = "execute" => /\ req.surface = "execute" /\ call.mode = req.mode
                            /\ call.stmts = req.batch
  /\ stage \in {"ready", "stats", "lookup", "dialling"} => req.surface = "simulate"

\* Only a simulation has results before it is answered, and it is at a statement
\* while it runs one.
ResultsInv ==
  /\ stage \in {"gate", "open", "dialling"} => results = <<>>
  /\ req.surface # "simulate" /\ stage # "done" => results = <<>>
  /\ stage = "running" => Len(results) < Len(req.batch) /\ call.op \in Strategies
  /\ stage \in {"stats", "lookup"} => results # <<>>

HandlerInv == CallInv /\ RequestInv /\ StageInv /\ ResultsInv

-----------------------------------------------------------------------------
\* The deferred Close, with or without a connection.
LEMMA CloseConnKeeps ==
  ASSUME CallInv, pc = "idle", CloseConn
  PROVE  CallInv'
<1>1. CASE conn # NoSession
  <2>1. Close
    BY <1>1 DEF CloseConn, Close
  <2> QED BY <2>1, CallInvStep
<1>2. CASE conn = NoSession
  <2>1. open = {}
    BY <1>2, ConnAssumption DEF CallInv, SessionInv, NoLeakedSession, ConnTypeOK
  <2>2. txn = NoTxn
    BY DEF CallInv, SessionInv
  <2>3. UNCHANGED connVars
    BY <1>2, <2>1, <2>2 DEF CloseConn, connVars
  <2> QED BY <2>3 DEF connVars, CallInv, ConnTypeOK, SessionInv, NoLeakedSession, TxnInv,
             AppliedInv, RowsInv, InTxn, TxAccess, MayChange
<1> QED BY <1>1, <1>2

\* What stutters on the Manager's variables keeps its invariant.
LEMMA StutterKeeps ==
  ASSUME CallInv, UNCHANGED connVars
  PROVE  CallInv'
BY DEF connVars, CallInv, ConnTypeOK, SessionInv, NoLeakedSession, TxnInv, AppliedInv,
   RowsInv, InTxn, TxAccess, MayChange

\* A method that a handler calls is a call of the Manager.
LEMMA MethodType ==
  ASSUME RequestInv, NEW op \in Ops, NEW stmts \in Seq(Stmts)
  PROVE  Method(op, stmts) \in CallType
<1>1. (op = "execute" /\ Injects(req.mode, req.max, req.batch)) \in BOOLEAN
  BY DEF Injects
<1> QED BY <1>1 DEF Method, CallType, RequestInv

\* The routes of ExplainAny and of a simulated step are explaining methods.
LEMMA RouteType ==
  ASSUME NEW s
  PROVE  /\ ExplainRoute(s) \in Explains \cup {"none"}
         /\ SimulateRoute(s) \in Explains \cup {"none"}
BY DEF ExplainRoute, SimulateRoute, Explains

\* The statement a step is at is one of the batch.
LEMMA CurrentType ==
  ASSUME RequestInv, Len(results) < Len(req.batch)
  PROVE  Current \in Stmts /\ <<Current>> \in Seq(Stmts)
<1>1. Len(results) + 1 \in 1..Len(req.batch)
  BY DEF RequestInv
<1> QED BY <1>1 DEF RequestInv, Current

\* Of the Manager's steps only Invoke changes the call, none starts from idle,
\* and only one that ends a call changes what is applied.
LEMMA ManagerStep ==
  ASSUME CallInv, Progress \/ SessionDrops
  PROVE  /\ UNCHANGED call
         /\ Progress => pc # "idle"
         /\ SessionDrops => conn \in open /\ UNCHANGED <<pc, conn, applied>>
BY DEF Progress, Connect, ConnectFails, Begin, SetTimeout, SetGuard, Query, QueryRow,
   ReadRows, Commit, CommitUnacked, ParseOk, StepFails, SessionDrops, Steps

\* A lookup that is noted leaves a result a result.
LEMMA StatsType ==
  ASSUME NEW r \in ResultType, NEW b \in BOOLEAN
  PROVE  [r EXCEPT !.stats = b] \in ResultType
BY DEF ResultType

-----------------------------------------------------------------------------
\* A batch that is admitted holds a statement.
LEMMA AdmittedNotEmpty == ASSUME RequestInv, Admitted PROVE Len(req.batch) > 0
<1>1. req.batch # <<>>
  BY AdmitsAll DEF RequestInv, Admitted
<1> QED BY <1>1 DEF RequestInv

\* Every step of the handler keeps the invariant.
LEMMA HandlerKeeps ==
  ASSUME HandlerInv, Handler
  PROVE  HandlerInv'
<1> USE DEF HandlerInv, Waiting
<1> DEFINE Rest == (RequestInv /\ StageInv /\ ResultsInv)'
<1>1. CASE GateRejects
  <2>1. CallInv'
    BY <1>1, StutterKeeps DEF GateRejects
  <2>2. Rest
    BY <1>1 DEF GateRejects, Answer, RequestInv, StageInv, ResultsInv, Admitted, connVars
  <2> QED BY <2>1, <2>2
<1>2. CASE GateAdmits
  <2>1. CallInv'
    BY <1>2, StutterKeeps DEF GateAdmits
  <2>2. Rest
    BY <1>2 DEF GateAdmits, RequestInv, StageInv, ResultsInv, Admitted, connVars
  <2> QED BY <2>1, <2>2
<1>3. CASE StartExecute
  <2>1. Method("execute", req.batch) \in CallType
    BY MethodType DEF Ops, RequestInv
  <2>2. CallInv'
    BY <1>3, <2>1, InvokeKeeps DEF StartExecute, Method
  <2>3. Len(req.batch) > 0
    BY <1>3, AdmittedNotEmpty DEF StartExecute, StageInv
  <2>4. Rest
    BY <1>3, <2>3 DEF StartExecute, Invoke, Method, RequestInv, StageInv, ResultsInv, Admitted,
       Strategies
  <2> QED BY <2>2, <2>4
<1>4. CASE StartExplain
  <2>1. ExplainRoute(Current) \in Explains
    BY <1>4, RouteType DEF StartExplain
  <2>2. Method(ExplainRoute(Current), req.batch) \in CallType
    BY <2>1, MethodType DEF Ops, RequestInv
  <2>3. CallInv'
    BY <1>4, <2>1, <2>2, InvokeKeeps DEF StartExplain, Method, Explains
  <2>4. call' = Method(ExplainRoute(Current), req.batch)
    BY <1>4 DEF StartExplain, Invoke
  <2>5. call'.op \in Explains
    BY <2>1, <2>4 DEF Method
  <2>6. /\ stage = "open" /\ stage' = "running" /\ Len(req.batch) = 1
        /\ req.surface = "explain"
        /\ applied' = <<>> /\ UNCHANGED <<req, results, left, conn>>
    BY <1>4 DEF StartExplain, Invoke
  <2>7. RequestInv' /\ StageInv'
    BY <2>5, <2>6 DEF RequestInv, StageInv, Admitted, Explains
  <2>8. ResultsInv'
    BY <2>5, <2>6 DEF ResultsInv, Strategies
  <2> QED BY <2>3, <2>7, <2>8
<1>5. CASE ExplainRefuses
  <2>1. CallInv'
    BY <1>5, CloseConnKeeps DEF ExplainRefuses, StageInv
  <2>2. Rest
    BY <1>5 DEF ExplainRefuses, Answer, CloseConn, RequestInv, StageInv, ResultsInv, Admitted
  <2> QED BY <2>1, <2>2
<1>6. CASE StartSimulate
  <2>1. <<>> \in Seq(Stmts)
    OBVIOUS
  <2>2. Method("dial", <<>>) \in CallType
    BY <2>1, MethodType DEF Ops
  <2>3. CallInv'
    BY <1>6, <2>2, InvokeKeeps DEF StartSimulate, StageInv
  <2>4. Rest
    BY <1>6 DEF StartSimulate, Invoke, Method, RequestInv, StageInv, ResultsInv, Admitted
  <2> QED BY <2>3, <2>4
<1>7. CASE Dialled
  <2>1. CallInv'
    BY <1>7, StutterKeeps DEF Dialled
  <2>2. Rest
    BY <1>7 DEF Dialled, RequestInv, StageInv, ResultsInv, Admitted, connVars
  <2> QED BY <2>1, <2>2
<1>8. CASE MethodFails
  <2>1. CallInv'
    BY <1>8, CloseConnKeeps DEF MethodFails
  <2>2. Rest
    BY <1>8 DEF MethodFails, Answer, CloseConn, RequestInv, StageInv, ResultsInv, Admitted
  <2> QED BY <2>1, <2>2
<1>9. CASE MethodOk
  <2>1. CallInv'
    BY <1>9, CloseConnKeeps DEF MethodOk
  <2>2. Result(TRUE) \in ResultType
    BY <1>9, CurrentType DEF MethodOk, Result, ResultType, ResultsInv
  <2>3. results' \in Seq(ResultType) /\ Len(results') = 1
    <3> DEFINE r == Result(TRUE)
    <3>1. results' = <<r>> /\ r \in ResultType
      BY <1>9, <2>2 DEF MethodOk
    <3> HIDE DEF r
    <3> QED BY <3>1
  <2>4. Len(req.batch) > 0
    BY <1>9 DEF MethodOk, ResultsInv, RequestInv
  <2>5. RequestInv'
    <3>1. UNCHANGED <<req, left>>
      BY <1>9 DEF MethodOk
    <3>2. Len(req.batch) \in Nat
      BY DEF RequestInv
    <3> QED BY <2>3, <2>4, <3>1, <3>2 DEF RequestInv
  <2>6. StageInv'
    BY <1>9 DEF MethodOk, Answer, CloseConn, StageInv, Admitted
  <2>7. ResultsInv'
    BY <1>9 DEF MethodOk, Answer, CloseConn, ResultsInv
  <2> QED BY <2>1, <2>5, <2>6, <2>7
<1>10. CASE StepStarts
  <2>1. SimulateRoute(Current) \in Explains
    BY <1>10, RouteType DEF StepStarts
  <2>2. <<Current>> \in Seq(Stmts)
    BY <1>10, CurrentType DEF StepStarts
  <2>3. Method(SimulateRoute(Current), <<Current>>) \in CallType
    BY <2>1, <2>2, MethodType DEF Ops
  <2>4. CallInv'
    BY <1>10, <2>1, <2>3, InvokeKeeps DEF StepStarts, Method, Explains
  <2>5. call' = Method(SimulateRoute(Current), <<Current>>)
    BY <1>10 DEF StepStarts, Invoke
  <2>6. call'.op \in Explains
    BY <2>1, <2>5 DEF Method
  <2>7. Rest
    BY <1>10, <2>6 DEF StepStarts, Invoke, RequestInv, StageInv, ResultsInv, Admitted,
       Strategies, Explains
  <2> QED BY <2>4, <2>7
<1>11. CASE StepEnds
  <2>1. CallInv'
    BY <1>11, StutterKeeps DEF StepEnds
  <2>2. Result(reply = "ok") \in ResultType
    BY <1>11, CurrentType DEF StepEnds, Result, ResultType, ResultsInv
  <2>3. results' \in Seq(ResultType) /\ Len(results') = Len(results) + 1
    BY <1>11, <2>2 DEF StepEnds, RequestInv
  <2>4. RequestInv'
    BY <1>11, <2>3 DEF StepEnds, RequestInv, ResultsInv
  <2>5. StageInv'
    BY <1>11 DEF StepEnds, StageInv, Admitted, connVars
  <2>6. ResultsInv'
    BY <1>11, <2>3 DEF StepEnds, ResultsInv, RequestInv
  <2> QED BY <2>1, <2>4, <2>5, <2>6
<1>12. CASE LookupStarts
  <2>1. <<>> \in Seq(Stmts)
    OBVIOUS
  <2>2. Method("stats", <<>>) \in CallType
    BY <2>1, MethodType DEF Ops
  <2>3. CallInv'
    BY <1>12, <2>2, InvokeKeeps DEF LookupStarts, Method
  <2>4. Rest
    BY <1>12, CallsAssumption DEF LookupStarts, Invoke, Method, RequestInv, StageInv,
       ResultsInv, Admitted
  <2> QED BY <2>3, <2>4
<1>13. CASE LookupEnds
  <2>1. CallInv'
    BY <1>13, StutterKeeps DEF LookupEnds
  <2>2. Len(results) \in 1..Len(results)
    BY <1>13 DEF LookupEnds, ResultsInv, RequestInv
  <2>3. results' \in Seq(ResultType) /\ Len(results') = Len(results)
    <3>1. [results[Len(results)] EXCEPT !.stats = @ /\ reply = "ok"] \in ResultType
      <4>1. results[Len(results)] \in ResultType
        BY <2>2 DEF RequestInv
      <4>2. (results[Len(results)].stats /\ reply = "ok") \in BOOLEAN
        OBVIOUS
      <4> QED BY <4>1, <4>2, StatsType
    <3>2. results' = [results EXCEPT ![Len(results)] =
                       [results[Len(results)] EXCEPT !.stats = @ /\ reply = "ok"]]
      BY <1>13 DEF LookupEnds
    <3> QED BY <2>2, <3>1, <3>2 DEF RequestInv
  <2>4. RequestInv'
    BY <1>13, <2>3 DEF LookupEnds, RequestInv
  <2>5. StageInv'
    BY <1>13 DEF LookupEnds, StageInv, Admitted, connVars
  <2>6. ResultsInv'
    BY <1>13, <2>2, <2>3 DEF LookupEnds, ResultsInv, RequestInv, StageInv
  <2> QED BY <2>1, <2>4, <2>5, <2>6
<1>14. CASE StatsDone
  <2>1. CallInv'
    BY <1>14, StutterKeeps DEF StatsDone
  <2>2. Rest
    BY <1>14 DEF StatsDone, RequestInv, StageInv, ResultsInv, Admitted, connVars
  <2> QED BY <2>1, <2>2
<1>15. CASE SimulateAnswers
  <2>1. pc = "idle"
    BY <1>15 DEF SimulateAnswers, StageInv
  <2>2. CallInv'
    BY <1>15, <2>1, CloseConnKeeps DEF SimulateAnswers
  <2>3. Rest
    BY <1>15, <2>1 DEF SimulateAnswers, Answer, CloseConn, RequestInv, StageInv, ResultsInv,
       Admitted
  <2> QED BY <2>2, <2>3
<1> QED
  BY <1>1, <1>2, <1>3, <1>4, <1>5, <1>6, <1>7, <1>8, <1>9, <1>10, <1>11, <1>12, <1>13,
     <1>14, <1>15 DEF Handler

\* Every step of the Manager and the end of a session keep it.
LEMMA ClusterKeeps ==
  ASSUME HandlerInv, Cluster \/ Drop
  PROVE  HandlerInv'
<1> USE DEF HandlerInv
<1>1. CallInv'
  BY CallInvStep DEF Cluster, Drop
<1>2. UNCHANGED callVars /\ UNCHANGED call
  BY ManagerStep DEF Cluster, Drop
<1>3. RequestInv' /\ ResultsInv'
  BY <1>2 DEF callVars, RequestInv, ResultsInv
<1>4. CASE Cluster
  <2>1. stage \in Waiting
    BY <1>4, ManagerStep DEF Cluster, StageInv
  <2> QED BY <1>1, <1>2, <1>3, <2>1 DEF callVars, StageInv, Waiting, Admitted
<1>5. CASE Drop
  <2>1. UNCHANGED <<pc, conn, applied>>
    BY <1>5, ManagerStep DEF Drop
  <2> QED BY <1>1, <1>2, <1>3, <2>1 DEF callVars, StageInv, Waiting, Admitted
<1> QED BY <1>4, <1>5

-----------------------------------------------------------------------------
\* Handler, Manager and cluster agree on the request at every step.
THEOREM HandlerInvariant == Spec => []HandlerInv
<1>1. Init => HandlerInv
  <2> SUFFICES ASSUME Init PROVE HandlerInv
    OBVIOUS
  <2>1. CallInv
    BY CallInvInit DEF Init
  <2>2. RequestInv
    <3>1. PICK n \in 0..MaxBatch : req.batch \in [1..n -> Stmts]
      BY DEF Init, Requests, Batches
    <3>2. n \in Nat
      BY CallsAssumption
    <3>3. req.batch \in Seq(Stmts)
      BY <3>1, <3>2
    <3>4. req.surface \in Operations /\ req.mode \in Modes /\ req.max \in Nat
      BY CapsAssumption DEF Init, Requests
    <3>5. results = <<>> /\ left = 0
      BY DEF Init
    <3> QED BY <3>3, <3>4, <3>5, CallsAssumption DEF RequestInv
  <2>3. StageInv /\ ResultsInv
    BY DEF Init, ConnInit, StageInv, ResultsInv, Waiting
  <2> QED BY <2>1, <2>2, <2>3 DEF HandlerInv
<1>2. HandlerInv /\ [Next]_vars => HandlerInv'
  <2> SUFFICES ASSUME HandlerInv, [Next]_vars PROVE HandlerInv'
    OBVIOUS
  <2>1. CASE UNCHANGED vars
    <3>1. CallInv'
      BY <2>1, StutterKeeps DEF vars, HandlerInv
    <3> QED BY <2>1, <3>1 DEF vars, connVars, HandlerInv, RequestInv, StageInv, ResultsInv,
               Admitted
  <2> QED BY <2>1, HandlerKeeps, ClusterKeeps DEF Next
<1> QED BY <1>1, <1>2, PTL DEF Spec

\* The cluster is contacted for admitted requests only.
THEOREM OnlyAdmittedContact == Spec => []ContactOnlyAdmitted
<1>1. HandlerInv => ContactOnlyAdmitted
  <2> SUFFICES ASSUME HandlerInv, open # {}
               PROVE  \A i \in 1..Len(req.batch) : Permits(req.mode, req.surface, req.batch[i])
    BY DEF ContactOnlyAdmitted
  <2>1. conn # NoSession
    BY ConnAssumption DEF HandlerInv, CallInv, SessionInv, NoLeakedSession, ConnTypeOK
  <2>2. Admitted
    BY <2>1 DEF HandlerInv, StageInv
  <2> QED BY <2>2, AdmitsAll DEF HandlerInv, RequestInv, Admitted
<1> QED BY <1>1, HandlerInvariant, PTL

\* The mode of a request bounds what changes at the cluster, whatever fails.
THEOREM ModeIsKept == Spec => []ModeIsContract
<1>1. HandlerInv => ModeIsContract
  <2> SUFFICES ASSUME HandlerInv, applied # <<>> PROVE
        /\ req.surface = "execute" /\ req.mode # "read_only"
        /\ req.mode = "safe_write" => applied = <<{"row"}>> /\ ~call.stmts[1].blind
    BY DEF ModeIsContract
  <2>1. MayChange /\ applied = <<call.stmts[1].effect>> /\ call.stmts[1].effect # {}
    BY DEF HandlerInv, CallInv, AppliedInv
  <2>2. req.surface = "execute" /\ call.mode = req.mode /\ call.stmts = req.batch /\ Admitted
    BY <2>1 DEF MayChange, HandlerInv, StageInv
  <2>3. CASE req.mode = "safe_write"
    <3>1. 1 \in 1..Len(req.batch) /\ req.batch[1] \in Stmts
      BY <2>1, <2>2 DEF MayChange, HandlerInv, RequestInv
    <3>2. Permits("safe_write", "execute", req.batch[1])
      BY <2>2, <2>3, <3>1, AdmitsAll DEF HandlerInv, RequestInv, Admitted
    <3>3. req.batch[1].effect \subseteq {"row"}
      BY <3>1, <3>2, PermittedEffect
    <3> QED BY <2>1, <2>2, <2>3, <3>3 DEF MayChange
  <2> QED BY <2>1, <2>2, <2>3 DEF MayChange
<1> QED BY <1>1, HandlerInvariant, PTL

\* An answered request holds no session and no transaction.
THEOREM AnswersLeaveNothing == Spec => []AnswerLeavesNoSession
<1>1. HandlerInv => AnswerLeavesNoSession
  BY ConnAssumption DEF HandlerInv, StageInv, Waiting, CallInv, SessionInv, NoLeakedSession,
     ConnTypeOK, AnswerLeavesNoSession
<1> QED BY <1>1, HandlerInvariant, PTL

\* A failed step or lookup stays in the results, and in the answer.
THEOREM FailuresStick == Spec => FailureIsSticky
<1> DEFINE Failed(r) == ~r.stats \/ ~r.ok
           Sticks == \A i \in 1..Len(results) : Failed(results[i]) =>
                       /\ Failed(results'[i])
                       /\ stage' = "done" => env'.failure = "steps"
<1>1. HandlerInv /\ [Next]_vars => [Sticks]_vars
  <2> SUFFICES ASSUME HandlerInv, Next, NEW i \in 1..Len(results), Failed(results[i])
               PROVE  /\ Failed(results'[i])
                      /\ stage' = "done" => env'.failure = "steps"
    OBVIOUS
  <2>1. results # <<>> /\ stage \notin {"gate", "open", "dialling"}
    BY DEF HandlerInv, RequestInv, ResultsInv
  <2>2. CASE Cluster \/ Drop
    <3>1. stage # "done"
      <4>1. stage = "done" => pc = "idle" /\ conn \notin open
        BY ConnAssumption DEF HandlerInv, StageInv, Waiting, CallInv, ConnTypeOK
      <4> QED BY <2>2, <4>1, ManagerStep DEF Cluster, Drop, HandlerInv
    <3> QED BY <2>2, <3>1 DEF Cluster, Drop, callVars
  <2>3. CASE StepStarts \/ LookupStarts \/ StatsDone
    BY <2>3 DEF StepStarts, LookupStarts, StatsDone
  <2>4. CASE StepEnds
    <3>1. results'[i] = results[i] /\ stage' # "done"
      BY <2>4 DEF StepEnds, HandlerInv, RequestInv
    <3> QED BY <3>1
  <2>5. CASE LookupEnds
    <3>1. results'[i] = results[i] \/
          results'[i] = [results[i] EXCEPT !.stats = results[i].stats /\ reply = "ok"]
      BY <2>5 DEF LookupEnds, HandlerInv, RequestInv
    <3>2. results[i] \in ResultType
      BY DEF HandlerInv, RequestInv
    <3>3. stage' # "done"
      BY <2>5 DEF LookupEnds
    <3> QED BY <3>1, <3>2, <3>3 DEF ResultType
  <2>6. CASE SimulateAnswers
    <3>1. results' = results /\ env'.failure = "steps"
      BY <2>6 DEF SimulateAnswers, Answer
    <3> QED BY <3>1
  <2>7. ~(MethodFails \/ MethodOk)
    BY <2>1 DEF MethodFails, MethodOk, HandlerInv, ResultsInv
  <2>8. ~(GateRejects \/ GateAdmits \/ StartExecute \/ StartExplain \/ ExplainRefuses
            \/ StartSimulate \/ Dialled)
    BY <2>1 DEF GateRejects, GateAdmits, StartExecute, StartExplain, ExplainRefuses,
       StartSimulate, Dialled
  <2> QED BY <2>2, <2>3, <2>4, <2>5, <2>6, <2>7, <2>8 DEF Next, Handler
<1> QED BY <1>1, HandlerInvariant, PTL DEF FailureIsSticky, Spec
=============================================================================
