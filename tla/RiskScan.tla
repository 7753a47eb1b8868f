------------------------------ MODULE RiskScan ------------------------------
(***************************************************************************)
(* internal/risk: what the risk rules say of a parsed script.  A statement *)
(* is a record: kind, the StatementType the parser gives that kind, and    *)
(* the parts the rules read.                                               *)
(***************************************************************************)
EXTENDS Integers, Sequences

CONSTANT Scripts   \* sequences of statements

ASSUME ScriptsAssumption == \A s \in Scripts : Len(s) \in Nat

LargeOffsetThreshold == 1000
Ends == {"commit", "rollback"}

VARIABLES script,    \* the parsed statements
          scanned,   \* how many of them explicitTxnBlocks has passed
          blocks,    \* txnBlock: [start, end], one per BEGIN
          openStack  \* indexes of the open blocks, innermost last

riskVars == <<script, scanned, blocks, openStack>>

RiskInit == script \in Scripts /\ scanned = 0 /\ blocks = <<>> /\ openStack = <<>>

-----------------------------------------------------------------------------
(* The rules of one statement. *)

\* Neither WHERE nor LIMIT (an OFFSET counts as one); the WHERE of a union or
\* in parentheses is not seen.
LocksAll(s) == ~s.limit /\ ~(s.simple /\ s.where)

Codes == {"DELETE_NO_WHERE", "UPDATE_NO_WHERE", "DROP_TABLE", "DROP_DATABASE",
          "ALTER_TABLE_DROP_COLUMN", "SELECT_FOR_UPDATE_NO_WHERE", "SELECT_FOR_SHARE_NO_WHERE",
          "SELECT_STAR", "TRUNCATE_TABLE", "SERIAL_PRIMARY_KEY", "MISSING_PRIMARY_KEY",
          "LARGE_OFFSET", "XA_PREPARED_TXN", "SAVEPOINT_COCKROACH_RESTART"}

Fires(code, s) ==
  CASE code = "DELETE_NO_WHERE"   -> s.kind = "delete" /\ ~s.where /\ ~s.limit
    [] code = "UPDATE_NO_WHERE"   -> s.kind = "update" /\ ~s.where /\ ~s.limit
    [] code = "DROP_TABLE"        -> s.kind = "drop_table"
    [] code = "DROP_DATABASE"     -> s.kind = "drop_database"
    [] code = "ALTER_TABLE_DROP_COLUMN"    -> s.kind = "alter_table" /\ s.drops # {}
    [] code = "SELECT_FOR_UPDATE_NO_WHERE" -> s.kind = "select" /\ "update" \in s.locking /\ LocksAll(s)
    [] code = "SELECT_FOR_SHARE_NO_WHERE"  -> s.kind = "select" /\ "share" \in s.locking /\ LocksAll(s)
    [] code = "SELECT_STAR"         -> s.kind = "select" /\ s.simple /\ s.star
    [] code = "TRUNCATE_TABLE"      -> s.kind = "truncate"
    [] code = "SERIAL_PRIMARY_KEY"  -> s.kind = "create_table" /\ s.pk \cap s.serial # {}
    [] code = "MISSING_PRIMARY_KEY" -> s.kind = "create_table" /\ s.pk = {} /\ ~s.as
    [] code = "LARGE_OFFSET"        -> s.kind = "select" /\ s.offset >= LargeOffsetThreshold
    [] code = "XA_PREPARED_TXN"     -> s.kind \in {"prepare", "commit_prepared", "rollback_prepared"}
    [] code = "SAVEPOINT_COCKROACH_RESTART" -> s.kind = "savepoint" /\ s.restart

\* A finding is a rule and the statement it points at.
StatementFindings == {f \in Codes \X (1..Len(script)) : Fires(f[1], script[f[2]])}

-----------------------------------------------------------------------------
(* explicitTxnBlocks: a BEGIN within a block opens another, COMMIT and      *)
(* ROLLBACK close the innermost; a block never closed runs to the end.      *)

\* A slip: a block not yet closed ends where it starts.
OpenBlockEmpty == [start |-> scanned + 1, end |-> scanned + 1]

Scanning == scanned < Len(script)
Current  == script[scanned + 1]

OpenBlock == [start |-> scanned + 1, end |-> Len(script) + 1]

ScanBegin ==
  /\ Scanning /\ Current.kind = "begin"
  /\ blocks' = Append(blocks, OpenBlock)
  /\ openStack' = Append(openStack, Len(blocks) + 1)
  /\ scanned' = scanned + 1
  /\ UNCHANGED script

ScanEnd ==
  /\ Scanning /\ Current.kind \in Ends /\ openStack # <<>>
  /\ blocks' = [blocks EXCEPT ![openStack[Len(openStack)]].end = scanned + 1]
  /\ openStack' = SubSeq(openStack, 1, Len(openStack) - 1)
  /\ scanned' = scanned + 1
  /\ UNCHANGED script

\* Anything else, and a COMMIT or ROLLBACK with no block open.
ScanOther ==
  /\ Scanning /\ Current.kind # "begin"
  /\ Current.kind \in Ends => openStack = <<>>
  /\ scanned' = scanned + 1
  /\ UNCHANGED <<script, blocks, openStack>>

ScanStep == ScanBegin \/ ScanEnd \/ ScanOther
ScanDone == scanned = Len(script)

-----------------------------------------------------------------------------
(* The rules that read the blocks. *)

InBlock(b, i) == b.start < i /\ i < b.end
Typed(type)   == {i \in 1..Len(script) : script[i].type = type}

\* multipleDDLInTxnRule: every DDL but the first of a block.
ExtraDDL(b) == {i \in Typed("DDL") : InBlock(b, i) /\ \E j \in Typed("DDL") : InBlock(b, j) /\ j < i}

\* ddlAndDMLInTxnRule, reported at the BEGIN.
Mixes(b) == /\ \E i \in Typed("DDL") : InBlock(b, i)
            /\ \E i \in Typed("DML") : InBlock(b, i)

BlockSet == {blocks[k] : k \in 1..Len(blocks)}
BlockFindings ==
  {"MULTIPLE_DDL_IN_TXN"} \X (UNION {ExtraDDL(b) : b \in BlockSet})
  \cup ({"DDL_AND_DML_IN_TXN"} \X {b.start : b \in {c \in BlockSet : Mixes(c)}})

Findings == StatementFindings \cup BlockFindings

-----------------------------------------------------------------------------
(* What the session does with the script: a BEGIN while a transaction is    *)
(* open does not open another, so the next COMMIT or ROLLBACK ends it.      *)

Uninterrupted(b, j) == script[b].kind = "begin" /\ \A e \in b..j : script[e].kind \notin Ends
SameTxn(i, j) == \E b \in 1..(i - 1) : Uninterrupted(b, j)

(***************************************************************************)
(* "Multi-rules then over-flag rather than under-flag" (rules.go:582): two *)
(* DDL, or a DDL and a DML, that run in one transaction are reported, even *)
(* when BEGINs are nested or a block is never closed.                      *)
(***************************************************************************)
NeverUnderFlags ==
  ScanDone => \A i, j \in 1..Len(script) : i < j /\ SameTxn(i, j) =>
    /\ i \in Typed("DDL") /\ j \in Typed("DDL") => <<"MULTIPLE_DDL_IN_TXN", j>> \in Findings
    /\ (i \in Typed("DDL") /\ j \in Typed("DML")) \/ (i \in Typed("DML") /\ j \in Typed("DDL"))
         => \E b \in 1..(i - 1) : Uninterrupted(b, j) /\ <<"DDL_AND_DML_IN_TXN", b>> \in Findings

RiskSpec == RiskInit /\ [][ScanStep]_riskVars
=============================================================================
