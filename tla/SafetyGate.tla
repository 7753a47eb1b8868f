----------------------------- MODULE SafetyGate -----------------------------
(***************************************************************************)
(* The statement allowlist of internal/safety: what Check admits for each  *)
(* mode and operation, and which stronger mode its envelope suggests.      *)
(*                                                                         *)
(* A statement is what the gate can tell about it, plus what running it    *)
(* would change, which the gate cannot see.  Reasons are left out: the     *)
(* code branches on Violation.Kind alone.                                  *)
(***************************************************************************)
EXTENDS Naturals, Sequences

CONSTANT Stmts   \* parsed statements: records, see Statement

Modes == {"read_only", "safe_write", "full_access"}
Operations == {"explain", "simulate", "execute"}

Statement ==
  [type   : {"DDL", "DML", "DCL", "TCL"},   \* StatementType()
   node   : {"plain",     \* any other AST node
             "select",    \* *tree.Select without a row bound
             "explain",   \* *tree.Explain or *tree.ExplainAnalyze
             "admin",     \* a node isClusterAdminStmt lists
             "tenant"},   \* a node isTenantMgmtDMLStmt lists
   writes : BOOLEAN,      \* tree.CanWriteData
   schema : BOOLEAN,      \* tree.CanModifySchema
   effect : SUBSET {"row", "schema", "cluster"},  \* what running it changes
   blind  : BOOLEAN]      \* an UPDATE or DELETE without WHERE

\* What the code relies on the parser for (the predicate matrix in
\* classifyReadOnly).  Nothing ties "row" to writes: CanWriteData looks at the
\* top-level node only.
ASSUME ParserFacts ==
  \A s \in Stmts :
    /\ s \in Statement
    /\ s.node = "explain" => s.type = "DML" /\ ~s.writes /\ ~s.schema
    /\ s.node \in {"select", "tenant"} => s.type = "DML"
    /\ s.node = "admin" => s.type = "DCL"
    /\ "schema" \in s.effect => s.schema \/ s.node = "explain"
    /\ "cluster" \in s.effect => s.type = "DCL" \/ s.node \in {"tenant", "explain"}

\* The kinds of violation, most specific first: the order of the checks.
Kinds == <<"other", "unimplemented", "nested_explain", "cluster_admin",
           "privilege", "schema", "write", "bad_op_input">>
KindSet == {Kinds[i] : i \in 1..Len(Kinds)}

\* classifyDCL, isClusterAdminStmt, isTenantMgmtDMLStmt and the predicates.
Matches(kind, s) ==
  CASE kind = "nested_explain" -> s.node = "explain"
    [] kind = "cluster_admin"  -> s.node = "tenant" \/ (s.node = "admin" /\ s.type = "DCL")
    [] kind = "privilege"      -> s.type = "DCL" /\ s.node # "admin"
    [] kind = "schema"         -> s.schema
    [] kind = "write"          -> s.writes
    [] kind = "bad_op_input"   -> s.type \notin {"DDL", "DML"}
    [] kind \in {"other", "unimplemented"} -> TRUE

\* The checks of classifyReadOnly and classifySafeWrite*, without their order.
ReadOnlyChecks  == {"nested_explain", "cluster_admin", "privilege", "schema", "write"}
SafeWriteChecks == {"nested_explain", "cluster_admin", "privilege"}

\* Variant of Forbidden: read_only does not look for nested EXPLAIN.
ForbiddenAnyExplain(mode, op) ==
  CASE mode = "read_only" /\ op = "simulate"  -> {"bad_op_input"}
    [] mode = "read_only" /\ op # "simulate"  -> ReadOnlyChecks \ {"nested_explain"}
    [] mode = "safe_write" /\ op = "execute"  -> SafeWriteChecks \cup {"schema"}
    [] mode = "safe_write" /\ op = "explain"  -> SafeWriteChecks
    [] mode = "full_access" /\ op # "simulate" -> {}
    [] mode \in {"safe_write", "full_access"} /\ op = "simulate" -> {"unimplemented"}
    [] OTHER -> {"other"}

\* Variant of Forbidden: safe_write executes schema changes.
ForbiddenLaxSchema(mode, op) ==
  CASE mode = "read_only" /\ op = "simulate"  -> {"nested_explain", "bad_op_input"}
    [] mode = "read_only" /\ op # "simulate"  -> ReadOnlyChecks
    [] mode = "safe_write" /\ op # "simulate" -> SafeWriteChecks
    [] mode = "full_access" /\ op # "simulate" -> {}
    [] mode \in {"safe_write", "full_access"} /\ op = "simulate" -> {"unimplemented"}
    [] OTHER -> {"other"}

\* classify: the checks that apply to an operation in a mode.
Forbidden(mode, op) ==
  CASE mode = "read_only" /\ op = "simulate"  -> {"nested_explain", "bad_op_input"}
    [] mode = "read_only" /\ op # "simulate"  -> ReadOnlyChecks
    [] mode = "safe_write" /\ op = "execute"  -> SafeWriteChecks \cup {"schema"}
    [] mode = "safe_write" /\ op = "explain"  -> SafeWriteChecks
    [] mode = "full_access" /\ op # "simulate" -> {}
    [] mode \in {"safe_write", "full_access"} /\ op = "simulate" -> {"unimplemented"}
    [] OTHER -> {"other"}

Permits(mode, op, s) == \A kind \in Forbidden(mode, op) : ~Matches(kind, s)

\* The kind of the violation for one statement, or "none".
Classify(mode, op, s) ==
  LET hits == {i \in 1..Len(Kinds) :
                 Kinds[i] \in Forbidden(mode, op) /\ Matches(Kinds[i], s)}
  IN IF hits = {} THEN "none"
     ELSE Kinds[CHOOSE i \in hits : \A j \in hits : i <= j]

\* CheckParsed: the first violation of a batch; an empty batch is one.
CheckParsed(mode, op, batch) ==
  LET bad == {i \in 1..Len(batch) : ~Permits(mode, op, batch[i])}
  IN IF batch = <<>> THEN "other"
     ELSE IF bad = {} THEN "none"
     ELSE Classify(mode, op, batch[CHOOSE i \in bad : \A j \in bad : i <= j])

Admits(mode, op, batch) == CheckParsed(mode, op, batch) = "none"

\* MaybeInjectLimitParsed as execute uses it: a LIMIT of maxRows is added.
Injects(mode, maxRows, batch) ==
  mode = "read_only" /\ maxRows > 0 /\ Len(batch) = 1 /\ batch[1].node = "select"

-----------------------------------------------------------------------------
(* The envelope's suggestion (escalationTargetFor). *)

Strength(mode) == CASE mode = "read_only" -> 1
                    [] mode = "safe_write" -> 2
                    [] mode = "full_access" -> 3

Escalates == {"write", "schema", "privilege", "cluster_admin"}

\* Variant of EscalationTarget: schema changes always go to full_access.
EscalationSchemaFull(mode, op, kind) ==
  CASE op = "simulate" \/ kind \notin Escalates -> "none"
    [] op # "simulate" /\ mode = "read_only" /\ kind = "write" -> "safe_write"
    [] op # "simulate" /\ mode \in {"read_only", "safe_write"}
       /\ kind \in Escalates \ {"write"} -> "full_access"
    [] OTHER -> "none"

\* Variant of EscalationTarget: always one mode up.
EscalationOneStep(mode, op, kind) ==
  CASE op = "simulate" \/ kind \notin Escalates -> "none"
    [] op # "simulate" /\ kind \in Escalates /\ mode = "read_only"  -> "safe_write"
    [] op # "simulate" /\ kind \in Escalates /\ mode = "safe_write" -> "full_access"
    [] OTHER -> "none"

\* The mode a retry needs for a violation to go away, or "none".
EscalationTarget(mode, op, kind) ==
  LET toSafeWrite  == \/ mode = "read_only" /\ kind = "write"
                      \/ mode = "read_only" /\ kind = "schema" /\ op = "explain"
      toFullAccess == \/ mode = "read_only" /\ kind \in {"privilege", "cluster_admin"}
                      \/ mode = "read_only" /\ kind = "schema" /\ op = "execute"
                      \/ mode = "safe_write" /\ kind \in Escalates \ {"write"}
  IN IF op = "simulate" \/ kind \notin Escalates THEN "none"
     ELSE IF toSafeWrite THEN "safe_write"
     ELSE IF toFullAccess THEN "full_access" ELSE "none"
=============================================================================
