------------------------------- MODULE Summary -------------------------------
(***************************************************************************)
(* internal/summarize: what one statement reads and writes, told without a *)
(* catalog.  Predicates are left out, and so are join types and rendered   *)
(* conditions.                                                             *)
(***************************************************************************)
EXTENDS SqlTree

CONSTANT Summarized   \* statements

VARIABLES subject,   \* the statement
          walk,      \* nodes still to be visited
          scope,     \* CTE names and aliases met so far
          tables,    \* in the order they were met
          refs,      \* [q, n], likewise
          told,      \* is there a summary?
          summary

summaryVars == <<subject, walk, scope, tables, refs, told, summary>>

NoSummary == [tables |-> <<>>, referenced |-> <<>>, affected |-> <<>>, star |-> FALSE, joins |-> <<>>]

\* withClause
CteNames(n) == IF n.kind \in Statements THEN {n.with[i].name : i \in 1..Len(n.with)} ELSE {}

SummaryInit == /\ subject \in Summarized
               /\ walk = Nodes(subject) /\ scope = CteNames(subject)
               /\ tables = <<>> /\ refs = <<>> /\ told = FALSE /\ summary = NoSummary

\* A slip: the CTEs of the statement itself alone.
OutermostCtes(n) == (IF n.kind \in {"table", "derived", "opaque"} THEN {n.alias} ELSE {}) \ {NoName}

\* The alias is in scope before the table under it is met.
Binding(n) == (CteNames(n) \cup (IF n.kind \in {"table", "derived", "opaque"} THEN {n.alias} ELSE {})) \ {NoName}

AddNew(s, e) == IF Contains(s, e) THEN s ELSE Append(s, e)

\* tableCollector and referenceCollector, at one node.
Visit ==
  /\ walk # <<>>
  /\ LET n     == Head(walk)
         known == scope \cup Binding(n)
     IN /\ scope' = known
        /\ tables' = IF n.kind = "table" /\ n.name \notin known THEN AddNew(tables, n.name) ELSE tables
        /\ refs' = IF n.kind = "ref" THEN AddNew(refs, [q |-> n.q, n |-> n.n]) ELSE refs
  /\ walk' = Tail(walk)
  /\ UNCHANGED <<subject, told, summary>>

SetColumns(s) == [i \in 1..Len(s.set) |-> s.set[i].col]

\* mergeColumns: first seen first
MergeColumns(cols, more) == FoldLeft(AddNew, cols, more)

\* updateTargets and insertAffectedColumns
Affected(s) == CASE s.kind = "update" -> SetColumns(s)
                 [] s.kind = "insert" -> IF s.set = <<>> THEN s.cols
                                         ELSE MergeColumns(<<>>, s.cols \o SetColumns(s))
                 [] s.kind \in {"select", "delete"} -> <<>>

\* What the expression walk cannot reach, all without a qualifier: the columns
\* of ON CONFLICT and those its DO UPDATE sets, ...
ConflictNames(s) == IF s.kind = "insert" THEN s.conflict \o SetColumns(s) ELSE <<>>

\* ... then the affected ones.
Merge(s) == LET names == ConflictNames(s) \o Affected(s)
            IN MergeColumns(refs, [i \in 1..Len(names) |-> [q |-> NoName, n |-> names[i]]])

RECURSIVE HasStar(_)
HasStar(b) ==
  CASE b.kind = "clause" -> \E i \in 1..Len(b.list) : b.list[i].expr.kind = "star"
    [] b.kind = "union"  -> HasStar(b.left.body) \/ HasStar(b.right.body)
    [] b.kind \in {"paren", "values"} -> FALSE

SelectStar(s) == CASE s.kind = "select" -> HasStar(s.body)
                   [] s.kind = "insert" -> HasStar(s.rows.body)
                   [] s.kind \in {"update", "delete"} -> FALSE

\* tableNameOf: nothing for a nested join.
SideName(t) == CASE t.kind = "join" -> NoName
                 [] t.kind = "table" /\ t.alias = NoName -> t.name
                 [] OTHER -> t.alias

\* joinCollector: a join is told after the joins within it.
RECURSIVE JoinsBelow(_)
JoinsBelow(n) ==
  FlattenSeq([i \in 1..Len(Children(n)) |-> JoinsBelow(Children(n)[i])])
  \o (IF n.kind = "join" THEN <<[left |-> SideName(n.left), right |-> SideName(n.right)]>> ELSE <<>>)

\* Of an INSERT only the rows are looked at.
Joins(s) == JoinsBelow(IF s.kind = "insert" THEN s.rows ELSE s)

\* summarizeStatement, when the walks are done.
Conclude ==
  /\ walk = <<>> /\ ~told /\ told' = TRUE
  /\ summary' = [tables |-> tables, referenced |-> Merge(subject), affected |-> Affected(subject),
                 star |-> SelectStar(subject), joins |-> Joins(subject)]
  /\ UNCHANGED <<subject, walk, scope, tables, refs>>

SummaryNext == Visit \/ Conclude

-----------------------------------------------------------------------------
(* By the rules of SQL: with nothing in the catalog, what a statement       *)
(* cannot resolve as a CTE is a table.                                      *)

Empty  == [n \in {} |-> {}]
Scopes == INSTANCE SqlScope WITH Catalog <- Empty

RealTables(s) == {p.n : p \in {p \in Scopes!Problems(s) : p.what = "table"}}

\* Columns named in an expression.
Named(s) == {[q |-> n.q, n |-> n.n] : n \in {m \in NodeSet(s) : m.kind = "ref"}}

\* Columns that decide whether a row of the INSERT is new.
Arbiters(s) == IF s.kind = "insert" THEN ToSet(s.conflict) ELSE {}

\* A name that is an alias or CTE anywhere in the statement hides a table.
Hidden(s) == UNION {Binding(n) : n \in NodeSet(s)}

(***************************************************************************)
(* A caller that guards tables by a summary sees every one: a table in the *)
(* summary is a table and no CTE, one the statement reads or writes is     *)
(* there unless an alias or a CTE has its name, and the columns include    *)
(* all that an expression names, an ON CONFLICT compares or the statement  *)
(* changes, from CTEs, subqueries and unions too (summarize.go, "full      *)
(* read-and-write footprint").                                             *)
(***************************************************************************)
SummaryNamesTables ==
  told =>
    LET found == ToSet(summary.tables)
        cols == ToSet(summary.referenced)
    IN /\ found \subseteq RealTables(subject)
       /\ RealTables(subject) \ found \subseteq Hidden(subject)
       /\ Named(subject) \subseteq cols
       /\ ToSet(summary.affected) \cup Arbiters(subject) \subseteq {c.n : c \in cols}
=============================================================================
