------------------------------ MODULE SemChecks ------------------------------
(***************************************************************************)
(* The four checks of semcheck.Run on one statement, for Validate:         *)
(* functions.go and expr.go here, names.go in SemNames, and what SQL says  *)
(* of the names in SqlScope.                                               *)
(***************************************************************************)
EXTENDS Validate, SqlTree

CONSTANT Builtins   \* functions and operators in tree.FunDefs

Names(tables) == INSTANCE SqlScope WITH Catalog <- tables

UnknownCall(n) == n.kind = "call" /\ n.fn \notin Builtins
Variable(n)    == n.kind \in {"ref", "sub", "star"}
IllTyped(n)    == n.kind = "call" /\ ~n.typed

\* checkFunc, on every call the walk comes to.
FunctionErrors(s) ==
  LET calls == SelectSeq(Nodes(s), UnknownCall)
  IN [i \in 1..Len(calls) |-> [code |-> "42883", key |-> <<calls[i].fn>>]]

\* CheckExprTypes: the largest expressions free of names and of unknown
\* functions, in the places a plain visitor reaches: not below a table.
\* 42804 stands for whatever code the type checker gives.
RECURSIVE TypeErrors(_)
TypeErrors(n) ==
  CASE n.kind \in {"table", "derived", "join", "opaque"} \/ Variable(n) -> <<>>
    [] n.kind = "call" /\ ~Has(n, Variable) /\ ~Has(n, UnknownCall) ->
         IF Has(n, IllTyped) THEN <<[code |-> "42804", key |-> <<>>]>> ELSE <<>>
    [] OTHER -> FlattenSeq([i \in 1..Len(Children(n)) |-> TypeErrors(Children(n)[i])])

SemErrors(check, s, tables) ==
  CASE check = "functions" -> FunctionErrors(s)
    [] check = "types"     -> TypeErrors(s)
    [] check = "tables"    -> Names(tables)!TableErrors(s)
    [] check = "columns"   -> Names(tables)!ColumnErrors(s)

-----------------------------------------------------------------------------

SqlNames == INSTANCE SqlScope WITH Catalog <- catalog.tables

Asts     == {Text[i].ast : i \in 1..Len(Text)}
NotFound == {e.key : e \in {x \in errs : x.code \in {"42P01", "42703"}}}

(***************************************************************************)
(* A table or column reported as missing is one that SQL cannot resolve    *)
(* either, and one SQL cannot resolve is reported, whatever subqueries,    *)
(* CTEs, aliases and joins stand around it: names.go, against the rules of *)
(* SQL, apart from what it gives up on (Tolerated) and from CTEs with the  *)
(* name of a table (Shadowing).                                            *)
(***************************************************************************)
NamesMatchSql ==
  Checked /\ catalog.loaded =>
    /\ \A key \in NotFound : \E s \in Asts : SqlNames!Shadowing(s) \/ \E p \in SqlNames!Problems(s) : SqlNames!About(key, p)
    /\ \A s \in Asts : SqlNames!Shadowing(s) \/ \A p \in SqlNames!Problems(s) : SqlNames!Tolerated(s, p) \/ \E key \in NotFound : SqlNames!About(key, p)
=============================================================================
