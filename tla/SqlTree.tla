------------------------------- MODULE SqlTree -------------------------------
(***************************************************************************)
(* Syntax trees as the parser hands them over, cut down to what decides    *)
(* where a name is looked up.  A node is a record with a field kind:       *)
(*   statement   select  [with, body, order]                               *)
(*               insert  [with, target, cols, rows, conflict, set, exprs]  *)
(*               update, delete  [with, target, set, from, exprs]          *)
(*   body        clause  [from, list, exprs], union [left, right],         *)
(*               paren [sel], values [exprs]                               *)
(*   table       table [name, alias], derived [body, alias, cols],         *)
(*               join [left, right, on, using], opaque [alias]             *)
(*   expression  ref [q, n], sub [body], call [fn, typed, args], star      *)
(* exprs of a clause: WHERE, GROUP BY, HAVING; of the others: WHERE and    *)
(* RETURNING.  rows: a select.  set: assignments [col, expr], of insert    *)
(* those of DO UPDATE, of delete none.  conflict: columns of ON CONFLICT.  *)
(* list: targets [expr, as].  with: CTEs [name, cols, stmt].  order stands *)
(* for LIMIT and OFFSET too.  call: any operator; typed says whether it    *)
(* takes its arguments.  Everything repeated is a sequence.  Names are     *)
(* case-folded; an absent one is NoName.                                   *)
(***************************************************************************)
EXTENDS SequencesExt

CONSTANT NoName   \* no alias, no qualifier, no label

Statements == {"select", "insert", "update", "delete"}

Exprs(targets) == [i \in 1..Len(targets) |-> targets[i].expr]
Bodies(with)   == [i \in 1..Len(with) |-> with[i].stmt]

\* The children of a node, in the order the parser's walk visits them:
\* expressions before the tables of a FROM clause.
Children(n) ==
  CASE n.kind = "select"  -> Bodies(n.with) \o <<n.body>> \o n.order
    [] n.kind = "insert"  -> Bodies(n.with) \o <<n.target, n.rows>> \o Exprs(n.set) \o n.exprs
    [] n.kind \in {"update", "delete"} ->
         Bodies(n.with) \o <<n.target>> \o Exprs(n.set) \o n.exprs \o n.from
    [] n.kind = "clause"  -> Exprs(n.list) \o n.exprs \o n.from
    [] n.kind = "union"   -> <<n.left, n.right>>
    [] n.kind = "paren"   -> <<n.sel>>
    [] n.kind = "values"  -> n.exprs
    [] n.kind = "derived" -> <<n.body>>
    [] n.kind = "join"    -> <<n.left, n.right>> \o n.on
    [] n.kind = "sub"     -> <<n.body>>
    [] n.kind = "call"    -> n.args
    [] n.kind \in {"table", "opaque", "ref", "star"} -> <<>>

\* Every node, parents first.
RECURSIVE Nodes(_)
Nodes(n) == LET below == Children(n)
            IN <<n>> \o FlattenSeq([i \in 1..Len(below) |-> Nodes(below[i])])

NodeSet(n) == ToSet(Nodes(n))
Has(n, Test(_)) == \E m \in NodeSet(n) : Test(m)
=============================================================================
