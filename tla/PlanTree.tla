------------------------------- MODULE PlanTree -------------------------------
(***************************************************************************)
(* internal/conn/explain_parse.go: the rows of EXPLAIN put together again  *)
(* as a tree.  A row is [kind, col], col where its first character other   *)
(* than tree glyphs stands: "op", a bullet with a name, "bare", one        *)
(* without; "kv", a text with a colon, and "text"; "rule", glyphs only;    *)
(* "blank", nothing or a middle dot.  The key of a "kv" is its column:     *)
(* two in one column have the same key.                                    *)
(***************************************************************************)
EXTENDS Integers, Sequences

CONSTANTS Rows, MaxRows

RowKinds == {"op", "bare", "kv", "text", "rule", "blank"}

ASSUME PlanAssumption == /\ Rows \subseteq [kind : RowKinds, col : Nat]
                         /\ MaxRows \in Nat

VARIABLES rows,       \* those read so far
          inHeader,
          header,     \* function: key -> the row it is from
          nodes,      \* [op, parent, attrs]: op its row; parent 0 for a root;
                      \* children of a node in the order of nodes
          stack,      \* [col, node], the open operators
          planErr

planVars == <<rows, inHeader, header, nodes, stack, planErr>>

NoPairs == [k \in {} |-> 0]

PlanInit == /\ rows = <<>> /\ inHeader = TRUE /\ header = NoPairs
            /\ nodes = <<>> /\ stack = <<>> /\ planErr = FALSE

\* A stack entry is a pointer into the slice its node was appended to.
\* Appending a sibling may move that slice; what is written through the old
\* pointer then is lost.
Stale(n) == \E k \in (n + 1)..Len(nodes) : nodes[k].parent = nodes[n].parent

\* A slip: operators of the same column stay open.
PopDeeper(col) == SelectSeq(stack, LAMBDA e : e.col <= col)

\* Pop operators at or deeper than this column.
PopTo(col) ==
  LET open == {k \in 0..Len(stack) : k = 0 \/ stack[k].col < col}
      top  == CHOOSE k \in open : \A j \in open : j <= k
  IN SubSeq(stack, 1, top)

\* ownerByColumn, from the top of the stack; 0 for none.
Owner(col) ==
  LET at == {k \in 1..Len(stack) : stack[k].col = col}
  IN IF at = {} THEN 0 ELSE stack[CHOOSE k \in at : \A j \in at : j <= k].node

Put(pairs, key, r) == [k \in DOMAIN pairs \cup {key} |-> IF k = key THEN r ELSE pairs[k]]

Take(r) == rows' = Append(rows, r)
Here    == Len(rows) + 1

Operator(r) ==
  /\ r.kind = "op"
  /\ LET open   == PopTo(r.col)
         parent == IF open = <<>> THEN 0 ELSE open[Len(open)].node
     IN /\ nodes' = IF parent # 0 /\ Stale(parent) THEN nodes
                    ELSE Append(nodes, [op |-> Here, parent |-> parent, attrs |-> NoPairs])
        /\ stack' = Append(open, [col |-> r.col, node |-> Len(nodes')])
  /\ inHeader' = FALSE
  /\ UNCHANGED <<header, planErr>>

Separator(r) == /\ r.kind = "blank"
                /\ inHeader' = FALSE
                /\ UNCHANGED <<header, nodes, stack, planErr>>

Rule(r) == r.kind = "rule" /\ UNCHANGED <<inHeader, header, nodes, stack, planErr>>

HeaderLine(r) == /\ r.kind = "kv" /\ inHeader
                 /\ header' = Put(header, r.col, Here)
                 /\ UNCHANGED <<inHeader, nodes, stack, planErr>>

Attribute(r) ==
  /\ r.kind = "kv" /\ ~inHeader /\ Owner(r.col - 2) # 0
  /\ LET n == Owner(r.col - 2)
     IN nodes' = IF Stale(n) THEN nodes ELSE [nodes EXCEPT ![n].attrs = Put(@, r.col, Here)]
  /\ UNCHANGED <<inHeader, header, stack, planErr>>

\* Any row that is none of these ends the parse.
Reject(r) == /\ \/ r.kind \in {"bare", "text"}
                \/ r.kind = "kv" /\ ~inHeader /\ Owner(r.col - 2) = 0
             /\ planErr' = TRUE
             /\ UNCHANGED <<inHeader, header, nodes, stack>>

ReadRow == /\ ~planErr /\ Len(rows) < MaxRows
           /\ \E r \in Rows :
                /\ Take(r)
                /\ \/ Operator(r) \/ Separator(r) \/ Rule(r)
                   \/ HeaderLine(r) \/ Attribute(r) \/ Reject(r)

PlanSpec == PlanInit /\ [][ReadRow]_planVars

-----------------------------------------------------------------------------
(* The tree that was drawn. *)

Ops == {i \in 1..Len(rows) : rows[i].kind = "op"}

\* The last of a set of rows; 0 for none.
Latest(S) == IF S = {} THEN 0 ELSE CHOOSE i \in S : \A j \in S : j <= i

\* An operator hangs below the last one above and left of it.
DrawnParent(i) == Latest({j \in Ops : j < i /\ rows[j].col < rows[i].col})

InHeader(i) == \A j \in 1..(i - 1) : rows[j].kind \notin {"op", "blank"}

\* An attribute is of the operator two columns to the left, unless another
\* operator stands between them further out.
DrawnOwner(i) == LET j == Latest({k \in Ops : k < i /\ rows[k].col <= rows[i].col - 2})
                 IN IF j # 0 /\ rows[j].col = rows[i].col - 2 THEN j ELSE 0

Unclassified(i) == \/ rows[i].kind \in {"bare", "text"}
                   \/ rows[i].kind = "kv" /\ ~InHeader(i) /\ DrawnOwner(i) = 0

\* Keys with the last row that has them.
Pairs(S) == [c \in {rows[i].col : i \in S} |-> Latest({i \in S : rows[i].col = c})]
KeyValues(o) == {i \in 1..Len(rows) : rows[i].kind = "kv" /\ ~InHeader(i) /\ DrawnOwner(i) = o}

OpOf(n) == IF n = 0 THEN 0 ELSE nodes[n].op

(***************************************************************************)
(* parseExplainTree returns the tree that was drawn: every operator below  *)
(* the one it is drawn below, every attribute at its operator though open  *)
(* operators further out draw their lines in between, nothing dropped, and *)
(* a row it cannot place is an error ("Unrecognized rows fail loudly").    *)
(* No pointer on the stack is used after the slice it points into moved.   *)
(***************************************************************************)
PlanRebuilt ==
  /\ planErr <=> (\E i \in 1..Len(rows) : Unclassified(i))
  /\ ~planErr =>
       /\ {nodes[n].op : n \in 1..Len(nodes)} = Ops
       /\ \A m, n \in 1..Len(nodes) : m < n => nodes[m].op < nodes[n].op
       /\ \A n \in 1..Len(nodes) : /\ OpOf(nodes[n].parent) = DrawnParent(nodes[n].op)
                                   /\ nodes[n].attrs = Pairs(KeyValues(nodes[n].op))
       /\ header = Pairs({i \in 1..Len(rows) : rows[i].kind = "kv" /\ InHeader(i)})
=============================================================================
