------------------------------ MODULE SqlScope ------------------------------
(***************************************************************************)
(* The reference for SemNames: what SQL itself can resolve.  A name is     *)
(* looked up from the innermost query outwards; a CTE is visible to the    *)
(* CTEs after it and to its statement; ambiguity is not looked at.         *)
(***************************************************************************)
EXTENDS SemNames

\* env: [ctes, frames]; a frame is the sequence of a FROM clause's sources.
NoEnv == [ctes |-> [n \in {} |-> Opaque], frames |-> <<>>]
Within(env, frame) == [env EXCEPT !.frames = <<frame>> \o @]

Supplies(src, n) == ~src.known \/ n \in src.cols
AliasIn(frame, q) == \E i \in 1..Len(frame) : frame[i].alias = q

Found(env, q, n) ==
  IF q = NoName
    THEN \E i \in 1..Len(env.frames) : \E j \in 1..Len(env.frames[i]) : Supplies(env.frames[i][j], n)
    ELSE \E i \in 1..Len(env.frames) :
           /\ \A k \in 1..(i - 1) : ~AliasIn(env.frames[k], q)
           /\ \E j \in 1..Len(env.frames[i]) :
                env.frames[i][j].alias = q /\ Supplies(env.frames[i][j], n)

Problem(what, q, n) == {[what |-> what, q |-> q, n |-> n]}
Column(env, q, n) == IF Found(env, q, n) THEN {} ELSE Problem("column", q, n)

TableCols(env, name) ==
  IF name \in DOMAIN env.ctes THEN env.ctes[name]
  ELSE IF name \in DOMAIN Catalog THEN Known(Catalog[name]) ELSE Opaque

RECURSIVE Cols(_, _), Sources(_, _), InExpr(_, _), InTable(_, _), InBody(_, _), InStmt(_, _)

Over(P(_, _), env, parts) == UNION {P(env, parts[i]) : i \in 1..Len(parts)}

\* The sources a FROM item brings.
Sources(env, t) ==
  CASE t.kind = "table"   -> <<Source(IF t.alias = NoName THEN t.name ELSE t.alias, TableCols(env, t.name))>>
    [] t.kind = "derived" -> <<Source(t.alias, IF t.cols # <<>> THEN Known(ToSet(t.cols)) ELSE Cols(env, t.body))>>
    [] t.kind = "join"    -> Sources(env, t.left) \o Sources(env, t.right)
    [] t.kind = "opaque"  -> <<Source(t.alias, Opaque)>>

FromFrame(env, from) == FlattenSeq([i \in 1..Len(from) |-> Sources(env, from[i])])

\* The labels of a body's result: a star has those of the sources.
Labels(env, b) ==
  LET frame == FromFrame(env, b.from)
      Of(t) == IF t.as # NoName THEN Known({t.as})
               ELSE IF t.expr.kind = "ref" THEN Known({t.expr.n})
               ELSE IF t.expr.kind = "call" THEN Known({t.expr.fn})
               ELSE IF t.expr.kind = "star" /\ \A i \in 1..Len(frame) : frame[i].known
                 THEN Known(UNION {frame[i].cols : i \in 1..Len(frame)})
               ELSE Opaque
      all == {Of(b.list[i]) : i \in 1..Len(b.list)}
  IN IF Opaque \in all THEN Opaque ELSE Known(UNION {l.cols : l \in all})

WithCtes(env, with) ==
  FoldLeft(LAMBDA e, c : [e EXCEPT !.ctes = (c.name :>
             (IF c.cols # <<>> THEN Known(ToSet(c.cols))
              ELSE IF c.stmt.kind = "select" THEN Cols([e EXCEPT !.frames = <<>>], c.stmt.body)
              ELSE Opaque)) @@ @], env, with)

Cols(env, b) ==
  CASE b.kind = "clause" -> Labels(env, b)
    [] b.kind = "union"  -> Cols(WithCtes(env, b.left.with), b.left.body)
    [] b.kind = "paren"  -> Cols(WithCtes(env, b.sel.with), b.sel.body)
    [] b.kind = "values" -> Opaque

InExpr(env, e) ==
  CASE e.kind = "ref"  -> Column(env, e.q, e.n)
    [] e.kind = "sub"  -> InBody(env, e.body)
    [] e.kind = "call" -> Over(InExpr, env, e.args)
    [] e.kind = "star" -> {}

InTable(env, t) ==
  CASE t.kind = "table"   -> IF t.name \in DOMAIN env.ctes \cup DOMAIN Catalog THEN {}
                             ELSE Problem("table", NoName, t.name)
    [] t.kind = "derived" -> InBody(env, t.body)
    [] t.kind = "opaque"  -> {}
    [] t.kind = "join"    ->
         InTable(env, t.left) \cup InTable(env, t.right)
         \cup Over(InExpr, Within(env, Sources(env, t)), t.on)
         \cup UNION {Problem("using", NoName, t.using[i]) : i \in {k \in 1..Len(t.using) :
                \E side \in {t.left, t.right} : ~Found(Within(NoEnv, Sources(env, side)), NoName, t.using[k])}}

InBody(env, b) ==
  CASE b.kind = "clause" ->
         LET inner == Within(env, FromFrame(env, b.from))
         IN Over(InTable, env, b.from) \cup Over(InExpr, inner, Exprs(b.list)) \cup Over(InExpr, inner, b.exprs)
    [] b.kind = "union"  -> InStmt(env, b.left) \cup InStmt(env, b.right)
    [] b.kind = "paren"  -> InStmt(env, b.sel)
    [] b.kind = "values" -> Over(InExpr, env, b.exprs)

\* ORDER BY also sees the labels of the result.
InOrder(env, b, order) ==
  LET labels == Source(NoName, Cols(env, b))
      inner  == IF b.kind = "clause" THEN Within(env, FromFrame(env, b.from) \o <<labels>>)
                ELSE Within(env, <<labels>>)
  IN Over(InExpr, inner, order)

InDml(env, s) ==
  LET target == FromFrame(NoEnv, <<s.target>>)    \* a table, never a CTE
      inner  == IF s.kind = "insert" THEN Within(env, target)
                ELSE Within(env, target \o FromFrame(env, s.from))
      rhs    == IF s.kind = "insert" THEN Within(inner, <<Source("excluded", Opaque)>>) ELSE inner
      own    == [i \in 1..Len(s.set) |-> s.set[i].col] \o (IF s.kind = "insert" THEN s.cols \o s.conflict ELSE <<>>)
  IN InTable(NoEnv, s.target) \cup Over(InExpr, rhs, Exprs(s.set)) \cup Over(InExpr, inner, s.exprs)
     \cup UNION {Problem("set", NoName, own[i]) : i \in {k \in 1..Len(own) : ~Found(Within(NoEnv, target), NoName, own[k])}}
     \cup (IF s.kind = "insert" THEN InStmt(env, s.rows) ELSE Over(InTable, env, s.from))

InCtes(env, with) ==
  UNION {InStmt([WithCtes(env, SubSeq(with, 1, i - 1)) EXCEPT !.frames = <<>>], with[i].stmt) : i \in 1..Len(with)}

InStmt(outer, s) ==
  LET env == WithCtes(outer, s.with) IN
  InCtes(outer, s.with) \cup
  (IF s.kind = "select" THEN InBody(env, s.body) \cup InOrder(env, s.body, s.order) ELSE InDml(env, s))

Problems(stmt) == InStmt(NoEnv, stmt)

-----------------------------------------------------------------------------
(* Where the code knowingly says less than SQL, or looks names up otherwise. *)

Ctes(s) == UNION {ToSet(n.with) : n \in {m \in NodeSet(s) : m.kind \in Statements}}

\* A source whose columns the checker gives up on stands for any column.
GivesUp(s) ==
  LET names == {c.name : c \in Ctes(s)}
      Stranger(n) == n.kind = "table" /\ n.name \notin DOMAIN Catalog
      Blank(n) == \/ n.kind = "opaque"
                  \/ Stranger(n) /\ n.name \notin names
                  \/ n.kind = "derived" /\ Projected(n.cols, n.body) = Opaque
                  \/ n.kind = "select" /\ n.order # <<>> /\ n.body.kind \in {"union", "paren"}
  IN Has(s, Blank) \/ \E c \in Ctes(s) : CteColumns(c) = Opaque \/ Has(c.stmt, Stranger)

\* The flat set of table names, USING, and labels in scope everywhere.
Tolerated(s, p) ==
  CASE p.what = "table" -> \E n \in NodeSet(s) : p.n \in Binds(n)
    [] p.what = "using" -> TRUE
    [] OTHER -> \/ GivesUp(s)
                \/ \E n \in NodeSet(s) : n.kind = "clause" /\ \E i \in 1..Len(n.list) : n.list[i].as = p.n

\* A CTE body does not see the CTEs before it, but the catalog instead; the
\* target of a change is taken for a CTE of that name.
Shadowing(s) ==
  \E c \in Ctes(s) :
    \/ /\ c.name \in DOMAIN Catalog
       /\ \E d \in Ctes(s) : \E n \in NodeSet(d.stmt) : n.kind = "table" /\ n.name = c.name
    \/ \E n \in NodeSet(s) : n.kind \in Statements \ {"select"} /\ n.target.name = c.name

\* A finding is about a column, or about the qualifier it stands under.
About(key, p) == Last(key) = p.n \/ key = <<p.q>>
=============================================================================
