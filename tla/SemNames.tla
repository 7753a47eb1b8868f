------------------------------ MODULE SemNames ------------------------------
(***************************************************************************)
(* internal/semcheck/names.go: which tables and columns a statement names  *)
(* that neither the catalog nor the statement itself supplies.             *)
(***************************************************************************)
EXTENDS SqlTree

CONSTANT Catalog   \* function: table -> set of its columns

Known(cols) == [known |-> TRUE,  cols |-> cols]
Opaque      == [known |-> FALSE, cols |-> {}]      \* columns == nil

\* What a check reports: SQLSTATE and the key by which repeats collapse.
NoTable(n)     == <<[code |-> "42P01", key |-> <<n>>]>>
Unknown(key)   == <<[code |-> "42703", key |-> key]>>
Ambiguous(key) == <<[code |-> "42702", key |-> key]>>

-----------------------------------------------------------------------------
(* CheckTableNames: one flat set of names per statement. *)

\* What a node puts into that set, when the walk comes to it.
Binds(n) ==
  (CASE n.kind \in Statements -> {n.with[i].name : i \in 1..Len(n.with)}
     [] n.kind \in {"table", "derived", "opaque"} -> {n.alias}
     [] OTHER -> {}) \ {NoName}

\* tableNameVisitor: the alias is bound before the name is looked up.
VisitTable(w, n) ==
  LET bound  == w.bound \cup Binds(n)
      missed == n.kind = "table" /\ n.name \notin bound \cup DOMAIN Catalog
  IN [bound |-> bound, errs |-> IF missed THEN w.errs \o NoTable(n.name) ELSE w.errs]

TableErrors(stmt) == FoldLeft(VisitTable, [bound |-> {}, errs |-> <<>>], Nodes(stmt)).errs

-----------------------------------------------------------------------------
(* CheckColumnNames: frames, innermost first; a subquery pushes one. *)

Source(alias, columns) == [alias |-> alias, known |-> columns.known, cols |-> columns.cols]

NoCtes   == [n \in {} |-> Opaque]
NewFrame == [sources |-> <<>>, ctes |-> NoCtes, aliases |-> {}]
Push(sc) == <<NewFrame>> \o sc

AddSource(sc, src) == <<[sc[1] EXCEPT !.sources = Append(@, src)]>> \o Tail(sc)

\* A slip: only the innermost query is searched.
InnermostOnly(sc) == sc[1].sources

\* Sources of every frame, innermost first.
InScope(sc) == FlattenSeq([i \in 1..Len(sc) |-> sc[i].sources])

HasUnknownSource(sc) == \E i \in 1..Len(InScope(sc)) : ~InScope(sc)[i].known
Matching(sc, n) == {i \in 1..Len(InScope(sc)) : n \in InScope(sc)[i].cols}
IsSelectAlias(sc, n) == \E i \in 1..Len(sc) : n \in sc[i].aliases

\* The first source of that name, from the innermost frame outwards.
ResolveQualified(sc, q, n) ==
  LET named == {i \in 1..Len(InScope(sc)) : InScope(sc)[i].alias = q}
      src   == InScope(sc)[CHOOSE i \in named : \A j \in named : i <= j]
  IN IF named = {} THEN Unknown(<<q>>)
     ELSE IF ~src.known \/ n \in src.cols THEN <<>>
     ELSE Unknown(<<q, n>>)

\* Matches are counted over all frames.
ResolveUnqualified(sc, n) ==
  LET hits == Cardinality(Matching(sc, n)) IN
  IF IsSelectAlias(sc, n) \/ hits = 1 THEN <<>>
  ELSE IF hits >= 2 THEN Ambiguous(<<NoName, n>>)
  ELSE IF HasUnknownSource(sc) THEN <<>>
  ELSE Unknown(<<NoName, n>>)

Resolve(sc, q, n) ==
  IF q = NoName THEN ResolveUnqualified(sc, n) ELSE ResolveQualified(sc, q, n)

\* JOIN USING: somewhere is enough.
ResolveUsing(sc, n) ==
  IF Matching(sc, n) # {} \/ HasUnknownSource(sc) THEN <<>> ELSE Unknown(<<NoName, n>>)

\* columnNameOf and projectionOf: all names or none.
Label(t) == IF t.as # NoName THEN t.as
            ELSE IF t.expr.kind = "ref" THEN t.expr.n ELSE NoName

RECURSIVE Projection(_)
Projection(b) ==
  CASE b.kind = "clause" /\ (\E i \in 1..Len(b.list) : Label(b.list[i]) = NoName) -> Opaque
    [] b.kind = "clause" /\ (\A i \in 1..Len(b.list) : Label(b.list[i]) # NoName) ->
         Known({Label(b.list[i]) : i \in 1..Len(b.list)})
    [] b.kind = "union"  -> Projection(b.left.body)
    [] b.kind = "paren"  -> Projection(b.sel.body)
    [] b.kind = "values" -> Opaque

\* projectedColumns: an explicit column list wins.
Projected(cols, b) == IF cols # <<>> THEN Known(ToSet(cols)) ELSE Projection(b)
CteColumns(cte) ==
  IF cte.cols # <<>> THEN Known(ToSet(cte.cols))
  ELSE IF cte.stmt.kind = "select" THEN Projection(cte.stmt.body) ELSE Opaque

\* sourceForName: the nearest CTE of that name, then the catalog.
SourceForName(sc, alias, name) ==
  LET named == {i \in 1..Len(sc) : name \in DOMAIN sc[i].ctes} IN
  Source(IF alias = NoName THEN name ELSE alias,
         IF named # {} THEN sc[CHOOSE i \in named : \A j \in named : i <= j].ctes[name]
         ELSE IF name \in DOMAIN Catalog THEN Known(Catalog[name])
         ELSE Opaque)

RECURSIVE CheckE(_, _), CheckBody(_, _), AddTable(_, _), CheckStatement(_, _), PushCTEs(_, _)

\* A step of the walk returns the scope it leaves and what it reports.
At(sc, errs) == [sc |-> sc, errs |-> errs]

CheckE(sc, e) ==
  CASE e.kind = "ref"  -> Resolve(sc, e.q, e.n)
    [] e.kind = "sub"  -> CheckBody(Push(sc), e.body).errs
    [] e.kind = "call" -> FlattenSeq([i \in 1..Len(e.args) |-> CheckE(sc, e.args[i])])
    [] e.kind = "star" -> <<>>

CheckExprs(sc, exprs) == FlattenSeq([i \in 1..Len(exprs) |-> CheckE(sc, exprs[i])])

\* addTableExpr; a derived table sees the enclosing query, not its siblings.
AddTable(a, t) ==
  CASE t.kind = "table"   -> At(AddSource(a.sc, SourceForName(a.sc, t.alias, t.name)), a.errs)
    [] t.kind = "derived" -> At(AddSource(a.sc, Source(t.alias, Projected(t.cols, t.body))),
                                a.errs \o CheckBody(Push(Tail(a.sc)), t.body).errs)
    [] t.kind = "opaque"  -> At(AddSource(a.sc, Source(t.alias, Opaque)), a.errs)
    [] t.kind = "join"    ->
         LET both == AddTable(AddTable(a, t.left), t.right) IN
         At(both.sc, both.errs \o CheckExprs(both.sc, t.on)
              \o FlattenSeq([i \in 1..Len(t.using) |-> ResolveUsing(both.sc, t.using[i])]))

\* checkSelectStatement and checkSelectClause
CheckBody(sc, b) ==
  CASE b.kind = "clause" ->
         LET from    == FoldLeft(AddTable, At(sc, <<>>), b.from)
             aliases == {b.list[i].as : i \in 1..Len(b.list)} \ {NoName}
             inner   == <<[from.sc[1] EXCEPT !.aliases = @ \cup aliases]>> \o Tail(from.sc)
         IN At(inner, from.errs \o CheckExprs(inner, [i \in 1..Len(b.list) |-> b.list[i].expr])
                        \o CheckExprs(inner, b.exprs))
    [] b.kind = "union"  -> At(AddSource(sc, Source(NoName, Opaque)),
                               CheckStatement(Tail(sc), b.left) \o CheckStatement(Tail(sc), b.right))
    [] b.kind = "paren"  -> At(AddSource(sc, Source(NoName, Opaque)), CheckStatement(Tail(sc), b.sel))
    [] b.kind = "values" -> At(sc, CheckExprs(sc, b.exprs))

\* Every body is checked on its own, with no parent.
PushCTEs(parent, with) ==
  IF with = <<>> THEN At(parent, <<>>)
  ELSE At(<<[NewFrame EXCEPT !.ctes =
               [n \in {with[i].name : i \in 1..Len(with)} |->
                  CteColumns(with[CHOOSE i \in 1..Len(with) : /\ with[i].name = n
                                    /\ \A j \in (i + 1)..Len(with) : with[j].name # n])]]>> \o parent,
          FlattenSeq([i \in 1..Len(with) |-> CheckStatement(<<>>, with[i].stmt)]))

\* checkInsert with walkOnConflict: the columns of ON CONFLICT and the SET
\* targets belong to the target table.
CheckInsert(p, s) ==
  LET target == SourceForName(p.sc, s.target.alias, s.target.name)
      sc     == AddSource(Push(p.sc), target)
      excl   == AddSource(Push(sc), Source("excluded", Opaque))
      Own(n) == IF target.known THEN ResolveQualified(sc, target.alias, n) ELSE <<>>
  IN FlattenSeq([i \in 1..Len(s.cols) |-> Own(s.cols[i])])
     \o CheckStatement(p.sc, s.rows)
     \o FlattenSeq([i \in 1..Len(s.conflict) |-> Own(s.conflict[i])])
     \o FlattenSeq([i \in 1..Len(s.set) |-> Own(s.set[i].col) \o CheckE(excl, s.set[i].expr)])
     \o CheckExprs(sc, s.exprs)

\* checkUpdate and checkDelete: SET targets are looked up like any other name.
CheckUpdate(p, s) ==
  LET from == FoldLeft(AddTable,
                At(AddSource(Push(p.sc), SourceForName(p.sc, s.target.alias, s.target.name)), <<>>), s.from)
  IN from.errs
     \o FlattenSeq([i \in 1..Len(s.set) |-> ResolveUnqualified(from.sc, s.set[i].col) \o CheckE(from.sc, s.set[i].expr)])
     \o CheckExprs(from.sc, s.exprs)

\* checkStatement and checkSelect; ORDER BY sees the body's scope.
CheckStatement(parent, s) ==
  LET p == PushCTEs(parent, s.with) IN
  p.errs \o
  CASE s.kind = "select" -> LET b == CheckBody(Push(p.sc), s.body)
                            IN b.errs \o CheckExprs(b.sc, s.order)
    [] s.kind = "insert" -> CheckInsert(p, s)
    [] s.kind \in {"update", "delete"} -> CheckUpdate(p, s)

ColumnErrors(stmt) == CheckStatement(<<>>, stmt)
=============================================================================
