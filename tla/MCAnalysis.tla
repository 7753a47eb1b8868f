----------------------------- MODULE MCAnalysis -----------------------------
(***************************************************************************)
(* One run of one tool over bounded inputs: prompt stripping on every text *)
(* of up to MaxLines lines, the risk rules on every script of up to        *)
(* MaxScript statements of Kinds, the plan reader on up to MaxRows rows,   *)
(* suggestions, summaries and validation on what is listed below.          *)
(***************************************************************************)
EXTENDS PromptStrip, RiskScan, PlanTree, Suggest, Summary, SemChecks

CONSTANTS MaxLines, MaxScript

VARIABLE tool

-----------------------------------------------------------------------------
(* Texts and scripts. *)

MCLines == {[prompt |-> "none", gap |-> 0, body |-> 2], [prompt |-> "primary", gap |-> 2, body |-> 1],
            [prompt |-> "primary", gap |-> 3, body |-> 2], [prompt |-> "cont", gap |-> 1, body |-> 2]}
MCLast  == MCLines \cup {[l EXCEPT !.body = 0] : l \in MCLines}
MCTexts == {Append(t, l) : t \in UNION {[1..n -> MCLines] : n \in 0..(MaxLines - 1)}, l \in MCLast}

Plain(kind, type) == [kind |-> kind, type |-> type]
Drop    == Plain("drop_table", "DDL")
Delete1 == [kind |-> "delete", type |-> "DML", where |-> FALSE, limit |-> FALSE]
Kinds   == {Plain("begin", "TCL"), Plain("commit", "TCL"), Drop, Delete1}
MCScripts == UNION {[1..n -> Kinds] : n \in 0..MaxScript}

Row(kind, col) == [kind |-> kind, col |-> col]
MCRows == {Row("op", c) : c \in {0, 4, 8}} \cup {Row("kv", c) : c \in {0, 2, 6}}
          \cup {Row(k, 2) : k \in {"bare", "text", "rule"}} \cup {Row("blank", 0)}

-----------------------------------------------------------------------------
(* Words.  Short ones pair by pair; lists with ties and repeats; the        *)
(* lengths at which the limit changes.                                      *)

WordsOf(letters, n) == UNION {[1..k -> letters] : k \in 0..n}
Ask(m, t, l)   == [metric |-> m, token |-> t, names |-> l]
Metrics        == {"name", "keyword", "sample"}
Near   == <<<<97, 98, 99>>, <<98, 97>>, <<97, 99>>, <<98>>, <<97, 98, 97, 98>>, <<97, 98, 99>>>>
Mixed  == <<<<65, 98, 99>>, <<97, 66, 67>>, <<97, 99, 66>>, <<98, 97>>, <<99>>>>
Longer == <<<<98, 97, 97, 98>>, <<97, 98, 97, 98, 97, 97, 99>>, <<98, 98>>, <<97, 97, 98, 97, 98>>>>

MCLookups ==
  {Ask(m, t, <<w>>) : m \in {"name", "keyword"}, t \in WordsOf({97, 98}, 4), w \in WordsOf({97, 98}, 4)}
  \cup {Ask("keyword", t, <<w>>) : t \in WordsOf({97, 98, 99}, 3), w \in WordsOf({97, 98, 99}, 3)}
  \cup {Ask(m, t, Near) : m \in Metrics, t \in WordsOf({65, 97, 98, 99}, 3)}
  \cup {Ask(m, t, Mixed) : m \in Metrics \ {"keyword"}, t \in WordsOf({65, 97, 98, 99}, 3)}
  \cup {Ask(m, <<97>> \o t, Longer) : m \in Metrics, t \in UNION {[1..k -> {97, 98}] : k \in 3..4}}
  \cup {Ask(m, <<97, 98, 97, 98, 97>> \o t, Longer) : m \in Metrics, t \in [1..2 -> {97, 98}]}

-----------------------------------------------------------------------------
(* Statements. *)

Ref(q, n)      == [kind |-> "ref", q |-> q, n |-> n]
Call(fn, ty, a) == [kind |-> "call", fn |-> fn, typed |-> ty, args |-> a]
Star           == [kind |-> "star"]
Target(e)      == [expr |-> e, as |-> NoName]
As(e, a)       == [expr |-> e, as |-> a]
Table(n, a)    == [kind |-> "table", name |-> n, alias |-> a]
Clause(l, f, w) == [kind |-> "clause", list |-> l, from |-> f, exprs |-> w]
Derived(b, a)  == [kind |-> "derived", body |-> b, alias |-> a, cols |-> <<>>]
Join(l, r, on, u) == [kind |-> "join", left |-> l, right |-> r, on |-> on, using |-> u]
Select(w, b, o) == [kind |-> "select", with |-> w, body |-> b, order |-> o]
Cte(n, s)      == [name |-> n, cols |-> <<>>, stmt |-> s]

Users == Table("users", NoName)
Sub(f, w) == [kind |-> "sub", body |-> Clause(<<Target(Ref(NoName, "id"))>>, f, w)]

One(n, from) == Clause(<<Target(Ref(NoName, n))>>, from, <<>>)

Withs == {<<>>, <<Cte("c", Select(<<>>, One("id", <<Users>>), <<>>))>>,
          <<Cte("c", Select(<<>>, One("zip", <<Table("ghost", NoName)>>), <<>>)),
            Cte("ghost", Select(<<>>, One("id", <<Table("c", NoName)>>), <<>>))>>,
          <<Cte("users", Select(<<>>, One("uid", <<Table("orders", NoName)>>), <<>>)),
            Cte("c", Select(<<>>, One("uid", <<Users>>), <<>>))>>}

Froms == {<<>>, <<Users>>, <<Table("users", "t")>>, <<Users, Table("orders", NoName)>>, <<Table("c", NoName)>>,
          <<Table("ghost", NoName)>>, <<Table("ghost", "ghost")>>, <<Table("orders", "users")>>,
          <<Derived(Clause(<<Target(Star)>>, <<Users>>, <<>>), "t")>>,
          <<Derived(One("zip", <<Users>>), "t"), Users>>,
          <<Join(Users, Table("orders", "t"), <<Call("=", TRUE, <<Ref("t", "uid"), Ref("users", "id")>>)>>, <<>>)>>,
          <<Join(Users, Table("orders", NoName), <<>>, <<"id">>)>>,
          <<Join(Users, Table("orders", NoName), <<>>, <<"uid">>)>>,
          <<[kind |-> "opaque", alias |-> "t"]>>}

Lists == {<<Target(Ref(NoName, "id"))>>, <<Target(Ref(NoName, "zip"))>>, <<As(Ref("t", "uid"), "zip")>>,
          <<Target(Star)>>, <<Target(Ref("users", "name")), Target(Ref("orders", "zip"))>>}

Wheres == {<<>>, <<Ref(NoName, "zip")>>, <<Sub(<<Table("orders", NoName)>>, <<Ref(NoName, "name")>>)>>,
           <<Sub(<<Table("users", "t")>>, <<Ref("t", "zip")>>)>>}

Orders == {<<>>, <<Ref(NoName, "zip")>>}

Update(w, t, set, f, e) == [kind |-> "update", with |-> w, target |-> t, set |-> set, from |-> f, exprs |-> e]
Delete(w, t, f, e)      == [kind |-> "delete", with |-> w, target |-> t, set |-> <<>>, from |-> f, exprs |-> e]
Insert(w, t, cols, new, on, set, e) ==
  [kind |-> "insert", with |-> w, target |-> t, cols |-> cols, rows |-> new, conflict |-> on, set |-> set, exprs |-> e]
Set(c, e) == <<[col |-> c, expr |-> e]>>
Values    == [kind |-> "values", exprs |-> <<Call("1", TRUE, <<>>)>>]

Changes ==
  {Update(w, t, Set(c, Ref(q, "uid")), f, e) : w \in Withs, t \in {Users, Table("ghost", "t")}, c \in {"id", "zip"},
     q \in {NoName, "orders"}, f \in {<<>>, <<Table("orders", NoName)>>, <<Table("c", NoName)>>}, e \in Wheres}
  \cup {Delete(w, t, f, <<Ref("t", "id")>> \o e) : w \in Withs, t \in {Users, Table("users", "t")},
          f \in {<<>>, <<Table("orders", "t")>>}, e \in Wheres}
  \cup {Insert(w, t, c, r, d[1], d[2], e) : w \in Withs, t \in {Users, Table("users", "t"), Table("ghost", NoName)},
          c \in {<<>>, <<"id", "uid">>}, r \in {Select(<<>>, b, <<>>) : b \in {Values, One("uid", <<Users>>), One("zip", <<Table("c", NoName)>>)}},
          d \in {<<<<>>, <<>>>>, <<<<"zip">>, <<>>>>, <<<<"id">>, Set("name", Ref("excluded", "zip"))>>,
                 <<<<"uid">>, Set("zip", Ref(NoName, "id"))>>}, e \in {<<>>, <<Ref(NoName, "zip")>>}}

Compounds ==
  LET Half(w, n, t) == Select(w, One(n, <<Table(t, NoName)>>), <<>>)
      Union(l, r)   == [kind |-> "union", left |-> l, right |-> r]
      Bodies2       == {Union(Half(w, n, t), Half(<<>>, "uid", u)) :
                          w \in Withs, n \in {"id", "zip"}, t \in {"users", "c", "ghost"}, u \in {"orders", "c"}}
  IN {Select(<<>>, b, o) : b \in Bodies2 \cup {[kind |-> "paren", sel |-> Select(<<>>, c, <<>>)] : c \in Bodies2}, o \in Orders}
     \cup {Select(<<>>, Clause(<<Target(Ref("t", "zip"))>>, <<Derived(b, "t")>>, <<>>), <<>>) : b \in Bodies2}

Queries == {Select(w, Clause(l, f, e), o) : w \in Withs, l \in Lists, f \in Froms, e \in Wheres, o \in Orders}

-----------------------------------------------------------------------------
(* Requests: every statement above alone; a few in texts, files and pairs. *)

Item(ast)   == [ast |-> ast, features |-> {}]
Sql(stmts)  == [text |-> "sql", prompts |-> FALSE, stmts |-> stmts]
Other(why) == [text |-> why, prompts |-> FALSE, stmts |-> <<>>]
Ddl(defs)   == [text |-> "ddl", defs |-> defs]
NoDdl(why) == [text |-> why, defs |-> <<>>]
CreateTable(n, cols) == [kind |-> "table", name |-> n, cols |-> cols]

UsersDef  == CreateTable("users", {"id", "name"})
OrdersDef == CreateTable("orders", {"id", "uid"})
Base      == <<Ddl(<<UsersDef, OrdersDef>>)>>
Changed   == <<Ddl(<<UsersDef, [kind |-> "other"]>>), NoDdl("empty"), Ddl(<<CreateTable("users", {"id", "zip"})>>)>>

Lone(ast) == [surface |-> "mcp", flag |-> FALSE, target |-> NoTarget,
              pairs |-> <<[schema |-> Base, files |-> <<Sql(<<Item(ast)>>)>>]>>]

Bad == Call("+", FALSE, <<Call("1", TRUE, <<>>)>>)
Samples ==
  {Item(Select(<<>>, One("id", <<Users>>), <<>>)),
   [Item(Select(<<>>, One("zip", <<Users>>), <<>>)) EXCEPT !.features = {254, 262}],
   Item(Select(<<>>, One("uid", <<Table("ghost", NoName)>>), <<>>)),
   Item(Select(<<>>, One("id", <<Users, Table("users", "t")>>), <<>>)),
   Item(Select(<<>>, Clause(<<Target(Call("nope", TRUE, <<Bad, Ref("ghost", "id")>>))>>, <<Users>>, <<>>), <<>>)),
   Item(Select(<<>>, Clause(<<Target(Star)>>, <<Users>>, <<Call("=", TRUE, <<Bad, Sub(<<Users>>, <<>>)>>)>>), <<>>))}
Ok == CHOOSE i \in Samples : i.ast = Select(<<>>, One("id", <<Users>>), <<>>)

SqlFiles   == {Sql(t) : t \in UNION {[1..n -> Samples] : n \in 1..2}}
OtherFiles == {Other("unreadable"), Other("blank"), Other("broken"), [Sql(<<Ok>>) EXCEPT !.prompts = TRUE]}
FewFiles   == {Sql(<<i>>) : i \in Samples} \cup OtherFiles
Schemas    == {<<>>, Base, Changed, <<NoDdl("missing")>>, Base \o <<NoDdl("broken")>>}
Inline     == {s \in Schemas : \A i \in 1..Len(s) : s[i].text # "missing"}
Targets    == {NoTarget, 254, 261}

SingleRequests ==
  {[surface |-> "cli", flag |-> e, target |-> v, pairs |-> <<[schema |-> s, files |-> <<f>>]>>] :
     e \in BOOLEAN, v \in Targets, s \in Schemas, f \in SqlFiles \cup OtherFiles}
  \cup {[surface |-> "mcp", flag |-> FALSE, target |-> NoTarget, pairs |-> <<[schema |-> s, files |-> <<f>>]>>] :
     s \in Inline, f \in SqlFiles \cup (OtherFiles \ {Other("unreadable")})}
ConfigRequests ==
  {[surface |-> "config", flag |-> FALSE, target |-> 254,
    pairs |-> <<[schema |-> s, files |-> <<f, g>>], [schema |-> u, files |-> h]>>] :
     s \in {<<>>, Base, Changed}, u \in Schemas, f \in FewFiles, g \in FewFiles, h \in {<<>>, <<Sql(<<Ok>>)>>}}

MCRequests == {Lone(q) : q \in Queries \cup Changes \cup Compounds} \cup SingleRequests \cup ConfigRequests
MCBuiltins == {"=", "+", "1"}

MCStatements == Queries \cup Changes \cup Compounds

-----------------------------------------------------------------------------

StripIdle    == /\ text = <<>> /\ line = 0 /\ pos = 0 /\ kept = <<>>
                /\ segments = <<>> /\ cumDelta = 0 /\ seenPrimary = FALSE
RiskIdle     == script = <<>> /\ scanned = 0 /\ blocks = <<>> /\ openStack = <<>>
PlanIdle     == rows = <<>> /\ inHeader = FALSE /\ header = NoPairs /\ nodes = <<>> /\ stack = <<>> /\ planErr = FALSE
SuggestIdle  == /\ lookup = <<>> /\ tried = 0 /\ prevPrev = <<>> /\ prev = <<>> /\ row = 0
                /\ hits = <<>> /\ ranked = FALSE /\ offer = <<>>
SummaryIdle  == /\ subject = <<>> /\ walk = <<>> /\ scope = {} /\ tables = <<>> /\ refs = <<>>
                /\ told = FALSE /\ summary = NoSummary
ValidateIdle == /\ request = <<>> /\ pair = 0 /\ file = 0 /\ loads = 0 /\ catalog = NoCatalog /\ phase = "idle"
                /\ stmt = 0 /\ seen = {} /\ errs = {} /\ checks = Unchecked /\ advice = {} /\ results = <<>>

Tools == {"strip", "risk", "plan", "suggest", "summarize", "validate"}

Init == /\ tool \in Tools
        /\ IF tool = "strip"     THEN StripInit    ELSE StripIdle
        /\ IF tool = "risk"      THEN RiskInit     ELSE RiskIdle
        /\ IF tool = "plan"      THEN PlanInit     ELSE PlanIdle
        /\ IF tool = "suggest"   THEN SuggestInit  ELSE SuggestIdle
        /\ IF tool = "summarize" THEN SummaryInit  ELSE SummaryIdle
        /\ IF tool = "validate"  THEN ValidateInit ELSE ValidateIdle

Next ==
  /\ UNCHANGED tool
  /\ \/ tool = "strip"     /\ StripLine    /\ UNCHANGED <<riskVars, planVars, suggestVars, summaryVars, validateVars>>
     \/ tool = "risk"      /\ ScanStep     /\ UNCHANGED <<stripVars, planVars, suggestVars, summaryVars, validateVars>>
     \/ tool = "plan"      /\ ReadRow      /\ UNCHANGED <<stripVars, riskVars, suggestVars, summaryVars, validateVars>>
     \/ tool = "suggest"   /\ SuggestNext  /\ UNCHANGED <<stripVars, riskVars, planVars, summaryVars, validateVars>>
     \/ tool = "summarize" /\ SummaryNext  /\ UNCHANGED <<stripVars, riskVars, planVars, suggestVars, validateVars>>
     \/ tool = "validate"  /\ ValidateNext /\ UNCHANGED <<stripVars, riskVars, planVars, suggestVars, summaryVars>>
=============================================================================
