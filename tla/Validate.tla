------------------------------ MODULE Validate ------------------------------
(***************************************************************************)
(* The validate command and the validate_sql tool: input, prompts, parser, *)
(* schema, then the four checks of semcheck.Run over the statements of one *)
(* text, or (config) of every query file of every pair of crdb-sql.yaml.   *)
(*                                                                         *)
(* A request is [surface, flag, target, pairs]; a pair [schema, files];    *)
(* schema a sequence of sources [text, defs]; a file [text, prompts,       *)
(* stmts]; a statement [ast, features], ast as in SqlTree and features the *)
(* versions that introduced what it uses.  The single-text surfaces have   *)
(* one pair with one file.  flag: the text came with -e.                   *)
(***************************************************************************)
EXTENDS Integers, Sequences

CONSTANTS Requests, NoTarget,
          ErrorsOf(_, _, _)  \* findings of a check on a tree, given the tables

VARIABLES request,
          pair, file,       \* which pair and file it is at
          loads,            \* sources of the schema that are loaded
          catalog,          \* [loaded, tables, warnings] of this pair
          phase,            \* what comes next
          stmt,             \* statements passed, of the source or by the check
          seen,             \* keys the current check has reported
          errs,             \* findings of this file: [check, code, key]
          checks,           \* validateresult.Checks
          advice,           \* warnings
          results           \* config: valid per file; else the one verdict

validateVars == <<request, pair, file, loads, catalog, phase, stmt, seen, errs, checks, advice, results>>

Single == request.surface # "config"
Pair   == request.pairs[pair]
File   == Pair.files[file]
Text   == File.stmts

NoCatalog == [loaded |-> FALSE, tables |-> [n \in {} |-> {}], warnings |-> {}]
Unchecked == [syntax |-> "", functions |-> "", types |-> "", names |-> ""]

ValidateInit ==
  /\ request \in Requests
  /\ pair = 1 /\ file = 1 /\ loads = 0
  /\ catalog = NoCatalog
  /\ phase = IF Single THEN "read" ELSE "schema"
  /\ stmt = 0 /\ seen = {} /\ errs = {} /\ checks = Unchecked /\ advice = {} /\ results = <<>>

Abort ==
  /\ phase' = "aborted"
  /\ UNCHANGED <<request, pair, file, loads, catalog, stmt, seen, errs, checks, advice, results>>

-----------------------------------------------------------------------------
(* catalog.Load: source by source, statement by statement. *)

Loading      == phase = "schema" /\ loads < Len(Pair.schema)
SchemaSource == Pair.schema[loads + 1]

\* A CREATE TABLE replaces an earlier one of that name; the rest is skipped.
Define(c, d) ==
  IF d.kind # "table" THEN [c EXCEPT !.warnings = @ \cup {"skipped"}]
  ELSE [c EXCEPT !.tables = [n \in DOMAIN @ \cup {d.name} |-> IF n = d.name THEN d.cols ELSE @[n]],
                 !.warnings = IF d.name \in DOMAIN c.tables THEN @ \cup {"redefined"} ELSE @]

LoadDefinition ==
  /\ Loading /\ SchemaSource.text = "ddl" /\ stmt < Len(SchemaSource.defs)
  /\ catalog' = Define(catalog, SchemaSource.defs[stmt + 1])
  /\ stmt' = stmt + 1
  /\ UNCHANGED <<request, pair, file, loads, phase, seen, errs, checks, advice, results>>

\* A source without statements is noted.
NextSource ==
  /\ Loading
  /\ \/ SchemaSource.text = "ddl" /\ stmt = Len(SchemaSource.defs) /\ UNCHANGED catalog
     \/ SchemaSource.text = "empty" /\ catalog' = [catalog EXCEPT !.warnings = @ \cup {"empty"}]
  /\ loads' = loads + 1 /\ stmt' = 0
  /\ UNCHANGED <<request, pair, file, phase, seen, errs, checks, advice, results>>

\* An unreadable or broken source ends the run.
SchemaError == Loading /\ SchemaSource.text \in {"missing", "broken"} /\ Abort

\* No sources: a note that names go unchecked, on the single-text surfaces.
SchemaLoaded ==
  /\ phase = "schema" /\ loads = Len(Pair.schema)
  /\ catalog' = [catalog EXCEPT !.loaded = (Pair.schema # <<>>)]
  /\ advice' = advice \cup (IF Pair.schema = <<>> /\ Single THEN {"capability_required"} ELSE catalog.warnings)
  /\ phase' = IF Single THEN "functions" ELSE IF Pair.files = <<>> THEN "nofiles" ELSE "read"
  /\ UNCHANGED <<request, pair, file, loads, stmt, seen, errs, checks, results>>

-----------------------------------------------------------------------------
(* Input and parser. *)

\* A slip: one map for all checks and texts.
SharedSeen == seen

\* The maps of the walkers: a key is reported once per check and text.
FreshSeen == {}

\* ReadSQL: only a text given with -e may be blank.
NoInput == \/ request.surface = "cli" /\ File.text = "unreadable"
           \/ request.surface = "cli" /\ File.text = "blank" /\ ~request.flag
           \/ request.surface = "mcp" /\ File.text = "blank"
           \/ request.surface = "mcp" /\ \E i \in 1..Len(Pair.schema) : Pair.schema[i].text = "empty"

InputError == phase = "read" /\ Single /\ NoInput /\ Abort

Answer(valid) == results' = Append(results, valid)

\* validateQueryFile: an empty query file is no error.
ReadConfigFile ==
  /\ phase = "read" /\ ~Single /\ File.text \in {"unreadable", "blank"}
  /\ errs' = IF File.text = "unreadable" THEN {[check |-> "input", code |-> "io_error", key |-> <<>>]} ELSE {}
  /\ Answer(File.text = "blank")
  /\ phase' = "answered"
  /\ UNCHANGED <<request, pair, file, loads, catalog, stmt, seen, checks, advice>>

\* preprocessSQL strips prompts, except from the query files of a config.
Unparsable == File.text = "broken" \/ (File.prompts /\ ~Single)

Advise == IF /\ request.target # NoTarget
             /\ \E i \in 1..Len(Text) : \E f \in Text[i].features : request.target < f
            THEN {"feature_not_yet_introduced"} ELSE {}

Read ==
  /\ phase = "read"
  /\ ~(Single /\ NoInput)
  /\ ~(~Single /\ File.text \in {"unreadable", "blank"})
  /\ IF Unparsable
       THEN /\ errs' = {[check |-> "syntax", code |-> "42601", key |-> <<>>]}
            /\ checks' = [syntax |-> "failed", functions |-> "skipped", types |-> "skipped", names |-> "skipped"]
            /\ Answer(FALSE)
            /\ phase' = "answered"
            /\ UNCHANGED advice
       ELSE /\ errs' = {}
            /\ checks' = [Unchecked EXCEPT !.syntax = "ok"]
            /\ advice' = advice \cup Advise
            /\ phase' = IF Single THEN "schema" ELSE "functions"
            /\ UNCHANGED results
  /\ stmt' = 0 /\ seen' = FreshSeen
  /\ UNCHANGED <<request, pair, file, loads, catalog>>

-----------------------------------------------------------------------------
(* semcheck.Run: one pass over the statements for each check. *)

\* A key already reported, or earlier in this statement, is left out; types
\* have no map.
Reported(found) ==
  {[check |-> phase, code |-> found[i].code, key |-> found[i].key] : i \in {k \in 1..Len(found) :
     \/ phase = "types"
     \/ /\ found[k].key \notin seen
        /\ \A j \in 1..(k - 1) : found[j].key # found[k].key}}

Keys(found) == {found[i].key : i \in 1..Len(found)}

CheckStatementStep ==
  /\ phase \in {"functions", "types", "tables", "columns"} /\ stmt < Len(Text)
  /\ LET found == ErrorsOf(phase, Text[stmt + 1].ast, catalog.tables)
     IN errs' = errs \cup Reported(found) /\ seen' = seen \cup Keys(found)
  /\ stmt' = stmt + 1
  /\ UNCHANGED <<request, pair, file, loads, catalog, phase, checks, advice, results>>

\* Later checks run whatever the earlier ones found; names need a catalog.
NextCheck ==
  /\ phase \in {"functions", "types", "tables", "columns"} /\ stmt = Len(Text)
  /\ phase' = CASE phase = "functions" -> "types"
                [] phase = "types"     -> IF catalog.loaded THEN "tables" ELSE "verdict"
                [] phase = "tables"    -> "columns"
                [] phase = "columns"   -> "verdict"
  /\ stmt' = 0 /\ seen' = FreshSeen
  /\ UNCHANGED <<request, pair, file, loads, catalog, errs, checks, advice, results>>

\* A status goes by which checks returned errors, whatever codes those carry.
Outcome(which) == IF \E e \in errs : e.check \in which THEN "failed" ELSE "ok"

Verdict ==
  /\ phase = "verdict"
  /\ checks' = [syntax |-> "ok", functions |-> Outcome({"functions"}), types |-> Outcome({"types"}),
                names |-> IF catalog.loaded THEN Outcome({"tables", "columns"}) ELSE "skipped"]
  /\ Answer(errs = {})
  /\ phase' = "answered"
  /\ UNCHANGED <<request, pair, file, loads, catalog, stmt, seen, errs, advice>>

-----------------------------------------------------------------------------
(* runValidateConfig: the next file, the next pair. *)

NextFile ==
  /\ phase = "answered" /\ file < Len(Pair.files)
  /\ file' = file + 1
  /\ phase' = "read"
  /\ UNCHANGED <<request, pair, loads, catalog, stmt, seen, errs, checks, advice, results>>

LastFile == phase = "nofiles" \/ (phase = "answered" /\ file = Len(Pair.files))

NextPair ==
  /\ LastFile /\ pair < Len(request.pairs)
  /\ pair' = pair + 1 /\ file' = 1
  /\ catalog' = NoCatalog /\ loads' = 0 /\ stmt' = 0
  /\ phase' = "schema"
  /\ UNCHANGED <<request, seen, errs, checks, advice, results>>

Finish ==
  /\ LastFile /\ pair = Len(request.pairs)
  /\ phase' = "done"
  /\ UNCHANGED <<request, pair, file, loads, catalog, stmt, seen, errs, checks, advice, results>>

ValidateNext ==
  \/ InputError \/ ReadConfigFile \/ Read
  \/ LoadDefinition \/ NextSource \/ SchemaError \/ SchemaLoaded
  \/ CheckStatementStep \/ NextCheck \/ Verdict \/ NextFile \/ NextPair \/ Finish

-----------------------------------------------------------------------------
(* What a verdict owes to the text it is about. *)

Answered == phase = "answered"
Checked  == Answered /\ File.text = "sql" /\ ~Unparsable

\* The tables of a schema, the last definition of each.
Places(schema)   == UNION {{<<i, j>> : j \in 1..Len(schema[i].defs)} : i \in 1..Len(schema)}
DefAt(schema, p) == schema[p[1]].defs[p[2]]
Creates(schema)  == {p \in Places(schema) : DefAt(schema, p).kind = "table"}
After(p, q)      == p[1] > q[1] \/ (p[1] = q[1] /\ p[2] > q[2])
TablesAt(schema, places) ==
  [n \in {DefAt(schema, p).name : p \in places} |->
     LET named == {p \in places : DefAt(schema, p).name = n}
     IN DefAt(schema, CHOOSE p \in named : \A q \in named : ~After(q, p)).cols]
TablesOf(schema) == TablesAt(schema, Creates(schema))

ChecksOf(schema) == {"functions", "types"} \cup (IF schema = <<>> THEN {} ELSE {"tables", "columns"})

\* A statement's findings, looked at on its own, and what the run told.
Own(check, s) == Keys(ErrorsOf(check, s.ast, TablesOf(Pair.schema)))
Alone(check)  == UNION {Own(check, Text[i]) : i \in 1..Len(Text)}
Told(check)   == {e.key : e \in {x \in errs : x.check = check}}

Passed(which) == IF \E check \in which : Alone(check) # {} THEN "failed" ELSE "ok"

(***************************************************************************)
(* "A single invocation surfaces every diagnostic" (runner.go:36): a text  *)
(* is reported with what each of its statements would be reported with     *)
(* alone, against the schema of its own pair (the last definition of each  *)
(* table), whatever was checked before it in the same run; and the status  *)
(* of each check and the verdict say the same.                             *)
(***************************************************************************)
VerdictIsOwn ==
  Checked =>
    /\ catalog.tables = TablesOf(Pair.schema)
    /\ \A check \in ChecksOf(Pair.schema) : Told(check) = Alone(check)
    /\ checks = [syntax |-> "ok", functions |-> Passed({"functions"}), types |-> Passed({"types"}),
                 names |-> IF Pair.schema = <<>> THEN "skipped" ELSE Passed({"tables", "columns"})]
    /\ results[Len(results)] = (\A check \in ChecksOf(Pair.schema) : Alone(check) = {})

-----------------------------------------------------------------------------
(* What a request is, and what the checks may find. *)

Listed(s) == s \in Seq({s[i] : i \in DOMAIN s})

\* A configuration has pairs; the other surfaces have one text.
RequestsAssumption ==
  \A r \in Requests :
    /\ Listed(r.pairs) /\ r.pairs # <<>>
    /\ \A p \in 1..Len(r.pairs) :
         /\ Listed(r.pairs[p].schema) /\ Listed(r.pairs[p].files)
         /\ \A i \in 1..Len(r.pairs[p].schema) : Listed(r.pairs[p].schema[i].defs)
         /\ \A i \in 1..Len(r.pairs[p].schema) : r.pairs[p].schema[i].text # "ddl" => r.pairs[p].schema[i].defs = <<>>
         /\ \A f \in 1..Len(r.pairs[p].files) : Listed(r.pairs[p].files[f].stmts)
    /\ r.surface # "config" => Len(r.pairs) = 1 /\ Len(r.pairs[1].files) = 1
ASSUME RequestsAssumption

\* A check returns a list of findings.
FindingsAssumption ==
  \A r \in Requests : \A p \in 1..Len(r.pairs) : \A check \in ChecksOf(r.pairs[p].schema) :
    \A f \in 1..Len(r.pairs[p].files) : \A i \in 1..Len(r.pairs[p].files[f].stmts) :
      Listed(ErrorsOf(check, r.pairs[p].files[f].stmts[i].ast, TablesOf(r.pairs[p].schema)))
ASSUME FindingsAssumption

ValidateSpec == ValidateInit /\ [][ValidateNext]_validateVars
=============================================================================
