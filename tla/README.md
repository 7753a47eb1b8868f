# A verification of crdb-sql

`crdb-sql` gives SQL tooling to people and to agents: a command line and an MCP
server that parse, check, explain, summarise, format, simulate and execute
CockroachDB SQL. One binary embeds one quarter's parser (`v26.1`, `v26.2`, ...);
a request for another quarter is handed to a sibling binary, by re-exec on the
command line and by a pool of child MCP servers in the server.

This directory holds TLA+ models of that program, TLC configurations that check
them on small instances and TLAPS proofs. `PROJECT.json` lists the components,
the runs, the mutants (one plausible bug per property, which the run must
catch), the source lines behind every definition, the hazards and the theorems.

## 1. The system

| Component | State | Operations | What makes it correct |
|---|---|---|---|
| Sibling pool `internal/mcp/proxy` | map quarter -> entry; entry: client, mutex, `dead`, `lastUsed`; `closed` | `Dispatch`, janitor sweep, `Close` | no child leaks, no call loses its pipe, one owner per child, everything returns |
| Per-call routing `internal/mcp` | none; wraps a handler and a Router | `withRouting`, `routeTarget` | a call runs locally or on one sibling, never on the wrong parser |
| Tool handlers `internal/mcp/tools` | none | one handler per tool | gate, then connect, then answer; the connection is always closed |
| Connection manager `internal/conn` | the lazily dialled connection | `Ping`, `Explain*`, `Execute`, `Simulate`, introspection, `Close` | a failed connection is dropped; nothing the mode forbids commits |
| Safety policy `internal/safety` | none | `Check` per mode and operation, LIMIT injection | nested writes do not slip past a read-only mode |
| Command-line version routing `internal/versionroute` | the process image, argv, the file system | `MaybeReexec` | the wanted parser answers; no exec loop |
| Test cluster `internal/testutil/cockroachtest` | demo process, monitor goroutine | `Start`, `Stop`, `Shared`, `RunTests` | no process or directory leaks, no wait for ever |
| Feature registry `internal/version` | constant table | `Inspect` | warnings name exactly the features the target lacks |
| Risk rules `internal/risk` | constant rules | `Analyze` | destructive statements are flagged wherever nested |
| Semantic checks `internal/semcheck`, catalog `internal/catalog` | catalog; scopes during a walk | names, functions, types | no false positive on a name that is in scope |
| Summaries `internal/summarize` | none | `Summarize` | tables and columns read and written are all reported |
| Diagnostics `internal/diag` | none | positions, suggestions | an error points at the user's text |
| Formatting `internal/sqlformat` | none | prompt stripping, formatting | offsets in stripped text map back to the input |
| Plan reader `internal/conn` | none | `parseExplainTree` | the tree that EXPLAIN drew comes back whole, or an error does |
| Input, parsing, output, configuration | none | read, classify, render | -- |

### Interaction

The MCP server wraps every tool handler in `withRouting`. A call whose
`target_version` names another quarter goes to `Router.Dispatch`: the pool spawns
or reuses the sibling process and forwards the call over its pipe. Other calls
run the local handler, which parses, applies the safety policy and, when it needs
a cluster, opens a connection manager. On the command line `versionroute` does
the same job before anything else runs, by replacing the process image.

### What is hard here

* the pool: Dispatch goroutines, the janitor and `Close` share entries under two
  mutexes, one of them held across slow calls, while children crash;
* re-exec: argv, the environment and the file system decide which image runs next;
* the connection manager: every error path must leave the manager reusable;
* the safety policy: a statement's class is decided by what is nested in it;
* the test cluster: a process, its monitor and several ways to stop it;
* names: scopes of queries, CTEs, aliases and joins, walked by several visitors
  that each keep their own idea of what is in scope;
* positions: they survive prompt stripping and a search for the failing text.

Concurrency is confined to the pool, the test cluster and `sync.Once` caches.

## 2. Modules

| Module | Models |
|---|---|
| `PoolRouter` | `internal/mcp/proxy/pool.go` and `spawnAndInit`, with the children |
| `ChildLife` | what the pool promises about each child (an abstract specification) |
| `MCPoolRouter` | the pool's instances for TLC; the refinement of `ChildLife` |
| `PoolRouterProofs` | its theorems |
| `SafetyGate` | `internal/safety`: `Check`, the escalation suggestion, when a LIMIT is added |
| `EscalationLoop`, `MCEscalation` | a caller that follows the suggestions of `SafetyGate` |
| `SafetyGateProofs`, `EscalationProofs` | what an admitted batch is; the theorems of `EscalationLoop` |
| `ConnManager` | `internal/conn`: `Manager` and its methods, with the cluster |
| `AtomicCall` | what a caller of the Manager may rely on (an abstract specification) |
| `ManagerCalls`, `MCManagerCalls` | the Manager under any sequence of calls; implements `AtomicCall` |
| `ConnectedCalls`, `MCConnectedCalls` | gate, Manager and envelope composed: explain, simulate, execute |
| `ConnectedProofs` | what each step of the Manager keeps; the theorems of `ManagerCalls` and `ConnectedCalls` |
| `VersionRoute` | `internal/versionroute`: Built, the scan of argv, FindBackend, Discover, exec |
| `McpRouting`, `MCMcpRouting` | `withRouting` and `routeTarget`, in a server that `VersionRoute` started |
| `RoutingProofs` | the theorems of both |
| `DemoCluster` | `internal/testutil/cockroachtest`: Start, Stop, Shared, RunTests |
| `DemoClusterProofs` | its theorems |
| `SqlTree` | syntax trees, cut down to what decides where a name is looked up |
| `SemNames` | `internal/semcheck/names.go`: table names and column scopes |
| `SqlScope` | the reference for it: what SQL resolves |
| `Validate` | the validate command and tool: input, catalog, `semcheck.Run`, several files |
| `SemChecks` | what each of the four checks finds in one statement, for `Validate` |
| `Summary` | `internal/summarize` |
| `PromptStrip` | `internal/sqlformat/strip.go` and its offset map |
| `RiskScan` | `internal/risk` |
| `PlanTree` | `internal/conn/explain_parse.go` |
| `ScanProofs` | the theorems of these three single passes |
| `Suggest` | `internal/diag`: "did you mean?", both metrics; `sampleNearest` of semcheck |
| `AnalysisProofs` | the theorems of `Validate` and `Suggest` |
| `MCAnalysis` | one run of any of the analysis tools over bounded inputs |
| `ParseError` | `internal/diag`: where a parse error is reported |

`SafetyGate` <- `ConnManager` <- { `ManagerCalls`, `ConnectedCalls` }: the gate's
statements are what the Manager is called with. `VersionRoute` <- `McpRouting`: a
child server is a process image. `SqlTree` <- { `SemNames` <- `SqlScope`, `Summary`,
`SemChecks` }; `SemChecks` and `Summary` have `SqlScope` with their own catalog.
`Validate` knows no trees: what a check finds in a statement is its parameter
`ErrorsOf`, which `SemChecks` defines, so it can be proved about.

### PoolRouter

Callers are goroutines inside `Dispatch`; `pc` says where each one is. The pool
mutex `mu` guards only steps that never block, so each of its critical sections
(`checkout`, `markUsed`, `evict`, the marking half of a sweep and of `Close`) is
one action. An entry's mutex is held across spawn and CallTool and is the
variable `holder`; the janitor and `Close` only ever hold it for one action
(`TakeClient`). `held` is the child a goroutine has in a local variable: a child
between `NewStdioMCPClient` and the end of its handshake, or one taken out of an
entry and still to be closed. `procs` is the operating system's view of the
children: a child that exited by itself still has to be closed.

Decisions worth knowing:

* `entry.dead` is read at pool.go:328 under the entry's mutex alone, although the
  field's comment (pool.go:211) says it is "Always read and written under
  PoolRouter.mu". Writers hold `mu`, so this is a data race; a Boolean read is
  either the old or the new value, which the interleaving of `AcquireLive` and
  the writers' actions already contains.
* `FindBackend` depends on the file system, taken as fixed: `Installed`.
* Entry and child identities are reused as soon as nothing refers to them, so that
  the state space is finite; `InUse` is what the garbage collector would see.
* `stop()` of `Close` is part of `CloseBegin`; a second `Close` changes nothing.
* A cancelled context, an exhausted init timeout and a broken pipe are the
  `"spawn"` and `"call"` faults; a child exiting is `"crash"`.
* The order in which a victim loop visits a map is arbitrary in Go and here.
* Bounds: `GiveUpAfter` (16 in the code), `MaxTime` (the clock stops), and the
  sizes of `Entries` and `Children`.
* `IdleSweep` has two halves. `IdleChildClosed` is eventual, so it tells `>=` from `>` in
  the idle comparison only because the model's clock stops. `SweptWhenIdle` is the other
  direction: nothing is swept too early, also by a sweep that read its clock before an
  entry was used again.

Fairness (`PoolFairness`): a runnable goroutine runs; the initialize handshake
has a timeout and `Client.Close` escalates to SIGKILL, so spawn and close steps
are weakly fair. Waiting for a `sync.Mutex`, which starves no waiter, and the
janitor's `select`, which picks ready channels at random, are strongly fair. That
a CallTool returns is up to the caller's context and the child and is not assumed: a
call may hang for ever. The liveness properties name what that may hold up. A
Dispatch waits for a hung call of its own quarter only (`Hangs`); the janitor waits
for the mutex of a swept entry whose call hangs (`Stuck`), so no idle child is closed
after that, and `Close`, which joins the janitor and then visits the entries itself,
does not return. `pool_live` has one quarter, so it does not exercise that a hung call
of another quarter keeps nobody: with the janitor, a second quarter needs more entries
and children than the run can hold.

`ChildLife` knows only who has which child in hand, and for what. The mapping
(`InHand`, `HandUse`): a Dispatch has the child it starts, the client of the entry
whose mutex it holds while it calls, or the child it closes; the janitor and `Close`
have the victim they took out. `Spawn` is `Start`, `TakeClient` is `Retire`, and a
crash is a stutter, because a child that exited still has to be closed.

### SafetyGate and EscalationLoop

A statement is a record of what the gate can ask of it (`StatementType()`, the
node kinds the gate lists, `tree.CanWriteData`, `tree.CanModifySchema`) and of
what running it would change (`effect`, `blind`), which the gate cannot see.
`ParserFacts` states what the code relies on the parser for; nothing ties a
row write to `writes`, because `CanWriteData` looks at the top-level node only.
`Forbidden` gives the checks of each mode and operation, `Classify` the order
in which they answer, `CheckParsed` the first violation of a batch. A violation
is its `Kind`: the code branches on nothing else.

`EscalationLoop` submits a batch, reads the verdict and retries in the mode the
envelope suggests. Three switches in two files (`classify*`,
`escalationTargetFor`, `isClusterAdminStmt`) have to agree for that to work.

### ConnManager, ManagerCalls and ConnectedCalls

`pc` is the round trip a method is at; a method is `Invoke`, then `connect` if
there is no connection, `begin`, `set` (statement_timeout), `guard`
(sql_safe_updates, for safe_write), `query`, `rows`, `commit` and, for the
EXPLAIN family, `parse`. `Ping` and `GetTableStats` are a `query` without a
transaction. An error at any of them is `StepFails`: rollback, `Close`,
`conn = nil`. `call`, `conn` and `reply` are the method's arguments,
`Manager.conn` and its result; `open`, `txn` and `applied` belong to the cluster.

The cluster is outside the repository and is modelled from how the code uses it:
it may fail any round trip, drop a session at any time (`SessionDrops`), apply a
COMMIT whose answer is lost (`CommitUnacked`), refuses writes in a read-only
transaction and writes without WHERE under `sql_safe_updates`, and takes one
command per prepared statement. A schema change is taken to commit with its
transaction.

Decisions worth knowing:

* `Simulate` connects on its own before its first step; that is the call `dial`.
* A LIMIT is added by the callers of `Execute`, where `Injects` says: by the handlers
  in `ConnectedCalls`, and by whoever makes the `Calls` of `ManagerCalls`.
* The last branch of `simulateStep` (simulate.go:236-245, "no route for statement
  type") is left out of `SimulateR`: the gate rejects TCL and DCL before it, so it
  would be an action that is never enabled.
* A Manager is used by one goroutine, and each request has its own.
* The comment at simulate.go:170 announces a fast failure on connect; after a
  failure in mid-run each further step still dials again, and so it does here.

`ConnectedCalls` runs the gate, the Manager's methods, the deferred `Close` and
the envelope for one request. `simulate` makes a result per statement and looks up
statistics for the tables of a DDL statement, going on after failures.
Statements of type TCL and tenant nodes are in the gate's runs only: what the
cluster does with them adds no new path after the gate.

Fairness of `ManagerCalls` and `ConnectedCalls`: the handler's goroutine runs,
and a round trip ends, because pgx reports a broken connection and
`statement_timeout` bounds the cluster; hence weak fairness of `Progress`. Nothing
requires the cluster to answer well: a run in which every step fails is fair.
`Close` and `SessionDrops` are not fair.

### VersionRoute and McpRouting

The state of `VersionRoute` is the running image (path and binary), argv, and the
files of the search path; `Exec` replaces the image and goes back to `main`. `Built`
is decided anew by every image from its file name, its stamp and its BuildInfo.

* Linux is modelled: `os.Executable` names the file behind a symbolic link. Links
  are one hop deep. On Windows a child is started instead of an exec.
* `HonestBinary`: stamps and module versions do not lie, and a file named for a
  quarter holds that quarter's parser.
* `Built` takes the file name first, then the stamp, then the module's version, and
  each only where the one before says nothing.
* argv is read twice. The scan (`FlagsIn`) takes the first occurrence and knows no
  other option; the flag parser (`FlagValue`) takes the last and lets an option
  swallow the next word. `RightParser` therefore speaks of command lines with one
  occurrence; see section 5 for the others.
* `Value` of form "odd" is one like 25.5, which `ValidateTargetVersion` accepts and
  no quarter can have; route.go:73-76 says cobra rejects those.
* `Packager` may change one file at any time: between lookup and exec too.

In `McpRouting` the servers form a chain: the one the client talks to, and the child
the call was forwarded to. A child is started without the parent's default, and its
own `routeTarget` looks at the forwarded call again. The pool is abstracted to one
spawn per call; `PoolRouter` has the rest.

### DemoCluster

Each test goroutine has a `pc` inside `Shared`, `Start` or `Stop`; a cluster is named
by the test that called `Start` for it. The monitor is `Reap`; `waitDone` is its
closed channel. The context of `exec.CommandContext` kills the process, `Stop`
interrupts it, waits and kills it; then it waits for the monitor, even if the kill
failed.

The fault "signal" is `Process.Signal` failing, which on Windows it always does.
`shutdown` then returns without killing, and the failure path of `Start` waits for
an exit that nobody asks for (cluster.go:286). `NothingOutlivesTests` and
`BinaryExits` state this exception; it is in section 5. The fault "kill" is
`Process.Kill` failing for a process that still runs: `shutdown` waits for its exit, so
`BinaryExits` excepts a process that stays up after it.

Fairness: goroutines and monitors run, timers fire, a process that is not deaf reacts
to SIGINT; a mutex starves nobody (strong fairness of `LockShared`). A process need
not start up, and a test that got its cluster may take as long as it likes.

### The analysis tools

`MCAnalysis` picks a tool and an input and runs it to the end; nothing is
concurrent. What makes these tools hard is what their inputs may nest.

* The parser, the order of its walk (`Children`, `Nodes`) and the type checker
  (`typed` of a call) are external. In `SqlTree` an ORDER BY stands for LIMIT and
  OFFSET too.
* `SemNames` keeps the code's order of pushes, so that what is in scope where is the
  code's doing. `SqlScope` resolves names as SQL does: by nested environments, from
  the inside out. `NamesMatchSql` compares the two in both directions, apart from
  what the code knowingly leaves out: `GivesUp` (a source of unknown columns stands
  for any column), `Tolerated` (the flat set of table names, labels, USING) and
  `Shadowing` (a CTE with the name of a table). Ambiguity is not compared.
* `Validate` loads a schema source by source and statement by statement, and runs
  the four checks statement by statement over one text or over the files of a
  configuration, with the maps the checks keep. `VerdictIsOwn` compares findings,
  the status of each check and the verdict with each statement looked at alone,
  against a catalog read off the pair's own sources (the last definition of a table).
* `RiskScan` has all rules; the property is about the rules over transaction blocks,
  whose reference is what a session does with nested BEGINs.
* `PromptStrip` keeps for every byte of the output where it was (`kept`);
  `TranslateExact` compares the segments' arithmetic with that.
* `PlanTree`: a row is its kind and the column of its first character. The tree is
  built through pointers into slices that grow, so a write through a pointer whose
  slice has moved is lost (`Stale`); `PlanRebuilt` shows that none is. A key stands
  for its column; a repeated key overwrites. Columns other than D+4 are accepted, as
  in the code.
* `Suggest` fills the distance table row by row, in rolling rows; the reference
  `Edits` counts what is left after each pair of positions, from the front of the
  words. `Rank` may leave equals in any order, as `sort.Slice` may. Words are byte
  sequences of ASCII letters, and every lookup has a position. The code has the plain
  distance twice (suggest.go:200, functions.go:282), with the same text, and the model
  once.
* `Summary` is compared with `SqlScope` on an empty catalog: what no CTE resolves is
  a table. `Hidden` is the exception for a table with the name of an alias or CTE.
* `ParseError`: the parser stops at a token (or the end) of a statement and hands over
  the statement up to the end of that line; texts are sequences of letters, blanks,
  newlines and semicolons.

## 3. Runs

| Run | Instance | Shows |
|---|---|---|
| `pool_single` | 1 caller, 2 quarters of which 1 installed, 4 entries, 4 children, every fault | one Dispatch at a time, against janitor and `Close`: no child leaks, `Close` leaves none, no evicted entry in the map; `ChildLife` is implemented |
| `pool_live` | 2 callers, 1 quarter, 2 entries, calls that may hang, fairness | no call loses its pipe; Dispatch and `Close` return unless they wait for a hung call; idle children are taken out, and no others |
| `pool_orphan` | 2 callers, every fault | violation: see finding 1 |
| `pool_quarter` | 2 callers, no fault | violation: see finding 2 |
| `gate` | every batch of up to 2 of 14 statement shapes, every mode and operation | suggestions are right and minimal, strength is monotone, no schema or cluster change is executed below full_access |
| `manager` | any number of calls of every method, 6 shapes, 2 sessions, up to 3 rows, caps 0 (none) and 2 | nothing leaks, writes follow the mode, cuts are reported, `AtomicCall` is implemented |
| `calls` | one request: every surface and mode, batches of up to 2 of 7 shapes, 2 tables per DDL, up to 3 rows, caps 0 and 2 | the mode is a contract on the cluster, every request is answered and leaves no session, no failure of a step is lost |
| `cluster` | 2 parallel tests, every fault | one shared cluster, nothing left behind, no wait for ever |
| `route` | 2 quarters, 2 directories, 180 layouts, 12 command lines, 5 tool arguments, one file changed at any time | the wanted parser answers or none does; one exec, one hop; listing agrees with lookup |
| `route_loop` | a sibling's name linked to the plain binary | violation: see finding 3 |
| `analysis` | see below | positions, block rules, verdicts, names, summaries, plans and suggestions |
| `parse_position` | texts of up to 4 characters over 2 letters | violation: see finding 4 |

Why these bounds are enough. In the pool two callers of one quarter are what
every race needs: one inside an entry and one queued on it; one entry is in the
map, one evicted and in use or being drained. `GiveUpAfter` is 0 in
`pool_live`: a sweep and then `Close` evict what a caller queues on, and it gives up.
That run has no faults, since by finding 1 each failed call may cost one of the
finitely many `Children`. `MaxTime` 1 or 2 with `IdleTimeout` 1 gives times before, at
and after the idle limit. In the gate the first offending statement and one other is the longest
interaction there is, since statements are judged one by one. In the Manager two
sessions are a live one and a forgotten one; three rows with a cap of 2 give
fewer, exactly as many and more. Two tests are one that starts the shared cluster
and one that waits for it, or two clusters at once. Two quarters are one's own and
the other; two directories are shadowing. The proofs of section 4 remove these
bounds for most safety properties.

`analysis`: prompt stripping on every text of up to 4 lines (`MaxLines`) of four
shapes, the last one empty too; every script of up to 6 statements (`MaxScript`) of
BEGIN, COMMIT, DDL, DML, which nests blocks three deep; every EXPLAIN of up to 5 rows
(`MaxRows`) in three operator and three attribute columns, which is deep enough for a
slice to move while a child is open. Suggestions: every pair of words of up to 4
letters of two, or 3 of three, and lists with ties, repeats and mixed case; tokens of
4, 5 and 7 letters cross the limits. No list is longer than the sample of 25 functions
(`AvailableFunctionsSampleSize`), because `Rank` tries every order; the cap is covered
by the theorem only. Names and summaries: some 3300 statements, all
combinations of 4 WITH clauses, 14 FROM clauses, 5 lists, 4 WHEREs and 2 ORDER BYs,
and the changes and unions built from the same parts. Requests: those statements
alone; one and two statements per text with every kind of schema, surface and
target; configurations of two pairs.

Deadlock is checked, except where the system stops: after the last answer in
`EscalationLoop` and `ConnectedCalls`, at the end of a tool in `MCAnalysis` and
`ParseError`, when the test binary has exited, when a command has.

Symmetry is used only in safety runs. Liveness runs state fairness: `pool_live`,
`calls`, `cluster` and the two `route` runs, as explained with their modules.

Each property has a mutant in `PROJECT.json`: a variant or slip of one definition,
kept beside it, that the run must refute.

## 4. Proofs

`PoolRouterProofs` proves, for every number of callers, quarters, entries and
children, every timeout and every set of faults, that `IInv` is inductive and
implies `TypeOK`, `SingleOwner`, `MapHoldsLive` and `CallIsolation`. `SingleOwner` is
not inductive by itself: closing a child is safe only because a goroutine holds
one in the places it should (`LocalInv`), because an entry's mutex is held by the
goroutine that works in it and keeps its client (`LockInv`), because whatever is
referred to has been started (`ProcInv`), because checked-out entries leave the map
only by being marked dead (`MapInv`), and because `Close` joins the janitor
(`CloserInv`). `NoOrphanChild` and `CloseDrains` follow from `TidyInv`: what is
warm or locked is in the map or on a victim list, and every child is owned. A step
keeps it if whoever evicts finds the entry cold and unlocked (`ColdEvict`), and that
is proved in two ways: with `Faults = {}` no Dispatch evicts (`NoEvictInv`), for any
number of Dispatches at once; and with any faults when no two Dispatches for one
quarter are in progress together (`SerialDispatch`), because callers that share an
entry are for one quarter (`SharedInv`), so nobody can warm it or hold its mutex
between a failure and the eviction. Finding 1 is why one of the two is needed; the run
`pool_single` is an instance of the second. `PoolIsChildLife` shows from `IInv`, action by
action, that the pool implements `ChildLife` with any faults: a child is in one pair of
hands (`SingleOwner`), so what one goroutine does to its child changes nobody
else's. `SweepsOnlyIdle` rests on `SweepClock`: the clock a sweep goes by is never ahead
of the one callers read. All use `PoolAssumption` only.

`SafetyGateProofs` proves what a verdict on a batch means for any set of statements: a
batch is admitted iff every statement is permitted, and otherwise the verdict is that
of the first offender, whose earlier checks did not apply. `EscalationProofs` builds
on it. Its invariant `LoopInv` has one part of substance, `Origin`: why a caller is in
its mode, that is, which violation in which mode sent it there. Without it the
smallest mode could not be told from any other. Assumptions: `ParserFacts`,
`LoopAssumption`.

The first half of `ConnectedProofs` proves that every step of the Manager and of the cluster keeps
`CallInv`, for every set of statements that satisfies `ParserFacts`, any sessions and
any row count. Its parts: where a connection and a transaction may be
(`SessionInv`), that the transaction has the shape the call asked for and holds
no change that shape excludes (`TxnInv`), that a call has changed nothing before
its commit and what it says after it (`AppliedInv`), and what the scan knows
(`RowsInv`). `OnlyExecuteWrites` speaks of `applied` alone; it needs `TxnInv` because
the decision is taken two round trips before the commit. It derives from this the
invariants of the run `manager` and shows, step by step, that the Manager
implements `AtomicCall`: `Invoke` is `Start`; the rest stutters until a method
ends, which is `Finish`, alone or, for COMMIT, with the effect. Assumptions:
`ParserFacts`, `ConnAssumption`, `CapsAssumption`.

Its second half proves that handler, Manager and cluster agree: `HandlerInv` is
`CallInv` of the Manager, the type of the request (`RequestInv`), where a handler may
be while a method runs (`StageInv`) and which results it then has (`ResultsInv`).
`ModeIsContract` needs the gate's lemmas (what was admitted), `TxnInv` (what the
transaction allows) and `StageInv` (that they are about the same batch). Assumptions:
those of the Manager and `CallsAssumption`.

`ScanProofs` proves `TranslateExact` for every text: the segments and `kept` stay in
step (`StripInvariant`), and the last segment at or before an offset is the one its
byte came from; `NeverUnderFlags` for every script: each BEGIN has a block of its own,
open blocks are on the stack, and a block ends at a COMMIT or ROLLBACK after it or not
at all; and `PlanRebuilt` for every EXPLAIN, of any length and in any columns. The
invariant of the last one, `PlanInv`, says of the open operators that they stand ever
further right in the order they were read (`StackIsOpen`) and that an operator that
was closed has a later one open, at its column or left of it (`ClosedIsCovered`). So
those left of a column are the first of the stack (`LeftOfExists`), and the deepest of
them is the last operator drawn left of it (`LastLeft`): that one lemma decides both
the parent of an operator and the owner of an attribute. `StackIsOpen` also says that
no entry is stale. It is kept because a parent precedes its children: a new node is a
sibling only of nodes below its parent, and those have just been closed. Assumptions:
`TextsAssumption`, `ScriptsAssumption`, `PlanAssumption`.

`RoutingProofs` proves, for every set of quarters and directories, every layout of the
disk, command line and change to a file, that `RoutingInv` is inductive. Its parts say
what a process knows of itself: the image is honest (`HonestImage`, from `HonestDisk`),
a process that stayed is the one that was wanted, a process about to exec has looked up
the wanted quarter, and a child was asked for its own quarter (`CallInv`). From it
follow `RightParser` and `ListingAgrees` without a further hypothesis. `OneExec`,
`OneHop` and `AnswerFromQuarter` are proved under `NoLinkedSiblings`, that no name of a
sibling is a symbolic link. They need it: finding 3 is the counterexample, since
`os.Executable` then gives the image another name than the one that was looked up. A
link from any other name is allowed. `FlagValue` and `Discover` are folds over argv and
the search path, and what they compute is proved for every length: the library's
induction theorems take a predicate, which no prover here can instantiate, so
`Induction` is stated for a set of numbers, from the well-foundedness of `<`, and
`Recursion` derives from it that a fold exists. On that rest `FlagAgrees` (for a
command line with one occurrence the two readers of argv agree) and `DiscoverFinds`
(what is listed for a quarter is what `FindBackend` finds). Assumptions:
`SentinelAssumption`, `DiskAssumption`, `ArgumentAssumption`, `ParamsAssumption`.

`DemoClusterProofs` proves, for every set of tests and every set of faults, that
`ClusterInv` is inductive and implies the four safety properties of the run `cluster`.
`OneSharedCluster` is not inductive by itself: it needs that the test inside the first
`Shared` holds `sharedMu` until the cluster is stored or has failed, and that there is
one such test in the life of the binary (`SharedInv`). `NothingOutlivesTests` needs
what `stopOnce` stands for (`StopInv`: once done, the process is reaped or could not be
signalled), where a process and a directory can come from and when a failed `Start` is
through with them (`LaunchInv`), and that RunTests stops the cluster that is cached
(`MainInv`). Assumption: `ClusterAssumption`.

The first half of `AnalysisProofs` proves `SuggestsNearest` for every token, every
list of names and each of the three lookups. The code and the reference compute a
distance from opposite ends: a cell of the table is the cost of what lies before a
pair of positions, the reference that of what lies after it. `TableInv` relates the
two. No cell and what is left after it cost less than the whole (`Covered`), and some
cell of the current row, or a swap across it, and what is left cost no more
(`Reached`): the row before must be remembered because a swap skips a row. In the
last row nothing is left but insertions, so the last cell is the distance
(`LastCell`). That the recursions have solutions is proved, not assumed: `Fixpoint`
builds one from solutions that are right up to a rank. `LengthsDiffer` shows that the
length filter loses no name, and the ranking that no order of equals does: a hit better
than one shown stands before it. Assumption: `LookupsAssumption`.

Its second half proves `VerdictIsOwn` for every list of requests, of any number of
pairs, sources, files and statements. `ValidateInv` says where the run is (`PlaceInv`),
that the catalog is that of the definitions the loader has passed (`CatalogInv`), and
that a check has told, and remembers in `seen`, what the statements it has passed owe
(`ReportInv`); with `seen` alone the findings of one check could not be told from those
of another. It needs no knowledge of what the checks look for. Assumptions:
`RequestsAssumption`, `FindingsAssumption`; TLC evaluates both on the run `analysis`,
with `ErrorsOf` as the checks of `SemChecks`.

Some theorems have no run of their own: `TypeCorrect`, `OneOwner` (`SingleOwner`) and
`WritesAreGuarded` (`SafeWriteGuarded`). `SweepsOnlyIdle` proves `SweptWhenIdle`, one half
of what `pool_live` checks as `IdleSweep`.

Only model-checked: all liveness (`DispatchReturns`, `CloseReturns`, `IdleSweep`'s half
`IdleChildClosed`,
`EveryRequestAnswered`, `BinaryExits`, `RoutingEnds`, `CallEnds`), which needs
`ENABLED`; and `NamesMatchSql` and `SummaryNamesTables`, whose definitions and references
are recursive over syntax trees, where a proof would be an induction over data.

## 5. Findings

1. `pool_orphan`: after a failed spawn or call the entry's mutex is released
   before the entry is marked dead. A Dispatch queued on it runs in between and
   spawns a child into an entry that is then dropped; nobody closes that child.
2. `pool_quarter`: an idle sweep can evict an entry whose call still runs, so a
   quarter has two children and two calls, against "one child, serialized".
3. `route_loop`: a sibling's name that is a symbolic link to the plain binary makes
   the process exec itself for ever, which the file-name rule is said to prevent.
4. `parse_position`: the failing fragment is searched from the end of the input, so
   a fragment that occurs again after the error moves the error there.

Smaller disagreements of text and code, with no run of their own.

Pool, routing, cluster:

* `Close` waits as long as a call in flight does, not the "~8s" its comment gives.
* `internal/mcp/server.go:77` speaks of `NewSpawnRouter` where `cmd/mcp.go` installs
  `NewPoolRouter`.
* With `--target-version` twice the scan follows the first and the flag parser the
  last, so a command can run on another quarter than the one it reports.
* route.go:73-76 says cobra rejects a value such as 25.5; `ValidateTargetVersion`
  takes it, and the command runs unrouted.
* A failing signal leaves a demo process running, and `Start` waiting for it.
* `Shared` is documented to return "a usable *Cluster" or not at all; it returns the
  cached one also after its process died.

Gate and connected calls:

* The suggestion answers the first offending statement of a batch, so a retry can be
  rejected for the next one.
* A nested EXPLAIN is rejected as something no escalation fixes; full_access
  executes it. The help at `cmd/exec.go:84` says read_only "admits
  SELECT/SHOW/EXPLAIN".
* ExplainAny says DCL is rejected upstream; under full_access it is not.
* The line shape for missing statistics in `manager_integration_test.go:283` is one
  the plan reader rejects.

Names, validation, summaries:

* In `FROM ghost ghost`, and wherever a CTE of that name stands anywhere in the
  statement, a missing table goes unreported, although names.go (295, 739) relies on
  its having been flagged.
* A CTE body that names an earlier CTE with the name of a catalog table is checked
  against the table: a false 42703. The target of a change is taken for a CTE of its
  name.
* Flagged as ambiguous, and fine for SQL: an unqualified reference to a JOIN USING
  column, the left side of UPDATE SET when FROM shares the column, and, as
  documented, a name that occurs in two frames. LATERAL siblings are not in scope.
* 42702 and 42703 of one name share a key, so one can hide the other in a later
  statement (runner.go:32).
* The files of a configuration are not stripped of prompts, and a pair without schema
  gets no `capability_required` warning.
* A table without columns breaks the "at least one entry" of names.go:405.
* Leading blank lines are trimmed before positions are computed.
* `-e " "` is valid, a blank file is an error.
* A lone OFFSET counts as LIMIT for the rules about FOR UPDATE and FOR SHARE; nested
  blocks report a DDL twice.
* `FROM users AS users` is summarised without a table, against walk.go:14 "every
  table"; an INSERT reports the joins of its rows only, against "anywhere in the
  statement" (walk.go:35).

## 6. Plan

Done: the pool with its refinement and proofs, the gate and its proofs, the Manager and
the connected handlers with theirs, routing on the command line and per call, the test
cluster, the analysis tools named above, and the proofs of section 4. What would be worth adding, in this
order:

1. The reader of EXPLAIN (DDL, SHAPE) and the positions of type and cluster errors,
   as further tools of `MCAnalysis`.
2. `Sources` and column lists in `Summary` that agree with `SemNames` on the same
   statement: the two walk the same trees with different scopes.

## 7. Not modelled

* Formatting, the pretty-printer and the parser itself: CockroachDB's code, behind
  a Go module boundary.
* Built-in stubs (`internal/builtinstubs`) and their generators: the two stub tables
  are 49 396 of the repository's 68 306 lines of implementation and hold data only,
  so the share of all lines that the models stand for stays small.
* `introspect.go` and `tls.go`: queries and configuration without decisions. The
  reader of DDL stages in `explain_ddl_parse.go` is left for later.
* The envelope's wording and rendering, configuration files and flags: no protocol.
  What the envelope's status says about the cluster is in `ConnectedCalls`.
* The feature table of `internal/version`, and how a feature is recognised in a tree:
  a statement carries the versions of its features.
* The tools that hand their input to one pure function and keep no state (format,
  parse, describe, list_tables, detect_risky, preprocess): what they call is
  modelled where it decides something.
* Predicates, join types and the risk level of a summary; types, defaults and indexes
  of the catalog; confidence scores and error categories.
* Time beyond the order of events: `statement_timeout` is a failing step, a spawn
  timeout a failing spawn.
