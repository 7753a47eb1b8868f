---------------------------- MODULE VersionRoute ----------------------------
(***************************************************************************)
(* internal/versionroute: how one command line ends in the binary of the   *)
(* quarter it asks for.  A process image reads its own quarter (Built),    *)
(* scans argv for --target-version before any flag parser exists, looks    *)
(* the sibling up on disk (FindBackend) and replaces itself with it.       *)
(* Binaries are installed and removed meanwhile.                           *)
(*                                                                         *)
(* The Unix build on Linux is modelled: execve, and an os.Executable that  *)
(* names the file behind a symbolic link.                                  *)
(***************************************************************************)
EXTENDS Naturals, FiniteSets, Sequences

CONSTANTS
  Quarters,    \* Year.Quarter pairs some binary exists for
  Unknown,     \* the zero Quarter; also the suffix of plain "crdb-sql"
  Malformed,   \* a build stamp that is no quarter tag
  NoStamp,     \* the empty build stamp
  NoPath,      \* no file chosen
  Dirs,        \* directories
  PathOrder,   \* $PATH: a sequence of directories
  LinkNames,   \* file names that may be symbolic links
  Disks,       \* initial contents of the directories
  Arguments,   \* command lines
  Install,     \* what the packager may put at a path: nodes
  MaxChanges   \* bound on installs and removals

Names == Quarters \cup {Unknown}
Paths == Dirs \X Names

ASSUME SentinelAssumption ==
  /\ Unknown \notin Quarters
  /\ Malformed \notin Quarters /\ NoStamp \notin Quarters /\ Malformed # NoStamp
  /\ NoPath \notin Paths

VARIABLES
  disk,      \* path -> node
  changes,   \* installs and removals so far
  image,     \* the running process: real path and binary
  argv,      \* its arguments
  phase,     \* where the process is
  next,      \* the backend to exec
  execs      \* successful execs, counted up to 2

routeVars == <<disk, changes, image, argv, phase, next, execs>>

-----------------------------------------------------------------------------
(* Binaries and where they are. *)

\* A binary: the quarter of the parser linked in, the ldflag stamp, and what
\* BuildInfo says about the parser module.
Binary == [parser : Quarters,
           stamp  : Quarters \cup {Malformed, NoStamp},
           dep    : Names]

Absent == [kind |-> "none"]
FileNode == [kind : {"file"}, bin : Binary, runs : BOOLEAN]
LinkNode == [kind : {"link"}, to : Paths]
Node == {Absent} \cup FileNode \cup LinkNode

\* Release builds do not lie: a stamp or a module version names the parser, and
\* the file crdb-sql-vXXX holds the parser of quarter XXX.
HonestBinary(b) == /\ b.stamp \in {b.parser, Malformed, NoStamp}
                   /\ b.dep \in {b.parser, Unknown}
HonestNode(p, n) == /\ n.kind = "file" => /\ HonestBinary(n.bin)
                                          /\ p[2] # Unknown => n.bin.parser = p[2]
                    /\ n.kind = "link" => p[2] \in LinkNames

\* stat and execve follow a link, one hop deep here.
RealPath(p) == IF disk[p].kind = "link" THEN disk[p].to ELSE p
IsExecutable(p) == LET n == disk[RealPath(p)]
                   IN n.kind = "file" /\ n.runs
ImageAt(p) == [path |-> RealPath(p), bin |-> disk[RealPath(p)].bin]

\* The machine the program is started on.
ASSUME DiskAssumption ==
  /\ PathOrder \in Seq(Dirs)
  /\ Disks \subseteq {d \in [Paths -> Node] : \A p \in Paths : HonestNode(p, d[p])}
  /\ Install \subseteq Node
  /\ MaxChanges \in Nat

-----------------------------------------------------------------------------
(* Quarters. *)

\* Variant of Built: the stamp counts before the file name.
BuiltStampFirst(i) ==
  CASE i.bin.stamp = Malformed -> Unknown
    [] i.bin.stamp = NoStamp   -> IF i.path[2] # Unknown THEN i.path[2] ELSE i.bin.dep
    [] OTHER                   -> i.bin.stamp

\* The quarter an image takes itself for.
Built(i) ==
  IF i.path[2] # Unknown THEN i.path[2]
  ELSE CASE i.bin.stamp = NoStamp   -> i.bin.dep
         [] i.bin.stamp = Malformed -> Unknown
         [] OTHER                   -> i.bin.stamp

\* A --target-version value.  "loose" is what only ParseFromTarget takes
\* (25.4.x, +25.4), "odd" what only ValidateTargetVersion takes (25.5).
Value == [form : {"plain", "loose"}, q : Quarters]
         \cup [form : {"odd", "junk", "empty"}, q : {Unknown}]
EmptyValue == [form |-> "empty", q |-> Unknown]
Junk == [form |-> "junk", q |-> Unknown]

ParseFromTarget(v) == v.q
ValidTarget(v) == v.form \in {"plain", "odd"}

-----------------------------------------------------------------------------
(* argv: "bare" is --target-version, "eq" is --target-version=v, "sep" is  *)
(* --, "other" is another option that takes a value, "word" is any word.   *)

Token == [kind : {"bare", "sep", "other"}, value : {EmptyValue}]
         \cup [kind : {"eq", "word"}, value : Value]
ASSUME ArgumentAssumption == Arguments \subseteq Seq(Token)

\* A token read as a value: an option is never a version.
Text(t) == IF t.kind = "word" THEN t.value ELSE Junk

\* Positions of the flag that extractTargetVersion sees.
FlagsIn(a) == {i \in DOMAIN a : /\ a[i].kind \in {"bare", "eq"}
                                /\ \A j \in 1 .. i - 1 : a[j].kind # "sep"}

\* The quarter extractTargetVersion and ParseFromTarget find: the first
\* occurrence counts; Unknown is "nothing to route by".
Wanted(a) ==
  IF FlagsIn(a) = {} THEN Unknown
  ELSE LET i == CHOOSE k \in FlagsIn(a) : \A j \in FlagsIn(a) : k <= j
       IN CASE a[i].kind = "eq" -> ParseFromTarget(a[i].value)
            [] a[i].kind = "bare" /\ i < Len(a) -> ParseFromTarget(Text(a[i + 1]))
            [] OTHER -> Unknown

\* The flag parser of the command tree on the same tokens: the last occurrence
\* counts, and an option takes whatever follows it.
ReadToken(s, t) ==
  IF s.ended THEN s
  ELSE IF s.needs # "none"
    THEN [s EXCEPT !.needs = "none",
                   !.value = IF s.needs = "target" THEN Text(t) ELSE @]
  ELSE CASE t.kind = "eq"    -> [s EXCEPT !.value = t.value]
         [] t.kind = "sep"   -> [s EXCEPT !.ended = TRUE]
         [] t.kind = "bare"  -> [s EXCEPT !.needs = "target"]
         [] t.kind = "other" -> [s EXCEPT !.needs = "other"]
         [] OTHER            -> s

\* The parser after each token.
FlagStates(a) ==
  LET state[k \in 0 .. Len(a)] ==
        IF k = 0 THEN [ended |-> FALSE, needs |-> "none", value |-> EmptyValue]
                 ELSE ReadToken(state[k - 1], a[k])
  IN state

FlagValue(a) ==
  LET end == FlagStates(a)[Len(a)]
  IN IF end.needs = "none" THEN end.value ELSE Junk

-----------------------------------------------------------------------------
(* Discovery: the executable's directory, then $PATH. *)

SearchDirs(i) == <<i.path[1]>> \o PathOrder

\* Variant of FindBackend: any quarter's backend will do.
FindBackendAny(i, q) ==
  LET dirs == SearchDirs(i)
      hits == {n \in DOMAIN dirs : \E p \in Quarters : IsExecutable(<<dirs[n], p>>)}
  IN IF hits = {} THEN NoPath
     ELSE LET d == dirs[CHOOSE n \in hits : \A m \in hits : n <= m]
          IN <<d, CHOOSE p \in Quarters : IsExecutable(<<d, p>>)>>

\* The first executable crdb-sql-vXXX of quarter q.
FindBackend(i, q) ==
  LET dirs == SearchDirs(i)
      hits == {n \in DOMAIN dirs : IsExecutable(<<dirs[n], q>>)}
  IN IF hits = {} THEN NoPath
     ELSE <<dirs[CHOOSE n \in hits : \A m \in hits : n <= m], q>>

\* Variant of Listed: what is not executable is listed too.
ListedAll(d, out) ==
  out \cup {e \in [quarter : Quarters, path : Paths] :
              /\ e.path = <<d, e.quarter>>
              /\ disk[e.path].kind # "none"
              /\ ~ \E f \in out : f.path = e.path \/ f.quarter = e.quarter}

\* What walking directory d adds to the backends already listed.
Listed(d, out) ==
  out \cup {e \in [quarter : Quarters, path : Paths] :
              /\ e.path = <<d, e.quarter>>
              /\ IsExecutable(e.path)
              /\ ~ \E f \in out : f.path = e.path \/ f.quarter = e.quarter}

\* The backends listed after this binary and after each directory in turn.
Walked(i) ==
  LET dirs == SearchDirs(i)
      list[n \in 0 .. Len(dirs)] ==
        IF n = 0 THEN {[quarter |-> Built(i), path |-> i.path]}
                 ELSE Listed(dirs[n], list[n - 1])
  IN list

\* Every backend in reach: this binary, then the directories in search order.
Discover(i) == Walked(i)[Len(SearchDirs(i))]

-----------------------------------------------------------------------------
(* The process. *)

RouteInit ==
  /\ disk \in Disks
  /\ \E p \in Paths : IsExecutable(p) /\ image = ImageAt(p)   \* what the shell ran
  /\ argv \in Arguments
  /\ changes = 0
  /\ phase = "main"
  /\ next = NoPath
  /\ execs = 0

\* Is a different binary needed?  An image of unknown quarter always tries.
Elsewhere == Wanted(argv) # Unknown /\ Wanted(argv) # Built(image)

StayHere ==
  /\ phase = "main"
  /\ ~Elsewhere
  /\ phase' = "flags"
  /\ UNCHANGED <<disk, changes, image, argv, next, execs>>

Lookup ==
  /\ phase = "main"
  /\ Elsewhere
  /\ FindBackend(image, Wanted(argv)) # NoPath
  /\ next' = FindBackend(image, Wanted(argv))
  /\ phase' = "exec"
  /\ UNCHANGED <<disk, changes, image, argv, execs>>

\* Variant of MissingBackend: fall back to the parser at hand.
MissingBackendSilent ==
  /\ phase = "main"
  /\ Elsewhere
  /\ FindBackend(image, Wanted(argv)) = NoPath
  /\ phase' = "flags"
  /\ UNCHANGED <<disk, changes, image, argv, next, execs>>

\* No sibling: the discovery hint and exit status 2.
MissingBackend ==
  /\ phase = "main"
  /\ Elsewhere
  /\ FindBackend(image, Wanted(argv)) = NoPath
  /\ phase' = "exit"
  /\ UNCHANGED <<disk, changes, image, argv, next, execs>>

\* execve at the path found before: whatever is there now, or an error.
Exec ==
  /\ phase = "exec"
  /\ IsExecutable(next)
  /\ image' = ImageAt(next)
  /\ phase' = "main"
  /\ next' = NoPath
  /\ execs' = IF execs < 2 THEN execs + 1 ELSE execs
  /\ UNCHANGED <<disk, changes, argv>>

ExecFails ==
  /\ phase = "exec"
  /\ ~IsExecutable(next)
  /\ phase' = "exit"
  /\ next' = NoPath
  /\ UNCHANGED <<disk, changes, image, argv, execs>>

\* PersistentPreRunE: an empty value is no value, a bad one a usage error.
ParseFlags ==
  /\ phase = "flags"
  /\ LET v == FlagValue(argv)
     IN phase' = IF v = EmptyValue \/ ValidTarget(v) THEN "command" ELSE "usage"
  /\ UNCHANGED <<disk, changes, image, argv, next, execs>>

\* The packager replaces or removes a file.
Package(p, n) ==
  /\ changes < MaxChanges
  /\ n # disk[p]
  /\ HonestNode(p, n)
  /\ disk' = [disk EXCEPT ![p] = n]
  /\ changes' = changes + 1
  /\ UNCHANGED <<image, argv, phase, next, execs>>

Main == StayHere \/ Lookup \/ MissingBackend \/ Exec \/ ExecFails \/ ParseFlags
Packager == \E p \in Paths, n \in Install : Package(p, n)
RouteNext == Main \/ Packager

\* The process runs; the packager need not.
RouteSpec == RouteInit /\ [][RouteNext]_routeVars /\ WF_routeVars(Main)

-----------------------------------------------------------------------------
(* Properties. *)

\* The flag is given once, and no option swallows another one.
OneFlag(a) ==
  /\ Cardinality({i \in DOMAIN a : a[i].kind \in {"bare", "eq"}}) <= 1
  /\ \A i \in DOMAIN a : a[i].kind = "other" =>
       i < Len(a) /\ a[i + 1].kind = "word"

\* A command that was asked for a quarter runs on the parser of that quarter:
\* no wrong stamp, missing sibling, package change or race between lookup and
\* exec makes another parser answer.
RightParser ==
  phase = "command" /\ OneFlag(argv) /\ FlagValue(argv).form = "plain"
    => image.bin.parser = FlagValue(argv).q

\* One exec is enough: the image it starts takes itself for what it was chosen
\* as, whatever its stamp says and whatever was installed meanwhile.
OneExec == execs <= 1

\* Routing comes to an end: a command, a usage error or exit status 2, and no
\* process that replaces itself for ever.
RoutingEnds == <>(phase \in {"command", "usage", "exit"})

\* The backends `versions` and the discovery hint list are the ones routing
\* would exec, and there are no others.
ListingAgrees ==
  \A q \in Quarters \ {Built(image)} :
    {e.path : e \in {f \in Discover(image) : f.quarter = q}}
      = {FindBackend(image, q)} \ {NoPath}

=============================================================================
