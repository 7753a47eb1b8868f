---------------------------- MODULE DemoCluster ----------------------------
(***************************************************************************)
(* internal/testutil/cockroachtest: the `cockroach demo` clusters of one   *)
(* test binary.  Tests run in parallel; each calls Shared, or Start with a *)
(* context of its own.  A cluster is a process, its temp directory with    *)
(* the URL file, and a monitor goroutine, the only caller of cmd.Wait.     *)
(* RunTests stops the shared cluster when every test is over.              *)
(*                                                                         *)
(* A cluster is named by the test that called Start for it.                *)
(***************************************************************************)
EXTENDS Naturals, FiniteSets

CONSTANTS
  Tests,      \* test goroutines
  Main,       \* the goroutine of RunTests
  External,   \* the Cluster of CRDB_TEST_DSN: no process, no directory
  Nobody,     \* sharedMu is free
  NoCluster,  \* a nil *Cluster
  DsnSet,     \* what CRDB_TEST_DSN may be when it is read: {FALSE}, {TRUE}, both
  Faults      \* subset of {"binary", "tempdir", "exec", "deaf", "signal", "kill", "remove"}

Threads == Tests \cup {Main}
Clusters == Tests

ASSUME ClusterAssumption ==
  /\ Main \notin Tests
  /\ External \notin Clusters /\ NoCluster \notin Clusters /\ External # NoCluster
  /\ Nobody \notin Threads

VARIABLES
  (* goroutines *)
  pc,             \* where each one is
  via,            \* test -> how it wants a cluster: Shared or Start
  failing,        \* tests in the failure path of Start
  cur,            \* the cluster it works on or was given
  cancelled,      \* tests whose context is done
  (* per cluster *)
  proc,           \* the process: "none", "up", "exited"
  deaf,           \* it does not react to SIGINT
  signalled,      \* SIGINT was sent
  url,            \* the URL file is written
  tmp,            \* the temp directory exists
  waitDone,       \* the monitor has seen the exit and closed the channel
  stopOnce,       \* "new", "running", "done"
  stopErr,        \* what went wrong in Stop
  (* the package's variables *)
  sharedMu, sharedStarted, sharedErr, sharedCluster

threadVars  == <<pc, via, failing, cur, cancelled>>
processVars == <<proc, deaf, signalled, url>>
stopVars    == <<stopOnce, stopErr>>
sharedVars  == <<sharedMu, sharedStarted, sharedErr, sharedCluster>>
vars == <<threadVars, processVars, tmp, waitDone, stopVars, sharedVars>>

Starting == {"resolve", "mkdir", "launch", "poll"}
Stopping == {"stop", "shutdown", "grace", "killed", "remove"}
Over == {"failed", "skipped", "done"}

TypeOK ==
  /\ pc \in [Threads -> {"idle", "lock", "drain", "using", "exit"}
                        \cup Starting \cup Stopping \cup Over]
  /\ via \in [Tests -> {"none", "shared", "direct"}]
  /\ cur \in [Threads -> Clusters \cup {External, NoCluster}]
  /\ failing \subseteq Tests /\ cancelled \subseteq Tests
  /\ proc \in [Clusters -> {"none", "up", "exited"}]
  /\ deaf \subseteq Clusters /\ signalled \subseteq Clusters
  /\ url \subseteq Clusters /\ tmp \subseteq Clusters /\ waitDone \subseteq Clusters
  /\ stopOnce \in [Clusters -> {"new", "running", "done"}]
  /\ stopErr \in [Clusters -> SUBSET {"signal", "deadline", "kill", "remove"}]
  /\ sharedMu \in Threads \cup {Nobody}
  /\ sharedStarted \in BOOLEAN
  /\ sharedErr \in {"none", "missing", "failed"}
  /\ sharedCluster \in Clusters \cup {External, NoCluster}
  /\ \A c \in Clusters : c \in waitDone => proc[c] = "exited"

Init ==
  /\ pc = [t \in Threads |-> "idle"]
  /\ via = [t \in Tests |-> "none"]
  /\ cur = [t \in Threads |-> NoCluster]
  /\ failing = {} /\ cancelled = {}
  /\ proc = [c \in Clusters |-> "none"]
  /\ deaf = {} /\ signalled = {} /\ url = {} /\ tmp = {} /\ waitDone = {}
  /\ stopOnce = [c \in Clusters |-> "new"]
  /\ stopErr = [c \in Clusters |-> {}]
  /\ sharedMu = Nobody /\ sharedStarted = FALSE
  /\ sharedErr = "none" /\ sharedCluster = NoCluster

Goto(t, place) == pc' = [pc EXCEPT ![t] = place]

-----------------------------------------------------------------------------
(* Shared. *)

CallShared(t) ==
  /\ pc[t] = "idle"
  /\ Goto(t, "lock")
  /\ via' = [via EXCEPT ![t] = "shared"]
  /\ UNCHANGED <<failing, cur, cancelled, processVars, tmp, waitDone, stopVars, sharedVars>>

\* reportMissingBinary and reportCachedErr: CRDB_INTEGRATION_OPTIONAL, read
\* anew at each call, turns a missing binary into a skip, and nothing else.
Report(err) == IF err = "missing" THEN {"failed", "skipped"} ELSE {"failed"}

\* A later call: the cached cluster, or the cached failure again.
SharedCached(t) ==
  /\ pc[t] = "lock" /\ t # Main /\ sharedMu = Nobody
  /\ sharedStarted
  /\ IF sharedErr = "none"
       THEN Goto(t, "using") /\ cur' = [cur EXCEPT ![t] = sharedCluster]
       ELSE (\E r \in Report(sharedErr) : Goto(t, r)) /\ UNCHANGED cur
  /\ UNCHANGED <<via, failing, cancelled, processVars, tmp, waitDone, stopVars, sharedVars>>

SharedDsn(t) ==
  /\ pc[t] = "lock" /\ t # Main /\ sharedMu = Nobody
  /\ ~sharedStarted /\ TRUE \in DsnSet
  /\ sharedStarted' = TRUE
  /\ sharedCluster' = External
  /\ cur' = [cur EXCEPT ![t] = External]
  /\ Goto(t, "using")
  /\ UNCHANGED <<via, failing, cancelled, processVars, tmp, waitDone, stopVars, sharedMu, sharedErr>>

\* Variant of SharedFirst: the flag is set only once the cluster runs, and the
\* mutex is not held meanwhile.
SharedFirstUnlocked(t) ==
  /\ pc[t] = "lock" /\ t # Main /\ sharedMu = Nobody
  /\ ~sharedStarted /\ FALSE \in DsnSet
  /\ Goto(t, "resolve")
  /\ UNCHANGED <<via, failing, cur, cancelled, processVars, tmp, waitDone, stopVars, sharedVars>>

\* The first call starts a cluster with sharedMu held.
SharedFirst(t) ==
  /\ pc[t] = "lock" /\ t # Main /\ sharedMu = Nobody
  /\ ~sharedStarted /\ FALSE \in DsnSet
  /\ sharedStarted' = TRUE
  /\ sharedMu' = t
  /\ Goto(t, "resolve")
  /\ UNCHANGED <<via, failing, cur, cancelled, processVars, tmp, waitDone, stopVars,
                 sharedErr, sharedCluster>>

-----------------------------------------------------------------------------
(* Start. *)

CallStart(t) ==
  /\ pc[t] = "idle"
  /\ Goto(t, "resolve")
  /\ via' = [via EXCEPT ![t] = "direct"]
  /\ UNCHANGED <<failing, cur, cancelled, processVars, tmp, waitDone, stopVars, sharedVars>>

\* Variant of StartFails: sharedMu is released on the way to success only.
StartFailsLocked(t, err) ==
  IF via[t] = "shared"
    THEN /\ sharedErr' = err
         /\ \E r \in Report(err) : Goto(t, r)
         /\ UNCHANGED <<sharedMu, sharedStarted, sharedCluster>>
    ELSE Goto(t, "failed") /\ UNCHANGED sharedVars

\* Start returns an error to its test, or to Shared, which caches it, reports
\* it and releases sharedMu.
StartFails(t, err) ==
  IF via[t] = "shared"
    THEN /\ sharedErr' = err
         /\ sharedMu' = Nobody
         /\ \E r \in Report(err) : Goto(t, r)
         /\ UNCHANGED <<sharedStarted, sharedCluster>>
    ELSE Goto(t, "failed") /\ UNCHANGED sharedVars

Resolve(t) ==
  /\ pc[t] = "resolve"
  /\ \/ Goto(t, "mkdir") /\ UNCHANGED sharedVars
     \/ "binary" \in Faults /\ StartFails(t, "missing")
  /\ UNCHANGED <<via, failing, cur, cancelled, processVars, tmp, waitDone, stopVars>>

MakeDir(t) ==
  /\ pc[t] = "mkdir"
  /\ \/ /\ tmp' = tmp \cup {t}
        /\ Goto(t, "launch")
        /\ UNCHANGED sharedVars
     \/ /\ "tempdir" \in Faults
        /\ StartFails(t, "failed")
        /\ UNCHANGED tmp
  /\ UNCHANGED <<via, failing, cur, cancelled, processVars, waitDone, stopVars>>

\* cmd.Start, and the monitor goroutine.
Launch(t) ==
  /\ pc[t] = "launch"
  /\ t \notin cancelled
  /\ proc' = [proc EXCEPT ![t] = "up"]
  /\ \E d \in IF "deaf" \in Faults THEN {{}, {t}} ELSE {{}} : deaf' = deaf \cup d
  /\ Goto(t, "poll")
  /\ UNCHANGED <<via, failing, cur, cancelled, signalled, url, tmp, waitDone, stopVars, sharedVars>>

\* cmd.Start fails, with a bad binary or a context that is done.
LaunchFails(t) ==
  /\ pc[t] = "launch"
  /\ "exec" \in Faults \/ t \in cancelled
  /\ \/ tmp' = tmp \ {t}
     \/ "remove" \in Faults /\ UNCHANGED tmp
  /\ StartFails(t, "failed")
  /\ UNCHANGED <<via, failing, cur, cancelled, processVars, waitDone, stopVars>>

\* waitForURL reads the URL: Start succeeds, and Shared keeps the cluster.
PollUrl(t) ==
  /\ pc[t] = "poll"
  /\ t \in url
  /\ cur' = [cur EXCEPT ![t] = t]
  /\ Goto(t, "using")
  /\ IF via[t] = "shared" THEN sharedMu' = Nobody /\ sharedCluster' = t
                          ELSE UNCHANGED <<sharedMu, sharedCluster>>
  /\ UNCHANGED <<via, failing, cancelled, processVars, tmp, waitDone, stopVars,
                 sharedStarted, sharedErr>>

\* It gives up: the context is done, the process has exited, or the time is
\* over.  A file written since the last read does not help.
PollFails(t) ==
  /\ pc[t] = "poll"
  /\ cur' = [cur EXCEPT ![t] = t]
  /\ failing' = failing \cup {t}
  /\ Goto(t, "stop")
  /\ UNCHANGED <<via, cancelled, processVars, tmp, waitDone, stopVars, sharedVars>>

\* Variant of Drain: the failure path trusts Stop.
DrainTrusting(t) ==
  /\ pc[t] = "drain"
  /\ StartFails(t, "failed")
  /\ UNCHANGED <<via, failing, cur, cancelled, processVars, tmp, waitDone, stopVars>>

\* After the Stop of a failed Start: read waitErr behind the closed channel.
Drain(t) ==
  /\ pc[t] = "drain"
  /\ t \in waitDone
  /\ StartFails(t, "failed")
  /\ UNCHANGED <<via, failing, cur, cancelled, processVars, tmp, waitDone, stopVars>>

-----------------------------------------------------------------------------
(* Stop, by the failure path of Start, by tests and by RunTests. *)

\* Where a goroutine goes when its Stop returns.
AfterStop(t) == CASE t = Main -> "exit"
                  [] t \in failing -> "drain"
                  [] t # Main /\ t \notin failing -> "done"

\* stopOnce.Do: the first caller tears down, later ones return, and those who
\* come in between wait for the first one.
StopAgain(t) ==
  /\ pc[t] = "stop"
  /\ stopOnce[cur[t]] = "done"
  /\ Goto(t, AfterStop(t))
  /\ UNCHANGED <<via, failing, cur, cancelled, processVars, tmp, waitDone, stopVars, sharedVars>>

StopFirst(t) ==
  /\ pc[t] = "stop"
  /\ stopOnce[cur[t]] = "new"
  /\ stopOnce' = [stopOnce EXCEPT ![cur[t]] = "running"]
  /\ Goto(t, "shutdown")
  /\ UNCHANGED <<via, failing, cur, cancelled, processVars, tmp, waitDone, stopErr, sharedVars>>

\* shutdown, when the monitor has already seen the exit.
ShutdownGone(t) ==
  /\ pc[t] = "shutdown"
  /\ cur[t] \in waitDone
  /\ Goto(t, "remove")
  /\ UNCHANGED <<via, failing, cur, cancelled, processVars, tmp, waitDone, stopVars, sharedVars>>

\* SIGINT, or ErrProcessDone because nobody has reaped the process yet.
Interrupt(t) ==
  /\ pc[t] = "shutdown"
  /\ cur[t] \notin waitDone
  /\ signalled' = signalled \cup {cur[t]}
  /\ Goto(t, "grace")
  /\ UNCHANGED <<via, failing, cur, cancelled, proc, deaf, url, tmp, waitDone, stopVars, sharedVars>>

\* Any other error of Process.Signal makes shutdown return at once.
InterruptFails(t) ==
  /\ pc[t] = "shutdown"
  /\ cur[t] \notin waitDone
  /\ "signal" \in Faults
  /\ stopErr' = [stopErr EXCEPT ![cur[t]] = @ \cup {"signal"}]
  /\ Goto(t, "remove")
  /\ UNCHANGED <<via, failing, cur, cancelled, processVars, tmp, waitDone, stopOnce, sharedVars>>

GraceExit(t) ==
  /\ pc[t] = "grace"
  /\ cur[t] \in waitDone
  /\ Goto(t, "remove")
  /\ UNCHANGED <<via, failing, cur, cancelled, processVars, tmp, waitDone, stopVars, sharedVars>>

\* Variant of GraceExpires: report the deadline and leave it at that.
GraceExpiresNoKill(t) ==
  /\ pc[t] = "grace"
  /\ stopErr' = [stopErr EXCEPT ![cur[t]] = @ \cup {"deadline"}]
  /\ Goto(t, "remove")
  /\ UNCHANGED <<via, failing, cur, cancelled, processVars, tmp, waitDone, stopOnce, sharedVars>>

\* The grace period is over: SIGKILL, and the error says so.  Should the kill
\* fail, shutdown waits for the exit all the same.
GraceExpires(t) ==
  /\ pc[t] = "grace"
  /\ \/ /\ proc' = [proc EXCEPT ![cur[t]] = "exited"]
        /\ stopErr' = [stopErr EXCEPT ![cur[t]] = @ \cup {"deadline"}]
     \/ /\ "kill" \in Faults /\ proc[cur[t]] = "up"
        /\ stopErr' = [stopErr EXCEPT ![cur[t]] = @ \cup {"deadline", "kill"}]
        /\ UNCHANGED proc
  /\ Goto(t, "killed")
  /\ UNCHANGED <<via, failing, cur, cancelled, deaf, signalled, url, tmp, waitDone, stopOnce, sharedVars>>

\* Variant of KillDrained: no wait for the monitor after the kill.
KillUndrained(t) ==
  /\ pc[t] = "killed"
  /\ Goto(t, "remove")
  /\ UNCHANGED <<via, failing, cur, cancelled, processVars, tmp, waitDone, stopVars, sharedVars>>

KillDrained(t) ==
  /\ pc[t] = "killed"
  /\ cur[t] \in waitDone
  /\ Goto(t, "remove")
  /\ UNCHANGED <<via, failing, cur, cancelled, processVars, tmp, waitDone, stopVars, sharedVars>>

\* The directory goes, stopErr joins what failed, and Stop returns.
RemoveDir(t) ==
  /\ pc[t] = "remove"
  /\ \/ tmp' = tmp \ {cur[t]} /\ UNCHANGED stopErr
     \/ /\ "remove" \in Faults
        /\ stopErr' = [stopErr EXCEPT ![cur[t]] = @ \cup {"remove"}]
        /\ UNCHANGED tmp
  /\ stopOnce' = [stopOnce EXCEPT ![cur[t]] = "done"]
  /\ Goto(t, AfterStop(t))
  /\ UNCHANGED <<via, failing, cur, cancelled, processVars, waitDone, sharedVars>>

-----------------------------------------------------------------------------
(* Tests and RunTests. *)

\* A test stops the cluster it was given; it must if it started it itself.
TestStops(t) ==
  /\ pc[t] = "using" /\ cur[t] # External
  /\ Goto(t, "stop")
  /\ UNCHANGED <<via, failing, cur, cancelled, processVars, tmp, waitDone, stopVars, sharedVars>>

TestEnds(t) ==
  /\ \/ pc[t] = "idle"
     \/ pc[t] = "using" /\ via[t] = "shared"
  /\ Goto(t, "done")
  /\ UNCHANGED <<via, failing, cur, cancelled, processVars, tmp, waitDone, stopVars, sharedVars>>

\* m.Run is over: stop the shared cluster, if it is a process of ours.
RunTests ==
  /\ pc[Main] = "idle" /\ sharedMu = Nobody
  /\ \A t \in Tests : pc[t] \in Over
  /\ cur' = [cur EXCEPT ![Main] = sharedCluster]
  /\ Goto(Main, IF sharedCluster \in {NoCluster, External} THEN "exit" ELSE "stop")
  /\ UNCHANGED <<via, failing, cancelled, processVars, tmp, waitDone, stopVars, sharedVars>>

-----------------------------------------------------------------------------
(* The processes, their monitors, and contexts. *)

WritesUrl(c) ==
  /\ proc[c] = "up" /\ c \in tmp /\ c \notin url
  /\ url' = url \cup {c}
  /\ UNCHANGED <<threadVars, proc, deaf, signalled, tmp, waitDone, stopVars, sharedVars>>

\* A rejected flag, a crash, or the reaction to SIGINT.
Exits(c) ==
  /\ proc[c] = "up"
  /\ proc' = [proc EXCEPT ![c] = "exited"]
  /\ UNCHANGED <<threadVars, deaf, signalled, url, tmp, waitDone, stopVars, sharedVars>>

Obeys(c) == c \in signalled \ deaf /\ Exits(c)

\* The monitor: cmd.Wait returns and waitDone is closed.
Reap(c) ==
  /\ proc[c] = "exited" /\ c \notin waitDone
  /\ waitDone' = waitDone \cup {c}
  /\ UNCHANGED <<threadVars, processVars, tmp, stopVars, sharedVars>>

\* The context of a direct Start ends; exec.CommandContext kills the process,
\* whether Start has returned or not.
ContextDone(t) ==
  /\ via[t] = "direct" /\ t \notin cancelled
  /\ cancelled' = cancelled \cup {t}
  /\ proc' = IF proc[t] = "up" THEN [proc EXCEPT ![t] = "exited"] ELSE proc
  /\ UNCHANGED <<pc, via, failing, cur, deaf, signalled, url, tmp, waitDone, stopVars, sharedVars>>

-----------------------------------------------------------------------------

LockShared(t) == SharedCached(t) \/ SharedDsn(t) \/ SharedFirst(t)
StartStep(t) == \/ Resolve(t) \/ MakeDir(t) \/ Launch(t) \/ LaunchFails(t)
                \/ PollUrl(t) \/ PollFails(t) \/ Drain(t)
StopStep(t) == \/ StopAgain(t) \/ StopFirst(t) \/ ShutdownGone(t)
               \/ Interrupt(t) \/ InterruptFails(t)
               \/ GraceExit(t) \/ GraceExpires(t) \/ KillDrained(t) \/ RemoveDir(t)
TestStep(t) == CallShared(t) \/ CallStart(t) \/ TestStops(t) \/ TestEnds(t)

Next == \/ \E t \in Tests : TestStep(t) \/ LockShared(t) \/ StartStep(t) \/ ContextDone(t)
        \/ \E t \in Threads : StopStep(t)
        \/ RunTests
        \/ \E c \in Clusters : WritesUrl(c) \/ Exits(c) \/ Reap(c)

Spec == Init /\ [][Next]_vars

\* Goroutines run, and so do monitors; every timer fires; a process that can
\* reacts to SIGINT.  A mutex starves nobody.  Processes need not start up.
Fairness ==
  /\ \A t \in Tests : /\ WF_vars(TestStep(t))
                      /\ SF_vars(LockShared(t))
                      /\ WF_vars(StartStep(t))
  /\ \A t \in Threads : WF_vars(StopStep(t))
  /\ WF_vars(RunTests)
  /\ \A c \in Clusters : WF_vars(Reap(c)) /\ WF_vars(Obeys(c))
FairSpec == Spec /\ Fairness

-----------------------------------------------------------------------------
(* Properties. *)

\* Start: "On failure, any partially-started process has been killed and the
\* temp directory removed before Start returns", unless removing it fails too:
\* Stop joins that error, a launch that failed drops it.
FailedStartClean ==
  \A t \in Tests : pc[t] \in {"failed", "skipped"} =>
    /\ proc[t] # "up"
    /\ proc[t] = "exited" => t \in waitDone
    /\ t \in tmp => IF proc[t] = "none" THEN "remove" \in Faults ELSE "remove" \in stopErr[t]

\* Once Stop is over its error accounts for all that is left, whoever else
\* called it at the same time: the process is gone and reaped, killed or not,
\* unless it could not be signalled, and so is the directory, unless it could
\* not be removed.
StopAccounts ==
  \A c \in Clusters : stopOnce[c] = "done" =>
    /\ c \in waitDone \/ "signal" \in stopErr[c]
    /\ c \notin tmp \/ "remove" \in stopErr[c]

\* Shared starts one cluster per test binary at most, however many tests ask at
\* once and however the first one fails, and hands the same one to all.
OneSharedCluster ==
  /\ Cardinality({t \in Tests : via[t] = "shared" /\ proc[t] # "none"}) <= 1
  /\ \A t, u \in Tests : /\ pc[t] = "using" /\ via[t] = "shared"
                         /\ pc[u] = "using" /\ via[u] = "shared"
                         => cur[t] = cur[u]

\* When the test binary exits, every process it started is gone and reaped,
\* except one that could not even be signalled, which Stop has reported.
NothingOutlivesTests ==
  pc[Main] = "exit" => \A c \in Clusters :
    proc[c] # "none" => c \in waitDone \/ "signal" \in stopErr[c]

\* Every Start, Stop and Shared returns and the test binary exits: nobody is
\* left waiting for a mutex, for stopOnce, for the monitor or for a deaf
\* process; except after a signal that cannot be sent, or for a process that
\* SIGKILL could not be sent to and that never exits.
BinaryExits ==
  <>[](\/ pc[Main] = "exit"
       \/ \E c \in Clusters : \/ "signal" \in stopErr[c]
                              \/ "kill" \in stopErr[c] /\ proc[c] = "up")

=============================================================================
