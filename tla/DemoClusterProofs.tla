------------------------- MODULE DemoClusterProofs -------------------------
(***************************************************************************)
(* TLAPS proofs about the demo clusters of a test binary, for every set of *)
(* tests and every choice of faults.                                       *)
(***************************************************************************)
EXTENDS DemoCluster, FiniteSetTheorems, TLAPS

\* Places before the process of a test can exist.
Unlaunched == {"idle", "lock", "resolve", "mkdir", "launch"}

\* Where a test is, how it got there, and what became of its own cluster.
TestInv ==
  \A t \in Tests :
    /\ pc[t] # "exit"
    /\ pc[t] = "idle" => via[t] = "none"
    /\ via[t] = "none" => pc[t] \in {"idle", "done"}
    /\ pc[t] = "lock" => via[t] = "shared"
    /\ t \in failing => /\ pc[t] \in Stopping \cup {"drain", "failed", "skipped"}
                        /\ cur[t] = t /\ proc[t] # "none"
    /\ pc[t] = "using" => cur[t] # NoCluster
    /\ pc[t] = "drain" => t \in failing /\ stopOnce[t] = "done"
    /\ via[t] = "direct" /\ pc[t] \in {"using"} \cup Stopping => cur[t] = t
    /\ via[t] = "direct" /\ pc[t] = "done" => stopOnce[t] = "done"

\* A process needs a launch, and a directory a MkdirTemp; a failed Start has
\* reaped the one and removed the other.
LaunchInv ==
  \A t \in Tests :
    /\ proc[t] # "none" => via[t] # "none" /\ pc[t] \notin Unlaunched
    /\ pc[t] = "poll" => proc[t] # "none"
    /\ t \in tmp /\ proc[t] = "none" => pc[t] = "launch" \/ "remove" \in Faults
    /\ t \in tmp => pc[t] \notin Unlaunched \ {"launch"}
    /\ pc[t] \in {"failed", "skipped"} /\ proc[t] # "none" =>
         t \in waitDone /\ stopOnce[t] = "done"

\* Stop works on a process that was started; it goes on to the directory when
\* the process is reaped or could not be signalled.
StopInv ==
  /\ \A t \in Threads :
       /\ cur[t] \in Clusters => proc[cur[t]] # "none"
       /\ pc[t] \in Stopping => cur[t] \in Clusters
       /\ pc[t] = "remove" => cur[t] \in waitDone \/ "signal" \in stopErr[cur[t]]
  /\ \A c \in Clusters :
       /\ stopOnce[c] # "new" => proc[c] # "none"
       /\ stopOnce[c] = "done" => /\ c \in waitDone \/ "signal" \in stopErr[c]
                                  /\ c \notin tmp \/ "remove" \in stopErr[c]
       /\ "remove" \in stopErr[c] => "remove" \in Faults

\* The test inside the first call of Shared.
Holds(t) == /\ via[t] = "shared"
            /\ \/ pc[t] \in Starting
               \/ t \in failing /\ pc[t] \in Stopping \cup {"drain"}

\* Tests whose Shared has started a process, or is about to.
Starter(t) == via[t] = "shared" /\ (Holds(t) \/ proc[t] # "none")

\* sharedMu is held by that test and nobody else, there is one such test in the
\* life of the binary, and what it started is what everybody gets.
SharedInv ==
  /\ \A t \in Tests : Holds(t) => sharedMu = t
  /\ sharedMu # Nobody => sharedMu \in Tests /\ Holds(sharedMu)
  /\ \A t \in Tests : Starter(t) => sharedStarted
  /\ \A t, u \in Tests : Starter(t) /\ Starter(u) => t = u
  /\ ~sharedStarted \/ sharedMu # Nobody => sharedCluster = NoCluster
  /\ sharedStarted => sharedMu # Nobody \/ sharedErr # "none" \/ sharedCluster # NoCluster
  /\ sharedCluster \in Clusters => via[sharedCluster] = "shared" /\ proc[sharedCluster] # "none"
  /\ \A t \in Tests : via[t] = "shared" /\ proc[t] # "none" =>
       pc[t] = "poll" \/ t \in failing \/ sharedCluster = t
  /\ \A t \in Tests : via[t] = "shared" /\ pc[t] = "using" => cur[t] = sharedCluster

\* RunTests begins when the tests are over and ends with the shared cluster.
MainInv ==
  /\ pc[Main] \in {"idle", "exit"} \cup Stopping
  /\ pc[Main] # "idle" => \A t \in Tests : pc[t] \in Over
  /\ pc[Main] \in Stopping => cur[Main] = sharedCluster
  /\ pc[Main] = "exit" => \/ sharedCluster \in {NoCluster, External}
                          \/ stopOnce[sharedCluster] = "done"

ClusterInv == TypeOK /\ TestInv /\ LaunchInv /\ StopInv /\ SharedInv /\ MainInv

-----------------------------------------------------------------------------
\* Shared and the calls that begin it or Start.
LEMMA SharedKeeps ==
  ASSUME ClusterInv, NEW t \in Tests,
         CallShared(t) \/ SharedCached(t) \/ SharedDsn(t) \/ SharedFirst(t) \/ CallStart(t)
  PROVE  ClusterInv'
<1> USE ClusterAssumption DEF ClusterInv, Threads, Clusters, Goto, Starting, Stopping, Over,
        threadVars, processVars, stopVars, sharedVars
<1>1. CASE CallShared(t)
  <2>1. TypeOK'
    BY <1>1 DEF CallShared, TypeOK
  <2>2. TestInv'
    BY <1>1 DEF CallShared, TypeOK, TestInv
  <2>3. LaunchInv'
    BY <1>1 DEF CallShared, LaunchInv, Unlaunched
  <2>4. StopInv'
    BY <1>1 DEF CallShared, StopInv
  <2>5. SharedInv'
    BY <1>1 DEF CallShared, LaunchInv, SharedInv, Holds, Starter, Unlaunched
  <2>6. MainInv'
    BY <1>1 DEF CallShared, MainInv
  <2> QED BY <2>1, <2>2, <2>3, <2>4, <2>5, <2>6
<1>2. CASE SharedCached(t)
  <2>1. TypeOK'
    BY <1>2 DEF SharedCached, Report, TypeOK
  <2>2. TestInv'
    BY <1>2 DEF SharedCached, Report, TypeOK, TestInv, SharedInv
  <2>3. LaunchInv'
    BY <1>2 DEF SharedCached, Report, TypeOK, LaunchInv, Unlaunched
  <2>4. StopInv'
    BY <1>2 DEF SharedCached, Report, TypeOK, StopInv, SharedInv
  <2>5. SharedInv'
    BY <1>2 DEF SharedCached, Report, TypeOK, SharedInv, Holds, Starter
  <2>6. MainInv'
    BY <1>2 DEF SharedCached, TypeOK, MainInv
  <2> QED BY <2>1, <2>2, <2>3, <2>4, <2>5, <2>6
<1>3. CASE SharedDsn(t)
  <2>1. TypeOK'
    BY <1>3 DEF SharedDsn, TypeOK
  <2>2. TestInv'
    BY <1>3 DEF SharedDsn, TypeOK, TestInv
  <2>3. LaunchInv'
    BY <1>3 DEF SharedDsn, LaunchInv, Unlaunched
  <2>4. StopInv'
    BY <1>3 DEF SharedDsn, StopInv
  <2>5. SharedInv'
    BY <1>3 DEF SharedDsn, TypeOK, TestInv, SharedInv, Holds, Starter
  <2>6. MainInv'
    BY <1>3 DEF SharedDsn, MainInv
  <2> QED BY <2>1, <2>2, <2>3, <2>4, <2>5, <2>6
<1>4. CASE SharedFirst(t)
  <2>1. TypeOK'
    BY <1>4 DEF SharedFirst, TypeOK
  <2>2. TestInv'
    BY <1>4 DEF SharedFirst, TestInv
  <2>3. LaunchInv'
    BY <1>4 DEF SharedFirst, LaunchInv, Unlaunched
  <2>4. StopInv'
    BY <1>4 DEF SharedFirst, StopInv
  <2>5. SharedInv'
    BY <1>4 DEF SharedFirst, TypeOK, TestInv, SharedInv, Holds, Starter
  <2>6. MainInv'
    BY <1>4 DEF SharedFirst, MainInv
  <2> QED BY <2>1, <2>2, <2>3, <2>4, <2>5, <2>6
<1>5. CASE CallStart(t)
  <2>1. TypeOK'
    BY <1>5 DEF CallStart, TypeOK
  <2>2. TestInv'
    BY <1>5 DEF CallStart, TypeOK, TestInv
  <2>3. LaunchInv'
    BY <1>5 DEF CallStart, LaunchInv, Unlaunched
  <2>4. StopInv'
    BY <1>5 DEF CallStart, StopInv
  <2>5. SharedInv'
    BY <1>5 DEF CallStart, TestInv, SharedInv, Holds, Starter
  <2>6. MainInv'
    BY <1>5 DEF CallStart, MainInv
  <2> QED BY <2>1, <2>2, <2>3, <2>4, <2>5, <2>6
<1> QED BY <1>1, <1>2, <1>3, <1>4, <1>5

\* Start, up to the process.
LEMMA StartKeeps ==
  ASSUME ClusterInv, NEW t \in Tests,
         Resolve(t) \/ MakeDir(t) \/ Launch(t) \/ LaunchFails(t) \/ PollUrl(t) \/ PollFails(t) \/ Drain(t)
  PROVE  ClusterInv'
<1> USE ClusterAssumption DEF ClusterInv, Threads, Clusters, Goto, Starting, Stopping, Over,
        threadVars, processVars, stopVars, sharedVars
<1>1. CASE Resolve(t)
  <2>1. TypeOK'
    BY <1>1 DEF Resolve, StartFails, Report, TypeOK
  <2>2. TestInv'
    BY <1>1 DEF Resolve, StartFails, Report, TypeOK, TestInv
  <2>3. LaunchInv'
    BY <1>1 DEF Resolve, StartFails, Report, TypeOK, LaunchInv, Unlaunched
  <2>4. StopInv'
    BY <1>1 DEF Resolve, StartFails, Report, TypeOK, StopInv
  <2>5. SharedInv'
    BY <1>1 DEF Resolve, StartFails, Report, TypeOK, SharedInv, Holds, Starter
  <2>6. MainInv'
    BY <1>1 DEF Resolve, StartFails, TypeOK, MainInv
  <2> QED BY <2>1, <2>2, <2>3, <2>4, <2>5, <2>6
<1>2. CASE MakeDir(t)
  <2>1. TypeOK'
    BY <1>2 DEF MakeDir, StartFails, Report, TypeOK
  <2>2. TestInv'
    BY <1>2 DEF MakeDir, StartFails, Report, TypeOK, TestInv
  <2>3. LaunchInv'
    BY <1>2 DEF MakeDir, StartFails, Report, TypeOK, LaunchInv, Unlaunched
  <2>4. StopInv'
    BY <1>2 DEF MakeDir, StartFails, Report, TypeOK, LaunchInv, StopInv, Unlaunched
  <2>5. SharedInv'
    BY <1>2 DEF MakeDir, StartFails, Report, TypeOK, SharedInv, Holds, Starter
  <2>6. MainInv'
    BY <1>2 DEF MakeDir, StartFails, TypeOK, MainInv
  <2> QED BY <2>1, <2>2, <2>3, <2>4, <2>5, <2>6
<1>3. CASE Launch(t)
  <2>1. TypeOK'
    <3>1. deaf' \subseteq Clusters
      BY <1>3 DEF Launch, TypeOK
    <3> QED BY <1>3, <3>1 DEF Launch, TypeOK, LaunchInv, Unlaunched
  <2>2. TestInv'
    BY <1>3 DEF Launch, TestInv
  <2>3. LaunchInv'
    BY <1>3 DEF Launch, TypeOK, TestInv, LaunchInv, Unlaunched
  <2>4. StopInv'
    BY <1>3 DEF Launch, StopInv
  <2>5. SharedInv'
    BY <1>3 DEF Launch, TypeOK, SharedInv, Holds, Starter
  <2>6. MainInv'
    BY <1>3 DEF Launch, MainInv
  <2> QED BY <2>1, <2>2, <2>3, <2>4, <2>5, <2>6
<1>4. CASE LaunchFails(t)
  <2>1. TypeOK'
    BY <1>4 DEF LaunchFails, StartFails, Report, TypeOK
  <2>2. TestInv'
    BY <1>4 DEF LaunchFails, StartFails, Report, TypeOK, TestInv
  <2>3. LaunchInv'
    BY <1>4 DEF LaunchFails, StartFails, Report, TypeOK, LaunchInv, Unlaunched
  <2>4. StopInv'
    BY <1>4 DEF LaunchFails, StartFails, Report, TypeOK, StopInv
  <2>5. SharedInv'
    BY <1>4 DEF LaunchFails, StartFails, Report, TypeOK, SharedInv, Holds, Starter
  <2>6. MainInv'
    BY <1>4 DEF LaunchFails, StartFails, TypeOK, MainInv
  <2> QED BY <2>1, <2>2, <2>3, <2>4, <2>5, <2>6
<1>5. CASE PollUrl(t)
  <2>1. TypeOK'
    BY <1>5 DEF PollUrl, TypeOK
  <2>2. TestInv'
    BY <1>5 DEF PollUrl, TypeOK, TestInv
  <2>3. LaunchInv'
    BY <1>5 DEF PollUrl, LaunchInv, Unlaunched
  <2>4. StopInv'
    BY <1>5 DEF PollUrl, LaunchInv, StopInv
  <2>5. SharedInv'
    BY <1>5 DEF PollUrl, TypeOK, TestInv, LaunchInv, SharedInv, Holds, Starter
  <2>6. MainInv'
    BY <1>5 DEF PollUrl, MainInv
  <2> QED BY <2>1, <2>2, <2>3, <2>4, <2>5, <2>6
<1>6. CASE PollFails(t)
  <2>1. TypeOK'
    BY <1>6 DEF PollFails, TypeOK
  <2>2. TestInv'
    BY <1>6 DEF PollFails, TypeOK, TestInv, LaunchInv
  <2>3. LaunchInv'
    BY <1>6 DEF PollFails, LaunchInv, Unlaunched
  <2>4. StopInv'
    BY <1>6 DEF PollFails, TypeOK, LaunchInv, StopInv
  <2>5. SharedInv'
    BY <1>6 DEF PollFails, SharedInv, Holds, Starter
  <2>6. MainInv'
    BY <1>6 DEF PollFails, MainInv
  <2> QED BY <2>1, <2>2, <2>3, <2>4, <2>5, <2>6
<1>7. CASE Drain(t)
  <2>1. TypeOK'
    BY <1>7 DEF Drain, StartFails, Report, TypeOK
  <2>2. TestInv'
    BY <1>7 DEF Drain, StartFails, Report, TypeOK, TestInv
  <2>3. LaunchInv'
    BY <1>7 DEF Drain, StartFails, Report, TypeOK, TestInv, LaunchInv, Unlaunched
  <2>4. StopInv'
    BY <1>7 DEF Drain, StartFails, Report, TypeOK, StopInv
  <2>5. SharedInv'
    BY <1>7 DEF Drain, StartFails, Report, TypeOK, SharedInv, Holds, Starter
  <2>6. MainInv'
    BY <1>7 DEF Drain, StartFails, TypeOK, MainInv
  <2> QED BY <2>1, <2>2, <2>3, <2>4, <2>5, <2>6
<1> QED BY <1>1, <1>2, <1>3, <1>4, <1>5, <1>6, <1>7

\* Stop, whoever calls it.
LEMMA StopKeeps ==
  ASSUME ClusterInv, NEW t \in Threads,
         StopAgain(t) \/ StopFirst(t) \/ ShutdownGone(t) \/ Interrupt(t) \/ InterruptFails(t) \/ GraceExit(t) \/ GraceExpires(t) \/ KillDrained(t) \/ RemoveDir(t)
  PROVE  ClusterInv'
<1> USE ClusterAssumption DEF ClusterInv, Threads, Clusters, Goto, Starting, Stopping, Over,
        threadVars, processVars, stopVars, sharedVars
<1>1. CASE StopAgain(t)
  <2>1. TypeOK'
    BY <1>1 DEF StopAgain, AfterStop, TypeOK
  <2>2. TestInv'
    BY <1>1 DEF StopAgain, AfterStop, TestInv
  <2>3. LaunchInv'
    BY <1>1 DEF StopAgain, AfterStop, LaunchInv, Unlaunched
  <2>4. StopInv'
    BY <1>1 DEF StopAgain, StopInv
  <2>5. SharedInv'
    BY <1>1 DEF StopAgain, AfterStop, SharedInv, Holds, Starter
  <2>6. MainInv'
    BY <1>1 DEF StopAgain, AfterStop, TypeOK, MainInv
  <2> QED BY <2>1, <2>2, <2>3, <2>4, <2>5, <2>6
<1>2. CASE StopFirst(t)
  <2>1. TypeOK'
    BY <1>2 DEF StopFirst, TypeOK
  <2>2. TestInv'
    BY <1>2 DEF StopFirst, TestInv
  <2>3. LaunchInv'
    BY <1>2 DEF StopFirst, LaunchInv, Unlaunched
  <2>4. StopInv'
    BY <1>2 DEF StopFirst, StopInv
  <2>5. SharedInv'
    BY <1>2 DEF StopFirst, SharedInv, Holds, Starter
  <2>6. MainInv'
    BY <1>2 DEF StopFirst, MainInv
  <2> QED BY <2>1, <2>2, <2>3, <2>4, <2>5, <2>6
<1>3. CASE ShutdownGone(t)
  <2>1. TypeOK'
    BY <1>3 DEF ShutdownGone, TypeOK
  <2>2. TestInv'
    BY <1>3 DEF ShutdownGone, TestInv
  <2>3. LaunchInv'
    BY <1>3 DEF ShutdownGone, LaunchInv, Unlaunched
  <2>4. StopInv'
    BY <1>3 DEF ShutdownGone, StopInv
  <2>5. SharedInv'
    BY <1>3 DEF ShutdownGone, SharedInv, Holds, Starter
  <2>6. MainInv'
    BY <1>3 DEF ShutdownGone, MainInv
  <2> QED BY <2>1, <2>2, <2>3, <2>4, <2>5, <2>6
<1>4. CASE Interrupt(t)
  <2>1. TypeOK'
    <3>1. cur[t] \in Clusters
      BY <1>4 DEF Interrupt, StopInv
    <3> QED BY <1>4, <3>1 DEF Interrupt, TypeOK
  <2>2. TestInv'
    BY <1>4 DEF Interrupt, TestInv
  <2>3. LaunchInv'
    BY <1>4 DEF Interrupt, LaunchInv, Unlaunched
  <2>4. StopInv'
    BY <1>4 DEF Interrupt, StopInv
  <2>5. SharedInv'
    BY <1>4 DEF Interrupt, SharedInv, Holds, Starter
  <2>6. MainInv'
    BY <1>4 DEF Interrupt, MainInv
  <2> QED BY <2>1, <2>2, <2>3, <2>4, <2>5, <2>6
<1>5. CASE InterruptFails(t)
  <2>1. TypeOK'
    BY <1>5 DEF InterruptFails, TypeOK
  <2>2. TestInv'
    BY <1>5 DEF InterruptFails, TestInv
  <2>3. LaunchInv'
    BY <1>5 DEF InterruptFails, LaunchInv, Unlaunched
  <2>4. StopInv'
    BY <1>5 DEF InterruptFails, TypeOK, StopInv
  <2>5. SharedInv'
    BY <1>5 DEF InterruptFails, SharedInv, Holds, Starter
  <2>6. MainInv'
    BY <1>5 DEF InterruptFails, MainInv
  <2> QED BY <2>1, <2>2, <2>3, <2>4, <2>5, <2>6
<1>6. CASE GraceExit(t)
  <2>1. TypeOK'
    BY <1>6 DEF GraceExit, TypeOK
  <2>2. TestInv'
    BY <1>6 DEF GraceExit, TestInv
  <2>3. LaunchInv'
    BY <1>6 DEF GraceExit, LaunchInv, Unlaunched
  <2>4. StopInv'
    BY <1>6 DEF GraceExit, StopInv
  <2>5. SharedInv'
    BY <1>6 DEF GraceExit, SharedInv, Holds, Starter
  <2>6. MainInv'
    BY <1>6 DEF GraceExit, MainInv
  <2> QED BY <2>1, <2>2, <2>3, <2>4, <2>5, <2>6
<1>7. CASE GraceExpires(t)
  <2>0. \A c \in Clusters : proc'[c] # "none" <=> proc[c] # "none"
    <3>1. proc' = proc \/ proc' = [proc EXCEPT ![cur[t]] = "exited"]
      BY <1>7 DEF GraceExpires
    <3>2. proc[cur[t]] # "none"
      BY <1>7 DEF GraceExpires, StopInv
    <3> QED BY <3>1, <3>2 DEF TypeOK
  <2>1. TypeOK'
    BY <1>7 DEF GraceExpires, TypeOK
  <2>2. TestInv'
    <3>1. CASE proc' = proc
      BY <1>7, <3>1 DEF GraceExpires, TestInv
    <3>2. CASE proc' = [proc EXCEPT ![cur[t]] = "exited"]
      BY <1>7, <3>2 DEF GraceExpires, TestInv
    <3> QED BY <1>7, <3>1, <3>2 DEF GraceExpires
  <2>3. LaunchInv'
    <3>1. CASE proc' = proc
      BY <1>7, <3>1 DEF GraceExpires, LaunchInv, Unlaunched
    <3>2. CASE proc' = [proc EXCEPT ![cur[t]] = "exited"]
      BY <1>7, <3>2 DEF GraceExpires, LaunchInv, StopInv, Unlaunched
    <3> QED BY <1>7, <3>1, <3>2 DEF GraceExpires
  <2>4. StopInv'
    <3>1. /\ \A c \in Clusters : "signal" \in stopErr'[c] <=> "signal" \in stopErr[c]
          /\ \A c \in Clusters : "remove" \in stopErr'[c] <=> "remove" \in stopErr[c]
      <4>1. \E e \in {{"deadline"}, {"deadline", "kill"}} :
              stopErr' = [stopErr EXCEPT ![cur[t]] = @ \cup e]
        BY <1>7 DEF GraceExpires
      <4> QED BY <4>1 DEF TypeOK
    <3>2. /\ cur' = cur /\ tmp' = tmp /\ waitDone' = waitDone /\ stopOnce' = stopOnce
          /\ pc' = [pc EXCEPT ![t] = "killed"] /\ pc[t] \in Stopping
      BY <1>7 DEF GraceExpires
    <3> QED BY <2>0, <3>1, <3>2 DEF StopInv, TypeOK
  <2>5. SharedInv'
    <3>1. \A u \in Tests : pc'[u] = pc[u] \/ (pc[u] = "grace" /\ pc'[u] = "killed")
      BY <1>7 DEF GraceExpires
    <3>2. /\ via' = via /\ failing' = failing /\ cur' = cur
          /\ sharedMu' = sharedMu /\ sharedStarted' = sharedStarted
          /\ sharedErr' = sharedErr /\ sharedCluster' = sharedCluster
      BY <1>7 DEF GraceExpires
    <3>3. \A u \in Tests : (Holds(u)' <=> Holds(u)) /\ (Starter(u)' <=> Starter(u))
      BY <2>0, <3>1, <3>2 DEF Holds, Starter
    <3> QED BY <2>0, <3>1, <3>2, <3>3 DEF SharedInv
  <2>6. MainInv'
    BY <1>7 DEF GraceExpires, MainInv
  <2> QED BY <2>1, <2>2, <2>3, <2>4, <2>5, <2>6
<1>8. CASE KillDrained(t)
  <2>1. TypeOK'
    BY <1>8 DEF KillDrained, TypeOK
  <2>2. TestInv'
    BY <1>8 DEF KillDrained, TestInv
  <2>3. LaunchInv'
    BY <1>8 DEF KillDrained, LaunchInv, Unlaunched
  <2>4. StopInv'
    BY <1>8 DEF KillDrained, StopInv
  <2>5. SharedInv'
    BY <1>8 DEF KillDrained, SharedInv, Holds, Starter
  <2>6. MainInv'
    BY <1>8 DEF KillDrained, MainInv
  <2> QED BY <2>1, <2>2, <2>3, <2>4, <2>5, <2>6
<1>9. CASE RemoveDir(t)
  <2>1. TypeOK'
    <3>1. tmp' \subseteq Clusters
      BY <1>9 DEF RemoveDir, TypeOK
    <3>2. stopErr' \in [Clusters -> SUBSET {"signal", "deadline", "kill", "remove"}]
      BY <1>9 DEF RemoveDir, TypeOK
    <3>3. AfterStop(t) \in {"exit", "drain", "done"}
      BY DEF AfterStop
    <3> QED BY <1>9, <3>1, <3>2, <3>3 DEF RemoveDir, TypeOK
  <2>2. TestInv'
    BY <1>9 DEF RemoveDir, AfterStop, TypeOK, TestInv
  <2>3. LaunchInv'
    BY <1>9 DEF RemoveDir, AfterStop, LaunchInv, Unlaunched
  <2>4. StopInv'
    BY <1>9 DEF RemoveDir, TypeOK, StopInv
  <2>5. SharedInv'
    BY <1>9 DEF RemoveDir, AfterStop, SharedInv, Holds, Starter
  <2>6. MainInv'
    BY <1>9 DEF RemoveDir, AfterStop, TypeOK, MainInv
  <2> QED BY <2>1, <2>2, <2>3, <2>4, <2>5, <2>6
<1> QED BY <1>1, <1>2, <1>3, <1>4, <1>5, <1>6, <1>7, <1>8, <1>9

\* Tests, and the context of a direct Start.
LEMMA TestKeeps ==
  ASSUME ClusterInv, NEW t \in Tests,
         TestStops(t) \/ TestEnds(t) \/ ContextDone(t)
  PROVE  ClusterInv'
<1> USE ClusterAssumption DEF ClusterInv, Threads, Clusters, Goto, Starting, Stopping, Over,
        threadVars, processVars, stopVars, sharedVars
<1>1. CASE TestStops(t)
  <2>1. TypeOK'
    BY <1>1 DEF TestStops, TypeOK
  <2>2. TestInv'
    BY <1>1 DEF TestStops, TestInv
  <2>3. LaunchInv'
    BY <1>1 DEF TestStops, LaunchInv, Unlaunched
  <2>4. StopInv'
    BY <1>1 DEF TestStops, TypeOK, TestInv, StopInv
  <2>5. SharedInv'
    BY <1>1 DEF TestStops, TestInv, SharedInv, Holds, Starter
  <2>6. MainInv'
    BY <1>1 DEF TestStops, MainInv
  <2> QED BY <2>1, <2>2, <2>3, <2>4, <2>5, <2>6
<1>2. CASE TestEnds(t)
  <2>1. TypeOK'
    BY <1>2 DEF TestEnds, TypeOK
  <2>2. TestInv'
    BY <1>2 DEF TestEnds, TestInv
  <2>3. LaunchInv'
    BY <1>2 DEF TestEnds, LaunchInv, Unlaunched
  <2>4. StopInv'
    BY <1>2 DEF TestEnds, StopInv
  <2>5. SharedInv'
    BY <1>2 DEF TestEnds, SharedInv, Holds, Starter
  <2>6. MainInv'
    BY <1>2 DEF TestEnds, MainInv
  <2> QED BY <2>1, <2>2, <2>3, <2>4, <2>5, <2>6
<1>3. CASE ContextDone(t)
  <2>1. TypeOK'
    BY <1>3 DEF ContextDone, TypeOK
  <2>2. TestInv'
    BY <1>3 DEF ContextDone, TestInv
  <2>3. LaunchInv'
    BY <1>3 DEF ContextDone, LaunchInv
  <2>4. StopInv'
    BY <1>3 DEF ContextDone, StopInv
  <2>5. SharedInv'
    BY <1>3 DEF ContextDone, SharedInv, Holds, Starter
  <2>6. MainInv'
    BY <1>3 DEF ContextDone, MainInv
  <2> QED BY <2>1, <2>2, <2>3, <2>4, <2>5, <2>6
<1> QED BY <1>1, <1>2, <1>3

\* Processes and their monitors.
LEMMA ProcessKeeps ==
  ASSUME ClusterInv, NEW c \in Clusters,
         WritesUrl(c) \/ Exits(c) \/ Reap(c)
  PROVE  ClusterInv'
<1> USE ClusterAssumption DEF ClusterInv, Threads, Clusters, Goto, Starting, Stopping, Over,
        threadVars, processVars, stopVars, sharedVars
<1>1. CASE WritesUrl(c)
  <2>1. TypeOK'
    BY <1>1 DEF WritesUrl, TypeOK
  <2>2. TestInv'
    BY <1>1 DEF WritesUrl, TestInv
  <2>3. LaunchInv'
    BY <1>1 DEF WritesUrl, LaunchInv
  <2>4. StopInv'
    BY <1>1 DEF WritesUrl, StopInv
  <2>5. SharedInv'
    BY <1>1 DEF WritesUrl, SharedInv, Holds, Starter
  <2>6. MainInv'
    BY <1>1 DEF WritesUrl, MainInv
  <2> QED BY <2>1, <2>2, <2>3, <2>4, <2>5, <2>6
<1>2. CASE Exits(c)
  <2>1. TypeOK'
    BY <1>2 DEF Exits, TypeOK
  <2>2. TestInv'
    BY <1>2 DEF Exits, TestInv
  <2>3. LaunchInv'
    BY <1>2 DEF Exits, LaunchInv
  <2>4. StopInv'
    BY <1>2 DEF Exits, StopInv
  <2>5. SharedInv'
    BY <1>2 DEF Exits, SharedInv, Holds, Starter
  <2>6. MainInv'
    BY <1>2 DEF Exits, MainInv
  <2> QED BY <2>1, <2>2, <2>3, <2>4, <2>5, <2>6
<1>3. CASE Reap(c)
  <2>1. TypeOK'
    BY <1>3 DEF Reap, TypeOK
  <2>2. TestInv'
    BY <1>3 DEF Reap, TestInv
  <2>3. LaunchInv'
    BY <1>3 DEF Reap, LaunchInv
  <2>4. StopInv'
    BY <1>3 DEF Reap, StopInv
  <2>5. SharedInv'
    BY <1>3 DEF Reap, SharedInv, Holds, Starter
  <2>6. MainInv'
    BY <1>3 DEF Reap, MainInv
  <2> QED BY <2>1, <2>2, <2>3, <2>4, <2>5, <2>6
<1> QED BY <1>1, <1>2, <1>3

\* RunTests starts when every test is over.
LEMMA RunTestsKeeps == ASSUME ClusterInv, RunTests PROVE ClusterInv'
<1> USE ClusterAssumption DEF ClusterInv, RunTests, Threads, Clusters, Goto, Starting, Stopping,
        Over, processVars, stopVars, sharedVars
<1>1. TypeOK'
  BY DEF TypeOK
<1>2. TestInv' /\ LaunchInv'
  BY DEF TestInv, LaunchInv
<1>3. StopInv'
  BY DEF TypeOK, StopInv, SharedInv
<1>4. SharedInv'
  BY DEF SharedInv, Holds, Starter
<1>5. MainInv'
  BY DEF TypeOK, MainInv
<1> QED BY <1>1, <1>2, <1>3, <1>4, <1>5

-----------------------------------------------------------------------------
\* The inductive invariant: at any time, whatever failed and whoever was first,
\* each goroutine is where its cluster's state allows it to be.
THEOREM ClusterInvariant == Spec => []ClusterInv
<1>1. Init => ClusterInv
  <2> SUFFICES ASSUME Init
               PROVE  ClusterInv
    OBVIOUS
  <2> USE ClusterAssumption DEF Init, Threads, Clusters, Starting, Stopping
  <2>1. TypeOK
    BY DEF TypeOK
  <2>2. TestInv /\ LaunchInv
    BY DEF TestInv, LaunchInv
  <2>3. StopInv
    BY DEF StopInv
  <2>4. SharedInv
    BY DEF SharedInv, Holds, Starter
  <2>5. MainInv
    BY DEF MainInv
  <2> QED BY <2>1, <2>2, <2>3, <2>4, <2>5 DEF ClusterInv
<1>2. ClusterInv /\ [Next]_vars => ClusterInv'
  <2> SUFFICES ASSUME ClusterInv, [Next]_vars
               PROVE  ClusterInv'
    OBVIOUS
  <2>1. ASSUME NEW t \in Tests, TestStep(t) \/ LockShared(t) \/ StartStep(t) \/ ContextDone(t)
        PROVE  ClusterInv'
    BY <2>1, SharedKeeps, StartKeeps, TestKeeps, Zenon DEF TestStep, LockShared, StartStep
  <2>2. ASSUME NEW t \in Threads, StopStep(t)
        PROVE  ClusterInv'
    BY <2>2, StopKeeps, Zenon DEF StopStep
  <2>3. ASSUME NEW c \in Clusters, WritesUrl(c) \/ Exits(c) \/ Reap(c)
        PROVE  ClusterInv'
    BY <2>3, ProcessKeeps, Zenon
  <2>4. CASE UNCHANGED vars
    BY <2>4 DEF vars, threadVars, processVars, stopVars, sharedVars, ClusterInv, TypeOK, TestInv,
       LaunchInv, StopInv, SharedInv, MainInv, Holds, Starter
  <2> QED BY <2>1, <2>2, <2>3, <2>4, RunTestsKeeps, Zenon DEF Next
<1> QED BY <1>1, <1>2, PTL DEF Spec

\* A Start that failed has reaped its process and removed its directory,
\* however far it came and whatever failed in its Stop.
THEOREM FailedStartsAreClean == Spec => []FailedStartClean
<1>1. ClusterInv => FailedStartClean
  <2> SUFFICES ASSUME ClusterInv, NEW t \in Tests, pc[t] \in {"failed", "skipped"}
               PROVE  /\ proc[t] # "up"
                      /\ proc[t] = "exited" => t \in waitDone
                      /\ t \in tmp => IF proc[t] = "none" THEN "remove" \in Faults
                                                          ELSE "remove" \in stopErr[t]
    BY DEF FailedStartClean
  <2>1. proc[t] # "none" => t \in waitDone /\ stopOnce[t] = "done"
    BY DEF ClusterInv, LaunchInv
  <2>2. t \in waitDone => proc[t] = "exited"
    BY DEF ClusterInv, TypeOK
  <2>3. stopOnce[t] = "done" => t \notin tmp \/ "remove" \in stopErr[t]
    BY DEF ClusterInv, StopInv, Clusters
  <2>4. proc[t] = "none" /\ t \in tmp => "remove" \in Faults
    BY DEF ClusterInv, LaunchInv
  <2> QED BY <2>1, <2>2, <2>3, <2>4
<1> QED BY <1>1, ClusterInvariant, PTL

\* A Stop has left neither a process nor a directory that its error does not
\* account for.
THEOREM StopsAccount == Spec => []StopAccounts
<1>1. ClusterInv => StopAccounts
  BY DEF ClusterInv, StopInv, StopAccounts
<1> QED BY <1>1, ClusterInvariant, PTL

\* The tests of one binary share one cluster.
THEOREM OneClusterIsShared == Spec => []OneSharedCluster
<1>1. ClusterInv => OneSharedCluster
  <2> SUFFICES ASSUME ClusterInv
               PROVE  OneSharedCluster
    OBVIOUS
  <2> DEFINE S == {t \in Tests : via[t] = "shared" /\ proc[t] # "none"}
  <2>1. \A t, u \in S : t = u
    BY DEF ClusterInv, SharedInv, Starter
  <2>2. Cardinality(S) <= 1
    <3>1. CASE S = {}
      BY <3>1, FS_EmptySet
    <3>2. CASE S # {}
      <4>1. PICK t \in S : S = {t}
        BY <2>1, <3>2
      <4>2. Cardinality({t}) = 1
        BY FS_Singleton
      <4> QED BY <4>1, <4>2
    <3> QED BY <3>1, <3>2
  <2>3. \A t, u \in Tests : /\ pc[t] = "using" /\ via[t] = "shared"
                            /\ pc[u] = "using" /\ via[u] = "shared"
                            => cur[t] = cur[u]
    BY DEF ClusterInv, SharedInv
  <2> QED BY <2>2, <2>3 DEF OneSharedCluster
<1> QED BY <1>1, ClusterInvariant, PTL

\* No process outlives the test binary, other than one that could not be
\* signalled: those a test started itself, and the shared one.
THEOREM NoProcessIsLeft == Spec => []NothingOutlivesTests
<1>1. ClusterInv => NothingOutlivesTests
  <2> SUFFICES ASSUME ClusterInv, pc[Main] = "exit", NEW c \in Clusters, proc[c] # "none"
               PROVE  c \in waitDone \/ "signal" \in stopErr[c]
    BY DEF NothingOutlivesTests
  <2> USE DEF Clusters, Over, Stopping
  <2>1. pc[c] \in Over
    BY DEF ClusterInv, MainInv
  <2>2. stopOnce[c] = "done" => c \in waitDone \/ "signal" \in stopErr[c]
    BY DEF ClusterInv, StopInv
  <2>3. CASE pc[c] \in {"failed", "skipped"}
    BY <2>3 DEF ClusterInv, LaunchInv
  <2>4. CASE pc[c] = "done" /\ via[c] = "direct"
    BY <2>2, <2>4 DEF ClusterInv, TestInv
  <2>5. CASE pc[c] = "done" /\ via[c] = "shared"
    <3>1. sharedCluster = c
      BY <2>5 DEF ClusterInv, TestInv, SharedInv
    <3> QED BY <2>2, <3>1, ClusterAssumption DEF ClusterInv, MainInv
  <2>6. CASE pc[c] = "done" /\ via[c] = "none"
    BY <2>6 DEF ClusterInv, LaunchInv
  <2> QED BY <2>1, <2>3, <2>4, <2>5, <2>6 DEF ClusterInv, TypeOK
<1> QED BY <1>1, ClusterInvariant, PTL
=============================================================================
