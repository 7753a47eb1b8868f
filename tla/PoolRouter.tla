----------------------------- MODULE PoolRouter -----------------------------
(***************************************************************************)
(* The warm sibling pool of the MCP server (internal/mcp/proxy/pool.go).   *)
(*                                                                         *)
(* Dispatch goroutines (Callers) forward tool calls to a child process of  *)
(* the wanted quarter.  A pooled entry holds the child's client; its mutex *)
(* serialises the lazy spawn and CallTool.  The pool mutex mu protects the *)
(* map, the closed flag and each entry's dead and lastUsed: no step under  *)
(* mu blocks, so each of its critical sections is one action.  The entry   *)
(* mutex is held across slow calls, so it is a variable.                   *)
(*                                                                         *)
(* Two more goroutines take children away from entries: the janitor (idle  *)
(* sweep) and the goroutine that calls Close.  Both run the same loop over *)
(* their victims: lock, take the client, unlock, close it.                 *)
(*                                                                         *)
(* Entry and child identifiers are reused once nothing refers to them, as  *)
(* the garbage collector and the process table do.                         *)
(***************************************************************************)
EXTENDS Naturals

CONSTANTS
  Callers,      \* goroutines that run Dispatch
  Quarters,     \* versionroute.Quarter values a caller may want
  Installed,    \* quarters whose sibling binary FindBackend finds
  Entries,      \* identities of pooledEntry structs
  Children,     \* identities of sibling processes
  IdleTimeout,  \* idleTimeout in clock units; 0 disables the janitor
  GiveUpAfter,  \* retry bound of Dispatch (16 in the code)
  MaxTime,      \* bound: the clock stops here
  Faults,       \* what the environment may do wrong, a subset of FaultKinds
  NoEntry, NoChild, NoQuarter, Free

FaultKinds == {"spawn", "call", "crash"}
Drainers   == {"janitor", "closer"}
Actors     == Callers \cup Drainers

ASSUME PoolAssumption ==
  /\ Installed \subseteq Quarters
  /\ Callers \cap Drainers = {}
  /\ IdleTimeout \in Nat /\ GiveUpAfter \in Nat /\ MaxTime \in Nat
  /\ Faults \subseteq FaultKinds
  /\ NoEntry \notin Entries /\ NoChild \notin Children
  /\ NoQuarter \notin Quarters /\ Free \notin Callers

VARIABLES
  now,       \* the clock nowFn reads
  entries,   \* p.entries: Quarter -> pooled entry, or NoEntry
  closed,    \* p.closed
  dead,      \* entry.dead
  lastUsed,  \* entry.lastUsed
  client,    \* entry.client: the child, or NoChild
  holder,    \* the caller that holds entry's mutex, or Free
  procs,     \* Children -> "none" (closed or never started), "up", "exited"
  pc,        \* where each Dispatch is
  want,      \* its quarter
  entry,     \* the entry it checked out
  attempt,   \* its retry count
  outcome,   \* what it is about to return
  held,      \* Actors -> the child an actor took and still has to close
  dpc,       \* where the janitor and Close are
  sweepNow,  \* the clock value the current sweep read
  drain,     \* Drainers -> victims still to visit
  cur        \* Drainers -> the victim whose mutex it waits for

poolVars   == <<entries, closed>>
entryVars  == <<dead, lastUsed, client, holder>>
callVars   == <<pc, want, entry, attempt, outcome>>
drainVars  == <<dpc, sweepNow, drain, cur>>
vars == <<now, poolVars, entryVars, procs, callVars, held, drainVars>>

CallPC  == {"idle", "checkout", "lock", "spawn", "init", "call", "mark",
            "evict", "close", "done"}
DrainPC == {"wait", "sweep", "open", "join", "drain", "lock", "close", "exited"}
Outcome == {"none", "ok", "missing", "closed", "churn", "spawn", "transport"}
Holding == {"spawn", "init", "call"}

TypeOK ==
  /\ now \in Nat
  /\ entries \in [Quarters -> Entries \cup {NoEntry}]
  /\ closed \in BOOLEAN
  /\ dead \in [Entries -> BOOLEAN]
  /\ lastUsed \in [Entries -> Nat]
  /\ client \in [Entries -> Children \cup {NoChild}]
  /\ holder \in [Entries -> Callers \cup {Free}]
  /\ procs \in [Children -> {"none", "up", "exited"}]
  /\ pc \in [Callers -> CallPC]
  /\ want \in [Callers -> Quarters \cup {NoQuarter}]
  /\ entry \in [Callers -> Entries \cup {NoEntry}]
  /\ attempt \in [Callers -> 0..(GiveUpAfter + 1)]
  /\ outcome \in [Callers -> Outcome]
  /\ held \in [Actors -> Children \cup {NoChild}]
  /\ dpc \in [Drainers -> DrainPC]
  /\ sweepNow \in Nat
  /\ drain \in [Drainers -> SUBSET Entries]
  /\ cur \in [Drainers -> Entries \cup {NoEntry}]

-----------------------------------------------------------------------------
\* NewPoolRouter starts the janitor only when idle eviction is enabled.
Init ==
  /\ now = 0
  /\ entries = [q \in Quarters |-> NoEntry]
  /\ closed = FALSE
  /\ dead = [e \in Entries |-> FALSE]
  /\ lastUsed = [e \in Entries |-> 0]
  /\ client = [e \in Entries |-> NoChild]
  /\ holder = [e \in Entries |-> Free]
  /\ procs = [c \in Children |-> "none"]
  /\ pc = [d \in Callers |-> "idle"]
  /\ want = [d \in Callers |-> NoQuarter]
  /\ entry = [d \in Callers |-> NoEntry]
  /\ attempt = [d \in Callers |-> 0]
  /\ outcome = [d \in Callers |-> "none"]
  /\ held = [a \in Actors |-> NoChild]
  /\ dpc = [x \in Drainers |->
              IF x = "closer" THEN "open"
              ELSE IF IdleTimeout > 0 THEN "wait" ELSE "exited"]
  /\ sweepNow = 0
  /\ drain = [x \in Drainers |-> {}]
  /\ cur = [x \in Drainers |-> NoEntry]

\* An entry is in use while the map, a goroutine or a victim list refers to it.
Draining(e) == \E x \in Drainers : e \in drain[x] \/ cur[x] = e
InUse(e) == \/ \E q \in Quarters : entries[q] = e
            \/ \E d \in Callers : entry[d] = e
            \/ Draining(e)

Finish(d, result) ==
  /\ pc' = [pc EXCEPT ![d] = "done"]
  /\ outcome' = [outcome EXCEPT ![d] = result]
  /\ want' = [want EXCEPT ![d] = NoQuarter]
  /\ entry' = [entry EXCEPT ![d] = NoEntry]
  /\ attempt' = [attempt EXCEPT ![d] = 0]

Unlock(d) == holder' = [holder EXCEPT ![entry[d]] = Free]

-----------------------------------------------------------------------------
(* Dispatch and checkout *)

Dispatch(d, q) ==
  /\ pc[d] = "idle"
  /\ pc' = [pc EXCEPT ![d] = "checkout"]
  /\ want' = [want EXCEPT ![d] = q]
  /\ UNCHANGED <<now, poolVars, entryVars, procs, entry, attempt, outcome,
                 held, drainVars>>

CheckoutClosed(d) ==
  /\ pc[d] = "checkout" /\ closed
  /\ Finish(d, "closed")
  /\ UNCHANGED <<now, poolVars, entryVars, procs, held, drainVars>>

Pooled(q) == entries[q] # NoEntry /\ ~dead[entries[q]]

CheckoutWarm(d) ==
  /\ pc[d] = "checkout" /\ ~closed /\ Pooled(want[d])
  /\ lastUsed' = [lastUsed EXCEPT ![entries[want[d]]] = now]
  /\ entry' = [entry EXCEPT ![d] = entries[want[d]]]
  /\ pc' = [pc EXCEPT ![d] = "lock"]
  /\ UNCHANGED <<now, poolVars, dead, client, holder, procs, want, attempt,
                 outcome, held, drainVars>>

CheckoutMissing(d) ==
  /\ pc[d] = "checkout" /\ ~closed /\ ~Pooled(want[d])
  /\ want[d] \notin Installed
  /\ Finish(d, "missing")
  /\ UNCHANGED <<now, poolVars, entryVars, procs, held, drainVars>>

CheckoutFresh(d, e) ==
  /\ pc[d] = "checkout" /\ ~closed /\ ~Pooled(want[d])
  /\ want[d] \in Installed
  /\ ~InUse(e)
  /\ entries' = [entries EXCEPT ![want[d]] = e]
  /\ dead' = [dead EXCEPT ![e] = FALSE]
  /\ lastUsed' = [lastUsed EXCEPT ![e] = now]
  /\ client' = [client EXCEPT ![e] = NoChild]
  /\ entry' = [entry EXCEPT ![d] = e]
  /\ pc' = [pc EXCEPT ![d] = "lock"]
  /\ UNCHANGED <<now, closed, holder, procs, want, attempt, outcome, held,
                 drainVars>>

\* entry.Lock, then the read of entry.dead: a live entry goes on to
\* dispatchLocked, a dead one is unlocked and the checkout retried.
AcquireLive(d) ==
  /\ pc[d] = "lock" /\ holder[entry[d]] = Free /\ ~dead[entry[d]]
  /\ holder' = [holder EXCEPT ![entry[d]] = d]
  /\ pc' = [pc EXCEPT ![d] = IF client[entry[d]] = NoChild THEN "spawn" ELSE "call"]
  /\ UNCHANGED <<now, poolVars, dead, lastUsed, client, procs, want, entry,
                 attempt, outcome, held, drainVars>>

RetryDead(d) ==
  /\ pc[d] = "lock" /\ holder[entry[d]] = Free /\ dead[entry[d]]
  /\ attempt[d] <= GiveUpAfter
  /\ attempt' = [attempt EXCEPT ![d] = @ + 1]
  /\ entry' = [entry EXCEPT ![d] = NoEntry]
  /\ pc' = [pc EXCEPT ![d] = "checkout"]
  /\ UNCHANGED <<now, poolVars, entryVars, procs, want, outcome, held,
                 drainVars>>

GiveUp(d) ==
  /\ pc[d] = "lock" /\ holder[entry[d]] = Free /\ dead[entry[d]]
  /\ attempt[d] > GiveUpAfter
  /\ Finish(d, "churn")
  /\ UNCHANGED <<now, poolVars, entryVars, procs, held, drainVars>>

-----------------------------------------------------------------------------
(* dispatchLocked: spawn or reuse, then CallTool, with entry's mutex held *)

\* client.NewStdioMCPClient started the child; Initialize is in flight.
SpawnChild(d, c) ==
  /\ pc[d] = "spawn" /\ procs[c] = "none"
  /\ procs' = [procs EXCEPT ![c] = "up"]
  /\ held' = [held EXCEPT ![d] = c]
  /\ pc' = [pc EXCEPT ![d] = "init"]
  /\ UNCHANGED <<now, poolVars, entryVars, want, entry, attempt, outcome,
                 drainVars>>

SpawnFails(d) ==
  /\ pc[d] = "spawn" /\ "spawn" \in Faults
  /\ Unlock(d)
  /\ pc' = [pc EXCEPT ![d] = "evict"]
  /\ UNCHANGED <<now, poolVars, dead, lastUsed, client, procs, want, entry,
                 attempt, outcome, held, drainVars>>

InitOk(d) ==
  /\ pc[d] = "init" /\ procs[held[d]] = "up"
  /\ client' = [client EXCEPT ![entry[d]] = held[d]]
  /\ held' = [held EXCEPT ![d] = NoChild]
  /\ pc' = [pc EXCEPT ![d] = "call"]
  /\ UNCHANGED <<now, poolVars, dead, lastUsed, holder, procs, want, entry,
                 attempt, outcome, drainVars>>

\* Variant of InitFails that forgets the child.
InitFailsNoClose(d) ==
  /\ pc[d] = "init" /\ ("spawn" \in Faults \/ procs[held[d]] = "exited")
  /\ held' = [held EXCEPT ![d] = NoChild]
  /\ Unlock(d)
  /\ pc' = [pc EXCEPT ![d] = "evict"]
  /\ UNCHANGED <<now, poolVars, dead, lastUsed, client, procs, want, entry,
                 attempt, outcome, drainVars>>

\* spawnAndInit closes the child before it reports the failed handshake.
InitFails(d) ==
  /\ pc[d] = "init" /\ ("spawn" \in Faults \/ procs[held[d]] = "exited")
  /\ procs' = [procs EXCEPT ![held[d]] = "none"]
  /\ held' = [held EXCEPT ![d] = NoChild]
  /\ Unlock(d)
  /\ pc' = [pc EXCEPT ![d] = "evict"]
  /\ UNCHANGED <<now, poolVars, dead, lastUsed, client, want, entry, attempt,
                 outcome, drainVars>>

\* Variant of CallReturns that keeps the mutex.
CallReturnsLocked(d) ==
  /\ pc[d] = "call" /\ procs[client[entry[d]]] = "up"
  /\ pc' = [pc EXCEPT ![d] = "mark"]
  /\ UNCHANGED <<now, poolVars, entryVars, procs, want, entry, attempt,
                 outcome, held, drainVars>>

CallReturns(d) ==
  /\ pc[d] = "call" /\ procs[client[entry[d]]] = "up"
  /\ Unlock(d)
  /\ pc' = [pc EXCEPT ![d] = "mark"]
  /\ UNCHANGED <<now, poolVars, dead, lastUsed, client, procs, want, entry,
                 attempt, outcome, held, drainVars>>

\* Variant of CallFails that leaves the client in the entry.
CallFailsKeepsClient(d) ==
  /\ pc[d] = "call"
  /\ "call" \in Faults \/ procs[client[entry[d]]] = "exited"
  /\ held' = [held EXCEPT ![d] = client[entry[d]]]
  /\ Unlock(d)
  /\ pc' = [pc EXCEPT ![d] = "evict"]
  /\ UNCHANGED <<now, poolVars, dead, lastUsed, client, procs, want, entry,
                 attempt, outcome, drainVars>>

\* Transport error: the client leaves the entry and the mutex is released
\* before the entry is marked dead and the child closed.
CallFails(d) ==
  /\ pc[d] = "call"
  /\ "call" \in Faults \/ procs[client[entry[d]]] = "exited"
  /\ held' = [held EXCEPT ![d] = client[entry[d]]]
  /\ client' = [client EXCEPT ![entry[d]] = NoChild]
  /\ Unlock(d)
  /\ pc' = [pc EXCEPT ![d] = "evict"]
  /\ UNCHANGED <<now, poolVars, dead, lastUsed, procs, want, entry, attempt,
                 outcome, drainVars>>

MarkUsed(d) ==
  /\ pc[d] = "mark"
  /\ lastUsed' = [lastUsed EXCEPT ![entry[d]] =
                    IF dead[entry[d]] THEN @ ELSE now]
  /\ Finish(d, "ok")
  /\ UNCHANGED <<now, poolVars, dead, client, holder, procs, held,
                 drainVars>>

\* Variant of Evict that leaves the entry in the map.
EvictKeepsMap(d) ==
  /\ pc[d] = "evict"
  /\ dead' = [dead EXCEPT ![entry[d]] = TRUE]
  /\ IF held[d] = NoChild
       THEN Finish(d, "spawn")
       ELSE /\ pc' = [pc EXCEPT ![d] = "close"]
            /\ UNCHANGED <<want, entry, attempt, outcome>>
  /\ UNCHANGED <<now, poolVars, lastUsed, client, holder, procs, held,
                 drainVars>>

\* evict under mu.  The client to close, if any, is in held[d].
Evict(d) ==
  /\ pc[d] = "evict"
  /\ entries' = [entries EXCEPT ![want[d]] = IF @ = entry[d] THEN NoEntry ELSE @]
  /\ dead' = [dead EXCEPT ![entry[d]] = TRUE]
  /\ IF held[d] = NoChild
       THEN Finish(d, "spawn")
       ELSE /\ pc' = [pc EXCEPT ![d] = "close"]
            /\ UNCHANGED <<want, entry, attempt, outcome>>
  /\ UNCHANGED <<now, closed, lastUsed, client, holder, procs, held,
                 drainVars>>

CloseEvicted(d) ==
  /\ pc[d] = "close"
  /\ procs' = [procs EXCEPT ![held[d]] = "none"]
  /\ held' = [held EXCEPT ![d] = NoChild]
  /\ Finish(d, "transport")
  /\ UNCHANGED <<now, poolVars, entryVars, drainVars>>

Return(d) ==
  /\ pc[d] = "done"
  /\ pc' = [pc EXCEPT ![d] = "idle"]
  /\ outcome' = [outcome EXCEPT ![d] = "none"]
  /\ UNCHANGED <<now, poolVars, entryVars, procs, want, entry, attempt, held,
                 drainVars>>

-----------------------------------------------------------------------------
(* The victim loop shared by sweepIdle and Close *)

PickVictim(x, e) ==
  /\ dpc[x] = "drain" /\ e \in drain[x]
  /\ drain' = [drain EXCEPT ![x] = @ \ {e}]
  /\ cur' = [cur EXCEPT ![x] = e]
  /\ dpc' = [dpc EXCEPT ![x] = "lock"]
  /\ UNCHANGED <<now, poolVars, entryVars, procs, callVars, held, sweepNow>>

\* Variant of TakeClient that does not wait for the entry's mutex.
TakeClientUnlocked(x) ==
  /\ dpc[x] = "lock"
  /\ held' = [held EXCEPT ![x] = client[cur[x]]]
  /\ client' = [client EXCEPT ![cur[x]] = NoChild]
  /\ cur' = [cur EXCEPT ![x] = NoEntry]
  /\ dpc' = [dpc EXCEPT ![x] =
               IF client[cur[x]] = NoChild THEN "drain" ELSE "close"]
  /\ UNCHANGED <<now, poolVars, dead, lastUsed, holder, procs, callVars,
                 sweepNow, drain>>

TakeClient(x) ==
  /\ dpc[x] = "lock" /\ holder[cur[x]] = Free
  /\ held' = [held EXCEPT ![x] = client[cur[x]]]
  /\ client' = [client EXCEPT ![cur[x]] = NoChild]
  /\ cur' = [cur EXCEPT ![x] = NoEntry]
  /\ dpc' = [dpc EXCEPT ![x] =
               IF client[cur[x]] = NoChild THEN "drain" ELSE "close"]
  /\ UNCHANGED <<now, poolVars, dead, lastUsed, holder, procs, callVars,
                 sweepNow, drain>>

CloseVictim(x) ==
  /\ dpc[x] = "close"
  /\ procs' = [procs EXCEPT ![held[x]] = "none"]
  /\ held' = [held EXCEPT ![x] = NoChild]
  /\ dpc' = [dpc EXCEPT ![x] = "drain"]
  /\ UNCHANGED <<now, poolVars, entryVars, callVars, sweepNow, drain, cur>>

(* The janitor *)

\* A tick: sweepIdle reads the clock before it takes mu.
JanitorTick ==
  /\ dpc["janitor"] = "wait"
  /\ sweepNow' = now
  /\ dpc' = [dpc EXCEPT !["janitor"] = "sweep"]
  /\ UNCHANGED <<now, poolVars, entryVars, procs, callVars, held, drain, cur>>

\* Variant of Idle: the age of an entry as an unsigned difference.
IdleUnsigned(e) == lastUsed[e] > sweepNow \/ sweepNow >= lastUsed[e] + IdleTimeout

\* Subtraction of clocks is signed in Go: an entry used after the sweep read
\* the clock is not idle.
Idle(e) == sweepNow >= lastUsed[e] + IdleTimeout

SweepMark ==
  /\ dpc["janitor"] = "sweep"
  /\ LET victims == {e \in Entries :
                       Idle(e) /\ \E q \in Quarters : entries[q] = e}
     IN /\ dead' = [e \in Entries |-> dead[e] \/ e \in victims]
        /\ entries' = [q \in Quarters |->
                         IF entries[q] \in victims THEN NoEntry ELSE entries[q]]
        /\ drain' = [drain EXCEPT !["janitor"] = victims]
  /\ dpc' = [dpc EXCEPT !["janitor"] = "drain"]
  /\ UNCHANGED <<now, closed, lastUsed, client, holder, procs, callVars, held,
                 sweepNow, cur>>

SweepDone ==
  /\ dpc["janitor"] = "drain" /\ drain["janitor"] = {}
  /\ dpc' = [dpc EXCEPT !["janitor"] = "wait"]
  /\ UNCHANGED <<now, poolVars, entryVars, procs, callVars, held, sweepNow,
                 drain, cur>>

\* Variant of JanitorExit: cancelled only once Close has stopped waiting.
JanitorExitAfterJoin ==
  /\ dpc["janitor"] = "wait" /\ dpc["closer"] \notin {"open", "join"}
  /\ dpc' = [dpc EXCEPT !["janitor"] = "exited"]
  /\ UNCHANGED <<now, poolVars, entryVars, procs, callVars, held, sweepNow,
                 drain, cur>>

\* ctx.Done is ready once Close has called stopJanitor.
JanitorExit ==
  /\ dpc["janitor"] = "wait" /\ dpc["closer"] # "open"
  /\ dpc' = [dpc EXCEPT !["janitor"] = "exited"]
  /\ UNCHANGED <<now, poolVars, entryVars, procs, callVars, held, sweepNow,
                 drain, cur>>

(* Close *)

\* Variant of CloseBegin that does not mark the entries dead.
CloseBeginAlive ==
  /\ dpc["closer"] = "open" /\ ~closed
  /\ closed' = TRUE
  /\ drain' = [drain EXCEPT !["closer"] =
                 {e \in Entries : \E q \in Quarters : entries[q] = e}]
  /\ entries' = [q \in Quarters |-> NoEntry]
  /\ dpc' = [dpc EXCEPT !["closer"] = "join"]
  /\ UNCHANGED <<now, dead, lastUsed, client, holder, procs, callVars, held,
                 sweepNow, cur>>

\* Under mu every pooled entry is marked dead and the map dropped; then the
\* janitor's context is cancelled.  Later calls find closed set and return.
CloseBegin ==
  /\ dpc["closer"] = "open" /\ ~closed
  /\ closed' = TRUE
  /\ LET pooled == {e \in Entries : \E q \in Quarters : entries[q] = e}
     IN /\ dead' = [e \in Entries |-> dead[e] \/ e \in pooled]
        /\ drain' = [drain EXCEPT !["closer"] = pooled]
  /\ entries' = [q \in Quarters |-> NoEntry]
  /\ dpc' = [dpc EXCEPT !["closer"] = "join"]
  /\ UNCHANGED <<now, lastUsed, client, holder, procs, callVars, held,
                 sweepNow, cur>>

CloseJoin ==
  /\ dpc["closer"] = "join" /\ dpc["janitor"] = "exited"
  /\ dpc' = [dpc EXCEPT !["closer"] = "drain"]
  /\ UNCHANGED <<now, poolVars, entryVars, procs, callVars, held, sweepNow,
                 drain, cur>>

CloseDone ==
  /\ dpc["closer"] = "drain" /\ drain["closer"] = {}
  /\ dpc' = [dpc EXCEPT !["closer"] = "exited"]
  /\ UNCHANGED <<now, poolVars, entryVars, procs, callVars, held, sweepNow,
                 drain, cur>>

-----------------------------------------------------------------------------
(* Environment *)

Tick ==
  /\ now < MaxTime
  /\ now' = now + 1
  /\ UNCHANGED <<poolVars, entryVars, procs, callVars, held, drainVars>>

Crash(c) ==
  /\ "crash" \in Faults /\ procs[c] = "up"
  /\ procs' = [procs EXCEPT ![c] = "exited"]
  /\ UNCHANGED <<now, poolVars, entryVars, callVars, held, drainVars>>

Checkout(d) ==
  \/ CheckoutClosed(d)
  \/ CheckoutWarm(d)
  \/ CheckoutMissing(d)
  \/ \E e \in Entries : CheckoutFresh(d, e)

Acquire(d) == AcquireLive(d) \/ RetryDead(d) \/ GiveUp(d)

SpawnStep(d) == \/ \E c \in Children : SpawnChild(d, c)
                \/ SpawnFails(d)
                \/ InitOk(d)
                \/ InitFails(d)

CallCompletes(d) == CallReturns(d) \/ CallFails(d)

Settle(d) == MarkUsed(d) \/ Evict(d) \/ CloseEvicted(d) \/ Return(d)

CallerStep(d) == \/ Checkout(d) \/ Acquire(d) \/ SpawnStep(d)
                 \/ CallCompletes(d) \/ Settle(d)

VictimStep(x) == (\E e \in Entries : PickVictim(x, e)) \/ CloseVictim(x)

JanitorStep == \/ VictimStep("janitor") \/ TakeClient("janitor")
               \/ JanitorTick \/ SweepMark \/ SweepDone \/ JanitorExit

CloserStep == \/ VictimStep("closer") \/ TakeClient("closer")
              \/ CloseJoin \/ CloseDone

Next ==
  \/ \E d \in Callers : CallerStep(d) \/ \E q \in Quarters : Dispatch(d, q)
  \/ JanitorStep
  \/ CloserStep
  \/ CloseBegin
  \/ Tick
  \/ \E c \in Children : Crash(c)

Spec == Init /\ [][Next]_vars
-----------------------------------------------------------------------------
(* Fairness.  Every step of the program is taken when it stays possible: a *)
(* goroutine is not suspended forever, the initialize handshake has its    *)
(* timeout and Client.Close its kill escalation.  sync.Mutex starves no    *)
(* waiter and select picks among ready channels at random, so waiting for  *)
(* an entry mutex and leaving the janitor loop are strongly fair.  That a  *)
(* CallTool in flight ever returns is the caller's context or the child's  *)
(* doing, not the pool's: it is not assumed, and a call may hang for ever. *)

PoolFairness ==
  /\ \A d \in Callers : /\ WF_vars(Checkout(d) \/ SpawnStep(d) \/ Settle(d))
                        /\ SF_vars(Acquire(d))
  /\ \A x \in Drainers : SF_vars(TakeClient(x))
  /\ WF_vars(VictimStep("janitor") \/ JanitorTick \/ SweepMark \/ SweepDone)
  /\ WF_vars(VictimStep("closer") \/ CloseJoin \/ CloseDone)
  /\ SF_vars(JanitorExit)

FairSpec == Spec /\ PoolFairness

-----------------------------------------------------------------------------
(* Properties *)

\* Something will still find entry e: the map, the goroutine that holds its
\* mutex, or a victim list.  A goroutine that merely queues on the mutex of a
\* dead entry does not count: it retries without looking at the client.
Reachable(e) == \/ \E q \in Quarters : entries[q] = e
                \/ holder[e] # Free
                \/ Draining(e)

\* Every child process that was started and not closed is owned: it sits in
\* an entry something will still find, or in the hands of the goroutine about
\* to close it.  (The leak that Dispatch's retry loop is there to prevent.)
NoOrphanChild ==
  \A c \in Children : procs[c] # "none" =>
    \/ \E a \in Actors : held[a] = c
    \/ \E e \in Entries : client[e] = c /\ Reachable(e)

\* A child has one owner: no two entries share a client, and a child taken out
\* to be closed is in no entry and in nobody else's hands, so it is closed once.
SingleOwner ==
  /\ \A e1, e2 \in Entries :
       client[e1] = client[e2] /\ client[e1] # NoChild => e1 = e2
  /\ \A a, b \in Actors : held[a] = held[b] /\ held[a] # NoChild => a = b
  /\ \A a \in Actors, e \in Entries :
       held[a] = client[e] => held[a] = NoChild

\* The pipe of a CallTool in flight is its own: the child has not been closed,
\* nobody has taken it to close it, and no second CallTool runs on it.
CallIsolation ==
  \A d \in Callers : pc[d] = "call" =>
    /\ client[entry[d]] \in Children
    /\ procs[client[entry[d]]] # "none"
    /\ \A a \in Actors : held[a] # client[entry[d]]
    /\ \A d2 \in Callers \ {d} : pc[d2] = "call" =>
         client[entry[d2]] # client[entry[d]]

\* Once Close has returned, no call or spawn is in flight, and the only
\* children left are those a Dispatch that saw a transport error is closing.
CloseDrains ==
  dpc["closer"] = "exited" =>
    /\ \A d \in Callers : pc[d] \notin Holding
    /\ \A c \in Children : procs[c] # "none" => \E d \in Callers : held[d] = c

\* The map holds no evicted entry and, once closed, no entry at all: checkout
\* never finds a dead entry in it and never writes to the dropped map.
MapHoldsLive ==
  \A q \in Quarters : entries[q] # NoEntry => ~closed /\ ~dead[entries[q]]

\* The doc of PoolRouter: "one child, serialized by the entry's mutex": at most
\* one CallTool in flight per quarter.
OneCallPerQuarter ==
  \A d1, d2 \in Callers :
    pc[d1] = "call" /\ pc[d2] = "call" /\ want[d1] = want[d2] => d1 = d2

\* sweepIdle evicts only what is idle when it takes mu, although the clock it
\* goes by was read before: an entry checked out in between stays.
SweptWhenIdle ==
  [][\A e \in Entries : e \in drain'["janitor"] \ drain["janitor"] =>
       now >= lastUsed[e] + IdleTimeout]_vars

\* The pool seen from its children: who has which in hand, and for what.
InHand(a) == IF held[a] # NoChild THEN held[a]
             ELSE IF a \in Callers /\ pc[a] = "call" THEN client[entry[a]]
             ELSE NoChild
HandUse(a) == IF held[a] # NoChild
                THEN IF a \in Callers /\ pc[a] = "init" THEN "start" ELSE "close"
                ELSE IF a \in Callers /\ pc[a] = "call" THEN "call" ELSE "none"
Life == INSTANCE ChildLife WITH
  alive <- {c \in Children : procs[c] # "none"},
  claim <- [a \in Actors |-> InHand(a)],
  use   <- [a \in Actors |-> HandUse(a)]

\* The pool implements ChildLife: through every eviction, sweep and Close a
\* child is in one pair of hands, is taken out only while nobody calls it, and
\* is closed once, by whoever took it.
ChildrenAreOwned == Life!Spec

\* A call that never ends: no answer, and no deadline in its context.
Hangs(d, q) == pc[d] = "call" /\ want[d] = q
Stuck(x, d) == pc[d] = "call" /\ entry[d] = cur[x]

\* Every Dispatch returns, whatever it races with and however often its entry
\* is evicted: only a hung call for its own quarter can keep it.
DispatchReturns ==
  \A d \in Callers, q \in Quarters :
    \/ \E h \in Callers : <>[]Hangs(h, q)
    \/ (pc[d] = "checkout" /\ want[d] = q) ~> pc[d] = "done"

\* Close returns, unless it, or the janitor it joins, waits for the entry of a
\* hung call.
CloseReturns ==
  \/ \E x \in Drainers, h \in Callers : <>[]Stuck(x, h)
  \/ dpc["closer"] = "join" ~> dpc["closer"] = "exited"

\* A child that stays idle for idleTimeout is taken out to be closed, unless it
\* is used again: an entry the clock has passed does not stay warm untouched.
IdleChildClosed ==
  \A e \in Entries :
    \/ \E x \in Drainers, h \in Callers : <>[]Stuck(x, h)
    \/ (client[e] # NoChild /\ now >= lastUsed[e] + IdleTimeout /\ IdleTimeout > 0)
         ~> (client[e] = NoChild \/ now < lastUsed[e] + IdleTimeout)

\* The janitor takes out the idle entries and no others: nothing idle stays warm
\* for ever, nothing used since the sweep read its clock is taken.
IdleSweep == IdleChildClosed /\ SweptWhenIdle

-----------------------------------------------------------------------------
(* The inductive invariant behind the safety theorems of PoolRouterProofs. *)

Mapped(e) == \E q \in Quarters : entries[q] = e

WithEntry == {"lock", "spawn", "init", "call", "mark", "evict", "close"}
DrainBusy == {"join", "drain", "lock", "close"}

\* What a goroutine's place in the code says about its local variables.
LocalInv ==
  /\ \A d \in Callers :
       /\ want[d] = NoQuarter <=> pc[d] \in {"idle", "done"}
       /\ entry[d] = NoEntry <=> pc[d] \notin WithEntry
       /\ pc[d] \in {"init", "close"} => held[d] # NoChild
       /\ held[d] # NoChild => pc[d] \in {"init", "evict", "close"}
  /\ \A x \in Drainers :
       /\ cur[x] = NoEntry <=> dpc[x] # "lock"
       /\ held[x] = NoChild <=> dpc[x] # "close"
       /\ dpc[x] \notin DrainBusy => drain[x] = {}

\* An entry's mutex is held by exactly the goroutine that is inside
\* dispatchLocked with that entry, and that goroutine sees its own writes.
LockInv ==
  /\ \A d \in Callers : pc[d] \in Holding => holder[entry[d]] = d
  /\ \A e \in Entries : holder[e] # Free =>
       pc[holder[e]] \in Holding /\ entry[holder[e]] = e
  /\ \A d \in Callers : pc[d] \in {"spawn", "init"} =>
       client[entry[d]] = NoChild
  /\ \A d \in Callers : pc[d] = "call" => client[entry[d]] # NoChild

\* Whoever refers to a child refers to one that was started and not closed.
ProcInv ==
  /\ \A e \in Entries : client[e] # NoChild => procs[client[e]] # "none"
  /\ \A a \in Actors : held[a] # NoChild => procs[held[a]] # "none"

\* A checked-out entry sits under its caller's quarter or nowhere, and has left
\* the map only by being marked dead.
MapInv ==
  /\ \A q1, q2 \in Quarters :
       entries[q1] = entries[q2] /\ entries[q1] # NoEntry => q1 = q2
  /\ \A d \in Callers : \A q \in Quarters :
       pc[d] \in WithEntry /\ entries[q] = entry[d] => q = want[d]
  /\ \A d \in Callers :
       pc[d] \in WithEntry /\ ~dead[entry[d]] => Mapped(entry[d])

CloserInv ==
  /\ closed <=> dpc["closer"] # "open"
  /\ dpc["closer"] \in {"drain", "lock", "close", "exited"} => dpc["janitor"] = "exited"

IInv == /\ TypeOK /\ LocalInv /\ LockInv /\ ProcInv /\ SingleOwner
        /\ MapHoldsLive /\ MapInv /\ CloserInv

\* An entry that is warm or locked is still in the map or on a victim list, and
\* no child is dropped.
WarmInv  == \A e \in Entries : client[e] # NoChild \/ holder[e] # Free =>
              Mapped(e) \/ Draining(e)
OwnedInv == \A c \in Children : procs[c] # "none" =>
              (\E a \in Actors : held[a] = c) \/ \E e \in Entries : client[e] = c
TidyInv  == WarmInv /\ OwnedInv

\* What keeps the pool tidy: whoever evicts an entry finds it cold and unlocked.
ColdEvict == \A d \in Callers : pc[d] = "evict" =>
               client[entry[d]] = NoChild /\ holder[entry[d]] = Free

\* Without faults nothing is evicted by a Dispatch at all.
NoEvictInv == /\ \A d \in Callers : pc[d] \notin {"evict", "close"}
              /\ \A c \in Children : procs[c] # "exited"

\* With faults it is enough that no two Dispatches for one quarter are in
\* progress together: callers that share an entry are for one quarter, so
\* nobody warms an entry between a failure on it and its eviction.
SerialDispatch ==
  \A d1, d2 \in Callers :
    want[d1] = want[d2] /\ want[d1] # NoQuarter => d1 = d2
SharedInv == \A d1, d2 \in Callers :
  entry[d1] = entry[d2] /\ entry[d1] # NoEntry => want[d1] = want[d2]
SerialInv == SharedInv /\ ColdEvict
=============================================================================
