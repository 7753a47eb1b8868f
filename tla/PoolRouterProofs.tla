-------------------------- MODULE PoolRouterProofs --------------------------
(***************************************************************************)
(* TLAPS proofs about the sibling pool: for every set of callers, quarters, *)
(* entries and children, every timeout and every choice of faults.         *)
(***************************************************************************)
EXTENDS PoolRouter, TLAPS

\* Every step is one of the actions, by a goroutine that exists: the case split
\* each invariance proof below uses.
LEMMA NextCases ==
  Next =>
    \/ \E d \in Callers, q \in Quarters : Dispatch(d, q)
    \/ \E d \in Callers, e \in Entries : CheckoutFresh(d, e)
    \/ \E d \in Callers, c \in Children : SpawnChild(d, c)
    \/ \E d \in Callers :
         \/ CheckoutClosed(d) \/ CheckoutWarm(d) \/ CheckoutMissing(d)
         \/ AcquireLive(d) \/ RetryDead(d) \/ GiveUp(d)
         \/ SpawnFails(d) \/ InitOk(d) \/ InitFails(d)
         \/ CallReturns(d) \/ CallFails(d)
         \/ MarkUsed(d) \/ Evict(d) \/ CloseEvicted(d) \/ Return(d)
    \/ \E x \in Drainers, e \in Entries : PickVictim(x, e)
    \/ \E x \in Drainers : TakeClient(x) \/ CloseVictim(x)
    \/ JanitorTick \/ SweepMark \/ SweepDone \/ JanitorExit
    \/ CloseBegin \/ CloseJoin \/ CloseDone \/ Tick
    \/ \E c \in Children : Crash(c)
BY Zenon DEF Next, CallerStep, Checkout, Acquire, SpawnStep, CallCompletes,
       Settle, JanitorStep, CloserStep, VictimStep, Drainers

\* Every step of a Dispatch, the janitor, Close or a child keeps the inductive
\* invariant; the facts of PoolAssumption keep the sentinels apart.
LEMMA IInvNext == IInv /\ [Next]_vars => IInv'
<1> SUFFICES ASSUME TypeOK, LocalInv, LockInv, ProcInv, SingleOwner,
                    MapHoldsLive, MapInv, CloserInv, [Next]_vars
             PROVE  IInv'
  BY DEF IInv
<1> USE PoolAssumption DEF Actors, Drainers, poolVars, entryVars, callVars,
        drainVars, CallPC, DrainPC, Outcome, Holding, WithEntry, DrainBusy,
        Mapped
<1>1. ASSUME NEW d \in Callers, NEW q \in Quarters, Dispatch(d, q)
      PROVE  IInv'
  <2>1. TypeOK'
    BY <1>1 DEF Dispatch, TypeOK, LocalInv
  <2>2. LocalInv'
    BY <1>1 DEF Dispatch, TypeOK, LocalInv
  <2>3. LockInv'
    BY <1>1 DEF Dispatch, TypeOK, LocalInv, LockInv
  <2>4. MapInv'
    BY <1>1 DEF Dispatch, TypeOK, LocalInv, MapHoldsLive, MapInv
  <2>5. ProcInv' /\ SingleOwner' /\ MapHoldsLive' /\ CloserInv'
    BY <1>1 DEF Dispatch, ProcInv, SingleOwner, MapHoldsLive, CloserInv
  <2> QED BY <2>1, <2>2, <2>3, <2>4, <2>5 DEF IInv
<1>2. ASSUME NEW d \in Callers, CheckoutClosed(d)
      PROVE  IInv'
  <2>1. TypeOK'
    BY <1>2 DEF CheckoutClosed, Finish, TypeOK, LocalInv
  <2>2. LocalInv'
    BY <1>2 DEF CheckoutClosed, Finish, TypeOK, LocalInv
  <2>3. LockInv'
    BY <1>2 DEF CheckoutClosed, Finish, TypeOK, LocalInv, LockInv
  <2>4. MapInv'
    BY <1>2 DEF CheckoutClosed, Finish, TypeOK, LocalInv, MapHoldsLive, MapInv
  <2>5. ProcInv' /\ SingleOwner' /\ MapHoldsLive' /\ CloserInv'
    BY <1>2 DEF CheckoutClosed, Finish, ProcInv, SingleOwner, MapHoldsLive, CloserInv
  <2> QED BY <2>1, <2>2, <2>3, <2>4, <2>5 DEF IInv
<1>3. ASSUME NEW d \in Callers, CheckoutWarm(d)
      PROVE  IInv'
  <2>1. TypeOK'
    BY <1>3 DEF CheckoutWarm, Pooled, TypeOK, LocalInv
  <2>2. LocalInv'
    BY <1>3 DEF CheckoutWarm, Pooled, TypeOK, LocalInv
  <2>3. LockInv'
    BY <1>3 DEF CheckoutWarm, Pooled, TypeOK, LocalInv, LockInv
  <2>4. MapInv'
    BY <1>3 DEF CheckoutWarm, Pooled, TypeOK, LocalInv, MapHoldsLive, MapInv
  <2>5. ProcInv' /\ SingleOwner' /\ MapHoldsLive' /\ CloserInv'
    BY <1>3 DEF CheckoutWarm, ProcInv, SingleOwner, MapHoldsLive, CloserInv
  <2> QED BY <2>1, <2>2, <2>3, <2>4, <2>5 DEF IInv
<1>4. ASSUME NEW d \in Callers, CheckoutMissing(d)
      PROVE  IInv'
  <2>1. TypeOK'
    BY <1>4 DEF CheckoutMissing, Finish, TypeOK, LocalInv
  <2>2. LocalInv'
    BY <1>4 DEF CheckoutMissing, Finish, TypeOK, LocalInv
  <2>3. LockInv'
    BY <1>4 DEF CheckoutMissing, Finish, TypeOK, LocalInv, LockInv
  <2>4. MapInv'
    BY <1>4 DEF CheckoutMissing, Finish, TypeOK, LocalInv, MapHoldsLive, MapInv
  <2>5. ProcInv' /\ SingleOwner' /\ MapHoldsLive' /\ CloserInv'
    BY <1>4 DEF CheckoutMissing, Finish, ProcInv, SingleOwner, MapHoldsLive, CloserInv
  <2> QED BY <2>1, <2>2, <2>3, <2>4, <2>5 DEF IInv
<1>5. ASSUME NEW d \in Callers, NEW e \in Entries, CheckoutFresh(d, e)
      PROVE  IInv'
  <2>1. TypeOK'
    BY <1>5 DEF CheckoutFresh, Pooled, InUse, Draining, TypeOK, LocalInv
  <2>2. LocalInv'
    BY <1>5 DEF CheckoutFresh, Pooled, InUse, Draining, TypeOK, LocalInv
  <2>3. LockInv'
    BY <1>5 DEF CheckoutFresh, Pooled, InUse, Draining, TypeOK, LocalInv, LockInv
  <2>4. ProcInv'
    BY <1>5 DEF CheckoutFresh, Pooled, InUse, Draining, TypeOK, LocalInv, LockInv, ProcInv, SingleOwner
  <2>5. SingleOwner'
    BY <1>5 DEF CheckoutFresh, Pooled, InUse, Draining, TypeOK, LocalInv, LockInv, ProcInv, SingleOwner
  <2>6. MapHoldsLive'
    BY <1>5 DEF CheckoutFresh, Pooled, InUse, Draining, TypeOK, MapHoldsLive
  <2>7. MapInv'
    BY <1>5 DEF CheckoutFresh, Pooled, InUse, Draining, TypeOK, LocalInv, MapHoldsLive, MapInv
  <2>8. CloserInv'
    BY <1>5 DEF CheckoutFresh, CloserInv
  <2> QED BY <2>1, <2>2, <2>3, <2>4, <2>5, <2>6, <2>7, <2>8 DEF IInv
<1>6. ASSUME NEW d \in Callers, AcquireLive(d)
      PROVE  IInv'
  <2>1. TypeOK'
    BY <1>6 DEF AcquireLive, TypeOK, LocalInv
  <2>2. LocalInv'
    BY <1>6 DEF AcquireLive, TypeOK, LocalInv
  <2>3. LockInv'
    BY <1>6 DEF AcquireLive, TypeOK, LocalInv, LockInv
  <2>4. MapInv'
    BY <1>6 DEF AcquireLive, TypeOK, LocalInv, MapHoldsLive, MapInv
  <2>5. ProcInv' /\ SingleOwner' /\ MapHoldsLive' /\ CloserInv'
    BY <1>6 DEF AcquireLive, ProcInv, SingleOwner, MapHoldsLive, CloserInv
  <2> QED BY <2>1, <2>2, <2>3, <2>4, <2>5 DEF IInv
<1>7. ASSUME NEW d \in Callers, RetryDead(d)
      PROVE  IInv'
  <2>1. TypeOK'
    BY <1>7 DEF RetryDead, TypeOK, LocalInv
  <2>2. LocalInv'
    BY <1>7 DEF RetryDead, TypeOK, LocalInv
  <2>3. LockInv'
    BY <1>7 DEF RetryDead, TypeOK, LocalInv, LockInv
  <2>4. MapInv'
    BY <1>7 DEF RetryDead, TypeOK, LocalInv, MapHoldsLive, MapInv
  <2>5. ProcInv' /\ SingleOwner' /\ MapHoldsLive' /\ CloserInv'
    BY <1>7 DEF RetryDead, ProcInv, SingleOwner, MapHoldsLive, CloserInv
  <2> QED BY <2>1, <2>2, <2>3, <2>4, <2>5 DEF IInv
<1>8. ASSUME NEW d \in Callers, GiveUp(d)
      PROVE  IInv'
  <2>1. TypeOK'
    BY <1>8 DEF GiveUp, Finish, TypeOK, LocalInv
  <2>2. LocalInv'
    BY <1>8 DEF GiveUp, Finish, TypeOK, LocalInv
  <2>3. LockInv'
    BY <1>8 DEF GiveUp, Finish, TypeOK, LocalInv, LockInv
  <2>4. MapInv'
    BY <1>8 DEF GiveUp, Finish, TypeOK, LocalInv, MapHoldsLive, MapInv
  <2>5. ProcInv' /\ SingleOwner' /\ MapHoldsLive' /\ CloserInv'
    BY <1>8 DEF GiveUp, Finish, ProcInv, SingleOwner, MapHoldsLive, CloserInv
  <2> QED BY <2>1, <2>2, <2>3, <2>4, <2>5 DEF IInv
<1>9. ASSUME NEW d \in Callers, NEW c \in Children, SpawnChild(d, c)
      PROVE  IInv'
  <2>1. TypeOK'
    BY <1>9 DEF SpawnChild, TypeOK, LocalInv
  <2>2. LocalInv'
    BY <1>9 DEF SpawnChild, TypeOK, LocalInv
  <2>3. LockInv'
    BY <1>9 DEF SpawnChild, TypeOK, LocalInv, LockInv
  <2>4. ProcInv'
    BY <1>9 DEF SpawnChild, TypeOK, LocalInv, LockInv, ProcInv, SingleOwner
  <2>5. SingleOwner'
    BY <1>9 DEF SpawnChild, TypeOK, LocalInv, LockInv, ProcInv, SingleOwner
  <2>6. MapInv'
    BY <1>9 DEF SpawnChild, TypeOK, LocalInv, MapHoldsLive, MapInv
  <2>7. MapHoldsLive' /\ CloserInv'
    BY <1>9 DEF SpawnChild, MapHoldsLive, CloserInv
  <2> QED BY <2>1, <2>2, <2>3, <2>4, <2>5, <2>6, <2>7 DEF IInv
<1>10. ASSUME NEW d \in Callers, SpawnFails(d)
      PROVE  IInv'
  <2>1. TypeOK'
    BY <1>10 DEF SpawnFails, Unlock, TypeOK, LocalInv
  <2>2. LocalInv'
    BY <1>10 DEF SpawnFails, Unlock, TypeOK, LocalInv
  <2>3. LockInv'
    BY <1>10 DEF SpawnFails, Unlock, TypeOK, LocalInv, LockInv
  <2>4. MapInv'
    BY <1>10 DEF SpawnFails, Unlock, TypeOK, LocalInv, MapHoldsLive, MapInv
  <2>5. ProcInv' /\ SingleOwner' /\ MapHoldsLive' /\ CloserInv'
    BY <1>10 DEF SpawnFails, Unlock, ProcInv, SingleOwner, MapHoldsLive, CloserInv
  <2> QED BY <2>1, <2>2, <2>3, <2>4, <2>5 DEF IInv
<1>11. ASSUME NEW d \in Callers, InitOk(d)
      PROVE  IInv'
  <2>1. TypeOK'
    BY <1>11 DEF InitOk, TypeOK, LocalInv
  <2>2. LocalInv'
    BY <1>11 DEF InitOk, TypeOK, LocalInv
  <2>3. LockInv'
    BY <1>11 DEF InitOk, TypeOK, LocalInv, LockInv
  <2>4. ProcInv'
    BY <1>11 DEF InitOk, TypeOK, LocalInv, LockInv, ProcInv, SingleOwner
  <2>5. SingleOwner'
    BY <1>11 DEF InitOk, TypeOK, LocalInv, LockInv, ProcInv, SingleOwner
  <2>6. MapInv'
    BY <1>11 DEF InitOk, TypeOK, LocalInv, MapHoldsLive, MapInv
  <2>7. MapHoldsLive' /\ CloserInv'
    BY <1>11 DEF InitOk, MapHoldsLive, CloserInv
  <2> QED BY <2>1, <2>2, <2>3, <2>4, <2>5, <2>6, <2>7 DEF IInv
<1>12. ASSUME NEW d \in Callers, InitFails(d)
      PROVE  IInv'
  <2>1. TypeOK'
    BY <1>12 DEF InitFails, Unlock, TypeOK, LocalInv
  <2>2. LocalInv'
    BY <1>12 DEF InitFails, Unlock, TypeOK, LocalInv
  <2>3. LockInv'
    BY <1>12 DEF InitFails, Unlock, TypeOK, LocalInv, LockInv
  <2>4. ProcInv'
    BY <1>12 DEF InitFails, Unlock, TypeOK, LocalInv, LockInv, ProcInv, SingleOwner
  <2>5. SingleOwner'
    BY <1>12 DEF InitFails, Unlock, TypeOK, LocalInv, LockInv, ProcInv, SingleOwner
  <2>6. MapInv'
    BY <1>12 DEF InitFails, Unlock, TypeOK, LocalInv, MapHoldsLive, MapInv
  <2>7. MapHoldsLive' /\ CloserInv'
    BY <1>12 DEF InitFails, Unlock, MapHoldsLive, CloserInv
  <2> QED BY <2>1, <2>2, <2>3, <2>4, <2>5, <2>6, <2>7 DEF IInv
<1>13. ASSUME NEW d \in Callers, CallReturns(d)
      PROVE  IInv'
  <2>1. TypeOK'
    BY <1>13 DEF CallReturns, Unlock, TypeOK, LocalInv
  <2>2. LocalInv'
    BY <1>13 DEF CallReturns, Unlock, TypeOK, LocalInv
  <2>3. LockInv'
    BY <1>13 DEF CallReturns, Unlock, TypeOK, LocalInv, LockInv
  <2>4. MapInv'
    BY <1>13 DEF CallReturns, Unlock, TypeOK, LocalInv, MapHoldsLive, MapInv
  <2>5. ProcInv' /\ SingleOwner' /\ MapHoldsLive' /\ CloserInv'
    BY <1>13 DEF CallReturns, Unlock, ProcInv, SingleOwner, MapHoldsLive, CloserInv
  <2> QED BY <2>1, <2>2, <2>3, <2>4, <2>5 DEF IInv
<1>14. ASSUME NEW d \in Callers, CallFails(d)
      PROVE  IInv'
  <2>1. TypeOK'
    BY <1>14 DEF CallFails, Unlock, TypeOK, LocalInv
  <2>2. LocalInv'
    BY <1>14 DEF CallFails, Unlock, TypeOK, LocalInv
  <2>3. LockInv'
    BY <1>14 DEF CallFails, Unlock, TypeOK, LocalInv, LockInv
  <2>4. ProcInv'
    BY <1>14 DEF CallFails, Unlock, TypeOK, LocalInv, LockInv, ProcInv, SingleOwner
  <2>5. SingleOwner'
    BY <1>14 DEF CallFails, Unlock, TypeOK, LocalInv, LockInv, ProcInv, SingleOwner
  <2>6. MapInv'
    BY <1>14 DEF CallFails, Unlock, TypeOK, LocalInv, MapHoldsLive, MapInv
  <2>7. MapHoldsLive' /\ CloserInv'
    BY <1>14 DEF CallFails, Unlock, MapHoldsLive, CloserInv
  <2> QED BY <2>1, <2>2, <2>3, <2>4, <2>5, <2>6, <2>7 DEF IInv
<1>15. ASSUME NEW d \in Callers, MarkUsed(d)
      PROVE  IInv'
  <2>1. TypeOK'
    BY <1>15 DEF MarkUsed, Finish, TypeOK, LocalInv
  <2>2. LocalInv'
    BY <1>15 DEF MarkUsed, Finish, TypeOK, LocalInv
  <2>3. LockInv'
    BY <1>15 DEF MarkUsed, Finish, TypeOK, LocalInv, LockInv
  <2>4. MapInv'
    BY <1>15 DEF MarkUsed, Finish, TypeOK, LocalInv, MapHoldsLive, MapInv
  <2>5. ProcInv' /\ SingleOwner' /\ MapHoldsLive' /\ CloserInv'
    BY <1>15 DEF MarkUsed, Finish, ProcInv, SingleOwner, MapHoldsLive, CloserInv
  <2> QED BY <2>1, <2>2, <2>3, <2>4, <2>5 DEF IInv
<1>16. ASSUME NEW d \in Callers, Evict(d)
      PROVE  IInv'
  <2>1. TypeOK'
    <3>1. entries' \in [Quarters -> Entries \cup {NoEntry}]
      BY <1>16 DEF Evict, TypeOK
    <3>2. /\ want' \in [Callers -> Quarters \cup {NoQuarter}]
          /\ entry' \in [Callers -> Entries \cup {NoEntry}]
          /\ attempt' \in [Callers -> 0..(GiveUpAfter + 1)]
          /\ outcome' \in [Callers -> Outcome]
      <4>0. /\ want \in [Callers -> Quarters \cup {NoQuarter}]
            /\ entry \in [Callers -> Entries \cup {NoEntry}]
            /\ attempt \in [Callers -> 0..(GiveUpAfter + 1)]
            /\ outcome \in [Callers -> Outcome]
            /\ 0 \in 0..(GiveUpAfter + 1) /\ "spawn" \in Outcome
        BY DEF TypeOK, Outcome
      <4>1. CASE held[d] = NoChild
        <5>1. /\ want' = [want EXCEPT ![d] = NoQuarter]
              /\ entry' = [entry EXCEPT ![d] = NoEntry]
              /\ attempt' = [attempt EXCEPT ![d] = 0]
              /\ outcome' = [outcome EXCEPT ![d] = "spawn"]
          BY <1>16, <4>1 DEF Evict, Finish
        <5> QED BY ONLY <4>0, <5>1
      <4>2. CASE held[d] # NoChild
        <5>1. want' = want /\ entry' = entry /\ attempt' = attempt /\ outcome' = outcome
          BY <1>16, <4>2 DEF Evict
        <5> QED BY ONLY <4>0, <5>1
      <4> QED BY <4>1, <4>2
    <3>3. pc' \in [Callers -> CallPC]
      <4>1. pc' = [pc EXCEPT ![d] = "done"] \/ pc' = [pc EXCEPT ![d] = "close"]
        BY <1>16 DEF Evict, Finish
      <4>2. pc \in [Callers -> CallPC] /\ {"done", "close"} \subseteq CallPC
        BY DEF TypeOK, CallPC
      <4> QED BY ONLY <4>1, <4>2
    <3>4. dead' \in [Entries -> BOOLEAN]
      BY <1>16 DEF Evict, TypeOK
    <3> QED BY <1>16, <3>1, <3>2, <3>3, <3>4 DEF Evict, TypeOK
  <2>2. LocalInv'
    BY <1>16 DEF Evict, Finish, TypeOK, LocalInv
  <2>3. LockInv'
    BY <1>16 DEF Evict, Finish, TypeOK, LocalInv, LockInv
  <2>4. MapHoldsLive'
    BY <1>16 DEF Evict, Finish, TypeOK, LocalInv, MapHoldsLive, MapInv
  <2>5. MapInv'
    <3>1. \A q \in Quarters :
            /\ entries'[q] = entries[q] \/ entries'[q] = NoEntry
            /\ entries[q] # entry[d] => entries'[q] = entries[q]
      BY <1>16 DEF Evict, TypeOK
    <3>2. \A a \in Callers : pc'[a] \in WithEntry =>
             pc[a] \in WithEntry /\ entry'[a] = entry[a] /\ want'[a] = want[a]
      BY <1>16 DEF Evict, Finish, TypeOK
    <3>3. \A e \in Entries : ~dead'[e] => ~dead[e] /\ e # entry[d]
      BY <1>16 DEF Evict, TypeOK
    <3>4. \A a \in Callers : pc[a] \in WithEntry => entry[a] \in Entries /\ entry[a] # NoEntry
      BY DEF TypeOK, LocalInv
    <3>5. /\ \A q1, q2 \in Quarters :
                entries[q1] = entries[q2] /\ entries[q1] # NoEntry => q1 = q2
          /\ \A a \in Callers : \A q \in Quarters :
                pc[a] \in WithEntry /\ entries[q] = entry[a] => q = want[a]
          /\ \A a \in Callers : pc[a] \in WithEntry /\ ~dead[entry[a]] => Mapped(entry[a])
      BY ONLY MapInv DEF MapInv
    <3>6. \A q1, q2 \in Quarters :
            entries'[q1] = entries'[q2] /\ entries'[q1] # NoEntry => q1 = q2
      BY ONLY <3>1, <3>5
    <3>7. \A a \in Callers : \A q \in Quarters :
            pc'[a] \in WithEntry /\ entries'[q] = entry'[a] => q = want'[a]
      BY ONLY <3>1, <3>2, <3>4, <3>5
    <3>8. ASSUME NEW a \in Callers, pc'[a] \in WithEntry, ~dead'[entry'[a]]
          PROVE  Mapped(entry[a])'
      <4>1. ~dead[entry[a]] /\ entry[a] # entry[d] /\ entry'[a] = entry[a] /\ pc[a] \in WithEntry
        BY ONLY <3>2, <3>3, <3>4, <3>8, a \in Callers
      <4>2. PICK q \in Quarters : entries[q] = entry[a]
        BY ONLY <3>5, <4>1, a \in Callers DEF Mapped
      <4> QED BY ONLY <3>1, <4>1, <4>2 DEF Mapped
    <3> QED BY ONLY <3>6, <3>7, <3>8 DEF MapInv
  <2>6. ProcInv' /\ SingleOwner' /\ CloserInv'
    BY <1>16 DEF Evict, Finish, ProcInv, SingleOwner, CloserInv
  <2> QED BY <2>1, <2>2, <2>3, <2>4, <2>5, <2>6 DEF IInv
<1>17. ASSUME NEW d \in Callers, CloseEvicted(d)
      PROVE  IInv'
  <2>1. TypeOK'
    BY <1>17 DEF CloseEvicted, Finish, TypeOK, LocalInv
  <2>2. LocalInv'
    BY <1>17 DEF CloseEvicted, Finish, TypeOK, LocalInv
  <2>3. LockInv'
    BY <1>17 DEF CloseEvicted, Finish, TypeOK, LocalInv, LockInv
  <2>4. ProcInv'
    BY <1>17 DEF CloseEvicted, Finish, TypeOK, LocalInv, LockInv, ProcInv, SingleOwner
  <2>5. SingleOwner'
    BY <1>17 DEF CloseEvicted, Finish, TypeOK, LocalInv, LockInv, ProcInv, SingleOwner
  <2>6. MapInv'
    BY <1>17 DEF CloseEvicted, Finish, TypeOK, LocalInv, MapHoldsLive, MapInv
  <2>7. MapHoldsLive' /\ CloserInv'
    BY <1>17 DEF CloseEvicted, Finish, MapHoldsLive, CloserInv
  <2> QED BY <2>1, <2>2, <2>3, <2>4, <2>5, <2>6, <2>7 DEF IInv
<1>18. ASSUME NEW d \in Callers, Return(d)
      PROVE  IInv'
  <2>1. TypeOK'
    BY <1>18 DEF Return, TypeOK, LocalInv
  <2>2. LocalInv'
    BY <1>18 DEF Return, TypeOK, LocalInv
  <2>3. LockInv'
    BY <1>18 DEF Return, TypeOK, LocalInv, LockInv
  <2>4. MapInv'
    BY <1>18 DEF Return, TypeOK, LocalInv, MapHoldsLive, MapInv
  <2>5. ProcInv' /\ SingleOwner' /\ MapHoldsLive' /\ CloserInv'
    BY <1>18 DEF Return, ProcInv, SingleOwner, MapHoldsLive, CloserInv
  <2> QED BY <2>1, <2>2, <2>3, <2>4, <2>5 DEF IInv
<1>19. ASSUME NEW x \in Drainers, NEW e \in Entries, PickVictim(x, e)
      PROVE  IInv'
  <2>1. TypeOK'
    BY <1>19 DEF PickVictim, TypeOK, LocalInv
  <2>2. LocalInv'
    BY <1>19 DEF PickVictim, TypeOK, LocalInv
  <2>3. CloserInv'
    BY <1>19 DEF PickVictim, TypeOK, LocalInv, CloserInv
  <2>4. LockInv' /\ ProcInv' /\ SingleOwner' /\ MapHoldsLive' /\ MapInv'
    BY <1>19 DEF PickVictim, LockInv, ProcInv, SingleOwner, MapHoldsLive, MapInv, Mapped
  <2> QED BY <2>1, <2>2, <2>3, <2>4 DEF IInv
<1>20. ASSUME NEW x \in Drainers, TakeClient(x)
      PROVE  IInv'
  <2>1. TypeOK'
    BY <1>20 DEF TakeClient, TypeOK, LocalInv
  <2>2. LocalInv'
    BY <1>20 DEF TakeClient, TypeOK, LocalInv
  <2>3. LockInv'
    BY <1>20 DEF TakeClient, TypeOK, LocalInv, LockInv
  <2>4. ProcInv'
    BY <1>20 DEF TakeClient, TypeOK, LocalInv, LockInv, ProcInv, SingleOwner
  <2>5. SingleOwner'
    BY <1>20 DEF TakeClient, TypeOK, LocalInv, LockInv, ProcInv, SingleOwner
  <2>6. CloserInv'
    BY <1>20 DEF TakeClient, TypeOK, LocalInv, CloserInv
  <2>7. MapHoldsLive' /\ MapInv'
    BY <1>20 DEF TakeClient, MapHoldsLive, MapInv, Mapped
  <2> QED BY <2>1, <2>2, <2>3, <2>4, <2>5, <2>6, <2>7 DEF IInv
<1>21. ASSUME NEW x \in Drainers, CloseVictim(x)
      PROVE  IInv'
  <2>1. TypeOK'
    BY <1>21 DEF CloseVictim, TypeOK, LocalInv
  <2>2. LocalInv'
    BY <1>21 DEF CloseVictim, TypeOK, LocalInv
  <2>3. ProcInv'
    BY <1>21 DEF CloseVictim, TypeOK, LocalInv, LockInv, ProcInv, SingleOwner
  <2>4. SingleOwner'
    BY <1>21 DEF CloseVictim, TypeOK, LocalInv, LockInv, ProcInv, SingleOwner
  <2>5. CloserInv'
    BY <1>21 DEF CloseVictim, TypeOK, LocalInv, CloserInv
  <2>6. LockInv' /\ MapHoldsLive' /\ MapInv'
    BY <1>21 DEF CloseVictim, LockInv, MapHoldsLive, MapInv, Mapped
  <2> QED BY <2>1, <2>2, <2>3, <2>4, <2>5, <2>6 DEF IInv
<1>22. ASSUME JanitorTick
      PROVE  IInv'
  <2>1. TypeOK'
    BY <1>22 DEF JanitorTick, TypeOK, LocalInv
  <2>2. LocalInv'
    BY <1>22 DEF JanitorTick, TypeOK, LocalInv
  <2>3. CloserInv'
    BY <1>22 DEF JanitorTick, TypeOK, LocalInv, CloserInv
  <2>4. LockInv' /\ ProcInv' /\ SingleOwner' /\ MapHoldsLive' /\ MapInv'
    BY <1>22 DEF JanitorTick, LockInv, ProcInv, SingleOwner, MapHoldsLive, MapInv, Mapped
  <2> QED BY <2>1, <2>2, <2>3, <2>4 DEF IInv
<1>23. ASSUME SweepMark
      PROVE  IInv'
  <2>1. TypeOK'
    BY <1>23 DEF SweepMark, TypeOK, LocalInv
  <2>2. LocalInv'
    BY <1>23 DEF SweepMark, TypeOK, LocalInv
  <2>3. MapHoldsLive'
    BY <1>23 DEF SweepMark, TypeOK, MapHoldsLive
  <2>4. MapInv'
    <3>1. \A q \in Quarters : entries'[q] # NoEntry => entries'[q] = entries[q]
      BY <1>23 DEF SweepMark, TypeOK
    <3>2. ASSUME NEW f \in Callers, pc[f] \in WithEntry, ~dead'[entry[f]]
          PROVE  \E q \in Quarters : entries'[q] = entry[f]
      <4>1. entry[f] \in Entries
        BY <3>2 DEF TypeOK, LocalInv
      <4>2. ~dead[entry[f]] /\ ~(Idle(entry[f]) /\ Mapped(entry[f]))
        BY <1>23, <3>2, <4>1, Zenon DEF SweepMark, Mapped
      <4>3. PICK q \in Quarters : entries[q] = entry[f]
        BY <3>2, <4>2 DEF MapInv
      <4> QED BY <1>23, <4>1, <4>2, <4>3 DEF SweepMark, TypeOK
    <3>3. UNCHANGED <<pc, entry, want>>
      BY <1>23 DEF SweepMark
    <3>4. \A q1, q2 \in Quarters :
             entries'[q1] = entries'[q2] /\ entries'[q1] # NoEntry => q1 = q2
      BY <3>1 DEF MapInv
    <3>5. ASSUME NEW f \in Callers, NEW q \in Quarters,
                 pc[f] \in WithEntry, entries'[q] = entry[f]
          PROVE  q = want[f]
      BY <3>1, <3>5 DEF MapInv, LocalInv
    <3> QED BY ONLY <3>2, <3>3, <3>4, <3>5 DEF MapInv, Mapped
  <2>5. CloserInv'
    BY <1>23 DEF SweepMark, TypeOK, LocalInv, CloserInv
  <2>6. LockInv' /\ ProcInv' /\ SingleOwner'
    BY <1>23 DEF SweepMark, LockInv, ProcInv, SingleOwner
  <2> QED BY <2>1, <2>2, <2>3, <2>4, <2>5, <2>6 DEF IInv
<1>24. ASSUME SweepDone
      PROVE  IInv'
  <2>1. TypeOK'
    BY <1>24 DEF SweepDone, TypeOK, LocalInv
  <2>2. LocalInv'
    BY <1>24 DEF SweepDone, TypeOK, LocalInv
  <2>3. CloserInv'
    BY <1>24 DEF SweepDone, TypeOK, LocalInv, CloserInv
  <2>4. LockInv' /\ ProcInv' /\ SingleOwner' /\ MapHoldsLive' /\ MapInv'
    BY <1>24 DEF SweepDone, LockInv, ProcInv, SingleOwner, MapHoldsLive, MapInv, Mapped
  <2> QED BY <2>1, <2>2, <2>3, <2>4 DEF IInv
<1>25. ASSUME JanitorExit
      PROVE  IInv'
  <2>1. TypeOK'
    BY <1>25 DEF JanitorExit, TypeOK, LocalInv
  <2>2. LocalInv'
    BY <1>25 DEF JanitorExit, TypeOK, LocalInv
  <2>3. CloserInv'
    BY <1>25 DEF JanitorExit, TypeOK, LocalInv, CloserInv
  <2>4. LockInv' /\ ProcInv' /\ SingleOwner' /\ MapHoldsLive' /\ MapInv'
    BY <1>25 DEF JanitorExit, LockInv, ProcInv, SingleOwner, MapHoldsLive, MapInv, Mapped
  <2> QED BY <2>1, <2>2, <2>3, <2>4 DEF IInv
<1>26. ASSUME CloseBegin
      PROVE  IInv'
  <2>1. TypeOK'
    BY <1>26 DEF CloseBegin, TypeOK, LocalInv
  <2>2. LocalInv'
    BY <1>26 DEF CloseBegin, TypeOK, LocalInv
  <2>3. MapHoldsLive'
    BY <1>26 DEF CloseBegin, TypeOK, MapHoldsLive
  <2>4. MapInv'
    <3>1. \A q \in Quarters : entries'[q] = NoEntry
      BY <1>26 DEF CloseBegin
    <3>2. /\ pc' = pc /\ entry' = entry /\ want' = want
          /\ \A e \in Entries : dead'[e] = (dead[e] \/ Mapped(e))
      BY <1>26 DEF CloseBegin, Mapped
    <3>3. \A d \in Callers : pc[d] \in WithEntry => entry[d] \in Entries /\ entry[d] # NoEntry
      BY DEF TypeOK, LocalInv
    <3>4. \A d \in Callers : pc[d] \in WithEntry => dead'[entry[d]]
      <4>1. \A d \in Callers : pc[d] \in WithEntry => dead[entry[d]] \/ Mapped(entry[d])
        <5> HIDE DEF Mapped
        <5> QED BY DEF MapInv
      <4> QED BY ONLY <3>2, <3>3, <4>1
    <3>5. \A q1, q2 \in Quarters :
            entries'[q1] = entries'[q2] /\ entries'[q1] # NoEntry => q1 = q2
      BY ONLY <3>1
    <3>6. \A d \in Callers : \A q \in Quarters :
            pc'[d] \in WithEntry /\ entries'[q] = entry'[d] => q = want'[d]
      BY ONLY <3>1, <3>2, <3>3
    <3>7. \A d \in Callers :
            pc'[d] \in WithEntry /\ ~dead'[entry'[d]] => Mapped(entry[d])'
      BY ONLY <3>2, <3>4
    <3> QED BY ONLY <3>5, <3>6, <3>7 DEF MapInv
  <2>5. CloserInv'
    BY <1>26 DEF CloseBegin, TypeOK, LocalInv, CloserInv
  <2>6. LockInv' /\ ProcInv' /\ SingleOwner'
    BY <1>26 DEF CloseBegin, LockInv, ProcInv, SingleOwner
  <2> QED BY <2>1, <2>2, <2>3, <2>4, <2>5, <2>6 DEF IInv
<1>27. ASSUME CloseJoin
      PROVE  IInv'
  <2>1. TypeOK'
    BY <1>27 DEF CloseJoin, TypeOK, LocalInv
  <2>2. LocalInv'
    BY <1>27 DEF CloseJoin, TypeOK, LocalInv
  <2>3. CloserInv'
    BY <1>27 DEF CloseJoin, TypeOK, LocalInv, CloserInv
  <2>4. LockInv' /\ ProcInv' /\ SingleOwner' /\ MapHoldsLive' /\ MapInv'
    BY <1>27 DEF CloseJoin, LockInv, ProcInv, SingleOwner, MapHoldsLive, MapInv, Mapped
  <2> QED BY <2>1, <2>2, <2>3, <2>4 DEF IInv
<1>28. ASSUME CloseDone
      PROVE  IInv'
  <2>1. TypeOK'
    BY <1>28 DEF CloseDone, TypeOK, LocalInv
  <2>2. LocalInv'
    BY <1>28 DEF CloseDone, TypeOK, LocalInv
  <2>3. CloserInv'
    BY <1>28 DEF CloseDone, TypeOK, LocalInv, CloserInv
  <2>4. LockInv' /\ ProcInv' /\ SingleOwner' /\ MapHoldsLive' /\ MapInv'
    BY <1>28 DEF CloseDone, LockInv, ProcInv, SingleOwner, MapHoldsLive, MapInv, Mapped
  <2> QED BY <2>1, <2>2, <2>3, <2>4 DEF IInv
<1>29. ASSUME Tick
      PROVE  IInv'
  <2>1. TypeOK'
    BY <1>29 DEF Tick, TypeOK, LocalInv
  <2>2. LocalInv' /\ LockInv' /\ ProcInv' /\ SingleOwner' /\ MapHoldsLive' /\ MapInv' /\ CloserInv'
    BY <1>29 DEF Tick, LocalInv, LockInv, ProcInv, SingleOwner, MapHoldsLive, MapInv, CloserInv, Mapped
  <2> QED BY <2>1, <2>2 DEF IInv
<1>30. ASSUME NEW c \in Children, Crash(c)
      PROVE  IInv'
  <2>1. TypeOK'
    BY <1>30 DEF Crash, TypeOK, LocalInv
  <2>2. ProcInv'
    BY <1>30 DEF Crash, TypeOK, LocalInv, LockInv, ProcInv, SingleOwner
  <2>3. LocalInv' /\ LockInv' /\ SingleOwner' /\ MapHoldsLive' /\ MapInv' /\ CloserInv'
    BY <1>30 DEF Crash, LocalInv, LockInv, SingleOwner, MapHoldsLive, MapInv, CloserInv, Mapped
  <2> QED BY <2>1, <2>2, <2>3 DEF IInv
<1>31. ASSUME UNCHANGED vars PROVE IInv'
  BY <1>31 DEF vars, IInv, TypeOK, LocalInv, LockInv, ProcInv, SingleOwner,
     MapHoldsLive, MapInv, CloserInv
<1> QED
  BY ONLY [Next]_vars, NextCases, <1>1, <1>2, <1>3, <1>4, <1>5, <1>6, <1>7, <1>8, <1>9, <1>10, <1>11, <1>12, <1>13, <1>14, <1>15, <1>16, <1>17, <1>18, <1>19, <1>20, <1>21, <1>22, <1>23, <1>24, <1>25, <1>26, <1>27, <1>28, <1>29, <1>30, <1>31

\* NewPoolRouter establishes the inductive invariant: nothing is pooled yet.
LEMMA IInvInit == Init => IInv
<1> SUFFICES ASSUME Init PROVE IInv
  OBVIOUS
<1> USE PoolAssumption DEF Init
<1>1. TypeOK
  <2>1. attempt \in [Callers -> 0..(GiveUpAfter + 1)]
    OBVIOUS
  <2>2. dpc \in [Drainers -> DrainPC]
    BY DEF DrainPC, Drainers
  <2>3. pc \in [Callers -> CallPC] /\ outcome \in [Callers -> Outcome]
    BY DEF CallPC, Outcome
  <2>4. dead \in [Entries -> BOOLEAN] /\ closed \in BOOLEAN
    OBVIOUS
  <2> QED BY <2>1, <2>2, <2>3, <2>4 DEF TypeOK
<1>2. LocalInv
  BY DEF LocalInv, WithEntry, DrainBusy, Actors, Drainers
<1>3. LockInv /\ ProcInv /\ SingleOwner
  BY DEF LockInv, Holding, ProcInv, SingleOwner, Actors, Drainers
<1>4. MapHoldsLive /\ MapInv /\ CloserInv
  BY DEF MapHoldsLive, MapInv, WithEntry, CloserInv, Drainers
<1> QED BY <1>1, <1>2, <1>3, <1>4 DEF IInv

-----------------------------------------------------------------------------
(* The theorems *)

\* The inductive invariant holds, whatever the faults.
THEOREM Invariance == Spec => []IInv
BY IInvInit, IInvNext, PTL DEF Spec

\* The variables of the pool keep their types; the retry count of Dispatch
\* stays within one of its bound.
THEOREM TypeCorrect == Spec => []TypeOK
<1>1. IInv => TypeOK
  BY DEF IInv
<1> QED BY <1>1, Invariance, PTL

\* A child is never in two entries, nor closed twice: whoever takes the client
\* out of an entry (CallFails, sweepIdle, Close) is the only one to hold it.
THEOREM OneOwner == Spec => []SingleOwner
<1>1. IInv => SingleOwner
  BY DEF IInv
<1> QED BY <1>1, Invariance, PTL

\* checkout never meets an evicted entry in the map, nor a map after Close.
THEOREM MapIsLive == Spec => []MapHoldsLive
<1>1. IInv => MapHoldsLive
  BY DEF IInv
<1> QED BY <1>1, Invariance, PTL

\* The entry's mutex gives each CallTool its child for itself, whatever the
\* janitor, Close and the other Dispatches do.
THEOREM Isolation == Spec => []CallIsolation
<1>1. IInv => CallIsolation
  <2> SUFFICES ASSUME TypeOK, LocalInv, LockInv, ProcInv, SingleOwner,
                      NEW d \in Callers, pc[d] = "call"
               PROVE  /\ client[entry[d]] \in Children
                      /\ procs[client[entry[d]]] # "none"
                      /\ \A a \in Actors : held[a] # client[entry[d]]
                      /\ \A d2 \in Callers \ {d} : pc[d2] = "call" =>
                           client[entry[d2]] # client[entry[d]]
    BY DEF IInv, CallIsolation
  <2>1. entry[d] \in Entries /\ client[entry[d]] \in Children
    BY DEF TypeOK, LocalInv, LockInv, WithEntry
  <2>2. procs[client[entry[d]]] # "none"
    BY <2>1, PoolAssumption DEF ProcInv
  <2>3. \A a \in Actors : held[a] # client[entry[d]]
    BY <2>1, PoolAssumption DEF SingleOwner
  <2>4. ASSUME NEW d2 \in Callers \ {d}, pc[d2] = "call",
               client[entry[d2]] = client[entry[d]]
        PROVE  FALSE
    <3>1. entry[d2] \in Entries
      BY <2>4 DEF TypeOK, LocalInv, WithEntry
    <3>2. entry[d2] = entry[d]
      BY <2>1, <2>4, <3>1, PoolAssumption DEF SingleOwner
    <3> QED BY <2>4, <3>2 DEF LockInv, Holding
  <2> QED BY <2>1, <2>2, <2>3, <2>4
<1> QED BY <1>1, Invariance, PTL

-----------------------------------------------------------------------------
(* What nobody drops *)

\* While whoever evicts an entry finds it cold and unlocked, every warm or locked
\* entry stays in the map or on a victim list of the janitor or Close, and every
\* child stays owned.
LEMMA TidyNext ==
  IInv /\ ColdEvict /\ TidyInv /\ [Next]_vars => TidyInv'
<1> SUFFICES ASSUME TypeOK, LocalInv, LockInv, MapHoldsLive, MapInv, ProcInv,
                    ColdEvict, WarmInv, OwnedInv, [Next]_vars
             PROVE  TidyInv'
  BY DEF IInv, TidyInv
<1> USE PoolAssumption DEF Actors, Drainers, poolVars, entryVars, callVars,
        drainVars, Holding, WithEntry, DrainBusy, Mapped
<1>1. ASSUME NEW d \in Callers, NEW q \in Quarters, Dispatch(d, q)
      PROVE  TidyInv'
  <2>1. WarmInv' /\ OwnedInv'
    BY <1>1 DEF Dispatch, WarmInv, OwnedInv, Draining
  <2> QED BY <2>1 DEF TidyInv
<1>2. ASSUME NEW d \in Callers, CheckoutClosed(d)
      PROVE  TidyInv'
  <2>1. WarmInv' /\ OwnedInv'
    BY <1>2 DEF CheckoutClosed, Finish, WarmInv, OwnedInv, Draining
  <2> QED BY <2>1 DEF TidyInv
<1>3. ASSUME NEW d \in Callers, CheckoutWarm(d)
      PROVE  TidyInv'
  <2>1. WarmInv' /\ OwnedInv'
    BY <1>3 DEF CheckoutWarm, WarmInv, OwnedInv, Draining
  <2> QED BY <2>1 DEF TidyInv
<1>4. ASSUME NEW d \in Callers, CheckoutMissing(d)
      PROVE  TidyInv'
  <2>1. WarmInv' /\ OwnedInv'
    BY <1>4 DEF CheckoutMissing, Finish, WarmInv, OwnedInv, Draining
  <2> QED BY <2>1 DEF TidyInv
<1>5. ASSUME NEW d \in Callers, NEW e \in Entries, CheckoutFresh(d, e)
      PROVE  TidyInv'
  <2>1. WarmInv'
    BY <1>5 DEF CheckoutFresh, Pooled, InUse, Draining, TypeOK, LocalInv, LockInv, MapHoldsLive, MapInv, WarmInv
  <2>2. OwnedInv'
    BY <1>5 DEF CheckoutFresh, Pooled, InUse, Draining, TypeOK, LocalInv, LockInv, WarmInv, OwnedInv
  <2> QED BY <2>1, <2>2 DEF TidyInv
<1>6. ASSUME NEW d \in Callers, AcquireLive(d)
      PROVE  TidyInv'
  <2>1. WarmInv'
    BY <1>6 DEF AcquireLive, TypeOK, LocalInv, LockInv, MapHoldsLive, MapInv, WarmInv, Draining
  <2>2. OwnedInv'
    BY <1>6 DEF AcquireLive, OwnedInv
  <2> QED BY <2>1, <2>2 DEF TidyInv
<1>7. ASSUME NEW d \in Callers, RetryDead(d)
      PROVE  TidyInv'
  <2>1. WarmInv' /\ OwnedInv'
    BY <1>7 DEF RetryDead, WarmInv, OwnedInv, Draining
  <2> QED BY <2>1 DEF TidyInv
<1>8. ASSUME NEW d \in Callers, GiveUp(d)
      PROVE  TidyInv'
  <2>1. WarmInv' /\ OwnedInv'
    BY <1>8 DEF GiveUp, Finish, WarmInv, OwnedInv, Draining
  <2> QED BY <2>1 DEF TidyInv
<1>9. ASSUME NEW d \in Callers, NEW c \in Children, SpawnChild(d, c)
      PROVE  TidyInv'
  <2>1. OwnedInv'
    BY <1>9 DEF SpawnChild, TypeOK, LocalInv, LockInv, WarmInv, OwnedInv, Draining
  <2>2. WarmInv'
    BY <1>9 DEF SpawnChild, WarmInv, Draining
  <2> QED BY <2>1, <2>2 DEF TidyInv
<1>10. ASSUME NEW d \in Callers, SpawnFails(d)
      PROVE  TidyInv'
  <2>1. WarmInv'
    BY <1>10 DEF SpawnFails, Unlock, TypeOK, LocalInv, LockInv, WarmInv, Draining
  <2>2. OwnedInv'
    BY <1>10 DEF SpawnFails, Unlock, OwnedInv
  <2> QED BY <2>1, <2>2 DEF TidyInv
<1>11. ASSUME NEW d \in Callers, InitOk(d)
      PROVE  TidyInv'
  <2>1. WarmInv'
    BY <1>11 DEF InitOk, TypeOK, LocalInv, LockInv, MapHoldsLive, MapInv, WarmInv, Draining
  <2>2. OwnedInv'
    BY <1>11 DEF InitOk, TypeOK, LocalInv, LockInv, WarmInv, OwnedInv, Draining
  <2> QED BY <2>1, <2>2 DEF TidyInv
<1>12. ASSUME NEW d \in Callers, InitFails(d)
      PROVE  TidyInv'
  <2>1. WarmInv'
    BY <1>12 DEF InitFails, Unlock, TypeOK, LocalInv, LockInv, WarmInv, Draining
  <2>2. OwnedInv'
    BY <1>12 DEF InitFails, Unlock, TypeOK, LocalInv, LockInv, OwnedInv
  <2> QED BY <2>1, <2>2 DEF TidyInv
<1>13. ASSUME NEW d \in Callers, CallReturns(d)
      PROVE  TidyInv'
  <2>1. WarmInv'
    BY <1>13 DEF CallReturns, Unlock, TypeOK, LocalInv, LockInv, MapHoldsLive, MapInv, WarmInv, Draining
  <2>2. OwnedInv'
    BY <1>13 DEF CallReturns, Unlock, OwnedInv
  <2> QED BY <2>1, <2>2 DEF TidyInv
<1>14. ASSUME NEW d \in Callers, CallFails(d)
      PROVE  TidyInv'
  <2>1. WarmInv'
    BY <1>14 DEF CallFails, Unlock, TypeOK, LocalInv, LockInv, WarmInv, Draining
  <2>2. OwnedInv'
    BY <1>14 DEF CallFails, Unlock, TypeOK, LocalInv, LockInv, OwnedInv
  <2> QED BY <2>1, <2>2 DEF TidyInv
<1>15. ASSUME NEW d \in Callers, MarkUsed(d)
      PROVE  TidyInv'
  <2>1. WarmInv' /\ OwnedInv'
    BY <1>15 DEF MarkUsed, Finish, WarmInv, OwnedInv, Draining
  <2> QED BY <2>1 DEF TidyInv
<1>16. ASSUME NEW d \in Callers, Evict(d)
      PROVE  TidyInv'
  <2>1. WarmInv'
    BY <1>16 DEF Evict, Finish, TypeOK, LocalInv, MapInv, WarmInv, ColdEvict, Draining
  <2>2. OwnedInv'
    BY <1>16 DEF Evict, Finish, OwnedInv
  <2> QED BY <2>1, <2>2 DEF TidyInv
<1>17. ASSUME NEW d \in Callers, CloseEvicted(d)
      PROVE  TidyInv'
  <2>1. WarmInv'
    BY <1>17 DEF CloseEvicted, Finish, WarmInv, Draining
  <2>2. OwnedInv'
    BY <1>17 DEF CloseEvicted, Finish, TypeOK, LocalInv, OwnedInv
  <2> QED BY <2>1, <2>2 DEF TidyInv
<1>18. ASSUME NEW d \in Callers, Return(d)
      PROVE  TidyInv'
  <2>1. WarmInv' /\ OwnedInv'
    BY <1>18 DEF Return, WarmInv, OwnedInv, Draining
  <2> QED BY <2>1 DEF TidyInv
<1>19. ASSUME NEW x \in Drainers, NEW e \in Entries, PickVictim(x, e)
      PROVE  TidyInv'
  <2>1. WarmInv'
    BY <1>19 DEF PickVictim, TypeOK, LocalInv, LockInv, MapHoldsLive, MapInv, WarmInv, Draining
  <2>2. OwnedInv'
    BY <1>19 DEF PickVictim, OwnedInv
  <2> QED BY <2>1, <2>2 DEF TidyInv
<1>20. ASSUME NEW x \in Drainers, TakeClient(x)
      PROVE  TidyInv'
  <2>1. WarmInv'
    BY <1>20 DEF TakeClient, TypeOK, LocalInv, LockInv, MapHoldsLive, MapInv, WarmInv, Draining
  <2>2. OwnedInv'
    BY <1>20 DEF TakeClient, TypeOK, LocalInv, LockInv, WarmInv, OwnedInv, Draining
  <2> QED BY <2>1, <2>2 DEF TidyInv
<1>21. ASSUME NEW x \in Drainers, CloseVictim(x)
      PROVE  TidyInv'
  <2>1. OwnedInv'
    BY <1>21 DEF CloseVictim, TypeOK, LocalInv, LockInv, WarmInv, OwnedInv, Draining
  <2>2. WarmInv'
    BY <1>21 DEF CloseVictim, WarmInv, Draining
  <2> QED BY <2>1, <2>2 DEF TidyInv
<1>22. ASSUME JanitorTick
      PROVE  TidyInv'
  <2>1. WarmInv' /\ OwnedInv'
    BY <1>22 DEF JanitorTick, WarmInv, OwnedInv, Draining
  <2> QED BY <2>1 DEF TidyInv
<1>23. ASSUME SweepMark
      PROVE  TidyInv'
  <2>1. WarmInv'
    BY <1>23 DEF SweepMark, TypeOK, LocalInv, LockInv, MapHoldsLive, MapInv, WarmInv, Draining
  <2>2. OwnedInv'
    BY <1>23 DEF SweepMark, OwnedInv
  <2> QED BY <2>1, <2>2 DEF TidyInv
<1>24. ASSUME SweepDone
      PROVE  TidyInv'
  <2>1. WarmInv' /\ OwnedInv'
    BY <1>24 DEF SweepDone, WarmInv, OwnedInv, Draining
  <2> QED BY <2>1 DEF TidyInv
<1>25. ASSUME JanitorExit
      PROVE  TidyInv'
  <2>1. WarmInv' /\ OwnedInv'
    BY <1>25 DEF JanitorExit, WarmInv, OwnedInv, Draining
  <2> QED BY <2>1 DEF TidyInv
<1>26. ASSUME CloseBegin
      PROVE  TidyInv'
  <2>1. WarmInv'
    BY <1>26 DEF CloseBegin, TypeOK, LocalInv, LockInv, MapHoldsLive, MapInv, WarmInv, Draining
  <2>2. OwnedInv'
    BY <1>26 DEF CloseBegin, OwnedInv
  <2> QED BY <2>1, <2>2 DEF TidyInv
<1>27. ASSUME CloseJoin
      PROVE  TidyInv'
  <2>1. WarmInv' /\ OwnedInv'
    BY <1>27 DEF CloseJoin, WarmInv, OwnedInv, Draining
  <2> QED BY <2>1 DEF TidyInv
<1>28. ASSUME CloseDone
      PROVE  TidyInv'
  <2>1. WarmInv' /\ OwnedInv'
    BY <1>28 DEF CloseDone, WarmInv, OwnedInv, Draining
  <2> QED BY <2>1 DEF TidyInv
<1>29. ASSUME Tick
      PROVE  TidyInv'
  <2>1. WarmInv' /\ OwnedInv'
    BY <1>29 DEF Tick, WarmInv, OwnedInv, Draining
  <2> QED BY <2>1 DEF TidyInv
<1>30. ASSUME NEW c \in Children, Crash(c)
      PROVE  TidyInv'
  <2>1. WarmInv'
    BY <1>30 DEF Crash, WarmInv, Draining
  <2>2. OwnedInv'
    BY <1>30 DEF Crash, TypeOK, OwnedInv
  <2> QED BY <2>1, <2>2 DEF TidyInv
<1>31. ASSUME UNCHANGED vars PROVE TidyInv'
  BY <1>31 DEF vars, TidyInv, WarmInv, OwnedInv, Draining
<1> QED
  BY ONLY [Next]_vars, NextCases, <1>1, <1>2, <1>3, <1>4, <1>5, <1>6, <1>7, <1>8, <1>9, <1>10, <1>11, <1>12, <1>13, <1>14, <1>15, <1>16, <1>17, <1>18, <1>19, <1>20, <1>21, <1>22, <1>23, <1>24, <1>25, <1>26, <1>27, <1>28, <1>29, <1>30, <1>31

\* A new pool has no child and no warm entry.
LEMMA TidyInit == Init => TidyInv
BY PoolAssumption DEF Init, TidyInv, WarmInv, OwnedInv

\* Then no child is left where nothing will look for it ...
LEMMA TidyLeaksNothing == TidyInv => NoOrphanChild
<1> SUFFICES ASSUME WarmInv, OwnedInv,
                    NEW c \in Children, procs[c] # "none"
             PROVE  \/ \E a \in Actors : held[a] = c
                    \/ \E e \in Entries : client[e] = c /\ Reachable(e)
  BY DEF TidyInv, NoOrphanChild
<1>1. c # NoChild
  BY PoolAssumption
<1>2. \A e \in Entries : client[e] = c => Reachable(e)
  BY <1>1 DEF WarmInv, Reachable, Mapped
<1> QED BY <1>2 DEF OwnedInv

\* ... and Close, once it has returned, leaves no child and no call behind.
LEMMA TidyClose == IInv /\ TidyInv => CloseDrains
<1> SUFFICES ASSUME TypeOK, LocalInv, LockInv, MapHoldsLive, CloserInv,
                    WarmInv, OwnedInv, dpc["closer"] = "exited"
             PROVE  /\ \A d \in Callers : pc[d] \notin Holding
                    /\ \A c \in Children : procs[c] # "none" =>
                         \E d \in Callers : held[d] = c
  BY DEF IInv, TidyInv, CloseDrains
<1>1. closed /\ dpc["janitor"] = "exited"
  BY DEF CloserInv
<1>2. \A e \in Entries : ~Mapped(e) /\ ~Draining(e)
  BY <1>1, PoolAssumption
     DEF Mapped, Draining, MapHoldsLive, LocalInv, DrainBusy, Drainers, TypeOK
<1>3. \A e \in Entries : client[e] = NoChild /\ holder[e] = Free
  BY <1>2 DEF WarmInv
<1>4. ASSUME NEW d \in Callers, pc[d] \in Holding PROVE FALSE
  <2>1. entry[d] \in Entries
    BY <1>4 DEF TypeOK, LocalInv, Holding, WithEntry
  <2>2. holder[entry[d]] = d /\ holder[entry[d]] = Free
    BY <1>3, <1>4, <2>1 DEF LockInv
  <2> QED BY <2>2, PoolAssumption
<1>5. \A x \in Drainers : held[x] = NoChild
  BY <1>1 DEF LocalInv, Drainers
<1>6. \A c \in Children : procs[c] # "none" => \E d \in Callers : held[d] = c
  BY <1>3, <1>5, PoolAssumption DEF OwnedInv, Actors
<1> QED BY <1>4, <1>6

-----------------------------------------------------------------------------
(* Without faults *)

\* No spawn, call or child fails, so no Dispatch evicts.
LEMMA NoEvictNext ==
  ASSUME Faults = {}
  PROVE  IInv /\ NoEvictInv /\ [Next]_vars => NoEvictInv'
<1> SUFFICES ASSUME TypeOK, LocalInv, LockInv, ProcInv, NoEvictInv, [Next]_vars
             PROVE  NoEvictInv'
  BY DEF IInv
<1> USE PoolAssumption DEF Actors, Drainers, poolVars, entryVars, callVars,
        drainVars, Holding, WithEntry, NoEvictInv
<1>1. ASSUME NEW d \in Callers, NEW q \in Quarters, Dispatch(d, q)
      PROVE  NoEvictInv'
  BY <1>1 DEF Dispatch, TypeOK
<1>2. ASSUME NEW d \in Callers, CheckoutClosed(d)
      PROVE  NoEvictInv'
  BY <1>2 DEF CheckoutClosed, Finish, TypeOK
<1>3. ASSUME NEW d \in Callers, CheckoutWarm(d)
      PROVE  NoEvictInv'
  BY <1>3 DEF CheckoutWarm, Pooled, TypeOK
<1>4. ASSUME NEW d \in Callers, CheckoutMissing(d)
      PROVE  NoEvictInv'
  BY <1>4 DEF CheckoutMissing, Finish, TypeOK
<1>5. ASSUME NEW d \in Callers, NEW e \in Entries, CheckoutFresh(d, e)
      PROVE  NoEvictInv'
  BY <1>5 DEF CheckoutFresh, InUse, Draining, TypeOK
<1>6. ASSUME NEW d \in Callers, AcquireLive(d)
      PROVE  NoEvictInv'
  BY <1>6 DEF AcquireLive, TypeOK
<1>7. ASSUME NEW d \in Callers, RetryDead(d)
      PROVE  NoEvictInv'
  BY <1>7 DEF RetryDead, TypeOK
<1>8. ASSUME NEW d \in Callers, GiveUp(d)
      PROVE  NoEvictInv'
  BY <1>8 DEF GiveUp, Finish, TypeOK
<1>9. ASSUME NEW d \in Callers, NEW c \in Children, SpawnChild(d, c)
      PROVE  NoEvictInv'
  BY <1>9 DEF SpawnChild, TypeOK
<1>10. ASSUME NEW d \in Callers, SpawnFails(d)
      PROVE  NoEvictInv'
  BY <1>10 DEF SpawnFails, Unlock, TypeOK
<1>11. ASSUME NEW d \in Callers, InitOk(d)
      PROVE  NoEvictInv'
  BY <1>11 DEF InitOk, TypeOK, LocalInv, LockInv, ProcInv
<1>12. ASSUME NEW d \in Callers, InitFails(d)
      PROVE  NoEvictInv'
  BY <1>12 DEF InitFails, Unlock, TypeOK, LocalInv, LockInv, ProcInv
<1>13. ASSUME NEW d \in Callers, CallReturns(d)
      PROVE  NoEvictInv'
  BY <1>13 DEF CallReturns, Unlock, TypeOK
<1>14. ASSUME NEW d \in Callers, CallFails(d)
      PROVE  NoEvictInv'
  BY <1>14 DEF CallFails, Unlock, TypeOK, LocalInv, LockInv, ProcInv
<1>15. ASSUME NEW d \in Callers, MarkUsed(d)
      PROVE  NoEvictInv'
  BY <1>15 DEF MarkUsed, Finish, TypeOK
<1>16. ASSUME NEW d \in Callers, Evict(d)
      PROVE  NoEvictInv'
  BY <1>16 DEF Evict, Finish, TypeOK
<1>17. ASSUME NEW d \in Callers, CloseEvicted(d)
      PROVE  NoEvictInv'
  BY <1>17 DEF CloseEvicted, Finish, TypeOK
<1>18. ASSUME NEW d \in Callers, Return(d)
      PROVE  NoEvictInv'
  BY <1>18 DEF Return, TypeOK
<1>19. ASSUME NEW x \in Drainers, NEW e \in Entries, PickVictim(x, e)
      PROVE  NoEvictInv'
  BY <1>19 DEF PickVictim, TypeOK
<1>20. ASSUME NEW x \in Drainers, TakeClient(x)
      PROVE  NoEvictInv'
  BY <1>20 DEF TakeClient, TypeOK
<1>21. ASSUME NEW x \in Drainers, CloseVictim(x)
      PROVE  NoEvictInv'
  BY <1>21 DEF CloseVictim, TypeOK
<1>22. ASSUME JanitorTick
      PROVE  NoEvictInv'
  BY <1>22 DEF JanitorTick, TypeOK
<1>23. ASSUME SweepMark
      PROVE  NoEvictInv'
  BY <1>23 DEF SweepMark, TypeOK
<1>24. ASSUME SweepDone
      PROVE  NoEvictInv'
  BY <1>24 DEF SweepDone, TypeOK
<1>25. ASSUME JanitorExit
      PROVE  NoEvictInv'
  BY <1>25 DEF JanitorExit, TypeOK
<1>26. ASSUME CloseBegin
      PROVE  NoEvictInv'
  BY <1>26 DEF CloseBegin, TypeOK
<1>27. ASSUME CloseJoin
      PROVE  NoEvictInv'
  BY <1>27 DEF CloseJoin, TypeOK
<1>28. ASSUME CloseDone
      PROVE  NoEvictInv'
  BY <1>28 DEF CloseDone, TypeOK
<1>29. ASSUME Tick
      PROVE  NoEvictInv'
  BY <1>29 DEF Tick, TypeOK
<1>30. ASSUME NEW c \in Children, Crash(c)
      PROVE  NoEvictInv'
  BY <1>30 DEF Crash, TypeOK
<1>31. ASSUME UNCHANGED vars
      PROVE  NoEvictInv'
  BY <1>31 DEF vars, TypeOK
<1> QED
  BY ONLY [Next]_vars, NextCases, <1>1, <1>2, <1>3, <1>4, <1>5, <1>6, <1>7, <1>8, <1>9, <1>10, <1>11, <1>12, <1>13, <1>14, <1>15, <1>16, <1>17, <1>18, <1>19, <1>20, <1>21, <1>22, <1>23, <1>24, <1>25, <1>26, <1>27, <1>28, <1>29, <1>30, <1>31

\* No Dispatch stands before an eviction, so the pool stays tidy.
LEMMA TidyWithoutFaults ==
  ASSUME Faults = {}
  PROVE  Spec => []TidyInv
<1>1. Init => NoEvictInv
  BY DEF Init, NoEvictInv
<1>2. IInv /\ NoEvictInv /\ [Next]_vars => NoEvictInv'
  BY NoEvictNext
<1>3. NoEvictInv => ColdEvict
  BY DEF NoEvictInv, ColdEvict
<1> QED BY <1>1, <1>2, <1>3, TidyNext, TidyInit, Invariance, PTL DEF Spec

\* As long as no spawn, call or child fails, eviction races alone (the janitor
\* and Close against any number of Dispatches) leak no child: the retry on a
\* dead entry does what its comment claims.
THEOREM NoLeakWithoutFaults ==
  ASSUME Faults = {}
  PROVE  Spec => []NoOrphanChild
BY TidyWithoutFaults, TidyLeaksNothing, PTL

\* And Close, once it has returned, leaves no child and no call behind.
THEOREM CloseDrainsWithoutFaults ==
  ASSUME Faults = {}
  PROVE  Spec => []CloseDrains
BY TidyWithoutFaults, TidyClose, Invariance, PTL

-----------------------------------------------------------------------------
(* With faults, one Dispatch per quarter at a time *)

\* Callers that share an entry are for one quarter.
LEMMA SharedNext == IInv /\ SharedInv /\ [Next]_vars => SharedInv'
<1> SUFFICES ASSUME TypeOK, LocalInv, MapInv, SharedInv, [Next]_vars
             PROVE  SharedInv'
  BY DEF IInv
<1> USE PoolAssumption DEF Drainers, poolVars, entryVars, callVars, drainVars,
        WithEntry, SharedInv
<1>1. ASSUME NEW d \in Callers, NEW q \in Quarters, Dispatch(d, q)
      PROVE  SharedInv'
  BY <1>1 DEF Dispatch, TypeOK, LocalInv
<1>2. ASSUME NEW d \in Callers, CheckoutClosed(d)
      PROVE  SharedInv'
  BY <1>2 DEF CheckoutClosed, Finish, TypeOK, LocalInv
<1>3. ASSUME NEW d \in Callers, CheckoutWarm(d)
      PROVE  SharedInv'
  BY <1>3 DEF CheckoutWarm, Pooled, TypeOK, LocalInv, MapInv, MapHoldsLive
<1>4. ASSUME NEW d \in Callers, CheckoutMissing(d)
      PROVE  SharedInv'
  BY <1>4 DEF CheckoutMissing, Finish, TypeOK, LocalInv
<1>5. ASSUME NEW d \in Callers, NEW e \in Entries, CheckoutFresh(d, e)
      PROVE  SharedInv'
  BY <1>5 DEF CheckoutFresh, InUse, Draining, TypeOK, LocalInv
<1>6. ASSUME NEW d \in Callers, AcquireLive(d)
      PROVE  SharedInv'
  BY <1>6 DEF AcquireLive, TypeOK, LocalInv
<1>7. ASSUME NEW d \in Callers, RetryDead(d)
      PROVE  SharedInv'
  BY <1>7 DEF RetryDead, TypeOK, LocalInv
<1>8. ASSUME NEW d \in Callers, GiveUp(d)
      PROVE  SharedInv'
  BY <1>8 DEF GiveUp, Finish, TypeOK, LocalInv
<1>9. ASSUME NEW d \in Callers, NEW c \in Children, SpawnChild(d, c)
      PROVE  SharedInv'
  BY <1>9 DEF SpawnChild, TypeOK, LocalInv
<1>10. ASSUME NEW d \in Callers, SpawnFails(d)
      PROVE  SharedInv'
  BY <1>10 DEF SpawnFails, Unlock, TypeOK, LocalInv
<1>11. ASSUME NEW d \in Callers, InitOk(d)
      PROVE  SharedInv'
  BY <1>11 DEF InitOk, TypeOK, LocalInv
<1>12. ASSUME NEW d \in Callers, InitFails(d)
      PROVE  SharedInv'
  BY <1>12 DEF InitFails, Unlock, TypeOK, LocalInv
<1>13. ASSUME NEW d \in Callers, CallReturns(d)
      PROVE  SharedInv'
  BY <1>13 DEF CallReturns, Unlock, TypeOK, LocalInv
<1>14. ASSUME NEW d \in Callers, CallFails(d)
      PROVE  SharedInv'
  BY <1>14 DEF CallFails, Unlock, TypeOK, LocalInv
<1>15. ASSUME NEW d \in Callers, MarkUsed(d)
      PROVE  SharedInv'
  BY <1>15 DEF MarkUsed, Finish, TypeOK, LocalInv
<1>16. ASSUME NEW d \in Callers, Evict(d)
      PROVE  SharedInv'
  BY <1>16 DEF Evict, Finish, TypeOK, LocalInv
<1>17. ASSUME NEW d \in Callers, CloseEvicted(d)
      PROVE  SharedInv'
  BY <1>17 DEF CloseEvicted, Finish, TypeOK, LocalInv
<1>18. ASSUME NEW d \in Callers, Return(d)
      PROVE  SharedInv'
  BY <1>18 DEF Return, TypeOK, LocalInv
<1>19. ASSUME NEW x \in Drainers, NEW e \in Entries, PickVictim(x, e)
      PROVE  SharedInv'
  BY <1>19 DEF PickVictim, TypeOK, LocalInv
<1>20. ASSUME NEW x \in Drainers, TakeClient(x)
      PROVE  SharedInv'
  BY <1>20 DEF TakeClient, TypeOK, LocalInv
<1>21. ASSUME NEW x \in Drainers, CloseVictim(x)
      PROVE  SharedInv'
  BY <1>21 DEF CloseVictim, TypeOK, LocalInv
<1>22. ASSUME JanitorTick
      PROVE  SharedInv'
  BY <1>22 DEF JanitorTick, TypeOK, LocalInv
<1>23. ASSUME SweepMark
      PROVE  SharedInv'
  BY <1>23 DEF SweepMark, TypeOK, LocalInv
<1>24. ASSUME SweepDone
      PROVE  SharedInv'
  BY <1>24 DEF SweepDone, TypeOK, LocalInv
<1>25. ASSUME JanitorExit
      PROVE  SharedInv'
  BY <1>25 DEF JanitorExit, TypeOK, LocalInv
<1>26. ASSUME CloseBegin
      PROVE  SharedInv'
  BY <1>26 DEF CloseBegin, TypeOK, LocalInv
<1>27. ASSUME CloseJoin
      PROVE  SharedInv'
  BY <1>27 DEF CloseJoin, TypeOK, LocalInv
<1>28. ASSUME CloseDone
      PROVE  SharedInv'
  BY <1>28 DEF CloseDone, TypeOK, LocalInv
<1>29. ASSUME Tick
      PROVE  SharedInv'
  BY <1>29 DEF Tick, TypeOK, LocalInv
<1>30. ASSUME NEW c \in Children, Crash(c)
      PROVE  SharedInv'
  BY <1>30 DEF Crash, TypeOK, LocalInv
<1>31. ASSUME UNCHANGED vars
      PROVE  SharedInv'
  BY <1>31 DEF vars, TypeOK, LocalInv
<1> QED
  BY ONLY [Next]_vars, NextCases, <1>1, <1>2, <1>3, <1>4, <1>5, <1>6, <1>7, <1>8, <1>9, <1>10, <1>11, <1>12, <1>13, <1>14, <1>15, <1>16, <1>17, <1>18, <1>19, <1>20, <1>21, <1>22, <1>23, <1>24, <1>25, <1>26, <1>27, <1>28, <1>29, <1>30, <1>31

\* The mutex of an entry about to be evicted is free: whoever held it would be
\* for the same quarter, and so the evicting caller itself.
LEMMA EvictedUnlocked ==
  IInv /\ SharedInv /\ SerialDispatch
    => \A d \in Callers : pc[d] = "evict" => holder[entry[d]] = Free
<1> SUFFICES ASSUME IInv, SharedInv, SerialDispatch, NEW d \in Callers,
                    pc[d] = "evict", holder[entry[d]] # Free
             PROVE  FALSE
  OBVIOUS
<1>1. entry[d] \in Entries /\ entry[d] # NoEntry /\ want[d] # NoQuarter
  BY PoolAssumption DEF IInv, TypeOK, LocalInv, WithEntry
<1>2. PICK h \in Callers : h = holder[entry[d]] /\ pc[h] \in Holding /\ entry[h] = entry[d]
  BY <1>1 DEF IInv, TypeOK, LockInv
<1>3. want[h] = want[d]
  BY <1>1, <1>2 DEF SharedInv
<1>4. h = d
  BY <1>1, <1>2, <1>3 DEF SerialDispatch
<1> QED BY <1>2, <1>4 DEF Holding

\* Nobody warms an entry between a failure on it and its eviction.
Unwarmed == \A d \in Callers : pc[d] = "evict" => client[entry[d]] = NoChild

LEMMA ColdNext ==
  IInv /\ SharedInv /\ SerialDispatch /\ ColdEvict /\ [Next]_vars
    => Unwarmed'
<1> SUFFICES ASSUME IInv, TypeOK, LocalInv, LockInv, SharedInv, SerialDispatch,
                    ColdEvict, [Next]_vars
             PROVE  Unwarmed'
  BY DEF IInv
<1> USE PoolAssumption DEF Drainers, poolVars, entryVars, callVars, drainVars,
        Holding, WithEntry, ColdEvict, Unwarmed
<1>1. ASSUME NEW d \in Callers, NEW q \in Quarters, Dispatch(d, q)
      PROVE  Unwarmed'
  BY <1>1 DEF Dispatch, TypeOK, LocalInv
<1>2. ASSUME NEW d \in Callers, CheckoutClosed(d)
      PROVE  Unwarmed'
  BY <1>2 DEF CheckoutClosed, Finish, TypeOK, LocalInv
<1>3. ASSUME NEW d \in Callers, CheckoutWarm(d)
      PROVE  Unwarmed'
  BY <1>3 DEF CheckoutWarm, Pooled, TypeOK, LocalInv
<1>4. ASSUME NEW d \in Callers, CheckoutMissing(d)
      PROVE  Unwarmed'
  BY <1>4 DEF CheckoutMissing, Finish, TypeOK, LocalInv
<1>5. ASSUME NEW d \in Callers, NEW e \in Entries, CheckoutFresh(d, e)
      PROVE  Unwarmed'
  BY <1>5 DEF CheckoutFresh, InUse, Draining, TypeOK, LocalInv
<1>6. ASSUME NEW d \in Callers, AcquireLive(d)
      PROVE  Unwarmed'
  BY <1>6 DEF AcquireLive, TypeOK, LocalInv
<1>7. ASSUME NEW d \in Callers, RetryDead(d)
      PROVE  Unwarmed'
  BY <1>7 DEF RetryDead, TypeOK, LocalInv
<1>8. ASSUME NEW d \in Callers, GiveUp(d)
      PROVE  Unwarmed'
  BY <1>8 DEF GiveUp, Finish, TypeOK, LocalInv
<1>9. ASSUME NEW d \in Callers, NEW c \in Children, SpawnChild(d, c)
      PROVE  Unwarmed'
  BY <1>9 DEF SpawnChild, TypeOK, LocalInv
<1>10. ASSUME NEW d \in Callers, SpawnFails(d)
      PROVE  Unwarmed'
  BY <1>10 DEF SpawnFails, Unlock, TypeOK, LocalInv, LockInv
<1>11. ASSUME NEW d \in Callers, InitOk(d)
      PROVE  Unwarmed'
  BY <1>11 DEF InitOk, TypeOK, LocalInv, LockInv
<1>12. ASSUME NEW d \in Callers, InitFails(d)
      PROVE  Unwarmed'
  BY <1>12 DEF InitFails, Unlock, TypeOK, LocalInv, LockInv
<1>13. ASSUME NEW d \in Callers, CallReturns(d)
      PROVE  Unwarmed'
  BY <1>13 DEF CallReturns, Unlock, TypeOK, LocalInv
<1>14. ASSUME NEW d \in Callers, CallFails(d)
      PROVE  Unwarmed'
  BY <1>14 DEF CallFails, Unlock, TypeOK, LocalInv, LockInv
<1>15. ASSUME NEW d \in Callers, MarkUsed(d)
      PROVE  Unwarmed'
  BY <1>15 DEF MarkUsed, Finish, TypeOK, LocalInv
<1>16. ASSUME NEW d \in Callers, Evict(d)
      PROVE  Unwarmed'
  BY <1>16 DEF Evict, Finish, TypeOK, LocalInv
<1>17. ASSUME NEW d \in Callers, CloseEvicted(d)
      PROVE  Unwarmed'
  BY <1>17 DEF CloseEvicted, Finish, TypeOK, LocalInv
<1>18. ASSUME NEW d \in Callers, Return(d)
      PROVE  Unwarmed'
  BY <1>18 DEF Return, TypeOK, LocalInv
<1>19. ASSUME NEW x \in Drainers, NEW e \in Entries, PickVictim(x, e)
      PROVE  Unwarmed'
  BY <1>19 DEF PickVictim, TypeOK, LocalInv
<1>20. ASSUME NEW x \in Drainers, TakeClient(x)
      PROVE  Unwarmed'
  BY <1>20 DEF TakeClient, TypeOK, LocalInv
<1>21. ASSUME NEW x \in Drainers, CloseVictim(x)
      PROVE  Unwarmed'
  BY <1>21 DEF CloseVictim, TypeOK, LocalInv
<1>22. ASSUME JanitorTick
      PROVE  Unwarmed'
  BY <1>22 DEF JanitorTick, TypeOK, LocalInv
<1>23. ASSUME SweepMark
      PROVE  Unwarmed'
  BY <1>23 DEF SweepMark, TypeOK, LocalInv
<1>24. ASSUME SweepDone
      PROVE  Unwarmed'
  BY <1>24 DEF SweepDone, TypeOK, LocalInv
<1>25. ASSUME JanitorExit
      PROVE  Unwarmed'
  BY <1>25 DEF JanitorExit, TypeOK, LocalInv
<1>26. ASSUME CloseBegin
      PROVE  Unwarmed'
  BY <1>26 DEF CloseBegin, TypeOK, LocalInv
<1>27. ASSUME CloseJoin
      PROVE  Unwarmed'
  BY <1>27 DEF CloseJoin, TypeOK, LocalInv
<1>28. ASSUME CloseDone
      PROVE  Unwarmed'
  BY <1>28 DEF CloseDone, TypeOK, LocalInv
<1>29. ASSUME Tick
      PROVE  Unwarmed'
  BY <1>29 DEF Tick, TypeOK, LocalInv
<1>30. ASSUME NEW c \in Children, Crash(c)
      PROVE  Unwarmed'
  BY <1>30 DEF Crash, TypeOK, LocalInv
<1>31. ASSUME UNCHANGED vars
      PROVE  Unwarmed'
  BY <1>31 DEF vars, TypeOK, LocalInv
<1> QED
  BY ONLY [Next]_vars, NextCases, <1>1, <1>2, <1>3, <1>4, <1>5, <1>6, <1>7, <1>8, <1>9, <1>10, <1>11, <1>12, <1>13, <1>14, <1>15, <1>16, <1>17, <1>18, <1>19, <1>20, <1>21, <1>22, <1>23, <1>24, <1>25, <1>26, <1>27, <1>28, <1>29, <1>30, <1>31

\* An eviction finds its entry cold and unlocked as long as Dispatches for one
\* quarter follow each other.
LEMMA SerialInvariance == Spec /\ []SerialDispatch => []SerialInv
<1>1. Init => SerialInv
  BY PoolAssumption DEF Init, SerialInv, SharedInv, ColdEvict
<1>2. IInv /\ SharedInv /\ [Next]_vars => SharedInv'
  BY SharedNext
<1>3. IInv /\ SerialDispatch /\ SerialInv /\ [Next]_vars => Unwarmed'
  BY ColdNext DEF SerialInv
<1>4. IInv /\ SerialDispatch /\ SharedInv /\ Unwarmed => SerialInv
  BY EvictedUnlocked DEF SerialInv, ColdEvict, Unwarmed
<1>5. SerialInv => SharedInv
  BY DEF SerialInv
<1> QED BY <1>1, <1>2, <1>3, <1>4, <1>5, Invariance, PTL DEF Spec

\* So the pool stays tidy, whatever fails.
LEMMA TidyWhenSerial == Spec /\ []SerialDispatch => []TidyInv
<1>1. SerialInv => ColdEvict
  BY DEF SerialInv
<1> QED BY <1>1, SerialInvariance, TidyNext, TidyInit, Invariance, PTL DEF Spec

\* Whatever fails - spawns, handshakes, calls, children - no child is leaked as
\* long as no two Dispatches for one quarter are in progress together; those for
\* different quarters, the janitor and Close may interleave as they like.  The
\* leak that run pool_orphan shows needs the second Dispatch.
THEOREM NoLeakWhenSerial == Spec /\ []SerialDispatch => []NoOrphanChild
BY TidyWhenSerial, TidyLeaksNothing, PTL

\* And Close drains the pool under the same condition.
THEOREM CloseDrainsWhenSerial == Spec /\ []SerialDispatch => []CloseDrains
BY TidyWhenSerial, TidyClose, Invariance, PTL

-----------------------------------------------------------------------------
(* The pool implements ChildLife. *)

\* What a step that only one actor's hands see does to the abstract functions.
LEMMA OneHand ==
  ASSUME NEW b \in Actors,
         \A a \in Actors \ {b} : InHand(a)' = InHand(a) /\ HandUse(a)' = HandUse(a)
  PROVE  /\ [a \in Actors |-> InHand(a)]'
              = [[a \in Actors |-> InHand(a)] EXCEPT ![b] = InHand(b)']
         /\ [a \in Actors |-> HandUse(a)]'
              = [[a \in Actors |-> HandUse(a)] EXCEPT ![b] = HandUse(b)']
OBVIOUS

\* A step that leaves every hand alone and starts and closes no child is a
\* stuttering step of ChildLife.
LEMMA NoHand ==
  ASSUME \A a \in Actors : InHand(a)' = InHand(a) /\ HandUse(a)' = HandUse(a),
         \A c \in Children : (procs'[c] # "none") <=> (procs[c] # "none")
  PROVE  UNCHANGED Life!vars
BY DEF Life!vars

\* Nobody else has what is in an actor's hand, and a child that no hand holds
\* in an entry whose mutex is free is warm.
LEMMA HandsDiffer ==
  ASSUME IInv, NEW a \in Actors, NEW b \in Actors, InHand(a) = InHand(b),
         InHand(a) # NoChild
  PROVE  a = b
<1> USE DEF IInv, Actors, InHand
<1>1. \A d \in Callers : pc[d] = "call" =>
         entry[d] \in Entries /\ holder[entry[d]] = d /\ client[entry[d]] # NoChild
  BY DEF TypeOK, LocalInv, LockInv, Holding, WithEntry
<1>2. CASE held[a] # NoChild /\ held[b] # NoChild
  BY <1>2 DEF SingleOwner
<1>3. CASE held[a] # NoChild /\ held[b] = NoChild
  BY <1>1, <1>3 DEF SingleOwner
<1>4. CASE held[a] = NoChild /\ held[b] # NoChild
  BY <1>1, <1>4 DEF SingleOwner
<1>5. CASE held[a] = NoChild /\ held[b] = NoChild
  BY <1>1, <1>5 DEF SingleOwner
<1> QED BY <1>2, <1>3, <1>4, <1>5

LEMMA UnlockedIsWarm ==
  ASSUME IInv, NEW e \in Entries, holder[e] = Free, client[e] # NoChild
  PROVE  /\ client[e] \in Children /\ procs[client[e]] # "none"
         /\ \A a \in Actors : InHand(a) # client[e]
<1>1. client[e] \in Children /\ procs[client[e]] # "none"
  BY DEF IInv, TypeOK, ProcInv
<1>2. ASSUME NEW a \in Actors, InHand(a) = client[e]
      PROVE  FALSE
  <2>1. CASE held[a] # NoChild
    BY <1>2, <2>1 DEF IInv, SingleOwner, InHand
  <2>2. CASE held[a] = NoChild
    <3>1. a \in Callers /\ pc[a] = "call" /\ client[entry[a]] = client[e]
      BY <1>2, <2>2 DEF InHand
    <3>2. entry[a] \in Entries /\ holder[entry[a]] = a
      BY <3>1 DEF IInv, TypeOK, LocalInv, LockInv, Holding, WithEntry
    <3>3. entry[a] = e
      BY <3>1, <3>2 DEF IInv, SingleOwner
    <3> QED BY <3>1, <3>2, <3>3, PoolAssumption
  <2> QED BY <2>1, <2>2
<1> QED BY <1>1, <1>2

-----------------------------------------------------------------------------
\* Actions that touch no hand: checkout, the bookkeeping of evictions, sweeps
\* and Close, the clock, and children that exit by themselves.
LEMMA QuietSteps ==
  ASSUME IInv,
         \/ \E d \in Callers, q \in Quarters : Dispatch(d, q)
         \/ \E d \in Callers, e \in Entries : CheckoutFresh(d, e)
         \/ \E d \in Callers :
              \/ CheckoutClosed(d) \/ CheckoutWarm(d) \/ CheckoutMissing(d)
              \/ RetryDead(d) \/ GiveUp(d) \/ SpawnFails(d)
              \/ MarkUsed(d) \/ Evict(d) \/ Return(d)
         \/ \E x \in Drainers, e \in Entries : PickVictim(x, e)
         \/ JanitorTick \/ SweepMark \/ SweepDone \/ JanitorExit
         \/ CloseBegin \/ CloseJoin \/ CloseDone \/ Tick
         \/ \E c \in Children : Crash(c)
         \/ UNCHANGED vars
  PROVE  UNCHANGED Life!vars
<1> USE DEF IInv, InHand, HandUse, Actors
<1>1. ASSUME NEW d \in Callers, NEW q \in Quarters, Dispatch(d, q)
      PROVE  UNCHANGED Life!vars
  BY <1>1, NoHand DEF Dispatch, entryVars, TypeOK
<1>2. ASSUME NEW d \in Callers, NEW e \in Entries, CheckoutFresh(d, e)
      PROVE  UNCHANGED Life!vars
  <2>1. \A f \in Callers : pc[f] = "call" => entry[f] # e /\ f # d
    BY <1>2 DEF CheckoutFresh, InUse
  <2>2. \A f \in Callers : pc'[f] = "call" <=> pc[f] = "call"
    BY <1>2 DEF CheckoutFresh, TypeOK
  <2>3. \A f \in Callers : (pc'[f] = "init" <=> pc[f] = "init")
    BY <1>2 DEF CheckoutFresh, TypeOK
  <2>4. \A f \in Callers : pc[f] = "call" => client'[entry'[f]] = client[entry[f]]
    BY <1>2, <2>1 DEF CheckoutFresh, TypeOK, LocalInv, WithEntry
  <2> QED BY <1>2, <2>2, <2>3, <2>4, NoHand DEF CheckoutFresh
<1>3. ASSUME NEW d \in Callers,
             \/ CheckoutClosed(d) \/ CheckoutWarm(d) \/ CheckoutMissing(d)
             \/ RetryDead(d) \/ GiveUp(d) \/ MarkUsed(d) \/ Return(d)
      PROVE  UNCHANGED Life!vars
  <2>1. /\ pc[d] \notin {"call", "init"} /\ pc'[d] \notin {"call", "init"}
        /\ \A f \in Callers \ {d} : pc'[f] = pc[f] /\ entry'[f] = entry[f]
        /\ UNCHANGED <<held, client, procs>>
    BY <1>3 DEF CheckoutClosed, CheckoutWarm, CheckoutMissing, RetryDead, GiveUp,
                MarkUsed, Return, Finish, entryVars, TypeOK
  <2> QED BY <2>1, NoHand
<1>4. ASSUME NEW d \in Callers, SpawnFails(d) \/ Evict(d)
      PROVE  UNCHANGED Life!vars
  <2>1. /\ pc[d] \notin {"call", "init"} /\ pc'[d] \notin {"call", "init"}
        /\ \A f \in Callers \ {d} : pc'[f] = pc[f] /\ entry'[f] = entry[f]
        /\ UNCHANGED <<held, client, procs>>
    BY <1>4 DEF SpawnFails, Evict, Finish, TypeOK
  <2> QED BY <2>1, NoHand
<1>5. ASSUME NEW x \in Drainers, NEW e \in Entries, PickVictim(x, e)
      PROVE  UNCHANGED Life!vars
  BY <1>5, NoHand DEF PickVictim, entryVars, callVars
<1>6. CASE \/ JanitorTick \/ SweepMark \/ SweepDone \/ JanitorExit
           \/ CloseBegin \/ CloseJoin \/ CloseDone \/ Tick
           \/ UNCHANGED vars
  <2>1. UNCHANGED <<pc, entry, held, client, procs>>
    BY <1>6 DEF JanitorTick, SweepMark, SweepDone, JanitorExit, CloseBegin,
                CloseJoin, CloseDone, Tick, entryVars, callVars, vars
  <2> QED BY <2>1, NoHand
<1>7. ASSUME NEW c \in Children, Crash(c)
      PROVE  UNCHANGED Life!vars
  BY <1>7, NoHand DEF Crash, entryVars, callVars, TypeOK
<1> QED BY <1>1, <1>2, <1>3, <1>4, <1>5, <1>6, <1>7

\* The other actions are each one step of ChildLife, or none where an entry
\* without a child is unlocked or drained.
LEMMA HandSteps ==
  ASSUME IInv,
         \/ \E d \in Callers, c \in Children : SpawnChild(d, c)
         \/ \E d \in Callers :
              \/ AcquireLive(d) \/ InitOk(d) \/ InitFails(d)
              \/ CallReturns(d) \/ CallFails(d) \/ CloseEvicted(d)
         \/ \E x \in Drainers : TakeClient(x) \/ CloseVictim(x)
  PROVE  [Life!Next]_(Life!vars)
<1> USE PoolAssumption DEF Actors
<1>0. IInv => TypeOK /\ LocalInv /\ LockInv /\ ProcInv /\ SingleOwner
  BY DEF IInv
<1>1. ASSUME NEW d \in Callers, NEW c \in Children, SpawnChild(d, c)
      PROVE  Life!Start(d, c)
  <2>1. \A a \in Actors \ {d} : InHand(a)' = InHand(a) /\ HandUse(a)' = HandUse(a)
    BY <1>0, <1>1 DEF SpawnChild, entryVars, InHand, HandUse, TypeOK
  <2>2. HandUse(d) = "none" /\ InHand(d)' = c /\ HandUse(d)' = "start"
    BY <1>0, <1>1 DEF SpawnChild, InHand, HandUse, TypeOK, LocalInv
  <2>3. /\ procs[c] = "none"
        /\ {k \in Children : procs'[k] # "none"}
             = {k \in Children : procs[k] # "none"} \cup {c}
    BY <1>0, <1>1 DEF SpawnChild, TypeOK
  <2> QED BY <2>1, <2>2, <2>3, OneHand DEF Life!Start, Life!Takes
<1>2. ASSUME NEW d \in Callers, AcquireLive(d)
      PROVE  [Life!Next]_(Life!vars)
  <2> DEFINE c == client[entry[d]]
  <2>1. entry[d] \in Entries /\ held[d] = NoChild /\ held'[d] = NoChild
    BY <1>0, <1>2 DEF AcquireLive, TypeOK, LocalInv, WithEntry
  <2>2. \A a \in Actors \ {d} : InHand(a)' = InHand(a) /\ HandUse(a)' = HandUse(a)
    BY <1>0, <1>2 DEF AcquireLive, InHand, HandUse, TypeOK
  <2>3. InHand(d) = NoChild /\ HandUse(d) = "none"
    BY <1>2, <2>1 DEF AcquireLive, InHand, HandUse
  <2>4. CASE c = NoChild
    <3>1. InHand(d)' = NoChild /\ HandUse(d)' = "none"
      BY <1>0, <1>2, <2>1, <2>4 DEF AcquireLive, InHand, HandUse, TypeOK
    <3>2. UNCHANGED procs
      BY <1>2 DEF AcquireLive
    <3> QED BY <2>2, <2>3, <3>1, <3>2, NoHand
  <2>5. CASE c # NoChild
    <3>1. InHand(d)' = c /\ HandUse(d)' = "call" /\ UNCHANGED procs
      BY <1>0, <1>2, <2>1, <2>5 DEF AcquireLive, InHand, HandUse, TypeOK
    <3>2. c \in Children /\ procs[c] # "none" /\ \A a \in Actors : InHand(a) # c
      BY <1>2, <2>1, <2>5, UnlockedIsWarm DEF AcquireLive
    <3>3. Life!Warm(c)
      BY <3>2 DEF Life!Warm, Life!Actors
    <3>4. Life!Takes(d, c, "call")
      BY <2>2, <2>3, <3>1, OneHand DEF Life!Takes
    <3> QED BY <3>1, <3>2, <3>3, <3>4 DEF Life!Call, Life!Next
  <2> QED BY <2>4, <2>5
<1>3. ASSUME NEW d \in Callers, InitOk(d)
      PROVE  held[d] \in Children /\ Life!Ready(d, held[d])
  <2>1. entry[d] \in Entries /\ held[d] \in Children /\ holder[entry[d]] = d
    BY <1>0, <1>3 DEF InitOk, TypeOK, LocalInv, LockInv, WithEntry, Holding
  <2>2. \A a \in Callers \ {d} : pc[a] = "call" =>
           entry[a] \in Entries /\ entry[a] # entry[d]
    BY <1>0, <2>1 DEF TypeOK, LocalInv, LockInv, WithEntry, Holding
  <2>3. \A a \in Actors \ {d} : InHand(a)' = InHand(a) /\ HandUse(a)' = HandUse(a)
    BY <1>0, <1>3, <2>1, <2>2 DEF InitOk, InHand, HandUse, TypeOK
  <2>4. InHand(d) = held[d] /\ HandUse(d) = "start"
    BY <1>3, <2>1 DEF InitOk, InHand, HandUse
  <2>5. InHand(d)' = held[d] /\ HandUse(d)' = "call" /\ UNCHANGED procs
    BY <1>0, <1>3, <2>1 DEF InitOk, InHand, HandUse, TypeOK
  <2>6. [a \in Actors |-> InHand(a)]' = [a \in Actors |-> InHand(a)]
    BY <2>3, <2>4, <2>5
  <2> QED BY <2>1, <2>3, <2>4, <2>5, <2>6, OneHand DEF Life!Ready, Life!Has
<1>4. ASSUME NEW d \in Callers, InitFails(d) \/ CloseEvicted(d)
      PROVE  held[d] \in Children /\ Life!Close(d, held[d])
  <2>1. held[d] \in Children
    BY <1>0, <1>4 DEF InitFails, CloseEvicted, TypeOK, LocalInv
  <2>2. \A a \in Actors \ {d} : InHand(a)' = InHand(a) /\ HandUse(a)' = HandUse(a)
    BY <1>0, <1>4 DEF InitFails, CloseEvicted, Finish, entryVars, InHand, HandUse, TypeOK
  <2>3. InHand(d) = held[d] /\ HandUse(d) \in {"start", "close"}
    BY <2>1 DEF InHand, HandUse
  <2>4. InHand(d)' = NoChild /\ HandUse(d)' = "none"
    BY <1>0, <1>4 DEF InitFails, CloseEvicted, Finish, InHand, HandUse, TypeOK
  <2>5. {k \in Children : procs'[k] # "none"}
          = {k \in Children : procs[k] # "none"} \ {held[d]}
    BY <1>0, <1>4, <2>1 DEF InitFails, CloseEvicted, TypeOK
  <2> QED BY <2>1, <2>2, <2>3, <2>4, <2>5, OneHand DEF Life!Close, Life!Has, Life!Lets
<1>5. ASSUME NEW d \in Callers, CallReturns(d)
      PROVE  client[entry[d]] \in Children /\ Life!Answer(d, client[entry[d]])
  <2>1. held[d] = NoChild /\ client[entry[d]] \in Children
    BY <1>0, <1>5 DEF CallReturns, TypeOK, LocalInv, LockInv, WithEntry
  <2>2. \A a \in Actors \ {d} : InHand(a)' = InHand(a) /\ HandUse(a)' = HandUse(a)
    BY <1>0, <1>5 DEF CallReturns, InHand, HandUse, TypeOK
  <2>3. InHand(d) = client[entry[d]] /\ HandUse(d) = "call"
    BY <1>5, <2>1 DEF CallReturns, InHand, HandUse
  <2>4. InHand(d)' = NoChild /\ HandUse(d)' = "none" /\ UNCHANGED procs
    BY <1>0, <1>5, <2>1 DEF CallReturns, InHand, HandUse, TypeOK
  <2> QED BY <2>1, <2>2, <2>3, <2>4, OneHand DEF Life!Answer, Life!Has, Life!Lets
<1>6. ASSUME NEW d \in Callers, CallFails(d)
      PROVE  client[entry[d]] \in Children /\ Life!Fail(d, client[entry[d]])
  <2>1. /\ held[d] = NoChild /\ client[entry[d]] \in Children
        /\ entry[d] \in Entries /\ holder[entry[d]] = d
    BY <1>0, <1>6 DEF CallFails, TypeOK, LocalInv, LockInv, WithEntry, Holding
  <2>2. \A a \in Callers \ {d} : pc[a] = "call" =>
           entry[a] \in Entries /\ entry[a] # entry[d]
    BY <1>0, <2>1 DEF TypeOK, LocalInv, LockInv, WithEntry, Holding
  <2>3. \A a \in Actors \ {d} : InHand(a)' = InHand(a) /\ HandUse(a)' = HandUse(a)
    BY <1>0, <1>6, <2>1, <2>2 DEF CallFails, InHand, HandUse, TypeOK
  <2>4. InHand(d) = client[entry[d]] /\ HandUse(d) = "call"
    BY <1>6, <2>1 DEF CallFails, InHand, HandUse
  <2>5. InHand(d)' = client[entry[d]] /\ HandUse(d)' = "close" /\ UNCHANGED procs
    BY <1>0, <1>6, <2>1 DEF CallFails, InHand, HandUse, TypeOK
  <2>6. [a \in Actors |-> InHand(a)]' = [a \in Actors |-> InHand(a)]
    BY <2>3, <2>4, <2>5
  <2> QED BY <2>1, <2>3, <2>4, <2>5, <2>6, OneHand DEF Life!Fail, Life!Has
<1>7. ASSUME NEW x \in Drainers, TakeClient(x)
      PROVE  [Life!Next]_(Life!vars)
  <2> DEFINE c == client[cur[x]]
  <2>1. cur[x] \in Entries /\ held[x] = NoChild /\ holder[cur[x]] = Free
        /\ x \notin Callers
    BY <1>0, <1>7 DEF TakeClient, TypeOK, LocalInv
  <2>2. \A a \in Callers : pc[a] = "call" =>
           entry[a] \in Entries /\ entry[a] # cur[x]
    BY <1>0, <2>1 DEF TypeOK, LocalInv, LockInv, WithEntry, Holding
  <2>3. \A a \in Actors \ {x} : InHand(a)' = InHand(a) /\ HandUse(a)' = HandUse(a)
    BY <1>0, <1>7, <2>1, <2>2 DEF TakeClient, callVars, InHand, HandUse, TypeOK
  <2>4. InHand(x) = NoChild /\ HandUse(x) = "none"
    BY <2>1 DEF InHand, HandUse
  <2>5. held'[x] = c /\ UNCHANGED procs
    BY <1>0, <1>7, <2>1 DEF TakeClient, TypeOK
  <2>6. CASE c = NoChild
    BY <2>1, <2>3, <2>4, <2>5, <2>6, NoHand DEF InHand, HandUse
  <2>7. CASE c # NoChild
    <3>1. InHand(x)' = c /\ HandUse(x)' = "close"
      BY <2>1, <2>5, <2>7 DEF InHand, HandUse
    <3>2. c \in Children /\ procs[c] # "none" /\ \A a \in Actors : InHand(a) # c
      BY <2>1, <2>7, UnlockedIsWarm
    <3>3. Life!Warm(c)
      BY <3>2 DEF Life!Warm, Life!Actors
    <3>4. Life!Takes(x, c, "close")
      BY <2>3, <2>4, <3>1, OneHand DEF Life!Takes
    <3> QED BY <2>5, <3>2, <3>3, <3>4 DEF Life!Retire, Life!Next
  <2> QED BY <2>6, <2>7
<1>8. ASSUME NEW x \in Drainers, CloseVictim(x)
      PROVE  held[x] \in Children /\ Life!Close(x, held[x])
  <2>1. held[x] \in Children /\ x \notin Callers
    BY <1>0, <1>8 DEF CloseVictim, TypeOK, LocalInv
  <2>2. \A a \in Actors \ {x} : InHand(a)' = InHand(a) /\ HandUse(a)' = HandUse(a)
    BY <1>0, <1>8 DEF CloseVictim, entryVars, callVars, InHand, HandUse, TypeOK
  <2>3. InHand(x) = held[x] /\ HandUse(x) = "close"
    BY <2>1 DEF InHand, HandUse
  <2>4. InHand(x)' = NoChild /\ HandUse(x)' = "none"
    BY <1>0, <1>8, <2>1 DEF CloseVictim, InHand, HandUse, TypeOK
  <2>5. {k \in Children : procs'[k] # "none"}
          = {k \in Children : procs[k] # "none"} \ {held[x]}
    BY <1>0, <1>8, <2>1 DEF CloseVictim, TypeOK
  <2> QED BY <2>1, <2>2, <2>3, <2>4, <2>5, OneHand DEF Life!Close, Life!Has, Life!Lets
<1>9. ASSUME NEW d \in Callers, NEW c \in Children,
             Life!Start(d, c) \/ Life!Ready(d, c) \/ Life!Answer(d, c) \/ Life!Fail(d, c)
      PROVE  Life!Next
  BY ONLY <1>9 DEF Life!Next
<1> HIDE DEF Actors
<1>10. Callers \subseteq Actors /\ Drainers \subseteq Actors
  BY DEF Actors
<1>11. ASSUME NEW d \in Callers, NEW c \in Children, SpawnChild(d, c)
       PROVE  Life!Next
  BY <1>1, <1>9, <1>11
<1>12. ASSUME NEW d \in Callers,
              \/ InitOk(d) \/ InitFails(d) \/ CloseEvicted(d)
              \/ CallReturns(d) \/ CallFails(d)
       PROVE  Life!Next
  <2>1. CASE InitOk(d)
    BY <1>3, <1>9, <2>1
  <2>2. CASE InitFails(d) \/ CloseEvicted(d)
    <3>1. held[d] \in Children /\ Life!Close(d, held[d])
      BY <1>4, <2>2
    <3>2. d \in Actors
      BY <1>10
    <3> QED BY ONLY <3>1, <3>2 DEF Life!Next, Life!Actors, Actors, Life!Close, Life!Has, Life!Lets
  <2>3. CASE CallReturns(d)
    BY <1>5, <1>9, <2>3
  <2>4. CASE CallFails(d)
    BY <1>6, <1>9, <2>4
  <2> QED BY <1>12, <2>1, <2>2, <2>3, <2>4
<1>13. ASSUME NEW x \in Drainers, CloseVictim(x)
       PROVE  Life!Next
  <2>1. held[x] \in Children /\ Life!Close(x, held[x])
    BY <1>8, <1>13
  <2>2. x \in Actors
    BY <1>10
  <2> QED BY ONLY <2>1, <2>2 DEF Life!Next, Life!Actors, Actors, Life!Close, Life!Has, Life!Lets
<1> QED BY <1>2, <1>7, <1>11, <1>12, <1>13, Zenon

\* The pool implements ChildLife for any number of callers and children: no
\* eviction, sweep, retry or Close ever takes a child that is being called, lets
\* two goroutines have the same one, or closes one twice.
THEOREM PoolIsChildLife == Spec => ChildrenAreOwned
<1>1. Init => Life!Init
  BY PoolAssumption DEF Init, Life!Init, Life!Actors, Actors, InHand, HandUse
<1>2. IInv /\ [Next]_vars => [Life!Next]_(Life!vars)
  BY NextCases, QuietSteps, HandSteps
<1> QED BY <1>1, <1>2, Invariance, PTL DEF Spec, ChildrenAreOwned, Life!Spec

-----------------------------------------------------------------------------
(* The clock of a sweep. *)

\* No sweep has read a clock that is ahead.
SweepClock == sweepNow <= now

LEMMA SweepClockNext == TypeOK /\ SweepClock /\ [Next]_vars => SweepClock'
<1> SUFFICES ASSUME TypeOK, SweepClock, [Next]_vars
             PROVE  SweepClock'
  OBVIOUS
<1>1. now \in Nat /\ sweepNow \in Nat /\ sweepNow <= now
  BY DEF TypeOK, SweepClock
<1>2. CASE JanitorTick
  BY <1>1, <1>2 DEF JanitorTick, SweepClock
<1>3. CASE Tick
  BY <1>1, <1>3 DEF Tick, drainVars, SweepClock
<1>4. CASE now' = now /\ sweepNow' = sweepNow
  BY <1>1, <1>4 DEF SweepClock
<1>5. JanitorTick \/ Tick \/ (now' = now /\ sweepNow' = sweepNow)
  BY NextCases DEF vars, drainVars, Dispatch, CheckoutClosed, CheckoutWarm, CheckoutMissing,
     CheckoutFresh, AcquireLive, RetryDead, GiveUp, SpawnChild, SpawnFails, InitOk, InitFails,
     CallReturns, CallFails, MarkUsed, Evict, CloseEvicted, Return, PickVictim, TakeClient,
     CloseVictim, SweepMark, SweepDone, JanitorExit, CloseBegin, CloseJoin, CloseDone, Crash
<1> QED BY <1>2, <1>3, <1>4, <1>5

\* A sweep that goes by an old clock still evicts only entries that are idle
\* when it takes mu.
THEOREM SweepsOnlyIdle == Spec => SweptWhenIdle
<1>1. Init => SweepClock
  BY DEF Init, SweepClock
<1>2. TypeOK /\ SweepClock /\ [Next]_vars =>
        [\A e \in Entries : e \in drain'["janitor"] \ drain["janitor"] =>
           now >= lastUsed[e] + IdleTimeout]_vars
  <2> SUFFICES ASSUME TypeOK, SweepClock, [Next]_vars, NEW e \in Entries,
                      e \in drain'["janitor"] \ drain["janitor"]
               PROVE  now >= lastUsed[e] + IdleTimeout
    OBVIOUS
  <2>1. SweepMark
    BY NextCases DEF vars, drainVars, Dispatch, CheckoutClosed, CheckoutWarm, CheckoutMissing,
       CheckoutFresh, AcquireLive, RetryDead, GiveUp, SpawnChild, SpawnFails, InitOk, InitFails,
       CallReturns, CallFails, MarkUsed, Evict, CloseEvicted, Return, PickVictim, TakeClient,
       CloseVictim, JanitorTick, SweepDone, JanitorExit, CloseBegin, CloseJoin, CloseDone, Tick,
       Crash, TypeOK, Drainers
  <2>2. sweepNow >= lastUsed[e] + IdleTimeout
    BY <2>1 DEF SweepMark, Idle, TypeOK, Drainers
  <2>3. /\ now \in Nat /\ sweepNow \in Nat /\ lastUsed[e] \in Nat /\ IdleTimeout \in Nat
        /\ sweepNow <= now
    BY PoolAssumption DEF TypeOK, SweepClock
  <2> QED BY <2>2, <2>3
<1> QED BY <1>1, <1>2, SweepClockNext, TypeCorrect, PTL DEF Spec, SweptWhenIdle
=============================================================================
