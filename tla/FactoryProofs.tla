--------------------------- MODULE FactoryProofs ---------------------------
(***************************************************************************)
(* The informer factory shares informers, runs each at most once, leaves   *)
(* nothing running after Shutdown and reports caches truthfully, for any   *)
(* number of types, clients and contexts.                                  *)
(***************************************************************************)
EXTENDS InformerFactory, TLAPS

\* FactoryInv holds of a new factory.
LEMMA FactoryInvInit == Init => FactoryInv
  <1> SUFFICES ASSUME Init PROVE FactoryInv
    OBVIOUS
  <1> USE DEF Init
  <1>1. TypeOK
    BY DEF TypeOK
  <1>2. HandedInv /\ ThreadInv /\ ClosedInv /\ CollectInv
    BY DEF HandedInv, ThreadInv, ClosedInv, CollectInv
  <1>3. RunOnce /\ NothingAfterShutdown /\ SyncResultSound
    BY DEF RunOnce, NothingAfterShutdown, SyncResultSound
  <1> QED BY <1>1, <1>2, <1>3 DEF FactoryInv

\* Handing out an informer, a new one or the one there is, disturbs nobody.
LEMMA InformerForStep ==
    ASSUME FactoryInv, NEW c \in Clients, NEW t \in Types, InformerFor(c, t)
    PROVE  FactoryInv'
  <1> USE DEF FactoryInv, InformerFor, newInformer, running, waiting
  <1>1. TypeOK'
    BY DEF TypeOK
  <1>2. HandedInv'
    BY DEF TypeOK, HandedInv
  <1>3. ThreadInv'
    BY DEF TypeOK, ThreadInv
  <1>4. ClosedInv' /\ CollectInv'
    BY DEF ClosedInv, CollectInv
  <1>5. RunOnce' /\ NothingAfterShutdown' /\ SyncResultSound'
    BY DEF RunOnce, NothingAfterShutdown, SyncResultSound
  <1> QED BY <1>1, <1>2, <1>3, <1>4, <1>5

\* Start: the goroutines it makes are for types that had none, and the factory
\* has not been closed.
LEMMA StartStep ==
    ASSUME FactoryInv, NEW c \in Clients, NEW ctx \in Contexts,
           StartWithContext(c, ctx)
    PROVE  FactoryInv'
  <1> USE DEF FactoryInv, StartWithContext, waiting
  <1>0. \A t \in ToStart : Thread(t, ctx).type = t /\ Thread(t, ctx).informer = informers[t]
    BY DEF Thread
  <1>1. TypeOK'
    <2>1. threads' \in SUBSET Threads
      BY DEF TypeOK, Threads, Thread, ToStart
    <2> QED BY <2>1 DEF TypeOK, ToStart
  <1>2. HandedInv'
    BY DEF HandedInv
  <1>3. ThreadInv'
    BY <1>0 DEF ThreadInv, ToStart
  <1>4. ClosedInv' /\ CollectInv'
    BY DEF ClosedInv, CollectInv
  <1>5. RunOnce'
    <2> SUFFICES ASSUME NEW a \in threads', NEW b \in threads', a.type = b.type
                 PROVE  a = b
      BY DEF RunOnce
    <2>1. CASE a \in threads /\ b \in threads
      BY <2>1 DEF RunOnce
    <2>2. CASE a \in threads /\ b \notin threads
      BY <2>2, <1>0 DEF ThreadInv, ToStart
    <2>3. CASE a \notin threads /\ b \in threads
      BY <2>3, <1>0 DEF ThreadInv, ToStart
    <2>4. CASE a \notin threads /\ b \notin threads
      BY <2>4, <1>0
    <2> QED BY <2>1, <2>2, <2>3, <2>4
  <1>6. NothingAfterShutdown'
    BY DEF ClosedInv, NothingAfterShutdown
  <1>7. SyncResultSound'
    BY DEF SyncResultSound
  <1> QED BY <1>1, <1>2, <1>3, <1>4, <1>5, <1>6, <1>7

\* Shutdown, up to and including its return.
LEMMA ShutdownStep ==
    ASSUME FactoryInv, NEW c \in Clients,
           Shutdown(c) \/ Drained(c) \/ Release(c)
    PROVE  FactoryInv'
  <1> USE DEF FactoryInv, Shutdown, Drained, Release, factory, running, waiting
  <1>1. TypeOK'
    BY DEF TypeOK
  <1>2. HandedInv' /\ ThreadInv'
    BY DEF HandedInv, ThreadInv
  <1>3. ClosedInv'
    BY DEF TypeOK, ClosedInv
  <1>4. CollectInv'
    BY DEF TypeOK, CollectInv
  <1>5. RunOnce' /\ SyncResultSound'
    BY DEF RunOnce, SyncResultSound
  <1>6. NothingAfterShutdown'
    BY DEF TypeOK, NothingAfterShutdown
  <1> QED BY <1>1, <1>2, <1>3, <1>4, <1>5, <1>6

\* WaitForCacheSync notes the informers and waits for them.
LEMMA WaitStep ==
    ASSUME FactoryInv, NEW c \in Clients, NEW ctx \in Contexts,
           WaitForCacheSync(c, ctx) \/ WaitFor(c)
    PROVE  FactoryInv'
  <1> USE DEF FactoryInv, WaitForCacheSync, WaitFor, factory, running, waiting
  <1>1. TypeOK'
    <2>1. {<<t, informers[t]>> : t \in started} \in SUBSET (Types \X Nat)
      BY DEF TypeOK
    <2> QED BY <2>1 DEF TypeOK
  <1>2. HandedInv' /\ ThreadInv'
    BY DEF HandedInv, ThreadInv
  <1>3. ClosedInv'
    BY DEF TypeOK, ClosedInv
  <1>4. CollectInv'
    BY DEF TypeOK, CollectInv
  <1>5. RunOnce' /\ SyncResultSound'
    BY DEF RunOnce, SyncResultSound
  <1>6. NothingAfterShutdown'
    BY DEF TypeOK, NothingAfterShutdown
  <1> QED BY <1>1, <1>2, <1>3, <1>4, <1>5, <1>6

\* The result says of every informer whether it has synced.
LEMMA SyncResultFields ==
    ASSUME NEW c \in Clients
    PROVE  /\ SyncResult(c).Synced = waitOn[c] \cap synced
           /\ SyncResult(c).Missing = waitOn[c] \ synced
           /\ SyncResult(c).Err = (waitOn[c] \ synced # {} /\ waitCtx[c] \in cancelled)
  BY DEF SyncResult

\* WaitForCacheSync returns.
LEMMA CollectStep ==
    ASSUME FactoryInv, NEW c \in Clients, Collect(c)
    PROVE  FactoryInv'
  <1> USE DEF FactoryInv, Collect, factory, running, waiting
  <1>1. TypeOK'
    <2>1. SyncResult(c) \in Results
      BY DEF TypeOK, SyncResult, Results
    <2> QED BY <2>1 DEF TypeOK
  <1>2. HandedInv' /\ ThreadInv'
    BY DEF HandedInv, ThreadInv
  <1>3. ClosedInv'
    BY DEF TypeOK, ClosedInv
  <1>4. CollectInv'
    BY DEF TypeOK, CollectInv
  <1>5. RunOnce'
    BY DEF RunOnce
  <1>6. NothingAfterShutdown'
    BY DEF TypeOK, NothingAfterShutdown
  <1>7. SyncResultSound'
    <2> SUFFICES ASSUME NEW d \in Clients, result'[d] # NoResult
                 PROVE  /\ result'[d].Missing # {} => result'[d].Err
                        /\ result'[d].Synced \subseteq synced
      BY DEF SyncResultSound
    <2>1. CASE d = c
      <3>1. result'[d] = SyncResult(c)
        BY <2>1 DEF TypeOK
      <3>2. waitOn[c] \subseteq synced \/ waitCtx[c] \in cancelled
        BY DEF CollectInv
      <3>3. SyncResult(c).Missing # {} => SyncResult(c).Err
        BY <3>2, SyncResultFields
      <3>4. SyncResult(c).Synced \subseteq synced
        BY SyncResultFields
      <3> QED BY <3>1, <3>3, <3>4
    <2>2. CASE d # c
      BY <2>2 DEF TypeOK, SyncResultSound
    <2> QED BY <2>1, <2>2
  <1> QED BY <1>1, <1>2, <1>3, <1>4, <1>5, <1>6, <1>7

\* What Becomes does to the set of goroutines: one of them changes its state.
LEMMA BecomesType ==
    ASSUME threads \in SUBSET Threads, NEW th \in threads,
           NEW state \in {"launched", "running", "returned"}, Becomes(th, state)
    PROVE  /\ threads' \in SUBSET Threads
           /\ \A a \in threads' :
                 a \in threads \ {th} \/
                 (a = [th EXCEPT !.state = state] /\ a.type = th.type
                    /\ a.informer = th.informer /\ a.ctx = th.ctx /\ a.state = state)
  BY DEF Becomes, Threads

\* A goroutine starts to run or returns.
LEMMA GoroutineStep ==
    ASSUME FactoryInv, NEW th \in threads, Run(th) \/ Stop(th)
    PROVE  FactoryInv'
  <1> USE DEF FactoryInv, Run, Stop, factory, waiting
  <1>0. PICK state \in {"running", "returned"} :
            Becomes(th, state) /\ (state = "running" => Live(th))
    BY DEF Live
  <1>a. /\ threads' \in SUBSET Threads
        /\ \A a \in threads' :
              a \in threads \ {th} \/
              (a = [th EXCEPT !.state = state] /\ a.type = th.type
                 /\ a.informer = th.informer /\ a.state = state)
    BY <1>0, BecomesType DEF TypeOK
  <1>1. TypeOK'
    BY <1>a DEF TypeOK
  <1>2. HandedInv' /\ ClosedInv' /\ CollectInv' /\ SyncResultSound'
    BY DEF HandedInv, ClosedInv, CollectInv, SyncResultSound
  <1>3. ThreadInv'
    BY <1>a DEF ThreadInv
  <1>4. RunOnce'
    BY <1>a DEF RunOnce
  <1>5. NothingAfterShutdown'
    BY <1>0, <1>a DEF NothingAfterShutdown, Live
  <1> QED BY <1>1, <1>2, <1>3, <1>4, <1>5

\* An informer gets its first list.
LEMMA SyncStep ==
    ASSUME FactoryInv, NEW th \in threads, Sync(th)
    PROVE  FactoryInv'
  <1> USE DEF FactoryInv, Sync, factory, waiting
  <1>1. TypeOK'
    BY DEF TypeOK, Threads
  <1>2. HandedInv' /\ ThreadInv' /\ ClosedInv'
    BY DEF HandedInv, ThreadInv, ClosedInv
  <1>3. CollectInv'
    BY DEF CollectInv
  <1>4. RunOnce' /\ NothingAfterShutdown'
    BY DEF RunOnce, NothingAfterShutdown
  <1>5. SyncResultSound'
    BY DEF SyncResultSound
  <1> QED BY <1>1, <1>2, <1>3, <1>4, <1>5

\* A context is cancelled.
LEMMA CancelStep ==
    ASSUME FactoryInv, NEW ctx \in Contexts, Cancel(ctx)
    PROVE  FactoryInv'
  <1> USE DEF FactoryInv, Cancel, factory, waiting
  <1>1. TypeOK'
    BY DEF TypeOK
  <1>2. HandedInv' /\ ThreadInv' /\ ClosedInv'
    BY DEF HandedInv, ThreadInv, ClosedInv
  <1>3. CollectInv'
    BY DEF CollectInv
  <1>4. RunOnce' /\ NothingAfterShutdown' /\ SyncResultSound'
    BY DEF RunOnce, NothingAfterShutdown, SyncResultSound
  <1> QED BY <1>1, <1>2, <1>3, <1>4

\* Every step preserves FactoryInv.
LEMMA FactoryInvStep == FactoryInv /\ [Next]_vars => FactoryInv'
  <1> SUFFICES ASSUME FactoryInv, [Next]_vars PROVE FactoryInv'
    OBVIOUS
  <1>1. ASSUME NEW c \in Clients, Client(c) PROVE FactoryInv'
    <2>1. ASSUME NEW t \in Types, InformerFor(c, t) PROVE FactoryInv'
      BY <2>1, InformerForStep
    <2>2. ASSUME NEW ctx \in Contexts, StartWithContext(c, ctx) PROVE FactoryInv'
      BY <2>2, StartStep
    <2>3. ASSUME NEW ctx \in Contexts, WaitForCacheSync(c, ctx) PROVE FactoryInv'
      BY <2>3, WaitStep
    <2>4. CASE Shutdown(c) \/ Drained(c) \/ Release(c)
      BY <2>4, ShutdownStep
    <2>5. CASE WaitFor(c)
      <3>1. waitCtx[c] \in Contexts
        BY DEF FactoryInv, TypeOK
      <3> QED BY <2>5, <3>1, WaitStep
    <2>6. CASE Collect(c)
      BY <2>6, CollectStep
    <2> QED BY <1>1, <2>1, <2>2, <2>3, <2>4, <2>5, <2>6 DEF Client
  <1>2. ASSUME NEW t \in Types, Goroutine(t) \/ List(t) PROVE FactoryInv'
    BY <1>2, GoroutineStep, SyncStep DEF Goroutine, List
  <1>3. ASSUME NEW ctx \in Contexts, Cancel(ctx) PROVE FactoryInv'
    BY <1>3, CancelStep
  <1>4. CASE UNCHANGED vars
    <2> USE <1>4 DEF vars, factory, running, waiting, FactoryInv
    <2>1. TypeOK'
      BY DEF TypeOK
    <2>2. HandedInv' /\ ThreadInv' /\ ClosedInv' /\ CollectInv'
      BY DEF HandedInv, ThreadInv, ClosedInv, CollectInv
    <2>3. RunOnce' /\ NothingAfterShutdown' /\ SyncResultSound'
      BY DEF RunOnce, NothingAfterShutdown, SyncResultSound
    <2> QED BY <2>1, <2>2, <2>3
  <1> QED BY <1>1, <1>2, <1>3, <1>4 DEF Next

\* What the factory's lock and its wait group keep together, whatever calls of
\* InformerFor, Start, WaitForCacheSync and Shutdown overlap.
THEOREM FactorySafe == Spec => []FactoryInv
  BY FactoryInvInit, FactoryInvStep, PTL DEF Spec

\* Clients that ask for a type share the one informer that is ever run for it.
THEOREM InformersShared == Spec => []Shared
  <1>1. FactoryInv => Shared
    BY DEF FactoryInv, HandedInv, ThreadInv, Shared, TypeOK, Threads
  <1> QED BY <1>1, FactorySafe, PTL

\* However often Start is called, no informer is run twice.
THEOREM InformersRunOnce == Spec => []RunOnce
  <1>1. FactoryInv => RunOnce
    BY DEF FactoryInv
  <1> QED BY <1>1, FactorySafe, PTL

\* After Shutdown no goroutine of the factory is left and none is started.
THEOREM ShutdownFinal == Spec => []NothingAfterShutdown
  <1>1. FactoryInv => NothingAfterShutdown
    BY DEF FactoryInv
  <1> QED BY <1>1, FactorySafe, PTL

\* WaitForCacheSync reports an informer as synced only if it is, and one that
\* is not only with an error.
THEOREM CacheSyncTruthful == Spec => []SyncResultSound
  <1>1. FactoryInv => SyncResultSound
    BY DEF FactoryInv
  <1> QED BY <1>1, FactorySafe, PTL
=============================================================================
