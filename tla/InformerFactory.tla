-------------------------- MODULE InformerFactory --------------------------
(***************************************************************************)
(* The shared informer factory of pkg/generated/informers: informers are   *)
(* created on demand, one for each type, and shared; Start runs those that *)
(* do not run yet in goroutines of their own; WaitForCacheSync waits for   *)
(* their first list; Shutdown lets no more of them start and waits until   *)
(* the goroutines have ended.  RunOperator is one client of a factory; the *)
(* interface promises to serve any number of concurrent ones.              *)
(*                                                                         *)
(* What the code does under the factory's lock is one step.  A client is a *)
(* goroutine that makes one call at a time.  Left out: resync periods,     *)
(* transforms, namespaces and list options, which configure an informer    *)
(* but do not change when it is created, started or stopped.               *)
(***************************************************************************)
EXTENDS Naturals

CONSTANTS
    Types,        \* object types informers are made for
    Clients,      \* goroutines that use the factory
    Contexts,     \* contexts, or stop channels, given to Start and Wait
    NoResult      \* WaitForCacheSync has not returned yet

VARIABLES
    informers,    \* f.informers: the number of the informer, 0 if there is none
    started,      \* f.startedInformers
    shuttingDown, \* f.shuttingDown
    released,     \* f.informerName has been released
    threads,      \* the goroutines f.wg counts: [type, informer, ctx, state]
    synced,       \* informers that have closed their synced channel
    cancelled,    \* contexts that are done
    pc,           \* where each client stands
    handed,       \* the informers each client was given
    waitOn,       \* WaitForCacheSync's informers
    waitCtx,      \* WaitForCacheSync's ctx
    result,       \* what its last WaitForCacheSync returned
    drained       \* history: clients whose Shutdown has returned

factory == <<informers, started, shuttingDown, released>>
running == <<threads, synced, cancelled>>
waiting == <<waitOn, waitCtx, result>>
vars == <<factory, running, pc, handed, waiting, drained>>

Live(th) == th.state # "returned"

Thread(t, ctx) ==
    [type |-> t, informer |-> informers[t], ctx |-> ctx, state |-> "launched"]

\* NewSharedInformerFactoryWithOptions, and clients that have not called yet.
Init ==
    /\ informers = [t \in Types |-> 0]
    /\ started = {}
    /\ shuttingDown = FALSE
    /\ released = FALSE
    /\ threads = {}
    /\ synced = {}
    /\ cancelled = {}
    /\ pc = [c \in Clients |-> "idle"]
    /\ handed = [c \in Clients |-> [t \in Types |-> 0]]
    /\ waitOn = [c \in Clients |-> {}]
    /\ waitCtx \in [Clients -> Contexts]
    /\ result = [c \in Clients |-> NoResult]
    /\ drained = {}

-----------------------------------------------------------------------------
(***************************************************************************)
(* Calls of clients.                                                       *)
(***************************************************************************)
\* NewTypedCliManagerInformerWithOptions: an informer nobody has yet.
newInformer(t) == informers[t] + 1

\* Mutant: an informer is made without looking for one.
InformerForNew(c, t) ==
    /\ pc[c] = "idle"
    /\ informers' = [informers EXCEPT ![t] = newInformer(t)]
    /\ handed' = [handed EXCEPT ![c][t] = informers'[t]]
    /\ UNCHANGED <<started, shuttingDown, released, running, pc, waiting, drained>>

InformerFor(c, t) ==
    /\ pc[c] = "idle"
    /\ informers' = IF informers[t] # 0 THEN informers
                    ELSE [informers EXCEPT ![t] = newInformer(t)]
    /\ handed' = [handed EXCEPT ![c][t] = informers'[t]]
    /\ UNCHANGED <<started, shuttingDown, released, running, pc, waiting, drained>>

\* Mutant: the factory does not remember what it has started.
ToStartAll == {t \in Types : informers[t] # 0}

ToStart == {t \in Types : informers[t] # 0 /\ t \notin started}

\* Mutant: Start does not look at shuttingDown.
StartLate(c, ctx) ==
    /\ pc[c] = "idle"
    /\ threads' = threads \cup {Thread(t, ctx) : t \in ToStart}
    /\ started' = started \cup ToStart
    /\ UNCHANGED <<informers, shuttingDown, released, synced, cancelled, pc,
                   handed, waiting, drained>>

\* After Shutdown the call does nothing.
StartWithContext(c, ctx) ==
    /\ pc[c] = "idle"
    /\ ~shuttingDown
    /\ threads' = threads \cup {Thread(t, ctx) : t \in ToStart}
    /\ started' = started \cup ToStart
    /\ UNCHANGED <<informers, shuttingDown, released, synced, cancelled, pc,
                   handed, waiting, drained>>

\* Mutant: Shutdown only waits.
ShutdownOpen(c) ==
    /\ pc[c] = "idle"
    /\ pc' = [pc EXCEPT ![c] = "draining"]
    /\ UNCHANGED <<factory, running, handed, waiting, drained>>

Shutdown(c) ==
    /\ pc[c] = "idle"
    /\ shuttingDown' = TRUE
    /\ pc' = [pc EXCEPT ![c] = "draining"]
    /\ UNCHANGED <<informers, started, released, running, handed, waiting, drained>>

\* f.wg.Wait()
Drained(c) ==
    /\ pc[c] = "draining"
    /\ \A th \in threads : ~Live(th)
    /\ pc' = [pc EXCEPT ![c] = "releasing"]
    /\ UNCHANGED <<factory, running, handed, waiting, drained>>

\* f.informerName.Release(), and Shutdown returns.
Release(c) ==
    /\ pc[c] = "releasing"
    /\ released' = TRUE
    /\ drained' = drained \cup {c}
    /\ pc' = [pc EXCEPT ![c] = "idle"]
    /\ UNCHANGED <<informers, started, shuttingDown, running, handed, waiting>>

\* The informers that have been started by now.
WaitForCacheSync(c, ctx) ==
    /\ pc[c] = "idle"
    /\ waitOn' = [waitOn EXCEPT ![c] = {<<t, informers[t]>> : t \in started}]
    /\ waitCtx' = [waitCtx EXCEPT ![c] = ctx]
    /\ pc' = [pc EXCEPT ![c] = "waiting"]
    /\ UNCHANGED <<factory, running, handed, result, drained>>

\* Mutant: the wait ends with informers that have stopped as well.
WaitForStopped(c) ==
    /\ pc[c] = "waiting"
    /\ \/ \A th \in threads : <<th.type, th.informer>> \in waitOn[c] \ synced => ~Live(th)
       \/ waitCtx[c] \in cancelled
    /\ pc' = [pc EXCEPT ![c] = "collecting"]
    /\ UNCHANGED <<factory, running, handed, waiting, drained>>

\* Mutant: the wait does not end with its context.
WaitForSync(c) ==
    /\ pc[c] = "waiting"
    /\ waitOn[c] \subseteq synced
    /\ pc' = [pc EXCEPT ![c] = "collecting"]
    /\ UNCHANGED <<factory, running, handed, waiting, drained>>

\* cache.WaitFor
WaitFor(c) ==
    /\ pc[c] = "waiting"
    /\ waitOn[c] \subseteq synced \/ waitCtx[c] \in cancelled
    /\ pc' = [pc EXCEPT ![c] = "collecting"]
    /\ UNCHANGED <<factory, running, handed, waiting, drained>>

\* HasSynced is asked again, informer by informer; the answers only ever turn
\* true, so one step stands for all of them.  Err is context.Cause(ctx).
SyncResult(c) ==
    [Synced  |-> waitOn[c] \cap synced,
     Missing |-> waitOn[c] \ synced,
     Err     |-> waitOn[c] \ synced # {} /\ waitCtx[c] \in cancelled]

Collect(c) ==
    /\ pc[c] = "collecting"
    /\ result' = [result EXCEPT ![c] = SyncResult(c)]
    /\ pc' = [pc EXCEPT ![c] = "idle"]
    /\ UNCHANGED <<factory, running, handed, waitOn, waitCtx, drained>>

-----------------------------------------------------------------------------
(***************************************************************************)
(* The goroutines, and whoever cancels contexts.                           *)
(***************************************************************************)
Becomes(th, state) ==
    threads' = (threads \ {th}) \cup {[th EXCEPT !.state = state]}

\* Mutant: a goroutine whose context is done before it runs is not waited for.
RunIfWanted(th) ==
    /\ th.state = "launched"
    /\ th.ctx \notin cancelled
    /\ Becomes(th, "running")
    /\ UNCHANGED <<factory, synced, cancelled, pc, handed, waiting, drained>>

\* The goroutine gets to informer.RunWithContext(ctx).
Run(th) ==
    /\ th.state = "launched"
    /\ Becomes(th, "running")
    /\ UNCHANGED <<factory, synced, cancelled, pc, handed, waiting, drained>>

\* The first list is in the store; the informer may notice so before or after
\* it notices that its context is done.
Sync(th) ==
    /\ th.state = "running"
    /\ <<th.type, th.informer>> \notin synced
    /\ synced' = synced \cup {<<th.type, th.informer>>}
    /\ UNCHANGED <<factory, threads, cancelled, pc, handed, waiting, drained>>

\* RunWithContext returns, and with it the goroutine.
Stop(th) ==
    /\ th.state = "running"
    /\ th.ctx \in cancelled
    /\ Becomes(th, "returned")
    /\ UNCHANGED <<factory, synced, cancelled, pc, handed, waiting, drained>>

Cancel(ctx) ==
    /\ ctx \notin cancelled
    /\ cancelled' = cancelled \cup {ctx}
    /\ UNCHANGED <<factory, threads, synced, pc, handed, waiting, drained>>

-----------------------------------------------------------------------------
Client(c) ==
    \/ \E t \in Types : InformerFor(c, t)
    \/ \E ctx \in Contexts : StartWithContext(c, ctx) \/ WaitForCacheSync(c, ctx)
    \/ Shutdown(c)
    \/ Drained(c)
    \/ Release(c)
    \/ WaitFor(c)
    \/ Collect(c)

Goroutine(t) == \E th \in threads : th.type = t /\ (Run(th) \/ Stop(th))

List(t) == \E th \in threads : th.type = t /\ Sync(th)

Next ==
    \/ \E c \in Clients : Client(c)
    \/ \E t \in Types : Goroutine(t) \/ List(t)
    \/ \E ctx \in Contexts : Cancel(ctx)

Spec == Init /\ [][Next]_vars

(***************************************************************************)
(* Goroutines run, an informer that is not stopped gets its first list,    *)
(* and a call that can return does.  Nobody has to call anything or to     *)
(* cancel a context.                                                       *)
(***************************************************************************)
FairSpec ==
    /\ Spec
    /\ \A t \in Types : WF_vars(Goroutine(t)) /\ WF_vars(List(t))
    /\ \A c \in Clients : WF_vars(Drained(c) \/ Release(c) \/ WaitFor(c) \/ Collect(c))

-----------------------------------------------------------------------------
Threads ==
    [type : Types, informer : Nat, ctx : Contexts,
     state : {"launched", "running", "returned"}]

Results ==
    [Synced : SUBSET (Types \X Nat), Missing : SUBSET (Types \X Nat), Err : BOOLEAN]

\* Every variable has its type.
TypeOK ==
    /\ informers \in [Types -> Nat]
    /\ started \in SUBSET Types
    /\ shuttingDown \in BOOLEAN
    /\ released \in BOOLEAN
    /\ threads \in SUBSET Threads
    /\ synced \in SUBSET (Types \X Nat)
    /\ cancelled \in SUBSET Contexts
    /\ pc \in [Clients -> {"idle", "draining", "releasing", "waiting", "collecting"}]
    /\ handed \in [Clients -> [Types -> Nat]]
    /\ waitOn \in [Clients -> SUBSET (Types \X Nat)]
    /\ waitCtx \in [Clients -> Contexts]
    /\ result \in [Clients -> Results \cup {NoResult}]
    /\ drained \in SUBSET Clients

\* Informers are shared: whatever the order of requests and starts, clients
\* that asked for the same type have the same informer, and the goroutine that
\* runs for the type runs that one, so nobody registers handlers with an
\* informer that never lists.
Shared ==
    /\ \A c, d \in Clients, t \in Types :
          handed[c][t] # 0 /\ handed[d][t] # 0 => handed[c][t] = handed[d][t]
    /\ \A c \in Clients : \A th \in threads :
          handed[c][th.type] # 0 => handed[c][th.type] = th.informer

\* "This allows Start() to be called multiple times safely": however many
\* clients call Start with whatever contexts, no informer is run twice.
RunOnce ==
    \A a, b \in threads : a.type = b.type => a = b

\* A Shutdown that has returned, or that has found nothing to wait for, leaves
\* no goroutine behind and none comes after it, whatever Start races with it;
\* the informers' name is not given free while one of them still uses it.
NothingAfterShutdown ==
    drained # {} \/ released \/ (\E c \in Clients : pc[c] = "releasing") =>
        \A th \in threads : ~Live(th)

\* "This must be non-nil, otherwise WaitFor wouldn't have stopped prematurely":
\* a result with an informer that has not synced has an error, and an informer
\* reported as synced is.
SyncResultSound ==
    \A c \in Clients : result[c] # NoResult =>
        /\ result[c].Missing # {} => result[c].Err
        /\ result[c].Synced \subseteq synced

\* Clients have no informer but the one in the factory.
HandedInv ==
    \A c \in Clients, t \in Types : handed[c][t] \in {0, informers[t]}

\* Goroutines belong to started types and run the informer in the factory.
ThreadInv ==
    /\ \A t \in started : informers[t] # 0
    /\ \A th \in threads :
          /\ th.type \in started
          /\ th.informer = informers[th.type]

\* Who drains has closed the factory.
ClosedInv ==
    /\ \A c \in Clients : pc[c] \in {"draining", "releasing"} => shuttingDown
    /\ drained # {} \/ released => shuttingDown

\* Who collects has waited long enough.
CollectInv ==
    \A c \in Clients : pc[c] = "collecting" =>
        waitOn[c] \subseteq synced \/ waitCtx[c] \in cancelled

\* The inductive invariant behind all of them: what the factory's lock and its
\* wait group keep together, whatever calls overlap.
FactoryInv ==
    /\ TypeOK
    /\ HandedInv
    /\ ThreadInv
    /\ ClosedInv
    /\ CollectInv
    /\ RunOnce
    /\ NothingAfterShutdown
    /\ SyncResultSound

\* Shutdown "blocks until all goroutines have terminated" and no longer: it
\* returns if the contexts the informers were started with are cancelled,
\* before the call or while it waits.
ShutdownReturns ==
    \A c \in Clients :
        pc[c] = "draining" /\ (\A th \in threads : th.ctx \in cancelled)
            ~> c \in drained /\ pc[c] = "idle"

\* WaitForCacheSync returns when its context is cancelled or everything has
\* synced; only an informer stopped before its first list keeps a caller with
\* another context waiting.
WaitReturns ==
    \A c \in Clients :
        pc[c] = "waiting" ~>
            \/ pc[c] # "waiting"
            \/ /\ waitCtx[c] \notin cancelled
               /\ \E th \in threads :
                     /\ th.ctx \in cancelled
                     /\ <<th.type, th.informer>> \in waitOn[c] \ synced
=============================================================================
