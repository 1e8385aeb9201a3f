# cli-manager-operator in TLA+

A model of the CLI manager operator, checked with TLC on small instances and,
for its main safety properties, proved with TLAPS for every instance.

## The system

The operator is one process with one controller of its own. A user creates a
`CliManager` resource named `cluster`; the controller makes eleven operand
objects match it and records the generation of the operand Deployment in the
resource's status. A second controller, of library-go, sets the verbosity of the
operator's own log. The repository also contains the client through which
library-go's controllers read and write the `CliManager`, and a generated
informer factory.

| Component | State it keeps | Operations | Interacts with |
|---|---|---|---|
| Target config reconciler (`pkg/operator/target_config_reconciler.go`) | its configuration (operand image, insecure HTTP, bindata), the locals of a running `sync` | `processNextWorkItem`, `sync`, eleven `manage...` functions, `applyRoute` | API server by live GET, POST and PUT; the work queue; `CLIManagerClient` |
| Apply functions (library-go `resourceapply`, `resourcemerge`) | none | GET, merge metadata, compare, POST or PUT | API server |
| Work queue (client-go) | list, dirty set, processing set, delayed entries; one key | `Add`, `Get`, `Done`, `AddRateLimited`, `Forget` | filled by event handlers and retries, drained by one worker |
| Informers | caches of `CliManager` and of `NetworkPolicy` | list, watch, resync | every event calls `Add` |
| `CLIManagerClient` (`operatorclient/interfaces.go`) | none | `GetOperatorState`, `UpdateOperatorStatus`, the spec and apply variants; `PatchOperatorStatus`, which always fails | API server |
| `v1helpers.UpdateStatus` | the attempt's copy of the status | read, modify, compare, write, retry on conflict | `CLIManagerClient` |
| Process start (`starter.go`, `pkg/cmd`) | flags, environment, the lease | `RunOperator`, loss of the lease | starts informers and both controllers |
| Log level controller (library-go `loglevel`) | klog's verbosity, a work queue with one key | `sync` | reads the `CliManager` through `CLIManagerClient` |
| Informer factory (`pkg/generated/informers`) | informers by type, started informers, `shuttingDown`, a wait group | `InformerFor`, `Start`, `WaitForCacheSync`, `Shutdown` | goroutines that run informers; clients share it |
| Apply configurations (`pkg/generated/applyconfiguration`) | none | `ExtractCliManagerFrom` | used by `ApplyOperatorSpec`, `ApplyOperatorStatus` |
| API server, garbage collector, users, other controllers (external) | all stored objects | writes between any two calls of the operator | informers |

What is hard here is that nothing but single API calls is atomic. A sync makes
between 13 and 25 of them. Between any two, users and controllers change or
delete the same objects, the `CliManager` may be edited, deleted or recreated,
a call may fail with or without effect, the process may stop. What makes the
components correct:

* reconciler: when it rests, the cluster is as the live `CliManager` requires;
  after the last disturbance it gets there; it stops writing;
* Apply functions: no lost update of what others wrote, no drift overlooked
  that they set out to find, no write where none is needed;
* work queue and informers: no event is merged into a sync that started before it;
* status update: the recorded generation is that of the Deployment that sync
  applied; bounded retries;
* client: each call, although made of two or three API calls, acts on the
  resource in one step, whoever else writes it; repeating an apply is quiet;
* two processes after a lost lease: the one that took over prevails, and
  neither loses what others wrote;
* informer factory: one informer and one goroutine for each type, nothing left
  running after `Shutdown`, truthful sync results, calls that return;
* log level controller: the level in effect is the one asked for;
* owner references: what the operator made goes away with its `CliManager`.

## Modules

| Module | What it is |
|---|---|
| `KubeAPI` | the API server as operators: what POST and PUT store, the optimistic lock (external) |
| `TargetConfigReconciler` | the controller and everything around it: specification, properties, inductive invariant |
| `Handover` | composes two of them: a process that lost its lease and still works, and the process that took over |
| `OperatorResource` | the `CliManager` as the server keeps it for writers of different kinds: fields, field managers, apply (external) |
| `AtomicClient` | abstract: what callers of `v1helpers.OperatorClient` may rely on |
| `CliManagerClient` | `CLIManagerClient` and the retry loops around it, call by call; implements `AtomicClient` |
| `InformerFactory` | the generated shared informer factory and its goroutines |
| `LogLevelController` | the log level controller and its queue |
| `MCReconciler`, `MCHandover`, `MCClient`, `MCLogLevel` | instances for TLC |
| `ReconcilerProofs` | theorems about the reconciler and the lemmas the next three build on |
| `WritesProofs`, `DriftProofs`, `HandoverProofs` | the reconciler's own writes, drift by generation, two overlapping processes |
| `ClientProofs`, `FactoryProofs`, `LogLevelProofs` | theorems about the other components |

### How `TargetConfigReconciler` corresponds to the code

*State.* `cr` and `obj` are the stored `CliManager` and operands. `uids` counts
incarnations of each name. `pc`, `step`, `snap`, `seen`, `dep`, `got`, `tries`
are the worker: where `processNextWorkItem` stands, which operand's turn it is,
`cliManager`, the Apply function's `existing`, `deployment`, and the attempt of
`UpdateStatus`. `queued`, `dirty`, `processing`, `delayed` are the queue's sets
for the single key `workQueueKey`. `pending` holds the informers with an event
that their handler has not had yet. `touched` is a history variable: operands
others changed since `sync` read the `CliManager`.

*Content.* An operand's content is what an operator last wanted it to be
(`intent`: manifests of which release, image, verbosity, HTTP) plus the groups
of fields changed since (`drift`). Three groups are told apart because the
Apply functions treat them differently: fields that are compared with the
required object; fields nothing compares (the spec of a Deployment, the ports
of a Service, everything but the metadata of a ServiceAccount), drift in which
only the generation or the spec hash can reveal; and the `roleRef` of a
binding, which the server refuses to change.

*Steps.* One action for each answer of an API call; what the code computes
between two calls belongs to the first of them.

| Code | Actions |
|---|---|
| `queue.Get`, `queue.Done` | `Get`, `Done` |
| `sync`: GET of the `CliManager` | `GetCliManager`, `GetCliManagerNotFound` |
| an Apply function: GET, merge, compare | `GetUpToDate`, `GetToWrite` |
| its POST or PUT | `CreateObject`, `UpdateObject`, `WriteRefused` |
| `UpdateStatus`: GET, modify, compare | `GetStatusUnchanged`, `GetStatusToWrite` |
| its PUT | `UpdateStatus`, `UpdateStatusRetry`, `UpdateStatusFails` |
| error return, `AddRateLimited` | `Fail` in each failing action; `Backoff` ends the delay |
| event handlers, list, resync | `Deliver`, `RunOperator`, `Resync` |
| failed call, lost answer, process end | `CallFails`, `ReplyLost`, `Crash` |
| everyone else | `CreateCR`, `EditCR`, `DeleteCR`, `EditObject`, `AnnotateObject`, `StripObject`, `DeleteObject`, `UsurpObject`, `CollectGarbage` |

`UpdateOperatorStatus` reads the `CliManager` a second time and then writes
under the resourceVersion of the first read. The second read can only add a
NotFound, which the write would meet as well, so both calls are one action.
A conflict is decided on uid and version; real resourceVersions are unique over
the cluster, the model's start at 1 in every incarnation.

*Route.* The stored Route has a host that the required one has not, so
`applyRoute` finds a difference every time and its PUT changes nothing.
`SkipsWrite` says so, and `Stored` leaves an object alone that a PUT does not
change.

### `Handover`

`controllercmd` runs `RunOperator` under leader election. When a renewal fails,
`LeaderElector.renew` releases the lease and only then does `OnStoppedLeading`
end the process (library-go's `leaderelection.go`, `os.Exit(0)`); meanwhile, or
after the lease expired, another process may lead. The workers of the first are
stopped by nothing but that exit: `sync` gets a context but its API calls are
finished or not, as they happen to be, and `runWorker` takes the key again when
it is in the queue. So `LoseLease` moves the locals of the process to variables
of their own, and `Old == INSTANCE TargetConfigReconciler WITH pc <- oldPc, ...`
runs the same `sync` on them, on the same cluster. `OldGet` starts another sync,
after the end of the last or in the middle of it, where an API call failed;
`OldExit` ends the process anywhere. Its queue is not kept: the key may be in it
at any time. The informers of the new process see
what it writes, so to the new one the old one is one of the others (`Observed`).
The two processes may be of two releases.

### `CliManagerClient` and `AtomicClient`

A goroutine makes a request: to set some fields of spec or status (`update`,
through `v1helpers.UpdateSpec` or `UpdateStatus` and their retry loop), to own
exactly these fields with these values (`apply`), or to patch the status
(`patch`). `PatchOperatorStatus` is one step that fails and sends nothing: it
passes the subresource as `"/status"` (`interfaces.go:185`) and client-go's
`Request.SubResource` (`rest/request.go:321-325`) refuses a segment with a slash,
if `jsonPatch.Marshal` has not refused the patch before. For the others there is
one action for each API call: `GetOperatorState`, the second GET inside `UpdateOperatorSpec` and
`UpdateOperatorStatus` (`GetOriginal`), the GET of an apply (`GetToApply`), the
write (`Commit`, with its answer delivered or lost), `Conflict`, `Refused`,
`CallFails`. Here, unlike in `TargetConfigReconciler`, `resourceVersion`s are
those of the cluster's one counter, and the two GETs of an update are two steps:
that an update takes the metadata of the second under the version of the first
is what `Linearizable` is about. Conditions have a `lastTransitionTime`, taken
from the same counter as a clock.

`AtomicClient` has one step per call, `Act`, which reads, modifies and writes the
resource at one instant. The refinement mapping forgets versions, times and
copies: `res` is the stored body, a call is `pending` from its first API call to
the answer of its last. An update or apply that finds nothing to do acts at its
GET, any other at its write. A patch, and a request that is not valid, fails at
once in both.

### `InformerFactory`

State and names are the factory's. A step is what the code does under its lock,
so `Shutdown` is three: closing the factory, the end of `wg.Wait`, releasing the
informers' name; `WaitForCacheSync` is three as well: the list of started
informers, the end of `cache.WaitFor`, the collection of the result. `threads`
are the goroutines that the wait group counts. `pkg/operator` starts one factory
from one goroutine and never shuts it down; the model is of the interface's
promise to any clients.

### `LogLevelController`

The queue is that of the reconciler, with one key. `GetLogLevel` finds klog's
level by probing, and below 2 it reports Normal and "unknown"; both conversions
between levels and verbosities are operators. A restart takes the process's
`-v` flag again.

## Runs

`CHECK_DEADLOCK FALSE` everywhere: with no `CliManager` and no `NetworkPolicy`
there is nothing to list, no event and no key, and the operator rightly waits for
ever; clients of the other modules need not call anything; bounds on edits and
calls also end what others do.

| Run | Instance | Shows |
|---|---|---|
| `full` | 11 operands, 2 configurations, 1 edit, 1 failure | `TypeOK`, `QuiescentReconciled` for each operand of sync, an upgrade between two processes included |
| `races` | 3 operands, 3 edits, 1 failure | `ReconcileInv`, `OwnWritesBounded`, `DriftDetected`, `ForeignMetadataKept` |
| `recreate` | 3 operands, 2 edits of the `CliManager` (delete, create), 1 failure | `QuiescentReconciled`, `OrphansCollected` |
| `live` | 4 operands, 2 edits, 1 failure | `Converges` |
| `generation` | 3 operands, 3 edits, 1 failure | a violation of `DriftDetected` |
| `unmanaged` | 3 operands, 1 edit | a violation of `UnmanagedLeftAlone` |
| `handover` | 2 operands, 2 releases, 1 edit, 1 lost lease (or another failure), 1 sync under the lost lease | `ReconcileInv` of the new process, `MetadataKeptByBoth`, `Converges` |
| `client` | 2 goroutines, 2 field managers, 8 requests, 3 calls, 2 edits, 1 failure | `TypeOK`, `ReadInv`, `RepeatedApplyQuiet` and the refinement `Linearizable` |
| `client_extract` | 2 field managers, 2 conditions | a violation of `ExtractedOwned` |
| `factory` | 2 clients, 1 type, 2 contexts | `Shared`, `RunOnce`, `NothingAfterShutdown`, `SyncResultSound`, `FactoryInv`, `ShutdownReturns`, `WaitReturns` |
| `loglevel_follows` | 4 levels, 3 flags, 4 edits, 2 failures | `LevelFollows`, `LevelSettles` |
| `loglevel_missing` | 4 levels, 4 edits, 2 failures | a violation of `MissingMeansNormal` |

*Bounds.* `MaxEdits` and `MaxFaults` count what others do and what fails; the
operator's own steps are not bounded. Three edits are enough for two writers to
meet one GET/PUT pair and for the worker to be disturbed again while it repairs
that; the proofs have no bounds. The reduced operand lists contain one operand
of each sort the code distinguishes: watched (NetworkPolicy), with a part that
cannot be changed (RoleBinding), with generation and hash (Deployment), with a
hash and fields nobody compares (Service). `Steps` is 4 in the code
(`retry.DefaultBackoff`) and 1 or 2 here, so that running out of attempts takes
no more edits than the bound allows. Deployments are not deleted in `races`:
with deletion, `DriftDetected` fails, which is the run `generation`.

In `handover` the one failure is the lost lease; NetworkPolicy and Deployment are
one watched and one unwatched operand, and the old process's last write of the
latter is what only the resync repairs. `MaxOldSyncs` is 1: the deposed process
either finishes the sync in which it lost the lease or, if it lost it between
two, takes its key once more; with 2 the run has millions of states. The theorems
are about every value of the bound, and any number of syncs. In `client` three calls let an apply be
repeated by one goroutine around a write of the other, or two calls of one
goroutine fall between the two GETs of the other; `Steps` 2 lets a retry succeed
and run out. `MaxCalls` bounds calls, not the steps of one. In `factory` calls
are not bounded; one type is enough for every race, since types share nothing
but the lock, the wait group and the flag, and the theorems are about any number
of types.

*Fairness* (`FairSpec`). Weak fairness for the worker, each informer's delivery,
the end of a backoff and the resync, because each is a goroutine or timer that
runs as long as the process does (`starter.go` sets a resync of ten minutes);
for the restart of the process, because a Deployment runs it; for the garbage
collector, orphan by orphan. None for users, other controllers or failures.
`HandoverFairSpec` adds that the deposed process comes to its end by `os.Exit`,
which `OnStoppedLeading` calls; it need not finish anything before. `InformerFactory`: goroutines that can run do, an
informer that nobody stops gets its first list (its reflector retries), a call
that can return does; nobody has to call anything or to cancel a context, which
is why `WaitReturns` and `ShutdownReturns` name the contexts they depend on.
`LogLevelController`: the worker, the informer and the delaying queue; not the
resync, which `LevelSettles` does not need. `CliManagerClient` states safety only.

### What the violations show

* `generation`: a user raises the Deployment to generation 2 and sync records
  it; the Deployment is deleted; the next sync creates it (generation 1) and the
  answer is lost, or any later step fails, so nothing is recorded; an edit takes
  it to generation 2. Generation and hash match what is expected and
  `ApplyDeployment` keeps the edited spec, although its comment says drift by
  others is detected by generation.
* `unmanaged`: `sync` never reads `managementState`.
* `client_extract`: the generated schema describes the `CliManager` as untyped,
  so every list is atomic to `ExtractCliManagerFrom`: a manager that owns one
  condition extracts the conditions of all managers, although the function
  promises what is "owned by fieldManager" and the CRD keys conditions by type.
  In `ApplyOperatorStatus` the effect is benign: what is extracted only serves to
  find conditions that keep their transition time (`RepeatedApplyQuiet`,
  `Linearizable`).
* `loglevel_missing`: when the `CliManager` is not found, the controller returns
  and leaves the level of the deleted one in effect; its comment says "Normal".

### Read off the code while modelling

* No condition is ever written to the status, although `ARCHITECTURE.md` speaks
  of "operator conditions".
* With no `CliManager`, sync fails and is retried for as long as the key lives.
* Drift in the ports of a Service or in a ServiceAccount is never repaired
  unless metadata, selector or type change as well; `UpToDate` is what the code
  compares, and `Converges` claims no more.
* A binding with another `roleRef` blocks every operand after it
  (`Blocked` in `Converges`).
* `PatchOperatorStatus` never reaches the server: it names the subresource
  `"/status"`, which client-go refuses for its slash. Nothing in `pkg/` calls it.
* `ClusterRole` and `ClusterRoleBinding` name a namespaced owner; the garbage
  collector never acts on that, and they outlive the `CliManager`
  (`OrphansCollected` leaves `ClusterScoped` out).

## Proofs

The theorems hold for all constants that satisfy the assumptions of the modules,
with any number of edits, failures, calls, clients and types. All follow one
argument: an inductive invariant, one lemma per action or group of actions, and
a temporal step by PTL.

### `ReconcilerProofs`

Proved for all constants that satisfy the assumptions of
`TargetConfigReconciler` (operands in sync's order with NetworkPolicy and
Deployment among them, at least one attempt, well-typed configurations, three
distinct null values), with any number of edits and failures:

| Theorem | Statement |
|---|---|
| `Typing` | `Spec => [](TypeOK /\ SyncInv)` |
| `Reconciling` | `Spec => []ReconcileInv` |
| `NothingLost` | `Spec => []QuiescentReconciled` |
| `MetadataKept` | `Spec => ForeignMetadataKept` |

`QuiescentReconciled` is not inductive: it speaks of the moment the controller
rests. `ReconcileInv` says what must hold on the way there:

* `QueueInv`, `SyncInv`: the queue's sets agree with the worker's position and
  the locals of sync are set where they are used;
* `ReadInv`: what a GET returned is the live object, or older, or of an earlier
  incarnation, so that the optimistic lock makes GET, merge and PUT atomic;
* `SnapInv`: if no event of the `CliManager` is pending and the key is not
  dirty, the copy sync works with agrees with the live one in uid and log level,
  all that `Required` depends on;
* `ProgressInv`: what sync has passed is as it required, unless touched;
* `FinishedInv`: a sync that ended with nothing queued, delayed or pending left
  all of that true for the live `CliManager` and its recorded generation;
* `WatchInv`: a touched NetworkPolicy is on its way to the queue.

Each has a lemma for the steps of the worker and one for the steps of others
(`QueueStep` and `QueueEnv`, `ReadStep` and `ReadEnv`, ...); `ReconcileStep` puts
them together. What others may do is summed up once, in `EnvEffect`: they leave the
process alone, their changes of watched objects become pending, their changes of
operands are noted in `touched`, and an operand changes only into a newer version,
into nothing, or from nothing into a new incarnation (`Newer`; `StepNewer` says that
every step of the specification is like that, the operator's own included). What
the operator's writes do is in `WriteEffect`. `ReconcileInv` is also an invariant
of the run `races`.

### `WritesProofs`

`NoSelfTriggeredLoop` is `Spec => []OwnWritesBounded`: the operator does not keep
itself busy, although each of its writes is an event that wakes it up.

The bound alone is not inductive, since a write raises a version while the number
of changes stays. The invariant is an account of debts. `OwedWrites(r)` is how often
the operator may still write operand `r` if nothing changes any more: none if an
update by the live `CliManager` would change nothing, one if it would, and one more
while the running sync has `r` still to come and works from an outdated `CliManager`.
`WritesInv` says that version and debt together are at most `1 + 2 * Changes`. A
write pays for itself, because writing twice changes nothing the second time
(`WriteIdempotent`, `CreatedSettled`, `StoredSettled`); other steps of the operator do
not raise the debt; a change of others or a failure raises the sum by two at most.
`StatusInv` is the same account for the status; `StatusReadInv` says how what the
process has read of the `CliManager` relates to the live one.

### `DriftProofs`

| Theorem | Statement |
|---|---|
| `FirstIncarnationChecked` | `Spec => DriftDetectedInFirst` |
| `DriftFoundWithoutDeletion` | `ASSUME NeverDeleted PROVE Spec => DriftDetected` |

`ApplyDeployment` compares no spec: it trusts the hash annotation for its own
wishes and the recorded generation for what others did. `HashInv` and
`GenerationInv` say when it may: in the Deployment's first incarnation every
generation the operator has recorded, has read or is about to record is at most the
live one, and equal only if nobody has changed the spec since it was written. This
is `DriftDetected` for that incarnation, whatever fails and whatever is deleted. Where
neither the Deployment nor the `CliManager` is deleted (`NeverDeleted`, as in the run
`races`) there is no other (`OnlyIncarnationInv`: the garbage collector has no reason
to act), and the property itself follows. With either deletion it fails: run
`generation` deletes the Deployment, and with only the `CliManager` deletable the
garbage collector does it.

### `HandoverProofs`

| Theorem | Statement |
|---|---|
| `ReconcilingDuringHandover` | `HandoverSpec => []ReconcileInv` |
| `NothingLostDuringHandover` | `HandoverSpec => []QuiescentReconciled` |
| `MetadataKeptDuringHandover` | `HandoverSpec => MetadataKeptByBoth` |

The lemmas of `ReconcilerProofs` are used twice: as they stand for the new process,
and through `OldP == INSTANCE ReconcilerProofs WITH pc <- oldPc, ...` for the deposed
one (`OldAssumptions` discharges the module's assumptions, the `Same...` lemmas
identify the two instances' operators). `HandoverInv` is `TypeOK`, `ReconcileInv` and,
of the deposed process, its type, `SyncInv` and `ReadInv`: it has no queue, and what it
has read of the `CliManager` may be out of date, so nothing more is true of it. To the
new process `LoseLease` is a `Crash`, a step of the deposed sync is one of others
(`OldSyncEffect`: it has `EnvEffect`), and `OldGet` is none at all; to the deposed process a step of the new one is
`Newer`, which `ReadInv` survives.

### `ClientProofs`

| Theorem | Statement |
|---|---|
| `ClientTyped` | `Spec => []TypeOK` |
| `ReadsFaithful` | `Spec => []ReadInv` |
| `ClientLinearizable` | `Spec => Linearizable`, the refinement of `AtomicClient` |
| `RepeatedApplyIsQuiet` | `Spec => RepeatedApplyQuiet` |

`ReadInv` is the reason why an update made of two GETs and a PUT is atomic: a copy
with the version of the live resource *is* the live resource, any other is older,
and the second GET is not older than the first. So if the server accepts the
version of the first GET, nothing was written since, and the copy of the second
is the same object. `UpdateStores` and `ApplyStores` say what each write
leaves in the server; `AtomicUpdate` and `AtomicApply` that this is the abstract
effect; `PatchRefines` that a patch is a call that fails; `AppliedSame` that an apply which skips its write
would not have changed anything. `StepRefines` has one case per action. The
constants are assumed only to make sense: spec and status fields are disjoint,
requests name fields of their part, an apply sets at least one, null values are
not values.

`RepeatedApplyQuiet` needs more than the refinement, which forgets times: the server
keeps the version only if the transition times stay too. A condition of the request
keeps its time because the GET returned it (`TimesKept`); any other because a
condition that is not there has no time, which is the invariant `DatedInv`.
`ApplyQuiet` puts both together.

### `FactoryProofs`

| Theorem | Statement |
|---|---|
| `FactorySafe` | `Spec => []FactoryInv` |
| `InformersShared` | `Spec => []Shared` |
| `InformersRunOnce` | `Spec => []RunOnce` |
| `ShutdownFinal` | `Spec => []NothingAfterShutdown` |
| `CacheSyncTruthful` | `Spec => []SyncResultSound` |

`FactoryInv` adds to the properties what they rest on: clients and goroutines
hold the factory's informer or none, goroutines belong to started types, who
drains has closed the factory, who collects has waited long enough.

### `LogLevelProofs`

`LevelKept` is `Spec => []LevelFollows`, from `LevelInv`: what sync has read is
what the `CliManager` says, or an event is on its way. `SetThenGet` is the lemma
that probing klog finds the level that was set.

### Only model-checked

Liveness under fairness, which is out of the prover's reach: `Converges`,
`OrphansCollected`, `ShutdownReturns`, `WaitReturns`, `LevelSettles`. Every other
property of a passing run is a theorem; `DriftDetected` does not hold for every
instance and is one under the condition above. Induction over data is out of
reach too: the proofs use no recursion over operands, only the position in
`SyncOrder`.

## Not modelled

The key-by-key merge of labels, annotations and owner references; the resource
cache of `resourceapply` (each call gets a fresh or an empty one, so it never
skips); lengths of delays; events, metrics and logs. The lease protocol itself:
`Handover` takes from it only that two processes may overlap. Work queues with
several keys or workers and their shutdown: both controllers use one key, one
worker and end with the process. The generated clientset, fakes, listers and deep
copies: their calls are the API calls of the models, the one refusal on the way
that the code meets, of the subresource `"/status"`, is in `PatchOperatorStatus`,
and nothing reads the lister. Apply configurations that set no field: who manages
an empty spec or status is not modelled. Errors of `setServiceMonitorServerName`:
the embedded manifests have the endpoint and the `tlsConfig` it looks for. The `With...` setters of apply configurations set one field
each; informer options configure what an informer lists, not when. Manifests,
commands and end-to-end tests.

## Plan

Done: the reconciler and its proofs; two overlapping processes and their proofs;
the client, its abstract specification, the proved refinement and the quiet apply;
the informer factory and its proofs; the log level controller and its proof.

Left, most useful first:

1. `AtomicApply`, an abstract specification in which each operand is read, merged
   and written in one step, and its refinement by `TargetConfigReconciler`;
   `ReadInv` and `WriteEffect` are the main lemmas.
2. `ObjectMerge`: `MergeMap`, `MergeOwnerRefs`, `SetGeneration` and
   `setServiceMonitorServerName` as functions, against reference definitions.
