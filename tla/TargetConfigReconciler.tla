----------------------- MODULE TargetConfigReconciler -----------------------
(***************************************************************************)
(* The controller of pkg/operator/target_config_reconciler.go: one worker, *)
(* one work queue key, a sync that reads the CliManager resource and makes *)
(* eleven operand objects match it, one GET and at most one write at a     *)
(* time, and then records the generation of the Deployment in the          *)
(* CliManager's status.                                                    *)
(*                                                                         *)
(* Around it: the API server (module KubeAPI), the garbage collector, the  *)
(* two informers that feed the queue, users and other controllers that     *)
(* edit, delete and create the same objects between any two API calls of   *)
(* the operator, API calls that fail with or without having had their      *)
(* effect, and crashes of the operator process.                            *)
(*                                                                         *)
(* Left out: logging, events, metrics, the rate limiter's delays (a        *)
(* delayed retry fires at any time), owner references of other owners.     *)
(* There is one operator process at a time: module Handover adds a second. *)
(* The log level controller is module LogLevelController.                  *)
(***************************************************************************)
EXTENDS Integers, Sequences, Functions, KubeAPI

CONSTANTS
    NoCR,         \* the answer NotFound for the CliManager resource
    NoHash,       \* no spec-hash annotation
    Configs,      \* what an operator process may be started with: records
                  \*   [release, image, http], the release that fixes bindata,
                  \*   RELATED_IMAGE_OPERAND_IMAGE ("" when unset) and the
                  \*   flag --serve-artifacts-in-http
    SyncOrder,    \* the operands of this instance, in sync's order
    LogLevels,    \* values users give spec.logLevel
    MgmtStates,   \* values users give spec.managementState
    Editable,     \* operands whose content others change
    Annotated,    \* operands to which others write metadata of their own
    Stripped,     \* operands from which others remove the operator's metadata
    Deletable,    \* operands others delete
    Usurped,      \* operands others create with content of their own
    CRDeletable,  \* TRUE iff users delete the CliManager resource
    Steps,        \* attempts of retry.DefaultBackoff
    MaxEdits,     \* bound: changes users and other controllers make
    MaxFaults     \* bound: failed API calls and crashes

VARIABLES
    cr,           \* the CliManager resource in the API server
    obj,          \* the operand objects in the API server
    uids,         \* for every name, the incarnations of it there have been
    up,           \* the operator process runs
    cfg,          \* its configuration
    pc,           \* where processNextWorkItem stands
    step,         \* index in SyncOrder of the operand being managed
    snap,         \* sync's cliManager
    seen,         \* the Apply function's existing
    dep,          \* sync's deployment
    got,          \* the CliManager UpdateStatus read in this attempt
    tries,        \* attempts UpdateStatus has left
    queued,       \* the key is in the queue's list
    dirty,        \* the key is in the queue's dirty set
    processing,   \* the key is in the queue's processing set
    delayed,      \* the key waits in the delaying queue for its backoff
    pending,      \* informers with events their handlers have not had yet
    edits,        \* changes made by others so far
    faults,       \* failures so far
    touched       \* history: operands others changed since sync read the CR

cluster == <<cr, obj, uids>>
local == <<step, snap, seen, dep, got, tries>>
queue == <<queued, dirty, processing, delayed>>
vars == <<cluster, up, cfg, pc, local, queue, pending, edits, faults, touched>>

-----------------------------------------------------------------------------
(***************************************************************************)
(* The operands, in the order in which sync manages them.  An instance may *)
(* leave some out of SyncOrder: those in it keep sync's order.             *)
(***************************************************************************)
FullSyncOrder ==
    <<"NetworkPolicy", "ClusterRole", "ClusterRoleBinding", "Role",
      "RoleBinding", "Deployment", "Route", "Service", "ServiceMetrics",
      "ServiceAccount", "ServiceMonitor">>

Position(r) == CHOOSE k \in DOMAIN FullSyncOrder : FullSyncOrder[k] = r

Resources == Range(SyncOrder)

Names == Resources \cup {"CliManager"}

ASSUME SyncOrderAssumption ==
    /\ SyncOrder \in Seq(Range(FullSyncOrder))
    /\ \A i, j \in DOMAIN SyncOrder :
          i < j => Position(SyncOrder[i]) < Position(SyncOrder[j])
    /\ {"NetworkPolicy", "Deployment"} \subseteq Resources

ASSUME StepsAssumption == Steps \in Nat \ {0}

Informers == {"CliManager", "NetworkPolicy"}

ClusterScoped == {"ClusterRole", "ClusterRoleBinding"}

Services == {"Service", "ServiceMetrics"}

Bindings == {"ClusterRoleBinding", "RoleBinding"}

RBAC == Bindings \cup {"ClusterRole", "Role"}

(***************************************************************************)
(* Operands whose Apply function keeps a hash of the required spec in an   *)
(* annotation of the object.                                               *)
(***************************************************************************)
Hashed == Services \cup {"Deployment"}

(***************************************************************************)
(* An operand's content is [intent, drift]: what an operator wanted when   *)
(* it last wrote the content, and the groups of fields that have been      *)
(* changed since.  The groups are the ones the Apply functions tell apart: *)
(* "compared" with the required object, "hidden" from that comparison, and *)
(* "roleRef", which the server refuses to change in an existing binding.   *)
(***************************************************************************)
EditableFields(r) ==
    IF r \in Services THEN {"compared", "hidden"}
    ELSE IF r \in {"ServiceAccount", "Deployment"} THEN {"hidden"}
    ELSE {"compared"}

-----------------------------------------------------------------------------
(***************************************************************************)
(* The manage... functions: the object required for the CliManager c by an *)
(* operator process configured with g.                                     *)
(***************************************************************************)
Verbosity(logLevel) ==
    CASE logLevel = "Normal"   -> 2
      [] logLevel = "Debug"    -> 4
      [] logLevel = "Trace"    -> 6
      [] logLevel = "TraceAll" -> 8
      [] OTHER                 -> 2

OperandImage(g) == IF g.image # "" THEN g.image ELSE "${IMAGE}"

manifest(release) == [manifest |-> release, image |-> "", v |-> 0, http |-> FALSE]

\* What someone else put there.
foreign == manifest("foreign")

manageDeployments(c, g) ==
    [manifest |-> g.release, image |-> OperandImage(g),
     v |-> Verbosity(c.logLevel), http |-> g.http]

manageRoute(g) == [manifest(g.release) EXCEPT !.http = g.http]

\* The manifest of the ServiceAccount has metadata only.
manageServiceAccount == manifest("")

\* Of the other manifests only metadata is changed.
manageOperandNetworkPolicyAllow(g) == manifest(g.release)

manageRBAC(g) == manifest(g.release)

manageServices(g) == manifest(g.release)

\* The server name is built from the CliManager's namespace, which is fixed.
\* setServiceMonitorServerName finds the endpoint and the tlsConfig it looks for
\* in every embedded manifest; its errors would end the sync as CallFails does.
manageServiceMonitor(g) == manifest(g.release)

Intent(r, c, g) ==
    CASE r = "Deployment"     -> manageDeployments(c, g)
      [] r = "Route"          -> manageRoute(g)
      [] r \in Services       -> manageServices(g)
      [] r = "ServiceAccount" -> manageServiceAccount
      [] r = "ServiceMonitor" -> manageServiceMonitor(g)
      [] r = "NetworkPolicy"  -> manageOperandNetworkPolicyAllow(g)
      [] r \in RBAC           -> manageRBAC(g)

Hash(r, intent) == IF r \in Hashed THEN intent ELSE NoHash

\* Mutant: the operand gets no owner reference.
OwnerReferenceMissing(c) == 0

\* Every manage... function makes the CliManager the owner.
OwnerReference(c) == c.uid

Required(r, c, g) ==
    [owner |-> OwnerReference(c),
     hash  |-> Hash(r, Intent(r, c, g)),
     spec  |-> [intent |-> Intent(r, c, g), drift |-> {}]]

(***************************************************************************)
(* The values operands and the CliManager take.                            *)
(***************************************************************************)
Manifests == {g.release : g \in Configs} \cup {"", "foreign"}

Intents ==
    [manifest : Manifests,
     image : {OperandImage(g) : g \in Configs} \cup {""},
     v : {0, 2, 4, 6, 8},
     http : BOOLEAN]

Objects ==
    [uid : Nat, rv : Nat, gen : Nat, note : Nat, owner : Nat,
     hash : Intents \cup {NoHash},
     spec : [intent : Intents, drift : SUBSET {"compared", "hidden", "roleRef"}]]

CRs ==
    [uid : Nat, rv : Nat, logLevel : LogLevels, mgmt : MgmtStates, lastGen : Int]

ASSUME ConfigsAssumption ==
    Configs \subseteq [release : STRING, image : STRING, http : BOOLEAN]

ASSUME NoValueAssumption ==
    /\ NoObj \notin Objects
    /\ NoCR \notin CRs
    /\ NoHash \notin Intents

(***************************************************************************)
(* The Apply functions of resourceapply and applyRoute.  All of them merge *)
(* metadata, decide whether the existing object will do, and otherwise     *)
(* write the existing object with the required content.                    *)
(***************************************************************************)
EnsureObjectMeta(o, req) ==
    [o EXCEPT !.owner = req.owner,
              !.hash = IF req.hash = NoHash THEN o.hash ELSE req.hash]

\* ApplyNetworkPolicy, ApplyRole and the like, ApplyKnownUnstructured.
contentSame(o, req) == o.spec = req.spec

\* ApplyService: a selector and a type; the rest only through the spec hash.
selectorAndTypeSame(o) == "compared" \notin o.spec.drift

\* Mutant: ApplyDeployment does not look at the generation.
generationIgnored(o, expectedGeneration) == TRUE

\* ApplyDeployment: nothing of the spec is compared.
generationSame(o, expectedGeneration) == o.gen = expectedGeneration

SpecSame(r, o, req, expectedGeneration) ==
    CASE r = "Deployment"     -> generationSame(o, expectedGeneration)
      [] r \in Services       -> selectorAndTypeSame(o)
      [] r = "ServiceAccount" -> TRUE
      [] OTHER                -> contentSame(o, req)

InSync(r, o, req, expectedGeneration) ==
    /\ EnsureObjectMeta(o, req) = o
    /\ SpecSame(r, o, req, expectedGeneration)

\* Mutant: the Apply functions forget what EnsureObjectMeta modified.
SkipsWriteWithoutMeta(r, o, req, expectedGeneration) ==
    r # "Route" /\ SpecSame(r, o, req, expectedGeneration)

(***************************************************************************)
(* A stored Route has the host the router gave it, the required one none,  *)
(* so applyRoute never finds them equal; its update then keeps the host    *)
(* and changes nothing.                                                    *)
(***************************************************************************)
SkipsWrite(r, o, req, expectedGeneration) ==
    r # "Route" /\ InSync(r, o, req, expectedGeneration)

toWrite(r, o, req) ==
    [EnsureObjectMeta(o, req) EXCEPT
        !.spec = IF r = "ServiceAccount" THEN o.spec ELSE req.spec]

\* The server's validation of an update of a binding.
RoleRefChanged(r, o) == r \in Bindings /\ "roleRef" \in o.spec.drift

-----------------------------------------------------------------------------
(***************************************************************************)
(* The work queue (one key) and the informers.                             *)
(***************************************************************************)
\* Mutant: a key that is being processed is not marked dirty.
AddUnlessProcessing ==
    /\ dirty' = (dirty \/ ~processing)
    /\ queued' = (queued \/ ~processing)
    /\ UNCHANGED processing

Add ==
    /\ dirty' = TRUE
    /\ queued' = (queued \/ ~processing)
    /\ UNCHANGED processing

AddRateLimited == delayed' = TRUE

Notify(i) == pending' = IF up THEN pending \cup {i} ELSE pending

NotifyOf(r) ==
    IF r = "NetworkPolicy" THEN Notify(r) ELSE UNCHANGED pending

\* The informers whose store is not empty: what a list or a resync delivers.
Listed ==
    {i \in Informers : IF i = "CliManager" THEN cr # NoCR ELSE obj[i] # NoObj}

Deliver(i) ==
    /\ up
    /\ i \in pending
    /\ pending' = pending \ {i}
    /\ Add
    /\ UNCHANGED <<cluster, up, cfg, pc, local, delayed, edits, faults, touched>>

\* Mutant: the factories are made without a resync period.
ResyncDisabled ==
    /\ FALSE
    /\ UNCHANGED vars

\* The resync period of both informer factories has passed.
Resync ==
    /\ up
    /\ pending # pending \cup Listed
    /\ pending' = pending \cup Listed
    /\ UNCHANGED <<cluster, up, cfg, pc, local, queue, edits, faults, touched>>

\* The backoff of a failed sync is over: the delaying queue adds the key.
Backoff ==
    /\ up
    /\ delayed
    /\ delayed' = FALSE
    /\ Add
    /\ UNCHANGED <<cluster, up, cfg, pc, local, pending, edits, faults, touched>>

Get ==
    /\ up
    /\ pc = "idle"
    /\ queued
    /\ queued' = FALSE
    /\ dirty' = FALSE
    /\ processing' = TRUE
    /\ pc' = "fetch"
    /\ UNCHANGED <<cluster, up, cfg, local, delayed, pending, edits, faults, touched>>

Done ==
    /\ pc = "done"
    /\ processing' = FALSE
    /\ queued' = dirty
    /\ pc' = "idle"
    /\ step' = 0
    /\ seen' = NoObj
    /\ dep' = NoObj
    /\ got' = NoCR
    /\ tries' = 0
    /\ UNCHANGED <<cluster, up, cfg, snap, dirty, delayed, pending, edits,
                   faults, touched>>

-----------------------------------------------------------------------------
(***************************************************************************)
(* sync, one action for each answer of an API call.  Whatever the code     *)
(* computes between two calls belongs to the first of them.                *)
(***************************************************************************)
Operand == SyncOrder[step]

RequiredNow == Required(Operand, snap, cfg)

ExpectedDeploymentGeneration == snap.lastGen

\* Mutant: a failed sync is not queued again.
FailForgetting ==
    /\ pc' = "done"
    /\ UNCHANGED delayed

\* sync returns an error.
Fail ==
    /\ pc' = "done"
    /\ AddRateLimited

\* sync returns nil: Forget clears the rate limiter's count, which is left out.
Succeed ==
    /\ pc' = "done"
    /\ UNCHANGED delayed

\* Operand has been managed; actual is what its Apply function returned.
Advance(actual) ==
    /\ dep' = IF Operand = "Deployment" THEN actual ELSE dep
    /\ seen' = NoObj
    /\ step' = step + 1
    /\ pc' = IF step = Len(SyncOrder) THEN "statusGet" ELSE "get"
    /\ tries' = IF step = Len(SyncOrder) THEN Steps ELSE tries
    /\ UNCHANGED <<snap, got, delayed>>

GetCliManager ==
    /\ pc = "fetch"
    /\ cr # NoCR
    /\ snap' = cr
    /\ step' = 1
    /\ pc' = "get"
    /\ touched' = {}
    /\ UNCHANGED <<cluster, up, cfg, seen, dep, got, tries, queue, pending,
                   edits, faults>>

GetCliManagerNotFound ==
    /\ pc = "fetch"
    /\ cr = NoCR
    /\ Fail
    /\ UNCHANGED <<cluster, up, cfg, local, queued, dirty, processing, pending,
                   edits, faults, touched>>

\* GET of an operand that is found to be in the required state.
GetUpToDate ==
    /\ pc = "get"
    /\ obj[Operand] # NoObj
    /\ SkipsWrite(Operand, obj[Operand], RequiredNow, ExpectedDeploymentGeneration)
    /\ Advance(obj[Operand])
    /\ UNCHANGED <<cluster, up, cfg, queued, dirty, processing, pending, edits,
                   faults, touched>>

\* GET of an operand that is missing or has to be updated.
GetToWrite ==
    /\ pc = "get"
    /\ obj[Operand] # NoObj =>
         ~SkipsWrite(Operand, obj[Operand], RequiredNow, ExpectedDeploymentGeneration)
    /\ seen' = obj[Operand]
    /\ pc' = "write"
    /\ UNCHANGED <<cluster, up, cfg, step, snap, dep, got, tries, queue, pending,
                   edits, faults, touched>>

CreateAccepted == seen = NoObj /\ obj[Operand] = NoObj

\* Mutant: the update is sent without a resourceVersion.
UpdateAcceptedUnconditionally ==
    /\ seen # NoObj
    /\ obj[Operand] # NoObj
    /\ ~RoleRefChanged(Operand, seen)

\* What is sent is a changed copy of existing, with its uid and resourceVersion.
UpdateAccepted ==
    /\ seen # NoObj
    /\ Current(seen, obj[Operand])
    /\ ~RoleRefChanged(Operand, seen)

ObjectCreated ==
    /\ CreateAccepted
    /\ obj' = [obj EXCEPT ![Operand] = Created(RequiredNow, uids[Operand] + 1)]
    /\ uids' = [uids EXCEPT ![Operand] = @ + 1]
    /\ NotifyOf(Operand)
    /\ UNCHANGED cr

ObjectUpdated ==
    /\ UpdateAccepted
    /\ obj' = [obj EXCEPT ![Operand] =
                  Stored(obj[Operand], toWrite(Operand, seen, RequiredNow))]
    /\ IF obj' = obj THEN UNCHANGED pending ELSE NotifyOf(Operand)
    /\ UNCHANGED <<cr, uids>>

CreateObject ==
    /\ pc = "write"
    /\ ObjectCreated
    /\ Advance(obj'[Operand])
    /\ UNCHANGED <<up, cfg, queued, dirty, processing, edits, faults, touched>>

UpdateObject ==
    /\ pc = "write"
    /\ ObjectUpdated
    /\ Advance(obj'[Operand])
    /\ UNCHANGED <<up, cfg, queued, dirty, processing, edits, faults, touched>>

\* AlreadyExists, Conflict, NotFound or Invalid.
WriteRefused ==
    /\ pc = "write"
    /\ ~CreateAccepted
    /\ ~UpdateAccepted
    /\ Fail
    /\ UNCHANGED <<cluster, up, cfg, local, queued, dirty, processing, pending,
                   edits, faults, touched>>

(***************************************************************************)
(* v1helpers.UpdateStatus with SetDeploymentGeneration.  Its GetOperator-  *)
(* State is a live GET.  UpdateOperatorStatus reads the resource again but *)
(* writes under the resourceVersion of the first read, so the second read  *)
(* can only add a NotFound that the write would meet anyway.               *)
(***************************************************************************)
SetDeploymentGeneration(c) == [c EXCEPT !.lastGen = dep.gen]

\* Mutant: the status is written whether or not it changed.
StatusChangedAlways(c) == TRUE

StatusChanged(c) == SetDeploymentGeneration(c) # c

GetStatusUnchanged ==
    /\ pc = "statusGet"
    /\ cr # NoCR
    /\ ~StatusChanged(cr)
    /\ Succeed
    /\ UNCHANGED <<cluster, up, cfg, local, queued, dirty, processing, pending,
                   edits, faults, touched>>

GetStatusToWrite ==
    /\ pc = "statusGet"
    /\ cr # NoCR
    /\ StatusChanged(cr)
    /\ got' = cr
    /\ tries' = tries - 1
    /\ pc' = "statusWrite"
    /\ UNCHANGED <<cluster, up, cfg, step, snap, seen, dep, queue, pending,
                   edits, faults, touched>>

StatusCurrent == cr # NoCR /\ cr.uid = got.uid /\ cr.rv = got.rv

StatusUpdated ==
    /\ StatusCurrent
    /\ cr' = [SetDeploymentGeneration(cr) EXCEPT !.rv = @ + 1]
    /\ Notify("CliManager")
    /\ UNCHANGED <<obj, uids>>

UpdateStatus ==
    /\ pc = "statusWrite"
    /\ StatusUpdated
    /\ Succeed
    /\ UNCHANGED <<up, cfg, local, queued, dirty, processing, edits, faults,
                   touched>>

\* Mutant: conflicts are retried without end.
UpdateStatusRetryAlways ==
    /\ pc = "statusWrite"
    /\ cr # NoCR
    /\ ~StatusCurrent
    /\ pc' = "statusGet"
    /\ UNCHANGED <<cluster, up, cfg, local, queue, pending, edits, faults, touched>>

UpdateStatusRetry ==
    /\ pc = "statusWrite"
    /\ cr # NoCR
    /\ ~StatusCurrent
    /\ tries > 0
    /\ pc' = "statusGet"
    /\ UNCHANGED <<cluster, up, cfg, local, queue, pending, edits, faults, touched>>

\* The CliManager is gone, or the last attempt met a conflict.
UpdateStatusFails ==
    /\ \/ pc = "statusGet" /\ cr = NoCR
       \/ pc = "statusWrite" /\ cr = NoCR
       \/ pc = "statusWrite" /\ ~StatusCurrent /\ tries = 0
    /\ Fail
    /\ UNCHANGED <<cluster, up, cfg, local, queued, dirty, processing, pending,
                   edits, faults, touched>>

sync ==
    \/ GetCliManager \/ GetCliManagerNotFound
    \/ GetUpToDate \/ GetToWrite
    \/ CreateObject \/ UpdateObject \/ WriteRefused
    \/ GetStatusUnchanged \/ GetStatusToWrite
    \/ UpdateStatus \/ UpdateStatusRetry \/ UpdateStatusFails

processNextWorkItem == Get \/ sync \/ Done

-----------------------------------------------------------------------------
(***************************************************************************)
(* Failures.                                                               *)
(***************************************************************************)
Calling == pc \in {"fetch", "get", "write", "statusGet", "statusWrite"}

\* An API call fails without effect: refused, timed out, connection lost.
CallFails ==
    /\ Calling
    /\ faults < MaxFaults
    /\ faults' = faults + 1
    /\ Fail
    /\ UNCHANGED <<cluster, up, cfg, local, queued, dirty, processing, pending,
                   edits, touched>>

\* A write takes effect but its answer is lost.
ReplyLost ==
    /\ \/ pc = "write" /\ (ObjectCreated \/ ObjectUpdated)
       \/ pc = "statusWrite" /\ StatusUpdated
    /\ faults < MaxFaults
    /\ faults' = faults + 1
    /\ Fail
    /\ UNCHANGED <<up, cfg, local, queued, dirty, processing, edits, touched>>

Reset ==
    /\ pc' = "idle"
    /\ step' = 0
    /\ snap' = NoCR
    /\ seen' = NoObj
    /\ dep' = NoObj
    /\ got' = NoCR
    /\ tries' = 0
    /\ queued' = FALSE
    /\ dirty' = FALSE
    /\ processing' = FALSE
    /\ delayed' = FALSE
    /\ touched' = {}

Crash ==
    /\ up
    /\ faults < MaxFaults
    /\ faults' = faults + 1
    /\ up' = FALSE
    /\ pending' = {}
    /\ Reset
    /\ UNCHANGED <<cluster, cfg, edits>>

\* Mutant: there is no AddFunc, what exists at the start is not reconciled.
RunOperatorWithoutAdd ==
    /\ ~up
    /\ up' = TRUE
    /\ cfg' \in Configs
    /\ pending' = {}
    /\ UNCHANGED <<cluster, pc, local, queue, edits, faults, touched>>

\* RunOperator: the informers list, and deliver what they found.
RunOperator ==
    /\ ~up
    /\ up' = TRUE
    /\ cfg' \in Configs
    /\ pending' = Listed
    /\ UNCHANGED <<cluster, pc, local, queue, edits, faults, touched>>

-----------------------------------------------------------------------------
(***************************************************************************)
(* Users and other controllers.                                            *)
(***************************************************************************)
Edit ==
    /\ edits < MaxEdits
    /\ edits' = edits + 1

Others == UNCHANGED <<up, cfg, pc, local, queue, faults>>

Touch(r) == touched' = IF up THEN touched \cup {r} ELSE touched

CreateCR ==
    /\ cr = NoCR
    /\ Edit
    /\ \E l \in LogLevels, m \in MgmtStates :
          cr' = [uid |-> uids["CliManager"] + 1, rv |-> 1, logLevel |-> l, mgmt |-> m,
                 lastGen |-> -1]
    /\ uids' = [uids EXCEPT !["CliManager"] = @ + 1]
    /\ Notify("CliManager")
    /\ Others /\ UNCHANGED <<obj, touched>>

EditCR ==
    /\ cr # NoCR
    /\ Edit
    /\ \E l \in LogLevels, m \in MgmtStates :
          /\ <<l, m>> # <<cr.logLevel, cr.mgmt>>
          /\ cr' = [cr EXCEPT !.rv = @ + 1, !.logLevel = l, !.mgmt = m]
    /\ Notify("CliManager")
    /\ Others /\ UNCHANGED <<obj, uids, touched>>

DeleteCR ==
    /\ CRDeletable
    /\ cr # NoCR
    /\ Edit
    /\ cr' = NoCR
    /\ Notify("CliManager")
    /\ Others /\ UNCHANGED <<obj, uids, touched>>

\* Others write o, or NoObj for nothing, where operand r was.
Put(r, o) ==
    /\ obj' = [obj EXCEPT ![r] = o]
    /\ NotifyOf(r)
    /\ Touch(r)
    /\ Others

\* A field gets a value of others, or the operator's own again.
EditObject(r) ==
    /\ r \in Editable
    /\ obj[r] # NoObj
    /\ Edit
    /\ \E f \in EditableFields(r), revert \in BOOLEAN :
          /\ revert => f \in obj[r].spec.drift
          /\ Put(r, [obj[r] EXCEPT !.rv = @ + 1, !.gen = @ + 1,
                                   !.spec.drift = IF revert THEN @ \ {f}
                                                            ELSE @ \cup {f}])
    /\ UNCHANGED <<cr, uids>>

\* Labels and annotations of others, the status a controller writes.
AnnotateObject(r) ==
    /\ r \in Annotated
    /\ obj[r] # NoObj
    /\ Edit
    /\ Put(r, [obj[r] EXCEPT !.rv = @ + 1, !.note = @ + 1])
    /\ UNCHANGED <<cr, uids>>

\* The owner reference and the annotations of the operator are removed.
StripObject(r) ==
    /\ r \in Stripped
    /\ obj[r] # NoObj
    /\ Edit
    /\ Put(r, [obj[r] EXCEPT !.rv = @ + 1, !.owner = 0, !.hash = NoHash])
    /\ UNCHANGED <<cr, uids>>

DeleteObject(r) ==
    /\ r \in Deletable
    /\ obj[r] # NoObj
    /\ Edit
    /\ Put(r, NoObj)
    /\ UNCHANGED <<cr, uids>>

\* Someone else takes the name, for a binding with a roleRef of their own.
UsurpObject(r) ==
    /\ r \in Usurped
    /\ obj[r] = NoObj
    /\ Edit
    /\ Put(r, Created([owner |-> 0, hash |-> NoHash,
                       spec |-> [intent |-> foreign,
                                 drift |-> EditableFields(r) \cup
                                   (IF r \in Bindings THEN {"roleRef"} ELSE {})]],
                      uids[r] + 1))
    /\ uids' = [uids EXCEPT ![r] = @ + 1]
    /\ UNCHANGED cr

\* The garbage collector deletes a namespaced object whose owner is no more.
\* It never acts on a cluster-scoped object with a namespaced owner.
Orphaned(r) ==
    /\ r \notin ClusterScoped
    /\ obj[r] # NoObj
    /\ obj[r].owner # 0
    /\ cr # NoCR => obj[r].owner # cr.uid

CollectGarbage(r) ==
    /\ Orphaned(r)
    /\ Put(r, NoObj)
    /\ UNCHANGED <<cr, uids, edits>>

-----------------------------------------------------------------------------
Init ==
    /\ cr \in {NoCR} \cup
         {[uid |-> 1, rv |-> 1, logLevel |-> l, mgmt |-> m, lastGen |-> -1] :
            l \in LogLevels, m \in MgmtStates}
    /\ obj = [r \in Resources |-> NoObj]
    /\ uids = [n \in Names |-> IF n = "CliManager" THEN 1 ELSE 0]
    /\ up = FALSE
    /\ cfg \in Configs
    /\ pc = "idle"
    /\ step = 0
    /\ snap = NoCR
    /\ seen = NoObj
    /\ dep = NoObj
    /\ got = NoCR
    /\ tries = 0
    /\ queued = FALSE
    /\ dirty = FALSE
    /\ processing = FALSE
    /\ delayed = FALSE
    /\ pending = {}
    /\ edits = 0
    /\ faults = 0
    /\ touched = {}

Process ==
    \/ processNextWorkItem
    \/ \E i \in Informers : Deliver(i)
    \/ Backoff
    \/ Resync
    \/ RunOperator

Environment ==
    \/ CreateCR \/ EditCR \/ DeleteCR
    \/ \E r \in Resources :
          \/ EditObject(r) \/ AnnotateObject(r) \/ StripObject(r)
          \/ DeleteObject(r) \/ UsurpObject(r) \/ CollectGarbage(r)

Failure == CallFails \/ ReplyLost \/ Crash

Next == Process \/ Environment \/ Failure

Spec == Init /\ [][Next]_vars

(***************************************************************************)
(* The worker goroutine, the informers' goroutines and the delaying queue  *)
(* run on; the resync period passes; the operator's Deployment restarts    *)
(* its pod; the garbage collector gets to every orphan.  Nobody has to     *)
(* edit anything and nothing has to fail.                                  *)
(***************************************************************************)
Fairness ==
    /\ WF_vars(processNextWorkItem)
    /\ \A i \in Informers : WF_vars(Deliver(i))
    /\ WF_vars(Backoff)
    /\ WF_vars(Resync)
    /\ WF_vars(RunOperator)
    /\ \A r \in Resources : WF_vars(CollectGarbage(r))

FairSpec == Spec /\ Fairness

-----------------------------------------------------------------------------
PCs == {"idle", "fetch", "get", "write", "statusGet", "statusWrite", "done"}

(***************************************************************************)
(* Every variable has its type; in particular UpdateStatus never makes     *)
(* more than Steps attempts.                                               *)
(***************************************************************************)
TypeOK ==
    /\ cr \in CRs \cup {NoCR}
    /\ obj \in [Resources -> Objects \cup {NoObj}]
    /\ uids \in [Names -> Nat]
    /\ up \in BOOLEAN
    /\ cfg \in Configs
    /\ pc \in PCs
    /\ step \in 0 .. Len(SyncOrder) + 1
    /\ snap \in CRs \cup {NoCR}
    /\ seen \in Objects \cup {NoObj}
    /\ dep \in Objects \cup {NoObj}
    /\ got \in CRs \cup {NoCR}
    /\ tries \in 0 .. Steps
    /\ queued \in BOOLEAN
    /\ dirty \in BOOLEAN
    /\ processing \in BOOLEAN
    /\ delayed \in BOOLEAN
    /\ pending \in SUBSET Informers
    /\ edits \in Nat
    /\ faults \in Nat
    /\ touched \in SUBSET Resources

(***************************************************************************)
(* Safety.                                                                 *)
(***************************************************************************)

\* Nothing is left to do: the worker waits in Get, no key is in the queue or
\* on its way into it.
Quiet ==
    /\ up
    /\ pc = "idle"
    /\ ~dirty
    /\ ~delayed
    /\ pending = {}

UpToDate(r) ==
    /\ obj[r] # NoObj
    /\ InSync(r, obj[r], Required(r, cr, cfg), cr.lastGen)

\* No wakeup and no failure is lost: whenever the controller rests, every
\* operand that nobody has changed since the last sync began is as the live
\* CliManager and the running operator require, the recorded generation
\* included, and the NetworkPolicy, which is watched, is so in any case.
QuiescentReconciled ==
    Quiet /\ cr # NoCR =>
        /\ "NetworkPolicy" \notin touched
        /\ \A r \in Resources \ touched : UpToDate(r)

(***************************************************************************)
(* The inductive invariant behind QuiescentReconciled and                  *)
(* ForeignMetadataKept, in parts.                                          *)
(***************************************************************************)
InFlight == pc \in {"get", "write", "statusGet", "statusWrite"}

\* The worker holds the key exactly while it is not waiting in Get, the key is
\* in the queue exactly if it is dirty and not held, and a stopped process
\* holds nothing.
QueueInv ==
    /\ processing = (pc # "idle")
    /\ queued = (dirty /\ ~processing)
    /\ ~up => pc = "idle" /\ touched = {}

\* Inside sync the locals are set: the index is in range, the CliManager has
\* been read, and so has the Deployment once its turn is over.
SyncInv ==
    InFlight =>
        /\ snap # NoCR
        /\ IF pc \in {"get", "write"} THEN step \in 1 .. Len(SyncOrder)
                                      ELSE step = Len(SyncOrder) + 1
        /\ \A i \in 1 .. step - 1 : SyncOrder[i] = "Deployment" => dep # NoObj
        /\ pc = "statusWrite" => got # NoCR
        /\ pc = "statusGet" => tries > 0

\* What a GET returned is the live object, or is older than it, or is of an
\* earlier incarnation.
ReadInv ==
    /\ \A r \in Resources : obj[r] # NoObj => obj[r].uid <= uids[r]
    /\ pc = "write" /\ seen # NoObj =>
         /\ seen.uid <= uids[Operand]
         /\ obj[Operand] # NoObj /\ obj[Operand].uid = seen.uid =>
              seen = obj[Operand] \/ seen.rv < obj[Operand].rv

\* A change of the CliManager after sync read it is on its way to the queue.
SnapInv ==
    InFlight /\ ~dirty /\ "CliManager" \notin pending =>
        /\ cr # NoCR
        /\ cr.uid = snap.uid
        /\ cr.logLevel = snap.logLevel

Managed(r) ==
    /\ obj[r] # NoObj
    /\ InSync(r, obj[r], Required(r, snap, cfg), obj[r].gen)
    /\ r = "Deployment" => obj[r].gen = dep.gen

\* What sync has been through is as it required, unless others changed it.
ProgressInv ==
    InFlight => \A i \in 1 .. step - 1 :
                    SyncOrder[i] \notin touched => Managed(SyncOrder[i])

\* A sync that ended without a retry or a new event has done its work.
FinishedInv ==
    /\ up
    /\ pc \in {"done", "idle"}
    /\ ~dirty
    /\ ~delayed
    /\ "CliManager" \notin pending
    /\ cr # NoCR
    => \A r \in Resources \ touched : UpToDate(r)

\* A change of the NetworkPolicy leads to another sync.
WatchInv ==
    up /\ "NetworkPolicy" \in touched =>
        "NetworkPolicy" \in pending \/ dirty \/ delayed \/ pc = "fetch"

\* All of it: what holds between any two steps of the controller, so that it
\* comes to rest only when the cluster is reconciled.
ReconcileInv ==
    /\ QueueInv
    /\ SyncInv
    /\ ReadInv
    /\ SnapInv
    /\ ProgressInv
    /\ FinishedInv
    /\ WatchInv

\* The generation test of ApplyDeployment finds drift: a Deployment that sync
\* leaves alone has the required spec.
DriftDetected ==
    [][GetUpToDate /\ Operand = "Deployment" =>
         obj["Deployment"].spec = RequiredNow.spec]_vars

\* The operator's writes lose nothing of what others wrote to the metadata
\* of an operand, however its GET and its PUT interleave with their writes,
\* and never replace one incarnation of an operand by another.
ForeignMetadataKept ==
    [][processNextWorkItem \/ ReplyLost =>
         \A r \in Resources : obj[r] # NoObj =>
            /\ obj'[r] # NoObj
            /\ obj'[r].uid = obj[r].uid
            /\ obj'[r].note = obj[r].note]_vars

\* The operator does not keep itself busy: its own writes of the status and of
\* operands are events that wake it up again, but each is accounted for by a
\* change of others or a failure (after which another release may run), so the
\* versions of an object are bounded by the number of these.
OwnWritesBounded ==
    /\ cr # NoCR => cr.rv <= 2 + 2 * (edits + faults)
    /\ \A r \in Resources :
          obj[r] # NoObj => obj[r].rv <= 1 + 2 * (edits + faults)

\* managementState says whether the operator manages the component.
UnmanagedLeftAlone ==
    [][processNextWorkItem /\ snap # NoCR /\ snap.mgmt = "Unmanaged"
         => UNCHANGED obj]_vars

(***************************************************************************)
(* Liveness.                                                               *)
(***************************************************************************)
Blocked(r) == obj[r] # NoObj /\ RoleRefChanged(r, obj[r])

\* Once users, other controllers and failures leave the cluster alone, every
\* operand that sync reaches ends up and stays as required; a binding with
\* another roleRef is the only thing that keeps sync from reaching one.
Converges ==
    <>[](cr = NoCR \/
         \A i \in 1 .. Len(SyncOrder) :
            (\A j \in 1 .. i : ~Blocked(SyncOrder[j])) => UpToDate(SyncOrder[i]))

\* Nothing namespaced that the operator made outlives the CliManager, not
\* even what a sync that read it before its deletion created afterwards.
\* (Unless others took the owner reference away, or made it themselves.)
OrphansCollected ==
    <>[](cr = NoCR =>
         \A r \in Resources \ ClusterScoped :
            obj[r] = NoObj \/ r \in Stripped \cup Usurped)
=============================================================================
