--------------------------- MODULE HandoverProofs ---------------------------
(***************************************************************************)
(* Proofs about Handover: the invariants of the new process hold although  *)
(* a deposed process, perhaps of another release, still writes, and        *)
(* neither process loses what others wrote to the metadata of an operand.  *)
(*                                                                         *)
(* The lemmas of ReconcilerProofs are used twice: for the new process as   *)
(* they stand, and under the name OldP for the deposed one.  Each process  *)
(* is one of the others to the other: what it does has the effect          *)
(* EnvEffect, or at least Newer, that the invariants stand.                *)
(***************************************************************************)
EXTENDS Handover, ReconcilerProofs

OldP == INSTANCE ReconcilerProofs WITH
    pc <- oldPc, cfg <- oldCfg, step <- oldStep, snap <- oldSnap,
    seen <- oldSeen, dep <- oldDep, got <- oldGot, tries <- oldTries,
    delayed <- oldDelayed, touched <- oldTouched

(***************************************************************************)
(* Both processes speak of the same operands and the same values.          *)
(***************************************************************************)
LEMMA SameValues ==
    /\ OldP!Resources = Resources
    /\ OldP!Names = Names
    /\ OldP!Informers = Informers
    /\ OldP!PCs = PCs
    /\ OldP!Objects = Objects
    /\ OldP!CRs = CRs
BY DEF OldP!Resources, Resources, OldP!Names, Names, OldP!Informers, Informers,
   OldP!PCs, PCs, OldP!Objects, Objects, OldP!Intents, Intents, OldP!Manifests,
   Manifests, OldP!OperandImage, OperandImage, OldP!CRs, CRs, OldP!Range, Range

(***************************************************************************)
(* The sync of Handover is the one the lemmas are about.                   *)
(***************************************************************************)
LEMMA SameRequirements ==
    \A r, c, g : Old!Required(r, c, g) = OldP!Required(r, c, g)
<1>1. \A r, c, g : Old!Intent(r, c, g) = OldP!Intent(r, c, g)
  BY Zenon
  DEF Old!Intent, OldP!Intent, Old!manageDeployments, OldP!manageDeployments,
      Old!Verbosity, OldP!Verbosity, Old!OperandImage, OldP!OperandImage,
      Old!manageRoute, OldP!manageRoute, Old!manageServices, OldP!manageServices,
      Old!manageServiceAccount, OldP!manageServiceAccount,
      Old!manageServiceMonitor, OldP!manageServiceMonitor,
      Old!manageOperandNetworkPolicyAllow, OldP!manageOperandNetworkPolicyAllow,
      Old!manageRBAC, OldP!manageRBAC, Old!manifest, OldP!manifest,
      Old!Services, OldP!Services, Old!RBAC, OldP!RBAC, Old!Bindings, OldP!Bindings
<1>2. QED
  BY <1>1 DEF Old!Required, OldP!Required, Old!OwnerReference, OldP!OwnerReference,
     Old!Hash, OldP!Hash, Old!Hashed, OldP!Hashed, Old!Services, OldP!Services

LEMMA SameApply ==
    /\ \A r, o, b, g : Old!SkipsWrite(r, o, b, g) <=> OldP!SkipsWrite(r, o, b, g)
    /\ \A r, o, b : Old!toWrite(r, o, b) = OldP!toWrite(r, o, b)
    /\ \A r, o : Old!RoleRefChanged(r, o) <=> OldP!RoleRefChanged(r, o)
    /\ \A b, u : Old!Created(b, u) = OldP!Created(b, u)
    /\ \A o, n : Old!Stored(o, n) = OldP!Stored(o, n)
    /\ \A o, n : Old!Current(o, n) <=> OldP!Current(o, n)
<1>1. \A r, o, b, g : Old!SkipsWrite(r, o, b, g) <=> OldP!SkipsWrite(r, o, b, g)
  BY Zenon
  DEF Old!SkipsWrite, OldP!SkipsWrite, Old!InSync, OldP!InSync,
      Old!EnsureObjectMeta, OldP!EnsureObjectMeta, Old!SpecSame, OldP!SpecSame,
      Old!generationSame, OldP!generationSame, Old!contentSame, OldP!contentSame,
      Old!selectorAndTypeSame, OldP!selectorAndTypeSame, Old!Services, OldP!Services
<1>2. QED
  BY <1>1
  DEF Old!toWrite, OldP!toWrite, Old!EnsureObjectMeta, OldP!EnsureObjectMeta,
      Old!RoleRefChanged, OldP!RoleRefChanged, Old!Bindings, OldP!Bindings,
      Old!Created, OldP!Created, Old!Stored, OldP!Stored, Old!Current, OldP!Current

LEMMA SameSync == Old!sync => OldP!sync
<1> USE DEF Old!cluster, OldP!cluster, Old!local, OldP!local, Old!queue, OldP!queue,
            Old!Fail, OldP!Fail, Old!Succeed, OldP!Succeed,
            Old!AddRateLimited, OldP!AddRateLimited
<1>0. /\ Old!Operand = OldP!Operand
      /\ Old!RequiredNow = OldP!RequiredNow
      /\ Old!ExpectedDeploymentGeneration = OldP!ExpectedDeploymentGeneration
  BY SameRequirements
  DEF Old!Operand, OldP!Operand, Old!RequiredNow, OldP!RequiredNow,
      Old!ExpectedDeploymentGeneration, OldP!ExpectedDeploymentGeneration
<1>1. \A a : Old!Advance(a) <=> OldP!Advance(a)
  BY <1>0 DEF Old!Advance, OldP!Advance
<1>2. \A r : Old!NotifyOf(r) <=> OldP!NotifyOf(r)
  BY DEF Old!NotifyOf, OldP!NotifyOf, Old!Notify, OldP!Notify
<1>3. Old!GetCliManager => OldP!GetCliManager
  BY DEF Old!GetCliManager, OldP!GetCliManager
<1>4. Old!GetCliManagerNotFound => OldP!GetCliManagerNotFound
  BY DEF Old!GetCliManagerNotFound, OldP!GetCliManagerNotFound
<1>5. Old!GetUpToDate => OldP!GetUpToDate
  BY <1>0, <1>1, SameApply DEF Old!GetUpToDate, OldP!GetUpToDate
<1>6. Old!GetToWrite => OldP!GetToWrite
  BY <1>0, SameApply DEF Old!GetToWrite, OldP!GetToWrite
<1>7. /\ Old!CreateAccepted <=> OldP!CreateAccepted
      /\ Old!UpdateAccepted <=> OldP!UpdateAccepted
  BY <1>0, SameApply DEF Old!CreateAccepted, OldP!CreateAccepted,
     Old!UpdateAccepted, OldP!UpdateAccepted
<1>8. Old!CreateObject => OldP!CreateObject
  BY <1>0, <1>1, <1>2, <1>7, SameApply
  DEF Old!CreateObject, OldP!CreateObject, Old!ObjectCreated, OldP!ObjectCreated
<1>9. Old!UpdateObject => OldP!UpdateObject
  BY <1>0, <1>1, <1>2, <1>7, SameApply
  DEF Old!UpdateObject, OldP!UpdateObject, Old!ObjectUpdated, OldP!ObjectUpdated
<1>10. Old!WriteRefused => OldP!WriteRefused
  BY <1>7 DEF Old!WriteRefused, OldP!WriteRefused
<1> USE DEF Old!StatusChanged, OldP!StatusChanged, Old!StatusCurrent,
            OldP!StatusCurrent, Old!SetDeploymentGeneration,
            OldP!SetDeploymentGeneration
<1>11. Old!GetStatusUnchanged => OldP!GetStatusUnchanged
  BY DEF Old!GetStatusUnchanged, OldP!GetStatusUnchanged
<1>12. Old!GetStatusToWrite => OldP!GetStatusToWrite
  BY DEF Old!GetStatusToWrite, OldP!GetStatusToWrite
<1>13. Old!UpdateStatus => OldP!UpdateStatus
  BY DEF Old!UpdateStatus, OldP!UpdateStatus, Old!StatusUpdated,
     OldP!StatusUpdated, Old!Notify, OldP!Notify
<1>14. Old!UpdateStatusRetry => OldP!UpdateStatusRetry
  BY DEF Old!UpdateStatusRetry, OldP!UpdateStatusRetry
<1>15. Old!UpdateStatusFails => OldP!UpdateStatusFails
  BY DEF Old!UpdateStatusFails, OldP!UpdateStatusFails
<1>16. QED
  BY <1>3, <1>4, <1>5, <1>6, <1>8, <1>9, <1>10, <1>11, <1>12, <1>13, <1>14, <1>15
  DEF Old!sync, OldP!sync

(***************************************************************************)
(* What the constants are assumed to be, in the words of OldP, and the     *)
(* lemmas about the deposed process.                                       *)
(***************************************************************************)
LEMMA OldAssumptions ==
    /\ SyncOrder \in Seq(OldP!Range(OldP!FullSyncOrder))
    /\ \A i, j \in DOMAIN SyncOrder :
          i < j => OldP!Position(SyncOrder[i]) < OldP!Position(SyncOrder[j])
    /\ {"NetworkPolicy", "Deployment"} \subseteq OldP!Resources
    /\ Steps \in Nat \ {0}
    /\ Configs \subseteq [release : STRING, image : STRING, http : BOOLEAN]
    /\ NoObj \notin OldP!Objects
    /\ NoCR \notin OldP!CRs
    /\ NoHash \notin OldP!Intents
<1>1. OldP!Range(OldP!FullSyncOrder) = Range(FullSyncOrder)
  BY DEF OldP!Range, Range, OldP!FullSyncOrder, FullSyncOrder
<1>2. \A r : OldP!Position(r) = Position(r)
  BY DEF OldP!Position, Position, OldP!FullSyncOrder, FullSyncOrder
<1>3. OldP!Intents = Intents
  BY DEF OldP!Intents, Intents, OldP!Manifests, Manifests, OldP!OperandImage,
     OperandImage
<1>4. /\ SyncOrder \in Seq(OldP!Range(OldP!FullSyncOrder))
      /\ \A i, j \in DOMAIN SyncOrder :
            i < j => OldP!Position(SyncOrder[i]) < OldP!Position(SyncOrder[j])
      /\ {"NetworkPolicy", "Deployment"} \subseteq OldP!Resources
  BY <1>1, <1>2, SameValues, SyncOrderAssumption, Zenon
<1>5. QED
  BY <1>3, <1>4, SameValues, StepsAssumption, ConfigsAssumption, NoValueAssumption,
     Zenon

LEMMA OldNext ==
    ASSUME OldP!TypeOK, OldP!SyncInv, OldP!ReadInv, OldP!sync
    PROVE  OldP!TypeOK' /\ OldP!SyncInv' /\ OldP!ReadInv'
<1>1. [OldP!Next]_(OldP!vars)
  BY DEF OldP!Next, OldP!Process, OldP!processNextWorkItem
<1>2. OldP!TypeOK'
  BY <1>1, OldAssumptions, OldP!TypeStep, Zenon
<1>3. OldP!SyncInv'
  BY <1>1, OldAssumptions, OldP!SyncStep, Zenon
<1>4. OldP!ReadInv'
  BY <1>1, OldAssumptions, OldP!ReadStep, Zenon
<1>5. QED
  BY <1>2, <1>3, <1>4

LEMMA OldSeen ==
    ASSUME OldP!TypeOK, OldP!SyncInv, OldP!ReadInv, OldP!sync
    PROVE  /\ OldP!Newer
           /\ UNCHANGED <<up, queued, dirty, processing, edits, faults>>
           /\ pending \subseteq pending'
           /\ up /\ cr' # cr => "CliManager" \in pending'
           /\ up /\ obj'["NetworkPolicy"] # obj["NetworkPolicy"] =>
                "NetworkPolicy" \in pending'
BY OldAssumptions, OldP!SyncSeen, Zenon

LEMMA OldUnharming ==
    ASSUME OldP!TypeOK, OldP!SyncInv, OldP!ReadInv, OldP!sync
    PROVE  OldP!MetadataUnharmed
<1>1. OldP!processNextWorkItem \/ OldP!ReplyLost
  BY DEF OldP!processNextWorkItem
<1>2. QED
  BY <1>1, OldAssumptions, OldP!WorkerUnharming, Zenon

LEMMA OldReads ==
    ASSUME OldP!TypeOK, OldP!TypeOK', OldP!SyncInv, OldP!ReadInv,
           UNCHANGED <<oldPc, oldSeen, oldStep>>, OldP!Newer
    PROVE  OldP!ReadInv'
BY OldAssumptions, OldP!ReadEnv, Zenon

-----------------------------------------------------------------------------
(***************************************************************************)
(* The inductive invariant: that of the new process, and of the deposed    *)
(* one what its writes depend on, the types and the settings of its locals *)
(* and that what it has read is the live object or is older.               *)
(***************************************************************************)
OldInv ==
    /\ OldP!TypeOK
    /\ OldP!SyncInv
    /\ OldP!ReadInv

HandoverInv ==
    /\ TypeOK
    /\ ReconcileInv
    /\ OldInv

LEMMA SameNewer == OldP!Newer <=> Newer
BY SameValues DEF OldP!Newer, Newer, OldP!NewerVersion, NewerVersion

(***************************************************************************)
(* The deposed process during steps of the new one.                        *)
(***************************************************************************)
LEMMA OldTypeKept ==
    ASSUME TypeOK', OldP!TypeOK, UNCHANGED oldVars
    PROVE  OldP!TypeOK'
<1>1. UNCHANGED <<oldPc, oldCfg, oldStep, oldSnap, oldSeen, oldDep, oldGot, oldTries,
                  oldDelayed, oldTouched>>
  BY DEF oldVars, oldLocal
<1>2. /\ cr' \in OldP!CRs \cup {NoCR}
      /\ obj' \in [OldP!Resources -> OldP!Objects \cup {NoObj}]
      /\ uids' \in [OldP!Names -> Nat]
      /\ pending' \in SUBSET OldP!Informers
      /\ edits' \in Nat /\ faults' \in Nat
  BY SameValues DEF TypeOK
<1>3. /\ up' \in BOOLEAN /\ queued' \in BOOLEAN /\ dirty' \in BOOLEAN
      /\ processing' \in BOOLEAN
  BY DEF TypeOK
<1>4. QED
  BY <1>1, <1>2, <1>3 DEF OldP!TypeOK

LEMMA OldKept ==
    ASSUME TypeOK', OldInv, UNCHANGED oldVars, Newer
    PROVE  OldInv'
<1>1. UNCHANGED <<oldPc, oldStep, oldSnap, oldSeen, oldDep, oldGot, oldTries>>
  BY DEF oldVars, oldLocal
<1>2. OldP!TypeOK'
  BY OldTypeKept DEF OldInv
<1>3. OldP!SyncInv'
  BY <1>1 DEF OldInv, OldP!SyncInv, OldP!InFlight
<1>4. OldP!ReadInv'
  BY <1>1, <1>2, SameNewer, OldReads DEF OldInv
<1>5. QED
  BY <1>2, <1>3, <1>4 DEF OldInv

LEMMA NewStep ==
    ASSUME HandoverInv, [Next]_vars, UNCHANGED oldVars
    PROVE  HandoverInv'
<1>0. TypeOK /\ SyncInv /\ ReadInv
  BY DEF HandoverInv, ReconcileInv
<1>1. TypeOK'
  BY <1>0, TypeStep
<1>2. ReconcileInv'
  BY ReconcileStep DEF HandoverInv
<1>3. OldInv'
  BY <1>0, <1>1, StepNewer, OldKept DEF HandoverInv
<1>4. QED
  BY <1>1, <1>2, <1>3 DEF HandoverInv

(***************************************************************************)
(* To the new process, losing the lease is a crash; the locals live on in  *)
(* the deposed process.                                                    *)
(***************************************************************************)
LEMMA LoseLeaseStep ==
    ASSUME HandoverInv, LoseLease
    PROVE  HandoverInv'
<1>0. TypeOK /\ SyncInv /\ ReadInv /\ OldP!TypeOK
  BY DEF HandoverInv, ReconcileInv, OldInv
<1>1. Crash
  BY DEF LoseLease, Crash
<1>2. [Next]_vars
  BY <1>1 DEF Next, Failure
<1>3. TypeOK' /\ ReconcileInv'
  BY <1>0, <1>2, TypeStep, ReconcileStep DEF HandoverInv
<1>4. /\ oldPc' = (IF pc = "idle" THEN "done" ELSE pc) /\ oldCfg' = cfg /\ oldStep' = step /\ oldSnap' = snap
      /\ oldSeen' = seen /\ oldDep' = dep /\ oldGot' = got /\ oldTries' = tries
      /\ UNCHANGED <<oldDelayed, oldTouched, cr, obj, uids>>
  BY DEF LoseLease, cluster
<1>5. OldP!TypeOK'
  <2>1. /\ cr' \in OldP!CRs \cup {NoCR}
        /\ obj' \in [OldP!Resources -> OldP!Objects \cup {NoObj}]
        /\ uids' \in [OldP!Names -> Nat]
        /\ pending' \in SUBSET OldP!Informers
        /\ edits' \in Nat /\ faults' \in Nat
    BY <1>3, SameValues DEF TypeOK
  <2>2. /\ up' \in BOOLEAN /\ queued' \in BOOLEAN /\ dirty' \in BOOLEAN
        /\ processing' \in BOOLEAN
    BY <1>3 DEF TypeOK
  <2>3. oldDelayed' \in BOOLEAN /\ oldTouched' \in SUBSET OldP!Resources
    BY <1>0, <1>4 DEF OldP!TypeOK
  <2>4. /\ oldCfg' \in Configs /\ oldPc' \in OldP!PCs
        /\ oldStep' \in 0 .. Len(SyncOrder) + 1 /\ oldTries' \in 0 .. Steps
        /\ oldSnap' \in OldP!CRs \cup {NoCR} /\ oldGot' \in OldP!CRs \cup {NoCR}
        /\ oldSeen' \in OldP!Objects \cup {NoObj}
        /\ oldDep' \in OldP!Objects \cup {NoObj}
    BY <1>0, <1>4, SameValues DEF TypeOK, PCs
  <2>5. QED
    BY <2>1, <2>2, <2>3, <2>4 DEF OldP!TypeOK
<1>6. OldP!SyncInv'
  BY <1>0, <1>4 DEF OldP!SyncInv, OldP!InFlight, SyncInv, InFlight
<1>7. OldP!ReadInv'
  BY <1>0, <1>4, SameValues DEF OldP!ReadInv, ReadInv, OldP!Operand, Operand
<1>8. QED
  BY <1>3, <1>5, <1>6, <1>7 DEF HandoverInv, OldInv

LEMMA OldExitStep ==
    ASSUME HandoverInv, OldExit
    PROVE  HandoverInv'
<1>0. TypeOK /\ ReconcileInv /\ OldP!TypeOK /\ OldP!ReadInv
  BY DEF HandoverInv, OldInv
<1>1. /\ UNCHANGED vars /\ oldPc' = "idle" /\ oldStep' = 0 /\ oldSnap' = NoCR
      /\ oldSeen' = NoObj /\ oldDep' = NoObj /\ oldGot' = NoCR /\ oldTries' = 0
      /\ UNCHANGED <<oldCfg, oldDelayed, oldTouched>>
  BY DEF OldExit, OldReset
<1>2. TypeOK' /\ ReconcileInv'
  BY <1>0, <1>1, TypeStep, ReconcileStep DEF ReconcileInv
<1>3. OldP!TypeOK'
  <2>1. /\ cr' = cr /\ obj' = obj /\ uids' = uids /\ pending' = pending
        /\ edits' = edits /\ faults' = faults /\ up' = up /\ queued' = queued
        /\ dirty' = dirty /\ processing' = processing
    BY <1>1 DEF vars, cluster, queue
  <2>2. oldPc' \in OldP!PCs
    BY <1>1 DEF OldP!PCs
  <2>3. oldStep' \in 0 .. Len(SyncOrder) + 1 /\ oldTries' \in 0 .. Steps
    BY <1>1, StepsAssumption, OrderFacts
  <2>4. QED
    BY <1>0, <1>1, <2>1, <2>2, <2>3 DEF OldP!TypeOK
<1>4. OldP!SyncInv'
  BY <1>1 DEF OldP!SyncInv, OldP!InFlight
<1>5. OldP!ReadInv'
  BY <1>0, <1>1 DEF OldP!ReadInv, vars, cluster
<1>6. QED
  BY <1>2, <1>3, <1>4, <1>5 DEF HandoverInv, OldInv

LEMMA OldGetStep ==
    ASSUME HandoverInv, OldGet
    PROVE  HandoverInv'
<1>0. TypeOK /\ ReconcileInv /\ OldP!TypeOK /\ OldP!ReadInv
  BY DEF HandoverInv, OldInv
<1>1. /\ UNCHANGED vars /\ oldPc' = "fetch" /\ oldStep' = 0 /\ oldSnap' = NoCR
      /\ oldSeen' = NoObj /\ oldDep' = NoObj /\ oldGot' = NoCR /\ oldTries' = 0
      /\ UNCHANGED <<oldCfg, oldDelayed, oldTouched>>
  BY DEF OldGet, OldReset
<1>2. TypeOK' /\ ReconcileInv'
  BY <1>0, <1>1, TypeStep, ReconcileStep DEF ReconcileInv
<1>3. OldP!TypeOK'
  <2>1. /\ cr' = cr /\ obj' = obj /\ uids' = uids /\ pending' = pending
        /\ edits' = edits /\ faults' = faults /\ up' = up /\ queued' = queued
        /\ dirty' = dirty /\ processing' = processing
    BY <1>1 DEF vars, cluster, queue
  <2>2. oldPc' \in OldP!PCs
    BY <1>1 DEF OldP!PCs
  <2>3. oldStep' \in 0 .. Len(SyncOrder) + 1 /\ oldTries' \in 0 .. Steps
    BY <1>1, StepsAssumption, OrderFacts
  <2>4. QED
    BY <1>0, <1>1, <2>1, <2>2, <2>3 DEF OldP!TypeOK
<1>4. OldP!SyncInv'
  BY <1>1 DEF OldP!SyncInv, OldP!InFlight
<1>5. OldP!ReadInv'
  BY <1>0, <1>1 DEF OldP!ReadInv, vars, cluster
<1>6. QED
  BY <1>2, <1>3, <1>4, <1>5 DEF HandoverInv, OldInv

(***************************************************************************)
(* The new process during a step of the deposed one.                       *)
(***************************************************************************)
LEMMA OldSyncEffect ==
    ASSUME HandoverInv, OldSync
    PROVE  EnvEffect
<1>1. OldP!sync /\ OldP!TypeOK /\ OldP!SyncInv /\ OldP!ReadInv
  BY SameSync DEF OldSync, HandoverInv, OldInv
<1>2. /\ OldP!Newer
      /\ UNCHANGED <<up, queued, dirty, processing, edits, faults>>
      /\ pending \subseteq pending'
      /\ up /\ cr' # cr => "CliManager" \in pending'
      /\ up /\ obj'["NetworkPolicy"] # obj["NetworkPolicy"] =>
           "NetworkPolicy" \in pending'
  BY <1>1, OldSeen
<1>3. UNCHANGED <<cfg, pc, step, snap, seen, dep, got, tries, delayed>>
  BY DEF OldSync, Observed, local
<1>4. touched' = IF up THEN touched \cup {r \in Resources : obj'[r] # obj[r]}
                       ELSE touched
  BY DEF OldSync, Observed
<1>5. /\ touched \subseteq touched'
      /\ ~up => touched' = touched
      /\ \A r \in Resources : up /\ obj'[r] # obj[r] => r \in touched'
      /\ \A r : r \in touched' \ touched => up /\ obj'[r] # obj[r]
  BY <1>4
<1>6. "NetworkPolicy" \in touched' \ touched => "NetworkPolicy" \in pending'
  BY <1>2, <1>5
<1>7. QED
  BY <1>2, <1>3, <1>5, <1>6, SameNewer DEF EnvEffect

LEMMA OldSyncStep ==
    ASSUME HandoverInv, OldSync
    PROVE  HandoverInv'
<1>0. /\ TypeOK /\ ReconcileInv /\ OldP!TypeOK /\ OldP!SyncInv /\ OldP!ReadInv
      /\ OldP!sync
  BY SameSync DEF OldSync, HandoverInv, OldInv
<1>1. OldP!TypeOK' /\ OldP!SyncInv' /\ OldP!ReadInv'
  BY <1>0, OldNext
<1>2. EnvEffect
  BY OldSyncEffect
<1>3. TypeOK'
  <2>1. /\ cr' \in CRs \cup {NoCR}
        /\ obj' \in [Resources -> Objects \cup {NoObj}]
        /\ uids' \in [Names -> Nat]
        /\ pending' \in SUBSET Informers
        /\ edits' \in Nat /\ faults' \in Nat
    BY <1>1, SameValues DEF OldP!TypeOK
  <2>2. UNCHANGED <<up, cfg, pc, step, snap, seen, dep, got, tries,
                    queued, dirty, processing, delayed>>
    BY <1>2 DEF EnvEffect
  <2>3. touched' \in SUBSET Resources
    BY <1>0 DEF TypeOK, OldSync, Observed
  <2>4. QED
    BY <1>0, <2>1, <2>2, <2>3 DEF TypeOK
<1>4. ReconcileInv'
  <2>0. /\ QueueInv /\ SyncInv /\ ReadInv /\ SnapInv /\ ProgressInv
        /\ FinishedInv /\ WatchInv
    BY <1>0 DEF ReconcileInv
  <2>1. QueueInv' /\ SnapInv' /\ FinishedInv' /\ WatchInv'
    BY <1>2, <2>0, QueueEnv, SnapEnv, FinishedEnv, WatchEnv
  <2>2. UNCHANGED <<pc, step, snap, seen, dep, got, tries>> /\ Newer
    BY <1>2 DEF EnvEffect
  <2>3. SyncInv'
    BY <2>0, <2>2, SyncEnv
  <2>4. ReadInv'
    BY <1>0, <1>3, <2>0, <2>2, ReadEnv
  <2>5. ProgressInv'
    BY <1>0, <1>2, <2>0, ProgressEnv
  <2>6. QED
    BY <2>1, <2>3, <2>4, <2>5 DEF ReconcileInv
<1>5. QED
  BY <1>1, <1>3, <1>4 DEF HandoverInv, OldInv

-----------------------------------------------------------------------------
LEMMA HandoverInvInit == HandoverInit => HandoverInv
<1> SUFFICES ASSUME HandoverInit PROVE HandoverInv
  OBVIOUS
<1>1. TypeOK /\ ReconcileInv
  BY TypeInit, ReconcileInit DEF HandoverInit
<1>2. /\ oldPc = "idle" /\ oldCfg = cfg /\ oldStep = step /\ oldSnap = snap
      /\ oldSeen = seen /\ oldDep = dep /\ oldGot = got /\ oldTries = tries
      /\ oldDelayed = TRUE /\ oldTouched = {}
  BY DEF HandoverInit
<1>3. OldP!TypeOK
  <2>1. /\ cr \in OldP!CRs \cup {NoCR}
        /\ obj \in [OldP!Resources -> OldP!Objects \cup {NoObj}]
        /\ uids \in [OldP!Names -> Nat]
        /\ pending \in SUBSET OldP!Informers
        /\ edits \in Nat /\ faults \in Nat
    BY <1>1, SameValues DEF TypeOK
  <2>2. /\ up \in BOOLEAN /\ queued \in BOOLEAN /\ dirty \in BOOLEAN
        /\ processing \in BOOLEAN
    BY <1>1 DEF TypeOK
  <2>3. oldDelayed \in BOOLEAN
    BY <1>2
  <2>4. oldTouched \in SUBSET OldP!Resources /\ oldPc \in OldP!PCs
    BY <1>2 DEF OldP!PCs
  <2>5. /\ oldCfg \in Configs
        /\ oldStep \in 0 .. Len(SyncOrder) + 1 /\ oldTries \in 0 .. Steps
        /\ oldSnap \in OldP!CRs \cup {NoCR} /\ oldGot \in OldP!CRs \cup {NoCR}
        /\ oldSeen \in OldP!Objects \cup {NoObj}
        /\ oldDep \in OldP!Objects \cup {NoObj}
    BY <1>1, <1>2, SameValues DEF TypeOK
  <2>6. QED
    BY <2>1, <2>2, <2>3, <2>4, <2>5 DEF OldP!TypeOK
<1>4. OldP!SyncInv
  BY <1>2 DEF OldP!SyncInv, OldP!InFlight
<1>5. OldP!ReadInv
  BY <1>1, <1>2, SameValues DEF OldP!ReadInv, ReconcileInv, ReadInv
<1>6. QED
  BY <1>1, <1>3, <1>4, <1>5 DEF HandoverInv, OldInv

LEMMA HandoverInvStep == HandoverInv /\ [HandoverNext]_allVars => HandoverInv'
<1> SUFFICES ASSUME HandoverInv, [HandoverNext]_allVars
             PROVE  HandoverInv'
  OBVIOUS
<1>1. CASE UNCHANGED allVars
  <2>1. [Next]_vars /\ UNCHANGED oldVars
    BY <1>1 DEF allVars
  <2>2. QED
    BY <2>1, NewStep
<1>2. CASE Next /\ UNCHANGED oldVars
  BY <1>2, NewStep
<1>3. QED
  BY <1>1, <1>2, LoseLeaseStep, OldExitStep, OldGetStep,
     OldSyncStep DEF HandoverNext, Deposed

(***************************************************************************)
(* While a deposed process still runs its sync, however often, the         *)
(* inductive invariant of the new process holds: a write of the other      *)
(* process is noticed, or the operand counts as touched by others.         *)
(***************************************************************************)
THEOREM ReconcilingDuringHandover == HandoverSpec => []ReconcileInv
<1>1. HandoverInv => ReconcileInv
  BY DEF HandoverInv
<1>2. QED
  BY <1>1, HandoverInvInit, HandoverInvStep, PTL DEF HandoverSpec

(***************************************************************************)
(* So the controller rests only when everything is reconciled, also when a *)
(* deposed process wrote behind its back: every operand that neither that  *)
(* process nor anyone else has changed since the last sync began is as the *)
(* live CliManager and the new release require.                            *)
(***************************************************************************)
THEOREM NothingLostDuringHandover == HandoverSpec => []QuiescentReconciled
BY RestReconciled, ReconcilingDuringHandover, PTL

(***************************************************************************)
(* Neither process, whichever release it is of and however the GETs and    *)
(* PUTs of the two interleave, loses what others wrote to the metadata of  *)
(* an operand or replaces an incarnation of one.                           *)
(***************************************************************************)
THEOREM MetadataKeptDuringHandover == HandoverSpec => MetadataKeptByBoth
<1>1. ASSUME HandoverInv, OldSync \/ processNextWorkItem \/ ReplyLost
      PROVE  MetadataUnharmed
  <2>1. CASE processNextWorkItem \/ ReplyLost
    BY <1>1, <2>1, WorkerUnharming DEF HandoverInv, ReconcileInv
  <2>2. CASE OldSync
    <3>1. OldP!sync /\ OldP!TypeOK /\ OldP!SyncInv /\ OldP!ReadInv
      BY <1>1, <2>2, SameSync DEF OldSync, HandoverInv, OldInv
    <3>2. OldP!MetadataUnharmed
      BY <3>1, OldUnharming
    <3>3. QED
      BY <3>2, SameValues DEF OldP!MetadataUnharmed, MetadataUnharmed
  <2>3. QED
    BY <1>1, <2>1, <2>2
<1>2. HandoverInv /\ [HandoverNext]_allVars
        => [OldSync \/ processNextWorkItem \/ ReplyLost => MetadataUnharmed]_allVars
  BY <1>1
<1>3. QED
  BY <1>2, HandoverInvInit, HandoverInvStep, PTL
  DEF HandoverSpec, MetadataKeptByBoth, MetadataUnharmed
=============================================================================
