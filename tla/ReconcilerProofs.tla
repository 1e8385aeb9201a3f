-------------------------- MODULE ReconcilerProofs --------------------------
(***************************************************************************)
(* Proofs about TargetConfigReconciler, for every instance: any operands   *)
(* in sync's order, any configurations, any number of edits and failures.  *)
(***************************************************************************)
EXTENDS TargetConfigReconciler, TLAPS

Kinds ==
    {"NetworkPolicy", "ClusterRole", "ClusterRoleBinding", "Role",
     "RoleBinding", "Deployment", "Route", "Service", "ServiceMetrics",
     "ServiceAccount", "ServiceMonitor"}

(***************************************************************************)
(* SyncOrder is a sequence of the kinds sync manages, and Resources is     *)
(* what it contains.                                                       *)
(***************************************************************************)
LEMMA OrderFacts ==
    /\ Len(SyncOrder) \in Nat
    /\ \A i \in 1 .. Len(SyncOrder) : SyncOrder[i] \in Resources
    /\ \A r \in Resources : \E i \in 1 .. Len(SyncOrder) : SyncOrder[i] = r
    /\ Resources \subseteq Kinds
    /\ "NetworkPolicy" \in Resources
    /\ "Deployment" \in Resources
    /\ "CliManager" \notin Resources
<1>1. Range(FullSyncOrder) \subseteq Kinds
  <2>1. SUFFICES ASSUME NEW i \in DOMAIN FullSyncOrder
                 PROVE  FullSyncOrder[i] \in Kinds
    BY DEF Range
  <2>2. i \in 1 .. 11
    BY DEF FullSyncOrder
  <2>3. QED
    BY <2>2 DEF FullSyncOrder, Kinds
<1>2. SyncOrder \in Seq(Kinds)
  BY <1>1, SyncOrderAssumption
<1>3. /\ Len(SyncOrder) \in Nat
      /\ DOMAIN SyncOrder = 1 .. Len(SyncOrder)
      /\ \A i \in 1 .. Len(SyncOrder) : SyncOrder[i] \in Kinds
  BY <1>2
<1>4. Resources \subseteq Kinds
  BY <1>3 DEF Resources, Range
<1>5. QED
  BY <1>3, <1>4, SyncOrderAssumption DEF Resources, Range, Kinds

Bodies ==
    [owner : Nat, hash : Intents \cup {NoHash},
     spec : [intent : Intents, drift : SUBSET {"compared", "hidden", "roleRef"}]]

(***************************************************************************)
(* The manage... functions return an object of the operand's type.         *)
(***************************************************************************)
LEMMA RequiredType ==
    ASSUME NEW r \in Resources, NEW c \in CRs, NEW g \in Configs
    PROVE  /\ Required(r, c, g) \in Bodies
           /\ Required(r, c, g).spec.drift = {}
<1> USE ConfigsAssumption
<1>0. r \in Kinds
  BY OrderFacts
<1>1. /\ g.release \in Manifests
      /\ "" \in Manifests
      /\ g.http \in BOOLEAN
      /\ OperandImage(g) \in {OperandImage(h) : h \in Configs} \cup {""}
      /\ "" \in {OperandImage(h) : h \in Configs} \cup {""}
  BY DEF Manifests
<1>2. Verbosity(c.logLevel) \in {0, 2, 4, 6, 8}
  BY DEF Verbosity
<1>3. manageDeployments(c, g) \in Intents
  BY <1>1, <1>2 DEF manageDeployments, Intents
<1>4. manageRoute(g) \in Intents
  BY <1>1 DEF manageRoute, manifest, Intents
<1>5. manifest(g.release) \in Intents /\ manifest("") \in Intents
  BY <1>1 DEF manifest, Intents
<1>6. Intent(r, c, g) \in Intents
  BY <1>0, <1>3, <1>4, <1>5
  DEF Intent, Kinds, Services, RBAC, Bindings, manageServiceAccount,
      manageServices, manageRBAC, manageServiceMonitor,
      manageOperandNetworkPolicyAllow
<1>7. Hash(r, Intent(r, c, g)) \in Intents \cup {NoHash}
  BY <1>6 DEF Hash
<1>8. OwnerReference(c) \in Nat
  BY DEF OwnerReference, CRs
<1>9. QED
  BY <1>6, <1>7, <1>8 DEF Required, Bodies

(***************************************************************************)
(* What the API server stores is of the operand's type.                    *)
(***************************************************************************)
LEMMA CreatedType ==
    ASSUME NEW b \in Bodies, NEW u \in Nat
    PROVE  /\ Created(b, u) \in Objects
           /\ Created(b, u) # NoObj
BY NoValueAssumption DEF Bodies, Created, Objects

LEMMA StoredType ==
    ASSUME NEW o \in Objects, NEW n \in Objects
    PROVE  Stored(o, n) \in Objects
<1>1. CASE n = o
  BY <1>1 DEF Stored
<1>2. CASE n # o
  <2>1. o.rv + 1 \in Nat /\ (IF n.spec = o.spec THEN o.gen ELSE o.gen + 1) \in Nat
    BY DEF Objects
  <2>2. \A v \in Nat, w \in Nat : [n EXCEPT !.rv = v, !.gen = w] \in Objects
    BY DEF Objects
  <2>3. QED
    BY <1>2, <2>1, <2>2 DEF Stored
<1>3. QED
  BY <1>1, <1>2

LEMMA OthersWriteType ==
    ASSUME NEW o \in Objects
    PROVE  /\ o.uid \in Nat /\ o.rv \in Nat /\ o.gen \in Nat
           /\ [o EXCEPT !.rv = @ + 1, !.note = @ + 1] \in Objects
           /\ [o EXCEPT !.rv = @ + 1, !.owner = 0, !.hash = NoHash] \in Objects
           /\ \A d \in SUBSET {"compared", "hidden", "roleRef"} :
                [o EXCEPT !.rv = @ + 1, !.gen = @ + 1, !.spec.drift = d] \in Objects
<1>1. /\ o.rv + 1 \in Nat /\ o.gen + 1 \in Nat /\ o.note + 1 \in Nat
      /\ NoHash \in Intents \cup {NoHash}
      /\ o.uid \in Nat /\ o.rv \in Nat /\ o.gen \in Nat
  BY DEF Objects
<1>2. \A v \in Nat, w \in Nat : [o EXCEPT !.rv = v, !.note = w] \in Objects
  BY DEF Objects
<1>3. \A v \in Nat, w \in Nat, h \in Intents \cup {NoHash} :
        [o EXCEPT !.rv = v, !.owner = w, !.hash = h] \in Objects
  BY DEF Objects
<1>4. \A v \in Nat, w \in Nat, d \in SUBSET {"compared", "hidden", "roleRef"} :
        [o EXCEPT !.rv = v, !.gen = w, !.spec.drift = d] \in Objects
  BY DEF Objects
<1>5. QED
  BY <1>1, <1>2, <1>3, <1>4

LEMMA CRWriteType ==
    /\ \A l \in LogLevels, m \in MgmtStates, u \in Nat :
         [uid |-> u, rv |-> 1, logLevel |-> l, mgmt |-> m, lastGen |-> -1] \in CRs
    /\ \A c \in CRs, l \in LogLevels, m \in MgmtStates :
         [c EXCEPT !.rv = @ + 1, !.logLevel = l, !.mgmt = m] \in CRs
    /\ \A c \in CRs, g \in Int :
         [[c EXCEPT !.lastGen = g] EXCEPT !.rv = @ + 1] \in CRs
<1>1. \A c \in CRs : c.rv + 1 \in Nat
  BY DEF CRs
<1>2. \A c \in CRs, l \in LogLevels, m \in MgmtStates, v \in Nat :
         [c EXCEPT !.rv = v, !.logLevel = l, !.mgmt = m] \in CRs
  BY DEF CRs
<1>3. \A c \in CRs, g \in Int : [c EXCEPT !.lastGen = g] \in CRs
  BY DEF CRs
<1>4. \A c \in CRs, v \in Nat : [c EXCEPT !.rv = v] \in CRs
  BY DEF CRs
<1>5. \A l \in LogLevels, m \in MgmtStates, u \in Nat :
         [uid |-> u, rv |-> 1, logLevel |-> l, mgmt |-> m, lastGen |-> -1] \in CRs
  BY DEF CRs
<1>6. QED
  BY <1>1, <1>2, <1>3, <1>4, <1>5

LEMMA ToWriteType ==
    ASSUME NEW r, NEW o \in Objects, NEW b \in Bodies
    PROVE  toWrite(r, o, b) \in Objects
BY DEF toWrite, EnsureObjectMeta, Objects, Bodies

(***************************************************************************)
(* An object with the required metadata and content is in sync with its    *)
(* own generation; so is what the Apply functions create and update.       *)
(***************************************************************************)
LEMMA InSyncIntro ==
    ASSUME NEW r, NEW o \in Objects, NEW b \in Bodies,
           o.owner = b.owner,
           b.hash = NoHash \/ o.hash = b.hash,
           r = "ServiceAccount" \/ o.spec = b.spec,
           b.spec.drift = {}
    PROVE  InSync(r, o, b, o.gen)
<1>1. EnsureObjectMeta(o, b) = o
  BY DEF EnsureObjectMeta, Objects
<1>2. SpecSame(r, o, b, o.gen)
  BY DEF SpecSame, generationSame, selectorAndTypeSame, contentSame, Services
<1>3. QED
  BY <1>1, <1>2 DEF InSync

LEMMA CreatedInSync ==
    ASSUME NEW r, NEW b \in Bodies, NEW u \in Nat, b.spec.drift = {}
    PROVE  InSync(r, Created(b, u), b, Created(b, u).gen)
<1>1. Created(b, u) \in Objects
  BY CreatedType
<1>2. /\ Created(b, u).owner = b.owner
      /\ Created(b, u).hash = b.hash
      /\ Created(b, u).spec = b.spec
  BY DEF Created
<1>3. QED
  BY <1>1, <1>2, InSyncIntro

LEMMA StoredInSync ==
    ASSUME NEW r, NEW o \in Objects, NEW b \in Bodies, b.spec.drift = {}
    PROVE  InSync(r, Stored(o, toWrite(r, o, b)), b, Stored(o, toWrite(r, o, b)).gen)
<1> DEFINE w == toWrite(r, o, b)
<1>1. w \in Objects
  BY ToWriteType
<1>2. /\ w.owner = b.owner
      /\ b.hash = NoHash \/ w.hash = b.hash
      /\ r = "ServiceAccount" \/ w.spec = b.spec
  BY DEF toWrite, EnsureObjectMeta, Objects, Bodies
<1>3. /\ Stored(o, w) \in Objects
      /\ Stored(o, w).owner = w.owner
      /\ Stored(o, w).hash = w.hash
      /\ Stored(o, w).spec = w.spec
  <2> HIDE DEF w
  <2>1. CASE w = o
    BY <2>1, <1>1 DEF Stored
  <2>2. CASE w # o
    BY <2>2, <1>1, StoredType DEF Stored, Objects
  <2>3. QED
    BY <2>1, <2>2
<1>4. QED
  <2> HIDE DEF w
  <2>1. InSync(r, Stored(o, w), b, Stored(o, w).gen)
    BY <1>2, <1>3, InSyncIntro
  <2>2. QED
    BY <2>1 DEF w

(***************************************************************************)
(* A PUT of the merged object keeps the incarnation and what others wrote, *)
(* and gives the object a new version unless it changes nothing.           *)
(***************************************************************************)
LEMMA StoredKeeps ==
    ASSUME NEW r, NEW o \in Objects, NEW b \in Bodies
    PROVE  /\ Stored(o, toWrite(r, o, b)).uid = o.uid
           /\ Stored(o, toWrite(r, o, b)).note = o.note
<1> DEFINE w == toWrite(r, o, b)
<1>1. w \in Objects /\ w.uid = o.uid /\ w.note = o.note
  BY ToWriteType DEF toWrite, EnsureObjectMeta, Objects
<1> HIDE DEF w
<1>2. Stored(o, w).uid = o.uid /\ Stored(o, w).note = o.note
  <2>1. CASE w = o
    BY <2>1 DEF Stored
  <2>2. CASE w # o
    BY <2>2, <1>1 DEF Stored, Objects
  <2>3. QED
    BY <2>1, <2>2
<1>3. QED
  BY <1>2 DEF w

(***************************************************************************)
(* Only ApplyDeployment uses the recorded generation, and what is required *)
(* depends on no more of the CliManager than its uid and its log level.    *)
(***************************************************************************)
LEMMA InSyncAnyGeneration ==
    ASSUME NEW r, NEW o, NEW b, NEW g, NEW h, r # "Deployment",
           InSync(r, o, b, g)
    PROVE  InSync(r, o, b, h)
BY DEF InSync, SpecSame

LEMMA SameRequired ==
    ASSUME NEW r, NEW c, NEW d, NEW g, c.uid = d.uid, c.logLevel = d.logLevel
    PROVE  Required(r, c, g) = Required(r, d, g)
BY DEF Required, OwnerReference, Intent, manageDeployments

-----------------------------------------------------------------------------
(***************************************************************************)
(* Inside sync, Operand and what is required of it have their types.       *)
(***************************************************************************)
LEMMA OperandFacts ==
    ASSUME TypeOK, SyncInv, pc \in {"get", "write"}
    PROVE  /\ step \in 1 .. Len(SyncOrder)
           /\ Operand \in Resources
           /\ snap \in CRs
           /\ RequiredNow \in Bodies
           /\ RequiredNow.spec.drift = {}
           /\ obj[Operand] \in Objects \cup {NoObj}
<1>1. step \in 1 .. Len(SyncOrder) /\ snap \in CRs /\ cfg \in Configs
  BY DEF SyncInv, InFlight, TypeOK
<1>2. Operand \in Resources
  BY <1>1, OrderFacts DEF Operand
<1>3. RequiredNow \in Bodies /\ RequiredNow.spec.drift = {}
  BY <1>1, <1>2, RequiredType DEF RequiredNow
<1>4. QED
  BY <1>1, <1>2, <1>3 DEF TypeOK

LEMMA NotifyType ==
    ASSUME TypeOK, NEW r, NotifyOf(r) \/ Notify("CliManager")
    PROVE  pending' \in SUBSET Informers
BY DEF TypeOK, NotifyOf, Notify, Informers

(***************************************************************************)
(* The effects of the operator's writes on the cluster are well typed.     *)
(***************************************************************************)
LEMMA WriteType ==
    ASSUME TypeOK, SyncInv, pc = "write", ObjectCreated \/ ObjectUpdated
    PROVE  /\ obj' \in [Resources -> Objects \cup {NoObj}]
           /\ obj'[Operand] \in Objects
           /\ \A r \in Resources \ {Operand} : obj'[r] = obj[r]
           /\ uids' \in [Names -> Nat]
           /\ pending' \in SUBSET Informers
           /\ cr' = cr
<1>0. /\ Operand \in Resources /\ Operand \in Names
      /\ RequiredNow \in Bodies
      /\ obj \in [Resources -> Objects \cup {NoObj}]
      /\ uids \in [Names -> Nat]
      /\ seen \in Objects \cup {NoObj}
      /\ pending \in SUBSET Informers
  BY OperandFacts DEF TypeOK, Names
<1>1. CASE ObjectCreated
  <2>1. Created(RequiredNow, uids[Operand] + 1) \in Objects
    BY <1>0, CreatedType
  <2>2. pending' \in SUBSET Informers
    BY <1>1, NotifyType DEF ObjectCreated
  <2>3. QED
    BY <1>0, <1>1, <2>1, <2>2 DEF ObjectCreated
<1>2. CASE ObjectUpdated
  <2>1. seen \in Objects /\ obj[Operand] \in Objects
    BY <1>0, <1>2 DEF ObjectUpdated, UpdateAccepted, Current
  <2>2. Stored(obj[Operand], toWrite(Operand, seen, RequiredNow)) \in Objects
    BY <1>0, <2>1, ToWriteType, StoredType
  <2>3. pending' \in SUBSET Informers
    BY <1>0, <1>2, NotifyType DEF ObjectUpdated
  <2>4. QED
    BY <1>0, <1>2, <2>2, <2>3 DEF ObjectUpdated
<1>3. QED
  BY <1>1, <1>2

LEMMA StatusType ==
    ASSUME TypeOK, SyncInv, pc = "statusWrite", StatusUpdated
    PROVE  /\ cr' \in CRs
           /\ pending' \in SUBSET Informers
           /\ obj' = obj
           /\ uids' = uids
<1>1. cr \in CRs
  BY DEF TypeOK, StatusUpdated, StatusCurrent
<1>2. dep \in Objects
  <2>1. PICK i \in 1 .. Len(SyncOrder) : SyncOrder[i] = "Deployment"
    BY OrderFacts
  <2>2. step = Len(SyncOrder) + 1
    BY DEF SyncInv, InFlight
  <2>3. i \in 1 .. step - 1
    BY <2>2, OrderFacts
  <2>4. QED
    BY <2>1, <2>3 DEF SyncInv, InFlight, TypeOK
<1>3. cr' \in CRs
  <2>1. dep.gen \in Int
    BY <1>2 DEF Objects
  <2>2. QED
    BY <1>1, <2>1, CRWriteType DEF StatusUpdated, SetDeploymentGeneration
<1>4. QED
  BY <1>3, NotifyType DEF StatusUpdated

(***************************************************************************)
(* TypeOK is preserved; SyncInv supplies the types of sync's locals.       *)
(***************************************************************************)
LEMMA TypeStep ==
    TypeOK /\ SyncInv /\ [Next]_vars => TypeOK'
<1> SUFFICES ASSUME TypeOK, SyncInv, [Next]_vars
             PROVE  TypeOK'
  OBVIOUS
<1> USE DEF TypeOK, cluster, local, queue
<1>1. CASE UNCHANGED vars
  BY <1>1 DEF vars
<1>2. CASE Get
  BY <1>2 DEF Get, PCs
<1>0. 0 \in 0 .. Steps /\ 0 \in 0 .. Len(SyncOrder) + 1
  BY StepsAssumption, OrderFacts
<1>3. CASE Done
  BY <1>0, <1>3 DEF Done, PCs
<1>4. CASE GetCliManager
  BY <1>4, OrderFacts DEF GetCliManager, PCs
<1>5. CASE GetCliManagerNotFound
  BY <1>5 DEF GetCliManagerNotFound, Fail, AddRateLimited, PCs
<1>6. CASE GetUpToDate
  BY <1>6, OperandFacts, OrderFacts, StepsAssumption DEF GetUpToDate, Advance, PCs
<1>7. CASE GetToWrite
  BY <1>7, OperandFacts DEF GetToWrite, PCs
<1>8. CASE CreateObject
  BY <1>8, OperandFacts, WriteType, OrderFacts, StepsAssumption
  DEF CreateObject, Advance, PCs
<1>9. CASE UpdateObject
  BY <1>9, OperandFacts, WriteType, OrderFacts, StepsAssumption
  DEF UpdateObject, Advance, PCs
<1>10. CASE WriteRefused
  BY <1>10 DEF WriteRefused, Fail, AddRateLimited, PCs
<1>11. CASE GetStatusUnchanged
  BY <1>11 DEF GetStatusUnchanged, Succeed, PCs
<1>12. CASE GetStatusToWrite
  BY <1>12, StepsAssumption DEF GetStatusToWrite, SyncInv, InFlight, PCs
<1>13. CASE UpdateStatus
  BY <1>13, StatusType DEF UpdateStatus, Succeed, PCs
<1>14. CASE UpdateStatusRetry
  BY <1>14 DEF UpdateStatusRetry, PCs
<1>15. CASE UpdateStatusFails
  BY <1>15 DEF UpdateStatusFails, Fail, AddRateLimited, PCs
<1>16. ASSUME NEW i \in Informers, Deliver(i)
       PROVE  TypeOK'
  BY <1>16 DEF Deliver, Add
<1>17. CASE Backoff
  BY <1>17 DEF Backoff, Add
<1>18. CASE Resync
  BY <1>18 DEF Resync, Listed
<1>19. CASE RunOperator
  BY <1>19 DEF RunOperator, Listed
<1>20. CASE CallFails
  BY <1>20 DEF CallFails, Fail, AddRateLimited, PCs
<1>21. CASE ReplyLost
  BY <1>21, WriteType, StatusType DEF ReplyLost, Fail, AddRateLimited, PCs
<1>22. CASE Crash
  <2>1. pending' \in SUBSET Informers /\ touched' \in SUBSET Resources
    BY <1>22 DEF Crash, Reset
  <2>2. /\ pc' \in PCs /\ step' \in 0 .. Len(SyncOrder) + 1 /\ tries' \in 0 .. Steps
        /\ snap' \in CRs \cup {NoCR} /\ got' \in CRs \cup {NoCR}
        /\ seen' \in Objects \cup {NoObj} /\ dep' \in Objects \cup {NoObj}
    BY <1>0, <1>22 DEF Crash, Reset, PCs
  <2>3. /\ up' \in BOOLEAN /\ queued' \in BOOLEAN /\ dirty' \in BOOLEAN
        /\ processing' \in BOOLEAN /\ delayed' \in BOOLEAN
    BY <1>22 DEF Crash, Reset
  <2>4. cr' = cr /\ obj' = obj /\ uids' = uids /\ cfg' = cfg /\ edits' = edits
        /\ faults' \in Nat
    BY <1>22 DEF Crash
  <2>5. QED
    BY <2>1, <2>2, <2>3, <2>4
<1>23. CASE CreateCR
  <2>1. uids["CliManager"] + 1 \in Nat /\ uids' \in [Names -> Nat]
    BY <1>23 DEF CreateCR, Names
  <2>2. cr' \in CRs
    <3>1. PICK l \in LogLevels, m \in MgmtStates :
            cr' = [uid |-> uids["CliManager"] + 1, rv |-> 1, logLevel |-> l,
                   mgmt |-> m, lastGen |-> -1]
      BY <1>23 DEF CreateCR
    <3>2. QED
      BY <3>1, <2>1, CRWriteType
  <2>3. QED
    BY <1>23, <2>1, <2>2, NotifyType DEF CreateCR, Edit, Others
<1>24. CASE EditCR
  <2>1. cr \in CRs
    BY <1>24 DEF EditCR
  <2>2. cr' \in CRs
    <3>1. PICK l \in LogLevels, m \in MgmtStates :
            cr' = [cr EXCEPT !.rv = @ + 1, !.logLevel = l, !.mgmt = m]
      BY <1>24 DEF EditCR
    <3>2. QED
      BY <3>1, <2>1, CRWriteType
  <2>3. QED
    BY <1>24, <2>2, NotifyType DEF EditCR, Edit, Others
<1>25. CASE DeleteCR
  BY <1>25, NotifyType DEF DeleteCR, Edit, Others
<1>26. ASSUME NEW r \in Resources, NEW o \in Objects \cup {NoObj}, Put(r, o),
              cr' = cr, uids' \in [Names -> Nat], edits' \in Nat
       PROVE  TypeOK'
  BY <1>26, NotifyType DEF Put, Touch, Others
<1>27. ASSUME NEW r \in Resources, EditObject(r)
       PROVE  TypeOK'
  <2>1. obj[r] \in Objects
    BY <1>27 DEF EditObject
  <2>2. PICK f \in EditableFields(r), revert \in BOOLEAN :
          Put(r, [obj[r] EXCEPT !.rv = @ + 1, !.gen = @ + 1,
                                !.spec.drift = IF revert THEN @ \ {f}
                                                         ELSE @ \cup {f}])
    BY <1>27 DEF EditObject
  <2>3. (IF revert THEN obj[r].spec.drift \ {f} ELSE obj[r].spec.drift \cup {f})
          \in SUBSET {"compared", "hidden", "roleRef"}
    BY <2>1, <2>2 DEF EditableFields, Objects
  <2>4. cr' = cr /\ uids' \in [Names -> Nat] /\ edits' \in Nat
    BY <1>27 DEF EditObject, Edit
  <2>5. QED
    BY <2>1, <2>2, <2>3, <2>4, <1>26, OthersWriteType
<1>28. ASSUME NEW r \in Resources, AnnotateObject(r)
       PROVE  TypeOK'
  <2>1. obj[r] \in Objects
    BY <1>28 DEF AnnotateObject
  <2>2. cr' = cr /\ uids' \in [Names -> Nat] /\ edits' \in Nat
    BY <1>28 DEF AnnotateObject, Edit
  <2>3. QED
    BY <1>28, <2>1, <2>2, <1>26, OthersWriteType DEF AnnotateObject
<1>29. ASSUME NEW r \in Resources, StripObject(r)
       PROVE  TypeOK'
  <2>1. obj[r] \in Objects
    BY <1>29 DEF StripObject
  <2>2. cr' = cr /\ uids' \in [Names -> Nat] /\ edits' \in Nat
    BY <1>29 DEF StripObject, Edit
  <2>3. QED
    BY <1>29, <2>1, <2>2, <1>26, OthersWriteType DEF StripObject
<1>30. ASSUME NEW r \in Resources, DeleteObject(r)
       PROVE  TypeOK'
  BY <1>30, <1>26 DEF DeleteObject, Edit
<1>31. ASSUME NEW r \in Resources, UsurpObject(r)
       PROVE  TypeOK'
  <2>1. [owner |-> 0, hash |-> NoHash,
         spec |-> [intent |-> foreign,
                   drift |-> EditableFields(r) \cup
                               (IF r \in Bindings THEN {"roleRef"} ELSE {})]]
          \in Bodies
    BY DEF Bodies, foreign, manifest, Intents, Manifests, EditableFields
  <2>2. r \in Names /\ uids[r] + 1 \in Nat
    BY DEF Names
  <2>3. uids' \in [Names -> Nat]
    BY <1>31, <2>2 DEF UsurpObject
  <2>4. QED
    BY <1>31, <2>1, <2>2, <2>3, <1>26, CreatedType DEF UsurpObject, Edit
<1>32. ASSUME NEW r \in Resources, CollectGarbage(r)
       PROVE  TypeOK'
  BY <1>32, <1>26 DEF CollectGarbage
<1>33. QED
  BY <1>1, <1>2, <1>3, <1>4, <1>5, <1>6, <1>7, <1>8, <1>9, <1>10, <1>11, <1>12,
     <1>13, <1>14, <1>15, <1>16, <1>17, <1>18, <1>19, <1>20, <1>21, <1>22, <1>23,
     <1>24, <1>25, <1>27, <1>28, <1>29, <1>30, <1>31, <1>32
  DEF Next, Process, processNextWorkItem, sync, Environment, Failure

-----------------------------------------------------------------------------
(***************************************************************************)
(* Steps that are not the worker's leave its position and its locals       *)
(* alone.                                                                  *)
(***************************************************************************)
Bystander ==
    \/ UNCHANGED vars
    \/ \E i \in Informers : Deliver(i)
    \/ Backoff
    \/ Resync
    \/ RunOperator
    \/ Environment

LEMMA BystanderLocals ==
    Bystander => UNCHANGED <<pc, step, snap, seen, dep, got, tries>>
<1> SUFFICES ASSUME Bystander
             PROVE  UNCHANGED <<pc, step, snap, seen, dep, got, tries>>
  OBVIOUS
<1> USE DEF local, Others
<1>1. CASE UNCHANGED vars
  BY <1>1 DEF vars
<1>2. CASE \E i \in Informers : Deliver(i)
  BY <1>2 DEF Deliver
<1>3. CASE Backoff \/ Resync \/ RunOperator
  BY <1>3 DEF Backoff, Resync, RunOperator
<1>4. CASE CreateCR \/ EditCR \/ DeleteCR
  BY <1>4 DEF CreateCR, EditCR, DeleteCR
<1>5. ASSUME NEW r, NEW o, Put(r, o)
      PROVE  UNCHANGED <<pc, step, snap, seen, dep, got, tries>>
  BY <1>5 DEF Put
<1>6. CASE \E r \in Resources :
             \/ EditObject(r) \/ AnnotateObject(r) \/ StripObject(r)
             \/ DeleteObject(r) \/ UsurpObject(r) \/ CollectGarbage(r)
  BY <1>5, <1>6 DEF EditObject, AnnotateObject, StripObject, DeleteObject,
                    UsurpObject, CollectGarbage
<1>7. QED
  BY <1>1, <1>2, <1>3, <1>4, <1>6 DEF Bystander, Environment

LEMMA AdvanceSync ==
    ASSUME TypeOK, SyncInv, pc \in {"get", "write"}, NEW a \in Objects, Advance(a)
    PROVE  SyncInv'
<1>1. step \in 1 .. Len(SyncOrder) /\ snap # NoCR /\ Len(SyncOrder) \in Nat
  BY OperandFacts, OrderFacts, NoValueAssumption
<1>2. a # NoObj
  BY NoValueAssumption
<1>3. /\ step' = step + 1
      /\ snap' = snap
      /\ pc' = IF step = Len(SyncOrder) THEN "statusGet" ELSE "get"
      /\ tries' = IF step = Len(SyncOrder) THEN Steps ELSE tries
      /\ dep' = IF Operand = "Deployment" THEN a ELSE dep
  BY DEF Advance
<1>4. ASSUME NEW i \in 1 .. step, SyncOrder[i] = "Deployment"
      PROVE  dep' # NoObj
  <2>1. CASE i = step
    BY <1>2, <1>3, <1>4, <2>1 DEF Operand
  <2>2. CASE i # step
    <3>1. i \in 1 .. step - 1
      BY <1>1, <2>2
    <3>2. dep # NoObj
      BY <3>1, <1>4 DEF SyncInv, InFlight
    <3>3. QED
      BY <1>2, <1>3, <3>2
  <2>3. QED
    BY <2>1, <2>2
<1>5. step' - 1 = step
  BY <1>1, <1>3
<1>6. /\ snap' # NoCR
      /\ IF pc' \in {"get", "write"} THEN step' \in 1 .. Len(SyncOrder)
                                     ELSE step' = Len(SyncOrder) + 1
      /\ pc' # "statusWrite"
      /\ pc' = "statusGet" => tries' > 0
  BY <1>1, <1>3, StepsAssumption
<1>7. QED
  BY <1>4, <1>5, <1>6 DEF SyncInv, InFlight

LEMMA SyncStep ==
    TypeOK /\ SyncInv /\ [Next]_vars => SyncInv'
<1> SUFFICES ASSUME TypeOK, SyncInv, [Next]_vars
             PROVE  SyncInv'
  OBVIOUS
<1>1. CASE Bystander
  BY <1>1, BystanderLocals DEF SyncInv, InFlight
<1>2. CASE Get \/ Done \/ GetCliManagerNotFound \/ WriteRefused \/ GetStatusUnchanged
           \/ UpdateStatus \/ UpdateStatusFails \/ CallFails \/ ReplyLost \/ Crash
  BY <1>2 DEF SyncInv, InFlight, Get, Done, GetCliManagerNotFound, WriteRefused,
     GetStatusUnchanged, UpdateStatus, UpdateStatusFails, CallFails, ReplyLost,
     Crash, Reset, Fail, Succeed
<1>3. CASE GetCliManager
  <2>1. 1 \in 1 .. Len(SyncOrder) /\ 1 .. 1 - 1 = {}
    BY OrderFacts
  <2>2. QED
    BY <1>3, <2>1 DEF SyncInv, InFlight, GetCliManager
<1>4. CASE GetUpToDate
  <2>1. obj[Operand] \in Objects
    BY <1>4, OperandFacts DEF GetUpToDate
  <2>2. QED
    BY <1>4, <2>1, AdvanceSync DEF GetUpToDate
<1>5. CASE GetToWrite
  BY <1>5 DEF SyncInv, InFlight, GetToWrite
<1>6. CASE CreateObject \/ UpdateObject
  <2>1. obj'[Operand] \in Objects
    BY <1>6, WriteType DEF CreateObject, UpdateObject
  <2>2. QED
    BY <1>6, <2>1, AdvanceSync DEF CreateObject, UpdateObject
<1>7. CASE GetStatusToWrite
  BY <1>7 DEF SyncInv, InFlight, GetStatusToWrite
<1>8. CASE UpdateStatusRetry
  BY <1>8 DEF SyncInv, InFlight, UpdateStatusRetry, local
<1>9. QED
  BY <1>1, <1>2, <1>3, <1>4, <1>5, <1>6, <1>7, <1>8
  DEF Next, Process, processNextWorkItem, sync, Failure, Bystander

(***************************************************************************)
(* The initial states, and the type invariant of the specification.        *)
(***************************************************************************)
LEMMA TypeInit == Init => TypeOK /\ SyncInv
<1> SUFFICES ASSUME Init PROVE TypeOK /\ SyncInv
  OBVIOUS
<1>1. 0 \in 0 .. Steps /\ 0 \in 0 .. Len(SyncOrder) + 1
  BY StepsAssumption, OrderFacts
<1>2. cr \in CRs \cup {NoCR}
  <2>1. CASE cr = NoCR
    BY <2>1
  <2>2. CASE \E l \in LogLevels, m \in MgmtStates :
               cr = [uid |-> 1, rv |-> 1, logLevel |-> l, mgmt |-> m, lastGen |-> -1]
    <3>1. PICK l \in LogLevels, m \in MgmtStates :
            cr = [uid |-> 1, rv |-> 1, logLevel |-> l, mgmt |-> m, lastGen |-> -1]
      BY <2>2
    <3>2. 1 \in Nat
      OBVIOUS
    <3>3. QED
      BY <3>1, <3>2, CRWriteType
  <2>3. QED
    BY <2>1, <2>2 DEF Init
<1>3. TypeOK
  <2>1. /\ obj \in [Resources -> Objects \cup {NoObj}]
        /\ uids \in [Names -> Nat]
    BY DEF Init
  <2>2. /\ up \in BOOLEAN /\ queued \in BOOLEAN /\ dirty \in BOOLEAN
        /\ processing \in BOOLEAN /\ delayed \in BOOLEAN
    BY DEF Init
  <2>3. pending \in SUBSET Informers /\ touched \in SUBSET Resources
    BY DEF Init
  <2>4. /\ cfg \in Configs /\ pc \in PCs /\ edits \in Nat /\ faults \in Nat
        /\ step \in 0 .. Len(SyncOrder) + 1 /\ tries \in 0 .. Steps
        /\ snap \in CRs \cup {NoCR} /\ got \in CRs \cup {NoCR}
        /\ seen \in Objects \cup {NoObj} /\ dep \in Objects \cup {NoObj}
    BY <1>1 DEF Init, PCs
  <2>5. QED
    BY <1>2, <2>1, <2>2, <2>3, <2>4 DEF TypeOK
<1>4. SyncInv
  BY DEF Init, SyncInv, InFlight
<1>5. QED
  BY <1>3, <1>4

(***************************************************************************)
(* Every variable keeps its type, whatever the operands, the edits and the *)
(* failures; UpdateStatus makes at most Steps attempts.                    *)
(***************************************************************************)
THEOREM Typing == Spec => [](TypeOK /\ SyncInv)
<1>1. TypeOK /\ SyncInv /\ [Next]_vars => (TypeOK /\ SyncInv)'
  BY TypeStep, SyncStep
<1>2. QED
  BY <1>1, TypeInit, PTL DEF Spec

-----------------------------------------------------------------------------
(***************************************************************************)
(* All that the invariants need to know of the steps of others: they leave *)
(* the process alone, every change of the CliManager and of the            *)
(* NetworkPolicy is on its way to a running process, every change of an    *)
(* operand is noted, and an operand changes into a newer version of the    *)
(* same incarnation, into nothing, or from nothing into a new incarnation. *)
(***************************************************************************)
NewerVersion(r) ==
    \/ obj'[r] = obj[r]
    \/ obj'[r] = NoObj
    \/ /\ obj[r] # NoObj
       /\ obj'[r].uid = obj[r].uid
       /\ obj'[r].rv > obj[r].rv
    \/ /\ obj[r] = NoObj
       /\ obj'[r].uid = uids[r] + 1
       /\ uids'[r] = uids[r] + 1

Newer == \A r \in Resources : NewerVersion(r) /\ uids'[r] >= uids[r]

EnvEffect ==
    /\ UNCHANGED <<up, cfg, pc, step, snap, seen, dep, got, tries,
                   queued, dirty, processing, delayed>>
    /\ pending \subseteq pending'
    /\ up /\ cr' # cr => "CliManager" \in pending'
    /\ touched \subseteq touched'
    /\ ~up => touched' = touched
    /\ \A r \in Resources : up /\ obj'[r] # obj[r] => r \in touched'
    /\ "NetworkPolicy" \in touched' \ touched => "NetworkPolicy" \in pending'
    /\ Newer

LEMMA PutEffect ==
    ASSUME TypeOK, NEW r \in Resources, NEW o, Put(r, o), cr' = cr,
           NewerVersion(r),
           uids' = uids \/ uids' = [uids EXCEPT ![r] = @ + 1]
    PROVE  EnvEffect
<1>1. UNCHANGED <<up, cfg, pc, step, snap, seen, dep, got, tries,
                  queued, dirty, processing, delayed>>
  BY DEF Put, Others, local, queue
<1>2. /\ pending \subseteq pending'
      /\ up /\ r = "NetworkPolicy" => "NetworkPolicy" \in pending'
  BY DEF Put, NotifyOf, Notify
<1>3. /\ touched \subseteq touched'
      /\ ~up => touched' = touched
      /\ up => r \in touched'
      /\ \A q : q \in touched' \ touched => up /\ q = r
  BY DEF Put, Touch
<1>4. \A q \in Resources \ {r} : obj'[q] = obj[q]
  BY DEF Put, TypeOK
<1>5. \A q \in Resources : uids'[q] >= uids[q]
  BY DEF TypeOK, Names
<1>6. QED
  BY <1>1, <1>2, <1>3, <1>4, <1>5 DEF EnvEffect, Newer, NewerVersion

LEMMA EnvironmentEffect ==
    TypeOK /\ Environment => EnvEffect
<1> SUFFICES ASSUME TypeOK, Environment
             PROVE  EnvEffect
  OBVIOUS
<1>1. ASSUME CreateCR \/ EditCR \/ DeleteCR
      PROVE  EnvEffect
  <2>1. UNCHANGED <<up, cfg, pc, step, snap, seen, dep, got, tries,
                    queued, dirty, processing, delayed, obj, touched>>
    BY <1>1 DEF CreateCR, EditCR, DeleteCR, Others, local, queue
  <2>2. pending \subseteq pending' /\ (up => "CliManager" \in pending')
    BY <1>1 DEF CreateCR, EditCR, DeleteCR, Notify
  <2>3. \A r \in Resources : uids'[r] = uids[r] /\ uids[r] \in Nat
    BY <1>1, OrderFacts DEF CreateCR, EditCR, DeleteCR, TypeOK, Names
  <2>4. QED
    BY <2>1, <2>2, <2>3 DEF EnvEffect, Newer, NewerVersion
<1>2. ASSUME NEW r \in Resources, NEW o \in Objects, Put(r, o),
             obj[r] \in Objects, o.uid = obj[r].uid, o.rv = obj[r].rv + 1,
             cr' = cr, uids' = uids
      PROVE  EnvEffect
  <2>1. obj'[r] = o
    BY <1>2 DEF Put, TypeOK
  <2>2. o.rv > obj[r].rv /\ obj[r] # NoObj
    <3>1. obj[r].rv \in Nat
      BY <1>2 DEF Objects
    <3>2. QED
      BY <1>2, <3>1, NoValueAssumption
  <2>3. NewerVersion(r)
    BY <1>2, <2>1, <2>2 DEF NewerVersion
  <2>4. QED
    BY <1>2, <2>3, PutEffect
<1>3. ASSUME NEW r \in Resources, EditObject(r)
      PROVE  EnvEffect
  <2>1. obj[r] \in Objects
    BY <1>3 DEF EditObject, TypeOK
  <2>2. PICK f \in EditableFields(r), revert \in BOOLEAN :
          Put(r, [obj[r] EXCEPT !.rv = @ + 1, !.gen = @ + 1,
                                !.spec.drift = IF revert THEN @ \ {f}
                                                         ELSE @ \cup {f}])
    BY <1>3 DEF EditObject
  <2> DEFINE d == IF revert THEN obj[r].spec.drift \ {f} ELSE obj[r].spec.drift \cup {f}
             o == [obj[r] EXCEPT !.rv = @ + 1, !.gen = @ + 1, !.spec.drift = d]
  <2>3. d \in SUBSET {"compared", "hidden", "roleRef"}
    BY <2>1, <2>2 DEF EditableFields, Objects
  <2>4. o \in Objects
    BY <2>1, <2>3, OthersWriteType
  <2>5. o.uid = obj[r].uid /\ o.rv = obj[r].rv + 1
    BY <2>1 DEF Objects
  <2>6. cr' = cr /\ uids' = uids
    BY <1>3 DEF EditObject
  <2>7. Put(r, o)
    BY <2>2
  <2>8. QED
    BY <1>2, <2>1, <2>4, <2>5, <2>6, <2>7
<1>4. ASSUME NEW r \in Resources, AnnotateObject(r)
      PROVE  EnvEffect
  <2> DEFINE o == [obj[r] EXCEPT !.rv = @ + 1, !.note = @ + 1]
  <2>1. obj[r] \in Objects
    BY <1>4 DEF AnnotateObject, TypeOK
  <2>2. o \in Objects
    BY <2>1, OthersWriteType
  <2>3. o.uid = obj[r].uid /\ o.rv = obj[r].rv + 1
    BY <2>1 DEF Objects
  <2>4. Put(r, o) /\ cr' = cr /\ uids' = uids
    BY <1>4 DEF AnnotateObject
  <2>5. QED
    BY <1>2, <2>1, <2>2, <2>3, <2>4
<1>5. ASSUME NEW r \in Resources, StripObject(r)
      PROVE  EnvEffect
  <2> DEFINE o == [obj[r] EXCEPT !.rv = @ + 1, !.owner = 0, !.hash = NoHash]
  <2>1. obj[r] \in Objects
    BY <1>5 DEF StripObject, TypeOK
  <2>2. o \in Objects
    BY <2>1, OthersWriteType
  <2>3. o.uid = obj[r].uid /\ o.rv = obj[r].rv + 1
    BY <2>1 DEF Objects
  <2>4. Put(r, o) /\ cr' = cr /\ uids' = uids
    BY <1>5 DEF StripObject
  <2>5. QED
    BY <1>2, <2>1, <2>2, <2>3, <2>4
<1>6. ASSUME NEW r \in Resources, DeleteObject(r) \/ CollectGarbage(r)
      PROVE  EnvEffect
  <2>1. Put(r, NoObj) /\ cr' = cr /\ uids' = uids
    BY <1>6 DEF DeleteObject, CollectGarbage
  <2>2. NewerVersion(r)
    BY <2>1 DEF Put, TypeOK, NewerVersion
  <2>3. QED
    BY <2>1, <2>2, PutEffect
<1>7. ASSUME NEW r \in Resources, UsurpObject(r)
      PROVE  EnvEffect
  <2>1. PICK o : /\ Put(r, o)
                 /\ o.uid = uids[r] + 1
    BY <1>7 DEF UsurpObject, Created
  <2>2. obj[r] = NoObj /\ cr' = cr /\ uids' = [uids EXCEPT ![r] = @ + 1]
    BY <1>7 DEF UsurpObject
  <2>3. NewerVersion(r)
    BY <2>1, <2>2 DEF Put, TypeOK, Names, NewerVersion
  <2>4. QED
    BY <2>1, <2>2, <2>3, PutEffect
<1>8. QED
  BY <1>1, <1>3, <1>4, <1>5, <1>6, <1>7 DEF Environment

(***************************************************************************)
(* The invariants under steps of others: of EnvEffect for what concerns    *)
(* the queue and the watches, of NewerVersion for what has been read.      *)
(***************************************************************************)
(***************************************************************************)
(* A worker inside sync belongs to a running process.                      *)
(***************************************************************************)
LEMMA InFlightUp ==
    ASSUME QueueInv, pc # "idle"
    PROVE  up
BY DEF QueueInv

LEMMA QueueEnv ==
    ASSUME QueueInv, EnvEffect
    PROVE  QueueInv'
BY DEF QueueInv, EnvEffect

LEMMA SyncEnv ==
    ASSUME SyncInv, UNCHANGED <<pc, step, snap, dep, got, tries>>
    PROVE  SyncInv'
BY DEF SyncInv, InFlight

LEMMA ReadEnv ==
    ASSUME TypeOK, TypeOK', SyncInv, ReadInv, UNCHANGED <<pc, seen, step>>, Newer
    PROVE  ReadInv'
<1>0. /\ \A r \in Resources : /\ uids[r] \in Nat
                               /\ obj[r] \in Objects \cup {NoObj}
                               /\ uids'[r] \in Nat
                               /\ obj'[r] \in Objects \cup {NoObj}
      /\ \A o \in Objects : o.uid \in Nat /\ o.rv \in Nat
      /\ seen \in Objects \cup {NoObj}
      /\ NoObj \notin Objects
  BY NoValueAssumption DEF TypeOK, Names, Objects
<1>1. \A r \in Resources : obj'[r] # NoObj => obj'[r].uid <= uids'[r]
  <2>1. SUFFICES ASSUME NEW r \in Resources, obj'[r] # NoObj
                 PROVE  obj'[r].uid <= uids'[r]
    OBVIOUS
  <2>2. NewerVersion(r) /\ uids'[r] >= uids[r]
    BY DEF Newer
  <2>3. obj[r] # NoObj => obj[r].uid <= uids[r]
    BY DEF ReadInv
  <2>4. QED
    BY <1>0, <2>1, <2>2, <2>3 DEF NewerVersion
<1>2. ASSUME pc' = "write", seen' # NoObj
      PROVE  /\ seen'.uid <= uids'[Operand']
             /\ obj'[Operand'] # NoObj /\ obj'[Operand'].uid = seen'.uid =>
                  seen' = obj'[Operand'] \/ seen'.rv < obj'[Operand'].rv
  <2>1. pc = "write" /\ seen' = seen /\ Operand' = Operand
    BY <1>2 DEF Operand
  <2>2. Operand \in Resources
    BY <2>1, OperandFacts
  <2>3. /\ seen.uid <= uids[Operand]
        /\ obj[Operand] # NoObj /\ obj[Operand].uid = seen.uid =>
             seen = obj[Operand] \/ seen.rv < obj[Operand].rv
    BY <1>2, <2>1 DEF ReadInv
  <2>4. NewerVersion(Operand) /\ uids'[Operand] >= uids[Operand]
    BY <2>2 DEF Newer
  <2>5. seen \in Objects /\ seen.uid \in Nat /\ seen.rv \in Nat
    BY <1>0, <1>2, <2>1
  <2>6. seen.uid <= uids'[Operand]
    BY <1>0, <2>2, <2>3, <2>4, <2>5
  <2>7. ASSUME obj'[Operand] # NoObj, obj'[Operand].uid = seen.uid
        PROVE  seen = obj'[Operand] \/ seen.rv < obj'[Operand].rv
    <3>1. CASE obj'[Operand] = obj[Operand]
      BY <2>3, <2>7, <3>1
    <3>2. CASE /\ obj[Operand] # NoObj
               /\ obj'[Operand].uid = obj[Operand].uid
               /\ obj'[Operand].rv > obj[Operand].rv
      <4>1. obj[Operand].rv \in Nat /\ obj'[Operand].rv \in Nat
        BY <1>0, <2>2, <2>7, <3>2
      <4>2. QED
        BY <2>3, <2>5, <2>7, <3>2, <4>1
    <3>3. CASE obj'[Operand].uid = uids[Operand] + 1
      BY <1>0, <2>2, <2>3, <2>5, <2>7, <3>3
    <3>4. QED
      BY <2>4, <2>7, <3>1, <3>2, <3>3 DEF NewerVersion
  <2>8. QED
    BY <2>1, <2>6, <2>7
<1>3. QED
  BY <1>1, <1>2 DEF ReadInv

LEMMA SnapEnv ==
    ASSUME QueueInv, SnapInv, EnvEffect
    PROVE  SnapInv'
<1>1. CASE ~InFlight
  BY <1>1 DEF EnvEffect, SnapInv, InFlight
<1>2. CASE InFlight /\ cr' = cr
  BY <1>2 DEF EnvEffect, SnapInv, InFlight
<1>3. CASE InFlight /\ cr' # cr
  <2>1. up
    BY <1>3, InFlightUp DEF InFlight
  <2>2. QED
    BY <1>3, <2>1 DEF EnvEffect, SnapInv
<1>4. QED
  BY <1>1, <1>2, <1>3

LEMMA ProgressEnv ==
    ASSUME TypeOK, QueueInv, SyncInv, ProgressInv, EnvEffect
    PROVE  ProgressInv'
<1>1. SUFFICES ASSUME InFlight, NEW i \in 1 .. step - 1,
                      SyncOrder[i] \notin touched'
               PROVE  Managed(SyncOrder[i])'
  BY DEF EnvEffect, ProgressInv, InFlight
<1>2. up
  BY <1>1, InFlightUp DEF InFlight
<1>3. i \in 1 .. Len(SyncOrder)
  BY <1>1, OrderFacts DEF SyncInv, InFlight
<1>4. obj'[SyncOrder[i]] = obj[SyncOrder[i]] /\ SyncOrder[i] \notin touched
  BY <1>1, <1>2, <1>3, OrderFacts DEF EnvEffect
<1>5. Managed(SyncOrder[i])
  BY <1>1, <1>4 DEF ProgressInv
<1>6. snap' = snap /\ cfg' = cfg /\ dep' = dep
  BY DEF EnvEffect
<1>7. QED
  BY <1>4, <1>5, <1>6 DEF Managed

LEMMA FinishedEnv ==
    ASSUME FinishedInv, EnvEffect
    PROVE  FinishedInv'
<1>1. SUFFICES ASSUME up, pc \in {"done", "idle"}, ~dirty, ~delayed,
                      "CliManager" \notin pending', cr' # NoCR,
                      NEW r \in Resources \ touched'
               PROVE  UpToDate(r)'
  BY DEF EnvEffect, FinishedInv
<1>2. cr' = cr /\ "CliManager" \notin pending
  BY <1>1 DEF EnvEffect
<1>3. obj'[r] = obj[r] /\ r \notin touched /\ cfg' = cfg
  BY <1>1 DEF EnvEffect
<1>4. UpToDate(r)
  BY <1>1, <1>2, <1>3 DEF FinishedInv
<1>5. QED
  BY <1>2, <1>3, <1>4 DEF UpToDate

LEMMA WatchEnv ==
    ASSUME WatchInv, EnvEffect
    PROVE  WatchInv'
BY DEF EnvEffect, WatchInv

(***************************************************************************)
(* The queue.                                                              *)
(***************************************************************************)
LEMMA QueueStep ==
    TypeOK /\ QueueInv /\ [Next]_vars => QueueInv'
<1> SUFFICES ASSUME TypeOK, QueueInv, [Next]_vars
             PROVE  QueueInv'
  OBVIOUS
<1> USE DEF QueueInv, queue
<1>1. CASE UNCHANGED vars
  BY <1>1 DEF vars
<1>2. CASE \E i \in Informers : Deliver(i)
  <2>1. /\ up' = up /\ pc' = pc /\ processing' = processing /\ touched' = touched
        /\ dirty' = TRUE /\ queued' = (queued \/ ~processing)
    BY <1>2 DEF Deliver, Add
  <2>2. QED
    BY <2>1 DEF TypeOK
<1>3. CASE Backoff
  BY <1>3 DEF Backoff, Add, TypeOK
<1>4. CASE Resync \/ RunOperator
  BY <1>4 DEF Resync, RunOperator
<1>5. CASE Environment
  BY <1>5, EnvironmentEffect, QueueEnv
<1>6. CASE Get
  BY <1>6 DEF Get
<1>7. CASE Done
  BY <1>7 DEF Done, TypeOK
<1>8. CASE GetCliManager \/ GetCliManagerNotFound \/ GetToWrite \/ WriteRefused
  BY <1>8 DEF GetCliManager, GetCliManagerNotFound, GetToWrite, WriteRefused, Fail
<1>9. CASE GetUpToDate \/ CreateObject \/ UpdateObject
  BY <1>9 DEF GetUpToDate, CreateObject, UpdateObject, Advance
<1>10. CASE GetStatusUnchanged \/ GetStatusToWrite
  BY <1>10 DEF GetStatusUnchanged, GetStatusToWrite, Succeed
<1>11. CASE UpdateStatus \/ UpdateStatusRetry \/ UpdateStatusFails
  BY <1>11 DEF UpdateStatus, UpdateStatusRetry, UpdateStatusFails, Succeed, Fail
<1>12. CASE CallFails \/ ReplyLost
  BY <1>12 DEF CallFails, ReplyLost, Calling, Fail
<1>13. CASE Crash
  BY <1>13 DEF Crash, Reset
<1>14. QED
  BY <1>1, <1>2, <1>3, <1>4, <1>5, <1>6, <1>7, <1>8, <1>9, <1>10, <1>11, <1>12,
     <1>13
  DEF Next, Process, processNextWorkItem, sync, Failure

(***************************************************************************)
(* What the operator's own writes do to an operand.                        *)
(***************************************************************************)
LEMMA WriteEffect ==
    ASSUME TypeOK, SyncInv, ReadInv, pc = "write", ObjectCreated \/ ObjectUpdated
    PROVE  /\ obj'[Operand] \in Objects
           /\ InSync(Operand, obj'[Operand], RequiredNow, obj'[Operand].gen)
           /\ obj[Operand] # NoObj =>
                /\ obj'[Operand].uid = obj[Operand].uid
                /\ obj'[Operand].note = obj[Operand].note
           /\ obj'[Operand].uid <= uids'[Operand]
           /\ \A r \in Resources \ {Operand} : uids'[r] = uids[r]
<1>0. /\ Operand \in Resources /\ Operand \in Names
      /\ RequiredNow \in Bodies /\ RequiredNow.spec.drift = {}
      /\ obj \in [Resources -> Objects \cup {NoObj}]
      /\ uids \in [Names -> Nat]
  BY OperandFacts DEF TypeOK, Names
<1>1. CASE ObjectCreated
  <2>1. /\ obj[Operand] = NoObj
        /\ obj'[Operand] = Created(RequiredNow, uids[Operand] + 1)
        /\ uids' = [uids EXCEPT ![Operand] = @ + 1]
        /\ uids[Operand] + 1 \in Nat
    BY <1>0, <1>1 DEF ObjectCreated, CreateAccepted
  <2>2. obj'[Operand].uid = uids[Operand] + 1
    BY <2>1 DEF Created
  <2>3. uids'[Operand] = uids[Operand] + 1
    BY <1>0, <2>1
  <2>4. obj'[Operand].uid <= uids'[Operand]
    BY <2>1, <2>2, <2>3
  <2>5. \A r \in Resources \ {Operand} : uids'[r] = uids[r]
    BY <1>0, <2>1 DEF Names
  <2>6. obj'[Operand] \in Objects
    BY <1>1, WriteType
  <2>7. InSync(Operand, obj'[Operand], RequiredNow, obj'[Operand].gen)
    <3> DEFINE u == uids[Operand] + 1
    <3>1. RequiredNow \in Bodies /\ u \in Nat /\ RequiredNow.spec.drift = {}
      BY <1>0, <2>1
    <3>2. InSync(Operand, Created(RequiredNow, u), RequiredNow,
                 Created(RequiredNow, u).gen)
      BY <3>1, CreatedInSync
    <3>3. QED
      BY <2>1, <3>2
  <2>8. QED
    BY <2>1, <2>4, <2>5, <2>6, <2>7
<1>2. CASE ObjectUpdated
  <2>1. /\ obj[Operand] \in Objects /\ seen # NoObj
        /\ obj[Operand].uid = seen.uid /\ obj[Operand].rv = seen.rv
    BY <1>0, <1>2 DEF ObjectUpdated, UpdateAccepted, Current
  <2>2. obj[Operand].rv \in Nat
    BY <2>1 DEF Objects
  <2>3. seen = obj[Operand]
    BY <2>1, <2>2, NoValueAssumption DEF ReadInv
  <2>4. /\ obj'[Operand] = Stored(obj[Operand],
                                  toWrite(Operand, obj[Operand], RequiredNow))
        /\ uids' = uids
    BY <1>0, <1>2, <2>3 DEF ObjectUpdated
  <2>5. /\ obj'[Operand].uid = obj[Operand].uid
        /\ obj'[Operand].note = obj[Operand].note
    BY <1>0, <2>1, <2>4, StoredKeeps
  <2>6. obj'[Operand].uid <= uids'[Operand]
    BY <1>0, <2>1, <2>4, <2>5, NoValueAssumption DEF ReadInv
  <2>7. obj'[Operand] \in Objects
    BY <1>2, WriteType
  <2>8. InSync(Operand, obj'[Operand], RequiredNow, obj'[Operand].gen)
    BY <1>0, <2>1, <2>4, StoredInSync
  <2>9. QED
    BY <2>4, <2>5, <2>6, <2>7, <2>8
<1>3. QED
  BY <1>1, <1>2

(***************************************************************************)
(* Optimistic concurrency: what was read is current or is older.           *)
(***************************************************************************)
LEMMA ReadStep ==
    TypeOK /\ SyncInv /\ ReadInv /\ [Next]_vars => ReadInv'
<1> SUFFICES ASSUME TypeOK, SyncInv, ReadInv, [Next]_vars
             PROVE  ReadInv'
  OBVIOUS
<1>0. /\ \A r \in Resources : /\ uids[r] \in Nat
                               /\ obj[r] \in Objects \cup {NoObj}
      /\ \A o \in Objects : o.uid \in Nat /\ o.rv \in Nat
      /\ seen \in Objects \cup {NoObj}
      /\ NoObj \notin Objects
  BY NoValueAssumption DEF TypeOK, Names, Objects
<1>1. CASE UNCHANGED <<obj, uids>> /\ (pc' = "write" => UNCHANGED <<pc, seen, step>>)
  BY <1>1 DEF ReadInv, Operand
<1>2. CASE Environment
  BY <1>2, EnvironmentEffect, TypeStep, ReadEnv DEF EnvEffect
<1>3. CASE GetToWrite
  <2>1. Operand \in Resources /\ Operand' = Operand /\ pc = "get"
    BY <1>3, OperandFacts DEF GetToWrite, Operand
  <2>2. UNCHANGED <<obj, uids>> /\ seen' = obj[Operand]
    BY <1>3 DEF GetToWrite, cluster
  <2>3. QED
    BY <2>1, <2>2 DEF ReadInv
<1>4. ASSUME pc = "write", ObjectCreated \/ ObjectUpdated, pc' # "write"
      PROVE  ReadInv'
  <2>1. /\ obj'[Operand].uid <= uids'[Operand]
        /\ \A r \in Resources \ {Operand} : obj'[r] = obj[r] /\ uids'[r] = uids[r]
    BY <1>4, WriteEffect, WriteType
  <2>2. QED
    BY <1>4, <2>1 DEF ReadInv
<1>5. CASE UNCHANGED vars \/ Backoff \/ Resync \/ RunOperator
           \/ \E i \in Informers : Deliver(i)
  BY <1>1, <1>5, BystanderLocals
  DEF Bystander, vars, Deliver, Backoff, Resync, RunOperator, cluster
<1>6. CASE Get \/ Done \/ GetCliManager \/ GetCliManagerNotFound \/ WriteRefused
           \/ GetUpToDate
  BY <1>1, <1>6 DEF Get, Done, GetCliManager, GetCliManagerNotFound, WriteRefused,
     GetUpToDate, Fail, Advance, cluster
<1>7. CASE GetStatusUnchanged \/ GetStatusToWrite \/ UpdateStatus
           \/ UpdateStatusRetry \/ UpdateStatusFails
  BY <1>1, <1>7 DEF GetStatusUnchanged, GetStatusToWrite, UpdateStatus,
     StatusUpdated, UpdateStatusRetry, UpdateStatusFails, Fail, Succeed, cluster
<1>8. CASE CreateObject \/ UpdateObject
  BY <1>4, <1>8 DEF CreateObject, UpdateObject, Advance
<1>9. CASE CallFails \/ Crash
  BY <1>1, <1>9 DEF CallFails, Crash, Reset, Fail, cluster
<1>10. CASE ReplyLost
  <2>1. CASE pc = "write" /\ (ObjectCreated \/ ObjectUpdated)
    BY <1>4, <1>10, <2>1 DEF ReplyLost, Fail
  <2>2. CASE pc = "statusWrite" /\ StatusUpdated
    BY <1>1, <1>10, <2>2 DEF ReplyLost, StatusUpdated, Fail
  <2>3. QED
    BY <1>10, <2>1, <2>2 DEF ReplyLost
<1>11. QED
  BY <1>2, <1>3, <1>5, <1>6, <1>7, <1>8, <1>9, <1>10
  DEF Next, Process, processNextWorkItem, sync, Failure

(***************************************************************************)
(* A change of the CliManager cannot get past a running sync.              *)
(***************************************************************************)
LEMMA SnapStep ==
    TypeOK /\ SyncInv /\ QueueInv /\ SnapInv /\ [Next]_vars => SnapInv'
<1> SUFFICES ASSUME TypeOK, SyncInv, QueueInv, SnapInv, [Next]_vars
             PROVE  SnapInv'
  OBVIOUS
<1>1. CASE ~InFlight' \/ dirty'
  BY <1>1 DEF SnapInv
<1>2. CASE /\ InFlight /\ UNCHANGED <<cr, snap, dirty>>
           /\ pending \subseteq pending'
  BY <1>2 DEF SnapInv
<1>3. CASE UNCHANGED vars
  BY <1>3 DEF SnapInv, InFlight, vars, cluster, local, queue
<1>4. CASE Backoff \/ \E i \in Informers : Deliver(i)
  BY <1>1, <1>4 DEF Backoff, Deliver, Add
<1>5. CASE Resync
  <2>1. /\ UNCHANGED <<cr, snap, dirty, pc>>
        /\ pending \subseteq pending'
    BY <1>5 DEF Resync, cluster, local, queue
  <2>2. QED
    BY <1>1, <1>2, <2>1 DEF InFlight
<1>6. CASE RunOperator
  BY <1>1, <1>6 DEF RunOperator, QueueInv, InFlight
<1>7. CASE Environment
  BY <1>7, EnvironmentEffect, SnapEnv
<1>8. CASE Get \/ Done \/ GetCliManagerNotFound \/ WriteRefused \/ GetStatusUnchanged
           \/ UpdateStatus \/ UpdateStatusFails \/ CallFails \/ ReplyLost \/ Crash
  BY <1>1, <1>8 DEF InFlight, Get, Done, GetCliManagerNotFound, WriteRefused,
     GetStatusUnchanged, UpdateStatus, UpdateStatusFails, CallFails, ReplyLost,
     Crash, Reset, Fail, Succeed
<1>9. CASE GetCliManager
  BY <1>9 DEF GetCliManager, SnapInv, cluster
<1>10. CASE GetUpToDate \/ GetToWrite
  BY <1>2, <1>10 DEF GetUpToDate, GetToWrite, Advance, InFlight, cluster, queue
<1>11. CASE CreateObject \/ UpdateObject
  <2>1. pending \subseteq pending'
    BY <1>11 DEF CreateObject, UpdateObject, ObjectCreated, ObjectUpdated, NotifyOf,
       Notify
  <2>2. QED
    BY <1>2, <1>11, <2>1 DEF CreateObject, UpdateObject, ObjectCreated,
       ObjectUpdated, Advance, InFlight
<1>12. CASE GetStatusToWrite \/ UpdateStatusRetry
  BY <1>2, <1>12 DEF GetStatusToWrite, UpdateStatusRetry, InFlight, cluster, queue,
     local
<1>13. QED
  BY <1>3, <1>4, <1>5, <1>6, <1>7, <1>8, <1>9, <1>10, <1>11, <1>12
  DEF Next, Process, processNextWorkItem, sync, Failure

(***************************************************************************)
(* What the Apply functions leave alone is in sync with its own            *)
(* generation.                                                             *)
(***************************************************************************)
LEMMA InSyncOwnGeneration ==
    ASSUME NEW r, NEW o, NEW b, NEW g, InSync(r, o, b, g)
    PROVE  InSync(r, o, b, o.gen)
BY DEF InSync, SpecSame, generationSame

(***************************************************************************)
(* The operand whose turn is over is managed, and those before it stay so. *)
(***************************************************************************)
LEMMA AdvanceProgress ==
    ASSUME TypeOK, SyncInv, ProgressInv, pc \in {"get", "write"},
           Advance(obj'[Operand]), UNCHANGED <<cfg, touched>>,
           obj'[Operand] # NoObj,
           InSync(Operand, obj'[Operand], RequiredNow, obj'[Operand].gen),
           \A r \in Resources \ {Operand} : obj'[r] = obj[r]
    PROVE  ProgressInv'
<1>1. step \in 1 .. Len(SyncOrder) /\ Len(SyncOrder) \in Nat
  BY OperandFacts, OrderFacts
<1>2. /\ step' = step + 1
      /\ snap' = snap
      /\ dep' = IF Operand = "Deployment" THEN obj'[Operand] ELSE dep
  BY DEF Advance
<1>3. SUFFICES ASSUME NEW i \in 1 .. step, SyncOrder[i] \notin touched
               PROVE  Managed(SyncOrder[i])'
  BY <1>1, <1>2 DEF ProgressInv
<1>4. CASE SyncOrder[i] = Operand
  <2>1. InSync(Operand, obj'[Operand], Required(Operand, snap', cfg'),
               obj'[Operand].gen)
    BY <1>2 DEF RequiredNow
  <2>2. QED
    BY <1>2, <1>4, <2>1 DEF Managed
<1>5. CASE SyncOrder[i] # Operand
  <2>1. i \in 1 .. step - 1
    BY <1>1, <1>5 DEF Operand
  <2>2. Managed(SyncOrder[i])
    BY <1>3, <2>1 DEF ProgressInv, InFlight
  <2>3. SyncOrder[i] \in Resources
    BY <1>1, OrderFacts
  <2>4. obj'[SyncOrder[i]] = obj[SyncOrder[i]]
    BY <1>5, <2>3
  <2>5. SyncOrder[i] = "Deployment" => dep' = dep
    BY <1>2, <1>5
  <2>6. QED
    BY <1>2, <2>2, <2>4, <2>5 DEF Managed
<1>6. QED
  BY <1>4, <1>5

LEMMA ProgressStep ==
    TypeOK /\ SyncInv /\ QueueInv /\ ReadInv /\ ProgressInv /\ [Next]_vars
        => ProgressInv'
<1> SUFFICES ASSUME TypeOK, SyncInv, QueueInv, ReadInv, ProgressInv, [Next]_vars
             PROVE  ProgressInv'
  OBVIOUS
<1>1. CASE ~InFlight'
  BY <1>1 DEF ProgressInv
<1>2. CASE InFlight /\ UNCHANGED <<obj, cfg, snap, dep, step, touched>>
  BY <1>2 DEF ProgressInv, Managed
<1>3. CASE UNCHANGED vars \/ Backoff \/ Resync \/ \E i \in Informers : Deliver(i)
  <2>1. UNCHANGED <<pc, obj, cfg, snap, dep, step, touched>>
    BY <1>3 DEF vars, cluster, local, Backoff, Resync, Deliver
  <2>2. QED
    BY <1>1, <1>2, <2>1 DEF InFlight
<1>4. CASE RunOperator
  BY <1>1, <1>4 DEF RunOperator, QueueInv, InFlight
<1>5. CASE Environment
  BY <1>5, EnvironmentEffect, ProgressEnv
<1>6. CASE Get \/ Done \/ GetCliManagerNotFound \/ WriteRefused \/ GetStatusUnchanged
           \/ UpdateStatus \/ UpdateStatusFails \/ CallFails \/ ReplyLost \/ Crash
  BY <1>1, <1>6 DEF InFlight, Get, Done, GetCliManagerNotFound, WriteRefused,
     GetStatusUnchanged, UpdateStatus, UpdateStatusFails, CallFails, ReplyLost,
     Crash, Reset, Fail, Succeed
<1>7. CASE GetCliManager
  <2>1. 1 .. step' - 1 = {}
    BY <1>7 DEF GetCliManager
  <2>2. QED
    BY <2>1 DEF ProgressInv
<1>8. CASE GetUpToDate
  <2>1. /\ pc = "get" /\ obj' = obj /\ Advance(obj'[Operand])
        /\ UNCHANGED <<cfg, touched>>
        /\ obj'[Operand] # NoObj
    BY <1>8 DEF GetUpToDate, cluster
  <2>2. InSync(Operand, obj[Operand], RequiredNow, obj[Operand].gen)
    BY <1>8, InSyncOwnGeneration DEF GetUpToDate, SkipsWrite
  <2>3. QED
    BY <2>1, <2>2, AdvanceProgress
<1>9. CASE GetToWrite \/ GetStatusToWrite \/ UpdateStatusRetry
  BY <1>2, <1>9 DEF GetToWrite, GetStatusToWrite, UpdateStatusRetry, InFlight,
     cluster, local
<1>10. CASE CreateObject \/ UpdateObject
  <2>1. /\ pc = "write" /\ (ObjectCreated \/ ObjectUpdated)
        /\ Advance(obj'[Operand])
        /\ UNCHANGED <<cfg, touched>>
    BY <1>10 DEF CreateObject, UpdateObject
  <2>2. /\ obj'[Operand] # NoObj
        /\ InSync(Operand, obj'[Operand], RequiredNow, obj'[Operand].gen)
    BY <2>1, WriteEffect, NoValueAssumption
  <2>3. \A r \in Resources \ {Operand} : obj'[r] = obj[r]
    BY <2>1, WriteType
  <2>4. QED
    BY <2>1, <2>2, <2>3, AdvanceProgress
<1>11. QED
  BY <1>3, <1>4, <1>5, <1>6, <1>7, <1>8, <1>9, <1>10
  DEF Next, Process, processNextWorkItem, sync, Failure

(***************************************************************************)
(* A sync that finds the status already written has reconciled everything  *)
(* that nobody touched meanwhile, also by the present CliManager.          *)
(***************************************************************************)
LEMMA SyncFinished ==
    ASSUME TypeOK, SyncInv, SnapInv, ProgressInv, pc = "statusGet",
           ~dirty, "CliManager" \notin pending, cr # NoCR, ~StatusChanged(cr),
           NEW r \in Resources \ touched
    PROVE  UpToDate(r)
<1>1. PICK i \in 1 .. Len(SyncOrder) : SyncOrder[i] = r
  BY OrderFacts
<1>2. i \in 1 .. step - 1
  BY <1>1, OrderFacts DEF SyncInv, InFlight
<1>3. Managed(r)
  BY <1>1, <1>2 DEF ProgressInv, InFlight
<1>4. Required(r, cr, cfg) = Required(r, snap, cfg)
  BY SameRequired DEF SnapInv, InFlight
<1>5. InSync(r, obj[r], Required(r, cr, cfg), obj[r].gen)
  BY <1>3, <1>4 DEF Managed
<1>6. CASE r = "Deployment"
  <2>1. obj[r].gen = dep.gen
    BY <1>3, <1>6 DEF Managed
  <2>2. cr = [cr EXCEPT !.lastGen = dep.gen] /\ cr \in CRs
    BY DEF StatusChanged, SetDeploymentGeneration, TypeOK
  <2>3. cr.lastGen = dep.gen
    BY <2>2 DEF CRs
  <2>4. QED
    BY <1>3, <1>5, <2>1, <2>3 DEF UpToDate, Managed
<1>7. CASE r # "Deployment"
  <2>1. InSync(r, obj[r], Required(r, cr, cfg), cr.lastGen)
    BY <1>5, <1>7, InSyncAnyGeneration
  <2>2. QED
    BY <1>3, <2>1 DEF UpToDate, Managed
<1>8. QED
  BY <1>6, <1>7

LEMMA FinishedStep ==
    ReconcileInv /\ TypeOK /\ [Next]_vars => FinishedInv'
<1> SUFFICES ASSUME ReconcileInv, TypeOK, [Next]_vars
             PROVE  FinishedInv'
  OBVIOUS
<1>0. QueueInv /\ SyncInv /\ SnapInv /\ ProgressInv /\ FinishedInv
  BY DEF ReconcileInv
<1>1. CASE ~up' \/ dirty' \/ delayed' \/ "CliManager" \in pending' \/ cr' = NoCR
           \/ pc' \notin {"done", "idle"}
  BY <1>1 DEF FinishedInv
<1>2. CASE /\ pc \in {"done", "idle"} /\ UNCHANGED <<cr, obj, up, cfg, dirty, delayed>>
           /\ touched' = touched
           /\ pending \subseteq pending'
  BY <1>0, <1>2 DEF FinishedInv, UpToDate
<1>3. CASE UNCHANGED vars
  BY <1>0, <1>3 DEF FinishedInv, UpToDate, vars, cluster, queue
<1>4. CASE Backoff \/ \E i \in Informers : Deliver(i)
  BY <1>1, <1>4 DEF Backoff, Deliver, Add
<1>5. CASE Resync
  <2>1. /\ UNCHANGED <<pc, cr, obj, up, cfg, dirty, delayed, touched>>
        /\ pending \subseteq pending'
    BY <1>5 DEF Resync, cluster, queue
  <2>2. QED
    BY <1>1, <1>2, <2>1
<1>6. CASE RunOperator
  <2>1. pending' = Listed /\ cr' = cr
    BY <1>6 DEF RunOperator, cluster
  <2>2. cr # NoCR => "CliManager" \in Listed
    BY DEF Listed, Informers
  <2>3. QED
    BY <1>1, <2>1, <2>2
<1>7. CASE Environment
  BY <1>0, <1>7, EnvironmentEffect, FinishedEnv
<1>8. CASE Get \/ GetCliManager \/ GetUpToDate \/ GetToWrite \/ CreateObject
           \/ UpdateObject \/ GetStatusToWrite \/ UpdateStatusRetry
  BY <1>1, <1>8 DEF Get, GetCliManager, GetUpToDate, GetToWrite, CreateObject,
     UpdateObject, GetStatusToWrite, UpdateStatusRetry, Advance
<1>9. CASE GetCliManagerNotFound \/ WriteRefused \/ UpdateStatusFails \/ CallFails
           \/ ReplyLost
  BY <1>1, <1>9 DEF GetCliManagerNotFound, WriteRefused, UpdateStatusFails,
     CallFails, ReplyLost, Fail, AddRateLimited
<1>10. CASE Done
  BY <1>2, <1>10 DEF Done, cluster
<1>11. CASE Crash
  BY <1>1, <1>11 DEF Crash
<1>12. CASE GetStatusUnchanged
  <2>1. /\ pc = "statusGet" /\ cr # NoCR /\ ~StatusChanged(cr)
        /\ UNCHANGED <<cr, obj, cfg, dirty, pending, touched>>
    BY <1>12 DEF GetStatusUnchanged, cluster
  <2>2. SUFFICES ASSUME ~dirty, "CliManager" \notin pending,
                        NEW r \in Resources \ touched
                 PROVE  UpToDate(r)'
    BY <2>1 DEF FinishedInv
  <2>3. UpToDate(r)
    BY <1>0, <2>1, <2>2, SyncFinished
  <2>4. QED
    BY <2>1, <2>3 DEF UpToDate
<1>13. CASE UpdateStatus
  <2>1. up
    BY <1>0, <1>13, InFlightUp DEF UpdateStatus
  <2>2. "CliManager" \in pending'
    BY <1>13, <2>1 DEF UpdateStatus, StatusUpdated, Notify
  <2>3. QED
    BY <1>1, <2>2
<1>14. QED
  BY <1>3, <1>4, <1>5, <1>6, <1>7, <1>8, <1>9, <1>10, <1>11, <1>12, <1>13
  DEF Next, Process, processNextWorkItem, sync, Failure

(***************************************************************************)
(* A change of the watched operand is not forgotten.                       *)
(***************************************************************************)
LEMMA WatchStep ==
    TypeOK /\ QueueInv /\ WatchInv /\ [Next]_vars => WatchInv'
<1> SUFFICES ASSUME TypeOK, QueueInv, WatchInv, [Next]_vars
             PROVE  WatchInv'
  OBVIOUS
<1>1. CASE ~up' \/ touched' = {} \/ dirty' \/ delayed' \/ pc' = "fetch"
  BY <1>1 DEF WatchInv
<1>2. CASE /\ UNCHANGED <<up, dirty, delayed, touched>>
           /\ pc # "fetch" \/ pc' = pc
           /\ pending \subseteq pending'
  BY <1>2 DEF WatchInv
<1>3. CASE UNCHANGED vars
  BY <1>2, <1>3 DEF vars, queue
<1>4. CASE Backoff \/ \E i \in Informers : Deliver(i)
  BY <1>1, <1>4 DEF Backoff, Deliver, Add
<1>5. CASE Resync
  BY <1>2, <1>5 DEF Resync, queue
<1>6. CASE RunOperator
  BY <1>1, <1>6 DEF RunOperator, QueueInv
<1>7. CASE Environment
  BY <1>7, EnvironmentEffect, WatchEnv
<1>8. CASE Get \/ GetCliManager \/ Crash
  BY <1>1, <1>8 DEF Get, GetCliManager, Crash
<1>9. CASE GetCliManagerNotFound \/ WriteRefused \/ UpdateStatusFails \/ CallFails
           \/ ReplyLost
  BY <1>1, <1>9 DEF GetCliManagerNotFound, WriteRefused, UpdateStatusFails,
     CallFails, ReplyLost, Fail, AddRateLimited
<1>10. CASE Done \/ GetUpToDate \/ GetToWrite \/ GetStatusToWrite
            \/ UpdateStatusRetry \/ GetStatusUnchanged
  BY <1>2, <1>10 DEF Done, GetUpToDate, GetToWrite, GetStatusToWrite,
     UpdateStatusRetry, GetStatusUnchanged, Advance, Succeed, queue
<1>11. CASE CreateObject \/ UpdateObject \/ UpdateStatus
  <2>1. pending \subseteq pending'
    BY <1>11 DEF CreateObject, UpdateObject, UpdateStatus, ObjectCreated,
       ObjectUpdated, StatusUpdated, NotifyOf, Notify
  <2>2. UNCHANGED <<up, dirty, delayed, touched>> /\ pc # "fetch"
    BY <1>11 DEF CreateObject, UpdateObject, UpdateStatus, Advance, Succeed
  <2>3. QED
    BY <1>2, <2>1, <2>2
<1>12. QED
  BY <1>3, <1>4, <1>5, <1>6, <1>7, <1>8, <1>9, <1>10, <1>11
  DEF Next, Process, processNextWorkItem, sync, Failure

-----------------------------------------------------------------------------
LEMMA ReconcileInit == Init => ReconcileInv
<1> SUFFICES ASSUME Init PROVE ReconcileInv
  OBVIOUS
<1>1. QueueInv /\ SnapInv /\ ProgressInv /\ FinishedInv /\ WatchInv
  BY DEF Init, QueueInv, SnapInv, ProgressInv, FinishedInv, WatchInv, InFlight
<1>2. ReadInv
  BY DEF Init, ReadInv
<1>3. QED
  BY <1>1, <1>2, TypeInit DEF ReconcileInv

LEMMA ReconcileStep ==
    ReconcileInv /\ TypeOK /\ [Next]_vars => ReconcileInv'
<1> SUFFICES ASSUME ReconcileInv, TypeOK, [Next]_vars
             PROVE  ReconcileInv'
  OBVIOUS
<1>0. QueueInv /\ SyncInv /\ ReadInv /\ SnapInv /\ ProgressInv /\ WatchInv
  BY DEF ReconcileInv
<1>1. QueueInv'
  BY <1>0, QueueStep
<1>2. SyncInv'
  BY <1>0, SyncStep
<1>3. ReadInv'
  BY <1>0, ReadStep
<1>4. SnapInv'
  BY <1>0, SnapStep
<1>5. ProgressInv'
  BY <1>0, ProgressStep
<1>6. FinishedInv'
  BY FinishedStep
<1>7. WatchInv'
  BY <1>0, WatchStep
<1>8. QED
  BY <1>1, <1>2, <1>3, <1>4, <1>5, <1>6, <1>7 DEF ReconcileInv

(***************************************************************************)
(* The inductive invariant of the controller: between any two steps, a     *)
(* running sync has brought what it has passed into the required state, or *)
(* others have touched it since, and whatever could make a finished sync   *)
(* stale is on its way to the queue.                                       *)
(***************************************************************************)
THEOREM Reconciling == Spec => []ReconcileInv
BY ReconcileStep, ReconcileInit, Typing, PTL DEF Spec

LEMMA RestReconciled == ReconcileInv => QuiescentReconciled
<1> SUFFICES ASSUME ReconcileInv, Quiet, cr # NoCR
             PROVE  /\ "NetworkPolicy" \notin touched
                    /\ \A r \in Resources \ touched : UpToDate(r)
  BY DEF QuiescentReconciled
<1>1. "NetworkPolicy" \notin touched
  BY DEF ReconcileInv, WatchInv, Quiet
<1>2. \A r \in Resources \ touched : UpToDate(r)
  BY DEF ReconcileInv, FinishedInv, Quiet
<1>3. QED
  BY <1>1, <1>2

(***************************************************************************)
(* Whenever the controller rests, with no key queued, delayed or on its    *)
(* way, every operand that nobody has changed since the last sync began is *)
(* as the live CliManager and the running operator require.                *)
(***************************************************************************)
THEOREM NothingLost == Spec => []QuiescentReconciled
BY RestReconciled, Reconciling, PTL

MetadataUnharmed ==
    \A r \in Resources : obj[r] # NoObj =>
        /\ obj'[r] # NoObj
        /\ obj'[r].uid = obj[r].uid
        /\ obj'[r].note = obj[r].note

LEMMA WorkerUnharming ==
    ASSUME TypeOK, SyncInv, ReadInv, processNextWorkItem \/ ReplyLost
    PROVE  MetadataUnharmed
<1> USE DEF MetadataUnharmed
<1>1. CASE obj' = obj
  BY <1>1
<1>2. CASE pc = "write" /\ (ObjectCreated \/ ObjectUpdated)
  <2>1. /\ obj'[Operand] # NoObj
        /\ obj[Operand] # NoObj => /\ obj'[Operand].uid = obj[Operand].uid
                                   /\ obj'[Operand].note = obj[Operand].note
    BY <1>2, WriteEffect, NoValueAssumption
  <2>2. \A r \in Resources \ {Operand} : obj'[r] = obj[r]
    BY <1>2, WriteType
  <2>3. QED
    BY <2>1, <2>2
<1>3. CASE Get \/ Done
  BY <1>1, <1>3 DEF Get, Done, cluster
<1>4. CASE GetCliManager \/ GetCliManagerNotFound \/ GetUpToDate \/ GetToWrite
           \/ WriteRefused
  BY <1>1, <1>4 DEF GetCliManager, GetCliManagerNotFound, GetUpToDate, GetToWrite,
     WriteRefused, cluster
<1>5. CASE GetStatusUnchanged \/ GetStatusToWrite \/ UpdateStatus
           \/ UpdateStatusRetry \/ UpdateStatusFails
  BY <1>1, <1>5 DEF GetStatusUnchanged, GetStatusToWrite, UpdateStatus,
     UpdateStatusRetry, UpdateStatusFails, StatusUpdated, cluster
<1>6. CASE CreateObject \/ UpdateObject
  BY <1>2, <1>6 DEF CreateObject, UpdateObject
<1>7. CASE ReplyLost
  BY <1>1, <1>2, <1>7 DEF ReplyLost, StatusUpdated
<1>8. QED
  BY <1>3, <1>4, <1>5, <1>6, <1>7 DEF processNextWorkItem, sync

(***************************************************************************)
(* The operator's writes lose nothing of what others wrote to an operand's *)
(* metadata and never replace an incarnation of it: the optimistic lock    *)
(* makes every read-modify-write of the Apply functions atomic.            *)
(***************************************************************************)
THEOREM MetadataKept == Spec => ForeignMetadataKept
<1>1. ReconcileInv => SyncInv /\ ReadInv
  BY DEF ReconcileInv
<1>2. TypeOK /\ ReconcileInv /\ [Next]_vars
        => [processNextWorkItem \/ ReplyLost => MetadataUnharmed]_vars
  BY <1>1, WorkerUnharming
<1>3. QED
  BY <1>2, Typing, Reconciling, PTL DEF Spec, ForeignMetadataKept, MetadataUnharmed

-----------------------------------------------------------------------------
(***************************************************************************)
(* What the steps of a process are to others.                              *)
(***************************************************************************)
LEMMA StoredNewer ==
    ASSUME NEW r, NEW o \in Objects, NEW b \in Bodies
    PROVE  \/ Stored(o, toWrite(r, o, b)) = o
           \/ /\ Stored(o, toWrite(r, o, b)).uid = o.uid
              /\ Stored(o, toWrite(r, o, b)).rv > o.rv
<1> DEFINE w == toWrite(r, o, b)
<1>1. w \in Objects /\ o.rv \in Nat
  BY ToWriteType DEF Objects
<1>2. Stored(o, w).uid = o.uid
  BY StoredKeeps
<1> HIDE DEF w
<1>3. w # o => Stored(o, w).rv = o.rv + 1
  BY <1>1 DEF Stored, Objects
<1>4. w = o => Stored(o, w) = o
  BY DEF Stored
<1>5. Stored(o, w) = o \/ (Stored(o, w).uid = o.uid /\ Stored(o, w).rv > o.rv)
  BY <1>1, <1>2, <1>3, <1>4
<1>6. QED
  BY <1>5 DEF w

\* An accepted write makes a new incarnation or a newer version.
LEMMA WriteNewer ==
    ASSUME TypeOK, SyncInv, ReadInv, pc = "write", ObjectCreated \/ ObjectUpdated
    PROVE  Newer
<1>0. /\ Operand \in Resources /\ Operand \in Names
      /\ RequiredNow \in Bodies
      /\ obj \in [Resources -> Objects \cup {NoObj}]
      /\ uids \in [Names -> Nat]
  BY OperandFacts DEF TypeOK, Names
<1>1. \A r \in Resources \ {Operand} : obj'[r] = obj[r] /\ uids'[r] = uids[r]
  BY WriteType, WriteEffect
<1>2. \A r \in Resources : uids[r] \in Nat
  BY <1>0 DEF Names
<1>3. NewerVersion(Operand) /\ uids'[Operand] >= uids[Operand]
  <2>1. CASE ObjectCreated
    <3>1. /\ obj[Operand] = NoObj
          /\ obj'[Operand] = Created(RequiredNow, uids[Operand] + 1)
          /\ uids'[Operand] = uids[Operand] + 1
      BY <1>0, <2>1 DEF ObjectCreated, CreateAccepted
    <3>2. obj'[Operand].uid = uids[Operand] + 1
      BY <3>1 DEF Created
    <3>3. QED
      BY <1>0, <3>1, <3>2 DEF NewerVersion
  <2>2. CASE ObjectUpdated
    <3>1. /\ obj[Operand] \in Objects /\ seen # NoObj
          /\ obj[Operand].uid = seen.uid /\ obj[Operand].rv = seen.rv
      BY <1>0, <2>2 DEF ObjectUpdated, UpdateAccepted, Current
    <3>2. obj[Operand].rv \in Nat /\ obj[Operand] # NoObj
      BY <3>1, NoValueAssumption DEF Objects
    <3>3. seen = obj[Operand]
      BY <3>1, <3>2 DEF ReadInv
    <3>4. /\ obj'[Operand] = Stored(obj[Operand],
                                    toWrite(Operand, obj[Operand], RequiredNow))
          /\ uids' = uids
      BY <1>0, <2>2, <3>3 DEF ObjectUpdated
    <3>5. NewerVersion(Operand)
      BY <1>0, <3>1, <3>2, <3>4, StoredNewer DEF NewerVersion
    <3>6. QED
      BY <1>0, <1>2, <3>4, <3>5
  <2>3. QED
    BY <2>1, <2>2
<1>4. QED
  BY <1>1, <1>2, <1>3 DEF Newer, NewerVersion

LEMMA UnchangedNewer ==
    ASSUME TypeOK, UNCHANGED <<obj, uids>>
    PROVE  Newer
<1>1. \A r \in Resources : uids[r] \in Nat
  BY DEF TypeOK, Names
<1>2. QED
  BY <1>1 DEF Newer, NewerVersion

\* A worker inside sync, to others: it leaves the queue alone, and the informers
\* hear of what it changes.
LEMMA SyncSeen ==
    ASSUME TypeOK, SyncInv, ReadInv, sync
    PROVE  /\ Newer
           /\ UNCHANGED <<up, queued, dirty, processing, edits, faults>>
           /\ pending \subseteq pending'
           /\ up /\ cr' # cr => "CliManager" \in pending'
           /\ up /\ obj'["NetworkPolicy"] # obj["NetworkPolicy"] =>
                "NetworkPolicy" \in pending'
<1>1. CASE GetCliManager \/ GetCliManagerNotFound \/ GetUpToDate \/ GetToWrite
           \/ WriteRefused
  <2>1. UNCHANGED <<cr, obj, uids, up, queued, dirty, processing, pending, edits, faults>>
    BY <1>1 DEF GetCliManager, GetCliManagerNotFound, GetUpToDate, GetToWrite,
       WriteRefused, cluster, queue
  <2>2. QED
    BY <2>1, UnchangedNewer
<1>2. CASE GetStatusUnchanged \/ GetStatusToWrite \/ UpdateStatusRetry
           \/ UpdateStatusFails
  <2>1. UNCHANGED <<cr, obj, uids, up, queued, dirty, processing, pending, edits, faults>>
    BY <1>2 DEF GetStatusUnchanged, GetStatusToWrite, UpdateStatusRetry,
       UpdateStatusFails, cluster, queue
  <2>2. QED
    BY <2>1, UnchangedNewer
<1>3. CASE UpdateStatus
  <2>1. UNCHANGED <<obj, uids, up, queued, dirty, processing, edits, faults>>
    BY <1>3 DEF UpdateStatus, StatusUpdated
  <2>2. pending' = IF up THEN pending \cup {"CliManager"} ELSE pending
    BY <1>3 DEF UpdateStatus, StatusUpdated, Notify
  <2>3. QED
    BY <2>1, <2>2, UnchangedNewer
<1>4. CASE CreateObject \/ UpdateObject
  <2>1. pc = "write" /\ (ObjectCreated \/ ObjectUpdated)
    BY <1>4 DEF CreateObject, UpdateObject
  <2>2. UNCHANGED <<cr, up, queued, dirty, processing, edits, faults>>
    BY <1>4 DEF CreateObject, UpdateObject, ObjectCreated, ObjectUpdated
  <2>3. Newer
    BY <2>1, WriteNewer
  <2>4. pending' = pending \/ NotifyOf(Operand)
    BY <2>1 DEF ObjectCreated, ObjectUpdated
  <2>5. pending \subseteq pending'
    BY <2>4 DEF NotifyOf, Notify
  <2>6. ASSUME up, obj'["NetworkPolicy"] # obj["NetworkPolicy"]
        PROVE  "NetworkPolicy" \in pending'
    <3>1. Operand = "NetworkPolicy"
      BY <2>1, <2>6, WriteType, OrderFacts
    <3>2. NotifyOf(Operand)
      BY <2>1, <2>6 DEF ObjectCreated, ObjectUpdated
    <3>3. QED
      BY <2>6, <3>1, <3>2 DEF NotifyOf, Notify
  <2>7. QED
    BY <2>2, <2>3, <2>5, <2>6
<1>5. QED
  BY <1>1, <1>2, <1>3, <1>4 DEF sync

\* So it is with every step: versions only grow, incarnations are only added.
LEMMA StepNewer ==
    ASSUME TypeOK, SyncInv, ReadInv, [Next]_vars
    PROVE  Newer
<1>1. CASE UNCHANGED <<obj, uids>>
  BY <1>1, UnchangedNewer
<1>2. CASE sync
  BY <1>2, SyncSeen
<1>3. CASE Environment
  BY <1>3, EnvironmentEffect DEF EnvEffect
<1>4. CASE UNCHANGED vars \/ Get \/ Done \/ Backoff \/ Resync \/ RunOperator
           \/ (\E i \in Informers : Deliver(i))
  BY <1>1, <1>4 DEF vars, cluster, Get, Done, Backoff, Resync, RunOperator, Deliver
<1>5. CASE CallFails \/ Crash
  BY <1>1, <1>5 DEF CallFails, Crash, cluster
<1>6. CASE ReplyLost
  <2>1. CASE pc = "write" /\ (ObjectCreated \/ ObjectUpdated)
    BY <2>1, WriteNewer
  <2>2. CASE pc = "statusWrite" /\ StatusUpdated
    BY <1>1, <2>2 DEF StatusUpdated
  <2>3. QED
    BY <1>6, <2>1, <2>2 DEF ReplyLost
<1>7. QED
  BY <1>2, <1>3, <1>4, <1>5, <1>6
  DEF Next, Process, processNextWorkItem, Failure
=============================================================================
