----------------------------- MODULE DriftProofs -----------------------------
(***************************************************************************)
(* What the generation recorded in the CliManager's status is good for:    *)
(* proofs about DriftDetected of TargetConfigReconciler.                   *)
(*                                                                         *)
(* ApplyDeployment compares nothing of the spec; it relies on the hash in  *)
(* the annotation for what it wanted itself, and on the generation for     *)
(* what others did.  That is sound while the Deployment is in its first    *)
(* incarnation, since its generation only grows, and unsound afterwards,   *)
(* since a generation may come back: run generation shows how.             *)
(***************************************************************************)
EXTENDS ReconcilerProofs

\* A recorded generation g proves that nobody has changed the spec since.
Settled(g) ==
    /\ g <= obj["Deployment"].gen
    /\ g = obj["Deployment"].gen => obj["Deployment"].spec.drift = {}

\* The hash annotation, where there is one, is of the spec that was written.
HashInv ==
    obj["Deployment"] # NoObj =>
        obj["Deployment"].hash \in {NoHash, obj["Deployment"].spec.intent}

\* In the first incarnation of the Deployment every copy of a generation the
\* operator holds, or has recorded, is settled; before it there is none.
GenerationInv ==
    /\ uids["Deployment"] = 0 =>
         /\ obj["Deployment"] = NoObj
         /\ cr # NoCR => cr.lastGen = -1
         /\ snap # NoCR => snap.lastGen = -1
         /\ dep = NoObj
    /\ uids["Deployment"] = 1 /\ obj["Deployment"] # NoObj =>
         /\ cr # NoCR => Settled(cr.lastGen)
         /\ snap # NoCR => Settled(snap.lastGen)
         /\ dep # NoObj => Settled(dep.gen)

(***************************************************************************)
(* What any step may do to the Deployment.                                 *)
(***************************************************************************)
DeploymentEffect ==
    \/ obj'["Deployment"] = obj["Deployment"] /\ uids'["Deployment"] = uids["Deployment"]
    \/ obj'["Deployment"] = NoObj /\ uids'["Deployment"] = uids["Deployment"]
    \/ /\ obj["Deployment"] # NoObj
       /\ obj'["Deployment"] \in Objects
       /\ uids'["Deployment"] = uids["Deployment"]
       /\ \/ /\ obj'["Deployment"].gen = obj["Deployment"].gen
             /\ obj'["Deployment"].spec = obj["Deployment"].spec
          \/ obj'["Deployment"].gen = obj["Deployment"].gen + 1
    \/ /\ obj["Deployment"] = NoObj
       /\ obj'["Deployment"] \in Objects
       /\ uids'["Deployment"] = uids["Deployment"] + 1
       /\ obj'["Deployment"].gen = 1

LEMMA SettledKept ==
    ASSUME TypeOK, DeploymentEffect, NEW g \in Int,
           uids'["Deployment"] = 1, obj'["Deployment"] # NoObj,
           uids["Deployment"] = 0 => obj["Deployment"] = NoObj /\ g = -1,
           uids["Deployment"] = 1 /\ obj["Deployment"] # NoObj => Settled(g)
    PROVE  /\ g <= obj'["Deployment"].gen
           /\ g = obj'["Deployment"].gen => obj'["Deployment"].spec.drift = {}
<1>1. /\ uids["Deployment"] \in Nat
      /\ obj["Deployment"] # NoObj => obj["Deployment"].gen \in Nat
  BY OrderFacts DEF TypeOK, Names, Objects
<1>2. CASE obj'["Deployment"] = obj["Deployment"] /\ uids'["Deployment"] = uids["Deployment"]
  BY <1>2 DEF Settled
<1>3. CASE /\ obj["Deployment"] # NoObj
           /\ uids'["Deployment"] = uids["Deployment"]
           /\ \/ /\ obj'["Deployment"].gen = obj["Deployment"].gen
                 /\ obj'["Deployment"].spec = obj["Deployment"].spec
              \/ obj'["Deployment"].gen = obj["Deployment"].gen + 1
  BY <1>1, <1>3 DEF Settled
<1>4. CASE /\ uids'["Deployment"] = uids["Deployment"] + 1
           /\ obj'["Deployment"].gen = 1
  <2>1. g = -1
    BY <1>1, <1>4
  <2>2. QED
    BY <1>4, <2>1
<1>5. QED
  BY <1>2, <1>3, <1>4 DEF DeploymentEffect

(***************************************************************************)
(* GenerationInv is kept by every step that changes the Deployment as      *)
(* above and gets generations from nowhere but the Deployment itself.      *)
(***************************************************************************)
LEMMA GenerationKept ==
    ASSUME TypeOK, GenerationInv, DeploymentEffect,
           cr' # NoCR => \/ cr'.lastGen = -1
                         \/ cr # NoCR /\ cr'.lastGen = cr.lastGen
                         \/ dep # NoObj /\ cr'.lastGen = dep.gen,
           snap' \in {NoCR, snap, cr},
           \/ dep' \in {NoObj, dep}
           \/ dep' = obj'["Deployment"] /\ dep'.spec.drift = {} /\ dep'.gen \in Nat
    PROVE  GenerationInv'
<1>1. /\ uids["Deployment"] \in Nat
      /\ obj["Deployment"] # NoObj => obj["Deployment"].gen \in Nat
      /\ cr # NoCR => cr.lastGen \in Int
      /\ snap # NoCR => snap.lastGen \in Int
      /\ dep # NoObj => dep.gen \in Int
  <2>1. /\ uids["Deployment"] \in Nat
        /\ obj["Deployment"] \in Objects \cup {NoObj}
    BY OrderFacts DEF TypeOK, Names
  <2>2. \A o \in Objects : o.gen \in Nat /\ o.gen \in Int
    BY DEF Objects
  <2>3. \A c \in CRs : c.lastGen \in Int
    BY DEF CRs
  <2>4. cr \in CRs \cup {NoCR} /\ snap \in CRs \cup {NoCR} /\ dep \in Objects \cup {NoObj}
    BY DEF TypeOK
  <2>5. QED
    BY <2>1, <2>2, <2>3, <2>4
<1>2. ASSUME uids'["Deployment"] = 0
      PROVE  /\ obj'["Deployment"] = NoObj
             /\ cr' # NoCR => cr'.lastGen = -1
             /\ snap' # NoCR => snap'.lastGen = -1
             /\ dep' = NoObj
  <2>1. uids["Deployment"] = 0
    BY <1>1, <1>2 DEF DeploymentEffect
  <2>2. obj'["Deployment"] = NoObj
    BY <1>1, <1>2, <2>1 DEF DeploymentEffect, GenerationInv
  <2>3. QED
    BY <2>1, <2>2 DEF GenerationInv
<1>3. ASSUME uids'["Deployment"] = 1, obj'["Deployment"] # NoObj
      PROVE  /\ cr' # NoCR => Settled(cr.lastGen)'
             /\ snap' # NoCR => Settled(snap.lastGen)'
             /\ dep' # NoObj => Settled(dep.gen)'
  <2> DEFINE Fine(g) == /\ g <= obj'["Deployment"].gen
                        /\ g = obj'["Deployment"].gen =>
                              obj'["Deployment"].spec.drift = {}
  <2>0. obj'["Deployment"].gen \in Nat
    BY <1>1, <1>3 DEF DeploymentEffect, Objects
  <2>1. Fine(-1)
    BY <2>0
  <2>2. cr # NoCR => Fine(cr.lastGen)
    <3>1. /\ uids["Deployment"] = 0 /\ cr # NoCR =>
                obj["Deployment"] = NoObj /\ cr.lastGen = -1
          /\ uids["Deployment"] = 1 /\ obj["Deployment"] # NoObj /\ cr # NoCR =>
                Settled(cr.lastGen)
      BY DEF GenerationInv
    <3>2. QED
      BY <1>1, <1>3, <3>1, SettledKept
  <2>3. snap # NoCR => Fine(snap.lastGen)
    <3>1. /\ uids["Deployment"] = 0 /\ snap # NoCR =>
                obj["Deployment"] = NoObj /\ snap.lastGen = -1
          /\ uids["Deployment"] = 1 /\ obj["Deployment"] # NoObj /\ snap # NoCR =>
                Settled(snap.lastGen)
      BY DEF GenerationInv
    <3>2. QED
      BY <1>1, <1>3, <3>1, SettledKept
  <2>4. dep # NoObj => Fine(dep.gen)
    <3>1. /\ uids["Deployment"] = 0 => dep = NoObj
          /\ uids["Deployment"] = 1 /\ obj["Deployment"] # NoObj /\ dep # NoObj =>
                Settled(dep.gen)
      BY DEF GenerationInv
    <3>2. QED
      BY <1>1, <1>3, <3>1, SettledKept
  <2>5. dep' # NoObj => Fine(dep'.gen)
    BY <2>0, <2>4
  <2>6. cr' # NoCR => Fine(cr'.lastGen)
    BY <2>1, <2>2, <2>4
  <2>7. snap' # NoCR => Fine(snap'.lastGen)
    BY <2>2, <2>3
  <2>8. QED
    BY <2>5, <2>6, <2>7 DEF Settled
<1>4. QED
  BY <1>2, <1>3 DEF GenerationInv

-----------------------------------------------------------------------------
(***************************************************************************)
(* The steps of others, and the operator's writes.                         *)
(***************************************************************************)
LEMMA EditedGeneration ==
    ASSUME NEW o \in Objects, NEW d \in SUBSET {"compared", "hidden", "roleRef"}
    PROVE  /\ [o EXCEPT !.rv = @ + 1, !.gen = @ + 1, !.spec.drift = d].gen = o.gen + 1
           /\ [o EXCEPT !.rv = @ + 1, !.gen = @ + 1, !.spec.drift = d].hash = o.hash
           /\ [o EXCEPT !.rv = @ + 1, !.gen = @ + 1, !.spec.drift = d].owner = o.owner
           /\ [o EXCEPT !.rv = @ + 1, !.gen = @ + 1, !.spec.drift = d].spec.intent
                = o.spec.intent
BY DEF Objects

LEMMA AnnotatedGeneration ==
    ASSUME NEW o \in Objects
    PROVE  /\ [o EXCEPT !.rv = @ + 1, !.note = @ + 1].gen = o.gen
           /\ [o EXCEPT !.rv = @ + 1, !.note = @ + 1].spec = o.spec
           /\ [o EXCEPT !.rv = @ + 1, !.note = @ + 1].hash = o.hash
           /\ [o EXCEPT !.rv = @ + 1, !.note = @ + 1].owner = o.owner
           /\ [o EXCEPT !.rv = @ + 1, !.owner = 0, !.hash = NoHash].gen = o.gen
           /\ [o EXCEPT !.rv = @ + 1, !.owner = 0, !.hash = NoHash].spec = o.spec
           /\ [o EXCEPT !.rv = @ + 1, !.owner = 0, !.hash = NoHash].hash = NoHash
           /\ [o EXCEPT !.rv = @ + 1, !.owner = 0, !.hash = NoHash].owner = 0
BY DEF Objects

\* Others write the Deployment, and not its owner, except to remove it.
LEMMA EnvironmentDeployment ==
    ASSUME TypeOK, HashInv, Environment
    PROVE  /\ DeploymentEffect
           /\ HashInv'
           /\ obj'["Deployment"] # NoObj =>
                \/ obj'["Deployment"].owner = 0
                \/ obj["Deployment"] # NoObj
                   /\ obj'["Deployment"].owner = obj["Deployment"].owner
           /\ obj["Deployment"] # NoObj /\ obj'["Deployment"] = NoObj =>
                "Deployment" \in Deletable \/ Orphaned("Deployment")
<1> DEFINE D == "Deployment"
           Goal == /\ DeploymentEffect
                   /\ HashInv'
                   /\ obj'[D] # NoObj =>
                        \/ obj'[D].owner = 0
                        \/ obj[D] # NoObj /\ obj'[D].owner = obj[D].owner
                   /\ obj[D] # NoObj /\ obj'[D] = NoObj =>
                        D \in Deletable \/ Orphaned(D)
<1>0. /\ D \in Resources /\ D \in Names /\ obj[D] \in Objects \cup {NoObj}
      /\ obj \in [Resources -> Objects \cup {NoObj}]
      /\ uids \in [Names -> Nat]
  BY OrderFacts DEF TypeOK, Names
<1>1. ASSUME obj'[D] = obj[D], uids'[D] = uids[D]
      PROVE  Goal
  BY <1>1 DEF DeploymentEffect, HashInv
<1>2. CASE CreateCR \/ EditCR \/ DeleteCR
  <2>1. obj' = obj
    BY <1>2 DEF CreateCR, EditCR, DeleteCR
  <2>2. uids'[D] = uids[D]
    BY <1>0, <1>2 DEF CreateCR, EditCR, DeleteCR
  <2>3. QED
    BY <1>1, <2>1, <2>2
<1>3. ASSUME NEW r \in Resources, r # D,
             \/ EditObject(r) \/ AnnotateObject(r) \/ StripObject(r)
             \/ DeleteObject(r) \/ UsurpObject(r) \/ CollectGarbage(r)
      PROVE  Goal
  <2>1. PICK o : Put(r, o)
    BY <1>3 DEF EditObject, AnnotateObject, StripObject, DeleteObject, UsurpObject,
                CollectGarbage
  <2>2. obj'[D] = obj[D]
    BY <1>0, <1>3, <2>1 DEF Put
  <2>3. uids' = uids \/ uids' = [uids EXCEPT ![r] = @ + 1]
    BY <1>3 DEF EditObject, AnnotateObject, StripObject, DeleteObject, UsurpObject,
                CollectGarbage
  <2>4. uids'[D] = uids[D]
    BY <1>0, <1>3, <2>3
  <2>5. QED
    BY <1>1, <2>2, <2>4
<1>4. CASE EditObject(D)
  <2>1. PICK f \in EditableFields(D), revert \in BOOLEAN :
          Put(D, [obj[D] EXCEPT !.rv = @ + 1, !.gen = @ + 1,
                                !.spec.drift = IF revert THEN @ \ {f}
                                                         ELSE @ \cup {f}])
    BY <1>4 DEF EditObject
  <2> DEFINE d == IF revert THEN obj[D].spec.drift \ {f} ELSE obj[D].spec.drift \cup {f}
             o == [obj[D] EXCEPT !.rv = @ + 1, !.gen = @ + 1, !.spec.drift = d]
  <2>2. obj[D] \in Objects /\ obj[D] # NoObj /\ uids' = uids
    BY <1>0, <1>4 DEF EditObject
  <2>3. d \in SUBSET {"compared", "hidden", "roleRef"}
    BY <2>1, <2>2 DEF EditableFields, Objects
  <2>4. obj'[D] = o
    BY <1>0, <2>1 DEF Put
  <2>5. o \in Objects /\ o # NoObj
    BY <2>2, <2>3, OthersWriteType, NoValueAssumption
  <2>6. /\ o.gen = obj[D].gen + 1 /\ o.hash = obj[D].hash
        /\ o.owner = obj[D].owner /\ o.spec.intent = obj[D].spec.intent
    BY <2>2, <2>3, EditedGeneration
  <2> HIDE DEF o
  <2>7. QED
    BY <2>2, <2>4, <2>5, <2>6 DEF DeploymentEffect, HashInv
<1>5. ASSUME NEW o \in Objects, obj[D] \in Objects, obj'[D] = o, uids' = uids,
             o.gen = obj[D].gen, o.spec = obj[D].spec,
             \/ o.hash = obj[D].hash /\ o.owner = obj[D].owner
             \/ o.hash = NoHash /\ o.owner = 0
      PROVE  Goal
  BY <1>5, NoValueAssumption DEF DeploymentEffect, HashInv
<1>6. CASE AnnotateObject(D)
  <2> DEFINE o == [obj[D] EXCEPT !.rv = @ + 1, !.note = @ + 1]
  <2>1. obj[D] \in Objects /\ uids' = uids /\ obj'[D] = o
    BY <1>0, <1>6 DEF AnnotateObject, Put
  <2>2. /\ o \in Objects /\ o.gen = obj[D].gen /\ o.spec = obj[D].spec
        /\ o.hash = obj[D].hash /\ o.owner = obj[D].owner
    BY <2>1, OthersWriteType, AnnotatedGeneration
  <2> HIDE DEF o
  <2>3. QED
    BY <1>5, <2>1, <2>2
<1>7. CASE StripObject(D)
  <2> DEFINE o == [obj[D] EXCEPT !.rv = @ + 1, !.owner = 0, !.hash = NoHash]
  <2>1. obj[D] \in Objects /\ uids' = uids /\ obj'[D] = o
    BY <1>0, <1>7 DEF StripObject, Put
  <2>2. /\ o \in Objects /\ o.gen = obj[D].gen /\ o.spec = obj[D].spec
        /\ o.hash = NoHash /\ o.owner = 0
    BY <2>1, OthersWriteType, AnnotatedGeneration
  <2> HIDE DEF o
  <2>3. QED
    BY <1>5, <2>1, <2>2
<1>8. CASE DeleteObject(D) \/ CollectGarbage(D)
  <2>1. obj'[D] = NoObj /\ uids' = uids /\ (D \in Deletable \/ Orphaned(D))
    BY <1>0, <1>8 DEF DeleteObject, CollectGarbage, Put
  <2>2. QED
    BY <2>1 DEF DeploymentEffect, HashInv
<1>9. CASE UsurpObject(D)
  <2> DEFINE b == [owner |-> 0, hash |-> NoHash,
                   spec |-> [intent |-> foreign,
                             drift |-> EditableFields(D) \cup
                                (IF D \in Bindings THEN {"roleRef"} ELSE {})]]
             o == Created(b, uids[D] + 1)
  <2>1. /\ obj[D] = NoObj /\ obj'[D] = o
        /\ uids'[D] = uids[D] + 1
    BY <1>0, <1>9 DEF UsurpObject, Put
  <2>2. b \in Bodies /\ uids[D] + 1 \in Nat
    BY <1>0 DEF Bodies, foreign, manifest, Intents, Manifests, EditableFields
  <2>3. o \in Objects /\ o # NoObj
    <3> HIDE DEF b
    <3>1. QED
      BY <2>2, CreatedType
  <2>4. o.gen = 1 /\ o.hash = NoHash /\ o.owner = 0
    BY DEF Created
  <2> HIDE DEF o
  <2>5. QED
    BY <2>1, <2>3, <2>4 DEF DeploymentEffect, HashInv
<1>10. Goal
  BY <1>2, <1>3, <1>4, <1>6, <1>7, <1>8, <1>9 DEF Environment
<1>11. QED
  BY <1>10

\* What the operator requires of the Deployment has the hash of its own spec.
LEMMA RequiredHash ==
    ASSUME NEW c \in CRs, NEW g \in Configs
    PROVE  /\ Required("Deployment", c, g).hash = Required("Deployment", c, g).spec.intent
           /\ Required("Deployment", c, g).hash # NoHash
           /\ Required("Deployment", c, g).owner = c.uid
<1>1. Required("Deployment", c, g) \in Bodies
  BY OrderFacts, RequiredType
<1>2. Required("Deployment", c, g).hash = Required("Deployment", c, g).spec.intent
  BY DEF Required, Hash, Hashed
<1>3. Required("Deployment", c, g).spec.intent \in Intents
  BY <1>1 DEF Bodies
<1>4. Required("Deployment", c, g).owner = c.uid
  BY DEF Required, OwnerReference
<1>5. QED
  BY <1>2, <1>3, <1>4, NoValueAssumption

LEMMA StoredDeployment ==
    ASSUME NEW o \in Objects, NEW b \in Bodies, b.hash # NoHash
    PROVE  LET n == Stored(o, toWrite("Deployment", o, b)) IN
             /\ n.owner = b.owner /\ n.hash = b.hash /\ n.spec = b.spec
             /\ (n.gen = o.gen /\ n.spec = o.spec) \/ n.gen = o.gen + 1
<1> DEFINE w == toWrite("Deployment", o, b)
<1>1. w \in Objects
  BY ToWriteType
<1>2. w.owner = b.owner /\ w.hash = b.hash /\ w.spec = b.spec
  BY DEF toWrite, EnsureObjectMeta, Objects, Bodies
<1> HIDE DEF w
<1>3. CASE w = o
  <2>1. Stored(o, w) = o
    BY <1>3 DEF Stored
  <2>2. QED
    BY <1>2, <1>3, <2>1 DEF w
<1>4. CASE w # o
  <2>1. /\ Stored(o, w).owner = w.owner
        /\ Stored(o, w).hash = w.hash
        /\ Stored(o, w).spec = w.spec
        /\ Stored(o, w).gen = IF w.spec = o.spec THEN o.gen ELSE o.gen + 1
    BY <1>1, <1>4 DEF Stored, Objects
  <2>2. QED
    BY <1>2, <2>1 DEF w
<1>5. QED
  BY <1>3, <1>4

LEMMA WriteDeployment ==
    ASSUME TypeOK, SyncInv, ReadInv, HashInv, pc = "write",
           ObjectCreated \/ ObjectUpdated
    PROVE  /\ DeploymentEffect
           /\ HashInv'
           /\ Operand = "Deployment" =>
                /\ obj'["Deployment"] \in Objects
                /\ obj'["Deployment"].spec.drift = {}
                /\ obj'["Deployment"].owner = snap.uid
           /\ Operand # "Deployment" => obj'["Deployment"] = obj["Deployment"]
<1> DEFINE D == "Deployment"
           b == Required(D, snap, cfg)
<1>0. /\ D \in Resources /\ D \in Names /\ obj[D] \in Objects \cup {NoObj}
      /\ obj \in [Resources -> Objects \cup {NoObj}]
      /\ uids \in [Names -> Nat]
      /\ snap \in CRs /\ cfg \in Configs
  BY OperandFacts, OrderFacts DEF TypeOK, Names
<1>1. CASE Operand # D
  <2>1. obj'[D] = obj[D] /\ uids'[D] = uids[D]
    BY <1>0, <1>1, WriteType, WriteEffect
  <2>2. QED
    BY <1>1, <2>1 DEF DeploymentEffect, HashInv
<1>2. CASE Operand = D
  <2>1. b = RequiredNow /\ b \in Bodies /\ b.spec.drift = {}
    BY <1>2, OperandFacts DEF RequiredNow
  <2>2. b.hash = b.spec.intent /\ b.hash # NoHash /\ b.owner = snap.uid
    BY <1>0, RequiredHash
  <2>3. obj'[D] \in Objects /\ obj'[D] # NoObj
    BY <1>2, WriteType, NoValueAssumption
  <2> HIDE DEF b
  <2>4. CASE ObjectCreated
    <3> DEFINE o == Created(b, uids[D] + 1)
    <3>1. obj[D] = NoObj /\ obj'[D] = o /\ uids'[D] = uids[D] + 1
      BY <1>0, <1>2, <2>1, <2>4 DEF ObjectCreated, CreateAccepted
    <3>2. o.gen = 1 /\ o.hash = b.hash /\ o.spec = b.spec /\ o.owner = b.owner
      BY DEF Created
    <3> HIDE DEF o
    <3>3. QED
      BY <1>2, <2>1, <2>2, <2>3, <3>1, <3>2 DEF DeploymentEffect, HashInv
  <2>5. CASE ObjectUpdated
    <3> DEFINE o == Stored(obj[D], toWrite(D, obj[D], b))
    <3>1. /\ obj[D] \in Objects /\ seen # NoObj
          /\ obj[D].uid = seen.uid /\ obj[D].rv = seen.rv
      BY <1>0, <1>2, <2>5 DEF ObjectUpdated, UpdateAccepted, Current
    <3>2. obj[D].rv \in Nat
      BY <3>1 DEF Objects
    <3>3. seen = obj[D]
      BY <1>2, <3>1, <3>2, NoValueAssumption DEF ReadInv
    <3>4. obj'[D] = o /\ uids' = uids
      BY <1>0, <1>2, <2>1, <2>5, <3>3 DEF ObjectUpdated
    <3>5. /\ o.owner = b.owner /\ o.hash = b.hash /\ o.spec = b.spec
          /\ (o.gen = obj[D].gen /\ o.spec = obj[D].spec) \/ o.gen = obj[D].gen + 1
      BY <2>1, <2>2, <3>1, StoredDeployment
    <3> HIDE DEF o
    <3>6. obj[D] # NoObj
      BY <3>1, NoValueAssumption
    <3>7. QED
      BY <1>2, <2>1, <2>2, <2>3, <3>4, <3>5, <3>6 DEF DeploymentEffect, HashInv
  <2>6. QED
    BY <2>4, <2>5
<1>3. QED
  BY <1>1, <1>2

-----------------------------------------------------------------------------
(***************************************************************************)
(* A Deployment that ApplyDeployment leaves alone has the hash of the      *)
(* required spec and the recorded generation; in the first incarnation it  *)
(* is then as required.                                                    *)
(***************************************************************************)
LEMMA FoundUpToDate ==
    ASSUME TypeOK, SyncInv, HashInv, GenerationInv, GetUpToDate,
           Operand = "Deployment"
    PROVE  /\ obj["Deployment"].gen = snap.lastGen
           /\ obj["Deployment"].owner = snap.uid
           /\ uids["Deployment"] = 1 =>
                /\ obj["Deployment"].spec.drift = {}
                /\ obj["Deployment"].spec = RequiredNow.spec
<1> DEFINE D == "Deployment"
           b == Required(D, snap, cfg)
<1>0. /\ obj[D] \in Objects /\ obj[D] # NoObj /\ snap \in CRs /\ cfg \in Configs
      /\ b \in Bodies /\ b.spec.drift = {} /\ b = RequiredNow /\ snap # NoCR
  BY OperandFacts, NoValueAssumption DEF GetUpToDate, RequiredNow, TypeOK
<1>1. /\ EnsureObjectMeta(obj[D], b) = obj[D]
      /\ SpecSame("Deployment", obj[D], b, snap.lastGen)
  BY <1>0 DEF GetUpToDate, SkipsWrite, InSync, ExpectedDeploymentGeneration
<1>2. obj[D].gen = snap.lastGen
  BY <1>1 DEF SpecSame, generationSame, Services
<1>3. b.hash = b.spec.intent /\ b.hash # NoHash /\ b.owner = snap.uid
  BY <1>0, RequiredHash
<1> HIDE DEF b
<1>4. EnsureObjectMeta(obj[D], b).hash = b.hash /\ EnsureObjectMeta(obj[D], b).owner = b.owner
  BY <1>0, <1>3 DEF EnsureObjectMeta, Objects
<1>5. obj[D].hash = b.hash /\ obj[D].owner = snap.uid
  BY <1>1, <1>3, <1>4
<1>6. obj[D].spec.intent = b.spec.intent
  BY <1>0, <1>3, <1>5 DEF HashInv
<1>7. uids[D] = 1 => obj[D].spec.drift = {}
  BY <1>0, <1>2 DEF GenerationInv, Settled
<1>8. obj[D].spec.drift = {} => obj[D].spec = b.spec
  <2>1. /\ obj[D].spec \in [intent : Intents, drift : SUBSET {"compared", "hidden", "roleRef"}]
        /\ b.spec \in [intent : Intents, drift : SUBSET {"compared", "hidden", "roleRef"}]
    BY <1>0 DEF Objects, Bodies
  <2>2. QED
    BY <1>0, <1>6, <2>1
<1>9. QED
  BY <1>0, <1>2, <1>5, <1>7, <1>8

LEMMA RecordedGeneration ==
    ASSUME TypeOK, SyncInv, pc = "statusWrite", StatusUpdated
    PROVE  /\ cr # NoCR /\ cr'.uid = cr.uid
           /\ dep # NoObj /\ cr'.lastGen = dep.gen
           /\ UNCHANGED <<obj, uids>>
<1>1. cr \in CRs /\ cr # NoCR /\ cr' = [SetDeploymentGeneration(cr) EXCEPT !.rv = @ + 1]
  BY DEF StatusUpdated, StatusCurrent, TypeOK
<1>2. cr'.lastGen = dep.gen /\ cr'.uid = cr.uid
  BY <1>1 DEF SetDeploymentGeneration, CRs
<1>3. dep # NoObj
  <2>1. PICK i \in 1 .. Len(SyncOrder) : SyncOrder[i] = "Deployment"
    BY OrderFacts
  <2>2. i \in 1 .. step - 1
    BY <2>1, OrderFacts DEF SyncInv, InFlight
  <2>3. QED
    BY <2>1, <2>2 DEF SyncInv, InFlight
<1>4. QED
  BY <1>1, <1>2, <1>3 DEF StatusUpdated

LEMMA GenerationStep ==
    /\ TypeOK /\ SyncInv /\ ReadInv /\ HashInv /\ GenerationInv /\ [Next]_vars
    => HashInv' /\ GenerationInv'
<1> SUFFICES ASSUME TypeOK, SyncInv, ReadInv, HashInv, GenerationInv, [Next]_vars
             PROVE  HashInv' /\ GenerationInv'
  OBVIOUS
<1> DEFINE D == "Deployment"
<1>1. ASSUME UNCHANGED <<obj, uids>>
      PROVE  HashInv' /\ DeploymentEffect
  BY <1>1 DEF HashInv, DeploymentEffect
<1>2. ASSUME UNCHANGED <<cr, obj, uids>>, snap' \in {NoCR, snap, cr},
             dep' \in {NoObj, dep}
      PROVE  HashInv' /\ GenerationInv'
  BY <1>1, <1>2, GenerationKept
<1>3. CASE UNCHANGED vars \/ Backoff \/ Resync \/ RunOperator
           \/ \E i \in Informers : Deliver(i)
  <2>1. UNCHANGED <<cr, obj, uids, snap, dep>>
    BY <1>3 DEF vars, cluster, local, Backoff, Resync, Deliver, RunOperator
  <2>2. QED
    BY <1>2, <2>1
<1>4. CASE Get \/ GetCliManagerNotFound \/ GetToWrite \/ WriteRefused
           \/ GetStatusUnchanged \/ GetStatusToWrite \/ UpdateStatusRetry
           \/ UpdateStatusFails \/ CallFails
  <2>1. UNCHANGED <<cr, obj, uids, snap, dep>>
    BY <1>4 DEF Get, GetCliManagerNotFound, GetToWrite, WriteRefused,
       GetStatusUnchanged, GetStatusToWrite, UpdateStatusRetry, UpdateStatusFails,
       CallFails, cluster, local
  <2>2. QED
    BY <1>2, <2>1
<1>5. CASE Done \/ GetCliManager \/ Crash
  <2>1. /\ UNCHANGED <<cr, obj, uids>> /\ snap' \in {NoCR, snap, cr}
        /\ dep' \in {NoObj, dep}
    BY <1>5 DEF Done, GetCliManager, Crash, Reset, cluster
  <2>2. QED
    BY <1>2, <2>1
<1>6. CASE GetUpToDate
  <2>1. /\ UNCHANGED <<cr, obj, uids, snap>>
        /\ obj[Operand] # NoObj
        /\ dep' = IF Operand = D THEN obj[Operand] ELSE dep
    BY <1>6 DEF GetUpToDate, Advance, cluster
  <2>2. CASE Operand # D
    BY <1>2, <2>1, <2>2
  <2>3. CASE Operand = D
    <3>1. uids[D] \in Nat /\ obj[D] \in Objects
      BY <2>1, <2>3, OrderFacts DEF TypeOK, Names
    <3>2. CASE uids[D] = 1
      <4>1. obj[D].spec.drift = {} /\ obj[D].gen \in Nat
        BY <1>6, <2>3, <3>1, <3>2, FoundUpToDate DEF Objects
      <4>2. QED
        BY <1>1, <2>1, <2>3, <4>1, GenerationKept
    <3>3. CASE uids[D] # 1
      <4>1. uids[D] # 0
        BY <2>1, <2>3 DEF GenerationInv
      <4>2. uids'[D] # 0 /\ uids'[D] # 1
        BY <2>1, <3>3, <4>1
      <4>3. QED
        BY <1>1, <2>1, <4>2 DEF GenerationInv
    <3>4. QED
      BY <3>2, <3>3
  <2>4. QED
    BY <2>2, <2>3
<1>7. ASSUME pc = "write", ObjectCreated \/ ObjectUpdated, snap' = snap,
             dep' = dep \/ (dep' = obj'[D] /\ Operand = D)
      PROVE  HashInv' /\ GenerationInv'
  <2>1. DeploymentEffect /\ HashInv' /\ cr' = cr
    BY <1>7, WriteDeployment, WriteType
  <2>2. dep' # dep => dep' = obj'[D] /\ dep'.spec.drift = {} /\ dep'.gen \in Nat
    BY <1>7, WriteDeployment DEF Objects
  <2>3. QED
    BY <1>7, <2>1, <2>2, GenerationKept
<1>8. CASE CreateObject \/ UpdateObject
  BY <1>7, <1>8 DEF CreateObject, UpdateObject, Advance
<1>9. ASSUME pc = "statusWrite", StatusUpdated, UNCHANGED <<snap, dep>>
      PROVE  HashInv' /\ GenerationInv'
  BY <1>1, <1>9, RecordedGeneration, GenerationKept
<1>10. CASE UpdateStatus
  BY <1>9, <1>10 DEF UpdateStatus, local
<1>11. CASE ReplyLost
  BY <1>7, <1>9, <1>11 DEF ReplyLost, local
<1>12. CASE Environment
  <2>1. DeploymentEffect /\ HashInv' /\ UNCHANGED <<snap, dep>>
    BY <1>12, EnvironmentDeployment, EnvironmentEffect DEF EnvEffect
  <2>2. cr' # NoCR => \/ cr'.lastGen = -1
                      \/ cr # NoCR /\ cr'.lastGen = cr.lastGen
    <3>1. CASE CreateCR
      BY <3>1 DEF CreateCR
    <3>2. CASE EditCR
      <4>1. cr \in CRs /\ cr # NoCR
        BY <3>2 DEF EditCR, TypeOK
      <4>2. PICK l \in LogLevels, m \in MgmtStates :
              cr' = [cr EXCEPT !.rv = @ + 1, !.logLevel = l, !.mgmt = m]
        BY <3>2 DEF EditCR
      <4>3. cr'.lastGen = cr.lastGen
        BY <4>1, <4>2 DEF CRs
      <4>4. QED
        BY <4>1, <4>3
    <3>3. CASE cr' = cr
      BY <3>3
    <3>4. QED
      BY <1>12, <3>1, <3>2, <3>3
      DEF Environment, DeleteCR, EditObject, AnnotateObject, StripObject,
          DeleteObject, UsurpObject, CollectGarbage
  <2>3. QED
    BY <2>1, <2>2, GenerationKept
<1>13. QED
  BY <1>3, <1>4, <1>5, <1>6, <1>8, <1>10, <1>11, <1>12
  DEF Next, Process, processNextWorkItem, sync, Failure

LEMMA GenerationInit == Init => HashInv /\ GenerationInv
<1> SUFFICES ASSUME Init PROVE HashInv /\ GenerationInv
  OBVIOUS
<1>1. uids["Deployment"] = 0 /\ obj["Deployment"] = NoObj
  BY OrderFacts DEF Init, Names
<1>2. cr # NoCR => cr.lastGen = -1
  BY DEF Init
<1>3. snap = NoCR /\ dep = NoObj
  BY DEF Init
<1>4. QED
  BY <1>1, <1>2, <1>3 DEF HashInv, GenerationInv

LEMMA GenerationKnown == Spec => [](HashInv /\ GenerationInv)
<1>1. TypeOK /\ ReconcileInv /\ HashInv /\ GenerationInv /\ [Next]_vars
        => (HashInv /\ GenerationInv)'
  BY GenerationStep DEF ReconcileInv
<1>2. QED
  BY <1>1, GenerationInit, Typing, Reconciling, PTL DEF Spec

\* DriftDetected of the first incarnation of the Deployment.
DriftDetectedInFirst ==
    [][GetUpToDate /\ Operand = "Deployment" /\ uids["Deployment"] = 1 =>
         obj["Deployment"].spec = RequiredNow.spec]_vars

(***************************************************************************)
(* As long as the Deployment is in its first incarnation, ApplyDeployment  *)
(* finds every change of its spec, whatever happens to the CliManager and  *)
(* whatever fails: comparing hash and generation is as good as comparing   *)
(* the specs.                                                              *)
(***************************************************************************)
THEOREM FirstIncarnationChecked == Spec => DriftDetectedInFirst
<1>1. TypeOK /\ SyncInv /\ HashInv /\ GenerationInv /\ [Next]_vars
        => [GetUpToDate /\ Operand = "Deployment" /\ uids["Deployment"] = 1 =>
              obj["Deployment"].spec = RequiredNow.spec]_vars
  BY FoundUpToDate
<1>2. QED
  BY <1>1, Typing, GenerationKnown, PTL DEF Spec, DriftDetectedInFirst

-----------------------------------------------------------------------------
(***************************************************************************)
(* Where nobody deletes the CliManager or the Deployment, the garbage      *)
(* collector does not either, and the first incarnation is the only one.   *)
(***************************************************************************)
NeverDeleted == "Deployment" \notin Deletable /\ ~CRDeletable

OnlyIncarnationInv ==
    /\ snap # NoCR => cr # NoCR /\ snap.uid = cr.uid
    /\ obj["Deployment"] = NoObj => uids["Deployment"] = 0
    /\ obj["Deployment"] # NoObj =>
         /\ uids["Deployment"] = 1
         /\ \/ obj["Deployment"].owner = 0
            \/ cr # NoCR /\ obj["Deployment"].owner = cr.uid

LEMMA OnlyIncarnationStep ==
    ASSUME NeverDeleted, TypeOK, SyncInv, ReadInv, HashInv, OnlyIncarnationInv,
           [Next]_vars
    PROVE  OnlyIncarnationInv'
<1> DEFINE D == "Deployment"
<1>1. ASSUME UNCHANGED <<cr, obj, uids>>, snap' \in {NoCR, snap, cr}
      PROVE  OnlyIncarnationInv'
  BY <1>1 DEF OnlyIncarnationInv
<1>2. CASE UNCHANGED vars \/ Backoff \/ Resync \/ RunOperator
           \/ \E i \in Informers : Deliver(i)
  <2>1. UNCHANGED <<cr, obj, uids, snap>>
    BY <1>2 DEF vars, cluster, local, Backoff, Resync, Deliver, RunOperator
  <2>2. QED
    BY <1>1, <2>1
<1>3. CASE Get \/ GetCliManagerNotFound \/ GetToWrite \/ WriteRefused
           \/ GetStatusUnchanged \/ GetStatusToWrite \/ UpdateStatusRetry
           \/ UpdateStatusFails \/ CallFails \/ GetUpToDate
  <2>1. UNCHANGED <<cr, obj, uids, snap>>
    BY <1>3 DEF Get, GetCliManagerNotFound, GetToWrite, WriteRefused,
       GetStatusUnchanged, GetStatusToWrite, UpdateStatusRetry, UpdateStatusFails,
       CallFails, GetUpToDate, Advance, cluster, local
  <2>2. QED
    BY <1>1, <2>1
<1>4. CASE Done \/ GetCliManager \/ Crash
  <2>1. UNCHANGED <<cr, obj, uids>> /\ snap' \in {NoCR, snap, cr}
    BY <1>4 DEF Done, GetCliManager, Crash, Reset, cluster
  <2>2. QED
    BY <1>1, <2>1
<1>5. ASSUME pc = "write", ObjectCreated \/ ObjectUpdated, snap' = snap
      PROVE  OnlyIncarnationInv'
  <2>1. cr' = cr /\ snap # NoCR
    BY <1>5, WriteType, OperandFacts, NoValueAssumption
  <2>2. CASE Operand # D
    <3>1. obj'[D] = obj[D] /\ uids'[D] = uids[D]
      BY <1>5, <2>2, WriteDeployment, WriteEffect, OrderFacts
    <3>2. QED
      BY <1>5, <2>1, <3>1 DEF OnlyIncarnationInv
  <2>3. CASE Operand = D
    <3>1. /\ obj'[D] # NoObj /\ obj'[D].owner = snap.uid
          /\ DeploymentEffect
      BY <1>5, <2>3, WriteDeployment, NoValueAssumption
    <3>2. uids'[D] = 1
      BY <3>1 DEF DeploymentEffect, OnlyIncarnationInv
    <3>3. QED
      BY <1>5, <2>1, <3>1, <3>2 DEF OnlyIncarnationInv
  <2>4. QED
    BY <2>2, <2>3
<1>6. CASE CreateObject \/ UpdateObject
  BY <1>5, <1>6 DEF CreateObject, UpdateObject, Advance
<1>7. ASSUME pc = "statusWrite", StatusUpdated, snap' = snap
      PROVE  OnlyIncarnationInv'
  <2>1. cr # NoCR /\ cr'.uid = cr.uid /\ UNCHANGED <<obj, uids>>
    BY <1>7, RecordedGeneration
  <2>2. cr' # NoCR
    BY <1>7, StatusType, NoValueAssumption
  <2>3. QED
    BY <1>7, <2>1, <2>2 DEF OnlyIncarnationInv
<1>8. CASE UpdateStatus \/ ReplyLost
  BY <1>5, <1>7, <1>8 DEF UpdateStatus, ReplyLost, local
<1>9. CASE Environment
  <2>1. /\ DeploymentEffect /\ snap' = snap
        /\ obj'[D] # NoObj => \/ obj'[D].owner = 0
                              \/ obj[D] # NoObj /\ obj'[D].owner = obj[D].owner
        /\ obj[D] # NoObj /\ obj'[D] = NoObj => Orphaned(D)
    BY <1>9, EnvironmentDeployment, EnvironmentEffect DEF EnvEffect, NeverDeleted
  <2>2. cr # NoCR => cr' # NoCR /\ cr'.uid = cr.uid
    <3>1. CASE EditCR
      <4>1. cr \in CRs /\ cr # NoCR
        BY <3>1 DEF EditCR, TypeOK
      <4>2. PICK l \in LogLevels, m \in MgmtStates :
              cr' = [cr EXCEPT !.rv = @ + 1, !.logLevel = l, !.mgmt = m]
        BY <3>1 DEF EditCR
      <4>3. cr'.uid = cr.uid
        BY <4>1, <4>2 DEF CRs
      <4>4. cr' # NoCR
        BY <4>1, <4>2, CRWriteType, NoValueAssumption
      <4>5. QED
        BY <4>3, <4>4
    <3>2. QED
      BY <1>9, <3>1
      DEF Environment, CreateCR, DeleteCR, EditObject, AnnotateObject, StripObject,
          DeleteObject, UsurpObject, CollectGarbage, NeverDeleted
  <2>3. ~Orphaned(D) \/ obj[D] = NoObj
    BY DEF Orphaned, OnlyIncarnationInv
  <2>4. /\ obj'[D] = NoObj => obj[D] = NoObj /\ uids'[D] = uids[D]
        /\ obj'[D] # NoObj => uids'[D] = 1
    BY <2>1, <2>3, NoValueAssumption DEF DeploymentEffect, OnlyIncarnationInv
  <2>5. obj'[D] # NoObj => obj'[D].owner = 0 \/ (cr' # NoCR /\ obj'[D].owner = cr'.uid)
    BY <2>1, <2>2 DEF OnlyIncarnationInv
  <2>6. snap' # NoCR => cr' # NoCR /\ snap'.uid = cr'.uid
    BY <2>1, <2>2 DEF OnlyIncarnationInv
  <2>7. QED
    BY <2>4, <2>5, <2>6 DEF OnlyIncarnationInv
<1>10. QED
  BY <1>2, <1>3, <1>4, <1>6, <1>8, <1>9
  DEF Next, Process, processNextWorkItem, sync, Failure

(***************************************************************************)
(* Where nobody deletes the CliManager or the Deployment, a Deployment     *)
(* that sync leaves alone has the required spec.  Both conditions are      *)
(* needed: with either deletion another incarnation can be at a recorded   *)
(* generation of an earlier one.                                           *)
(***************************************************************************)
THEOREM DriftFoundWithoutDeletion ==
    ASSUME NeverDeleted PROVE Spec => DriftDetected
<1>1. Init => OnlyIncarnationInv
  BY OrderFacts DEF Init, OnlyIncarnationInv, Names
<1>2. TypeOK /\ ReconcileInv /\ HashInv /\ OnlyIncarnationInv /\ [Next]_vars
        => OnlyIncarnationInv'
  BY OnlyIncarnationStep DEF ReconcileInv
<1>3. /\ TypeOK /\ SyncInv /\ HashInv /\ GenerationInv /\ OnlyIncarnationInv
      /\ [Next]_vars
      => [GetUpToDate /\ Operand = "Deployment" =>
            obj["Deployment"].spec = RequiredNow.spec]_vars
  <2> SUFFICES ASSUME TypeOK, SyncInv, HashInv, GenerationInv, OnlyIncarnationInv,
                      GetUpToDate, Operand = "Deployment"
               PROVE  obj["Deployment"].spec = RequiredNow.spec
    OBVIOUS
  <2>1. uids["Deployment"] = 1
    BY DEF GetUpToDate, OnlyIncarnationInv
  <2>2. QED
    BY <2>1, FoundUpToDate
<1>4. QED
  BY <1>1, <1>2, <1>3, Typing, Reconciling, GenerationKnown, PTL
  DEF Spec, DriftDetected
=============================================================================
