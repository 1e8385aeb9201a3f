---------------------------- MODULE WritesProofs ----------------------------
(***************************************************************************)
(* The proof that the operator does not keep itself busy: OwnWritesBounded *)
(* holds of TargetConfigReconciler, for every instance.                    *)
(*                                                                         *)
(* The argument is an account of debts.  At every moment the operator owes *)
(* a number of writes to each operand and to the status: the writes it may *)
(* still make if nobody changes anything any more and nothing fails.  A    *)
(* write of the operator pays for itself, any other step of the operator   *)
(* leaves the debt as it is or lowers it, and a change of others or a      *)
(* failure adds at most two to the sum of an object's version and its      *)
(* debt.                                                                   *)
(***************************************************************************)
EXTENDS ReconcilerProofs

Changes == edits + faults

\* The running sync has been through operand r, or has it still to come.
Passed(r) == \E i \in 1 .. step - 1 : SyncOrder[i] = r

Ahead(r) == InFlight /\ ~Passed(r)

\* An update by the requirements of the CliManager c would change operand r.
Drifted(r, c) ==
    \/ obj[r] = NoObj
    \/ toWrite(r, obj[r], Required(r, c, cfg)) # obj[r]

\* The running sync requires something else of r than the live CliManager.
Stale(r) == cr = NoCR \/ Required(r, snap, cfg) # Required(r, cr, cfg)

Version(r) == IF obj[r] = NoObj THEN 0 ELSE obj[r].rv

(***************************************************************************)
(* A sync that works from an outdated CliManager may write the operand     *)
(* once, and then the next sync writes it again.                           *)
(***************************************************************************)
OwedWrites(r) ==
    IF ~up THEN 1
    ELSE IF Ahead(r) /\ Stale(r) THEN (IF Drifted(r, snap) THEN 2 ELSE 1)
    ELSE IF cr = NoCR \/ Drifted(r, cr) THEN 1 ELSE 0

WritesInv ==
    \A r \in Resources :
       /\ obj[r] # NoObj => obj[r].rv >= 1
       /\ Version(r) + OwedWrites(r) <= 1 + 2 * Changes

-----------------------------------------------------------------------------
(***************************************************************************)
(* No operand is in SyncOrder twice.                                       *)
(***************************************************************************)
LEMMA OrderInjective ==
    \A i, j \in 1 .. Len(SyncOrder) : SyncOrder[i] = SyncOrder[j] => i = j
<1>1. DOMAIN FullSyncOrder = 1 .. 11
  BY DEF FullSyncOrder
<1>2. \A r \in Range(FullSyncOrder) : Position(r) \in 1 .. 11
  BY <1>1 DEF Position, Range
<1>3. /\ DOMAIN SyncOrder = 1 .. Len(SyncOrder)
      /\ Len(SyncOrder) \in Nat
      /\ \A i \in 1 .. Len(SyncOrder) : SyncOrder[i] \in Range(FullSyncOrder)
  BY SyncOrderAssumption
<1>4. SUFFICES ASSUME NEW i \in 1 .. Len(SyncOrder), NEW j \in 1 .. Len(SyncOrder),
                      SyncOrder[i] = SyncOrder[j], i < j
               PROVE  FALSE
  BY <1>3
<1>5. Position(SyncOrder[i]) < Position(SyncOrder[j])
  BY <1>3, <1>4, SyncOrderAssumption
<1>6. QED
  BY <1>2, <1>3, <1>4, <1>5

(***************************************************************************)
(* An operand that has just been written is as the same requirements want  *)
(* it: a second write would change nothing.                                *)
(***************************************************************************)
LEMMA WriteIdempotent ==
    ASSUME NEW r, NEW o \in Objects, NEW b \in Bodies,
           o.owner = b.owner,
           b.hash = NoHash \/ o.hash = b.hash,
           r = "ServiceAccount" \/ o.spec = b.spec
    PROVE  toWrite(r, o, b) = o
BY DEF toWrite, EnsureObjectMeta, Objects, Bodies

LEMMA WriteOwner ==
    ASSUME NEW r, NEW o \in Objects, NEW b \in Bodies, toWrite(r, o, b) = o
    PROVE  o.owner = b.owner
<1>1. toWrite(r, o, b).owner = b.owner
  BY DEF toWrite, EnsureObjectMeta, Objects, Bodies
<1>2. QED
  BY <1>1

LEMMA CreatedSettled ==
    ASSUME NEW r, NEW b \in Bodies, NEW u \in Nat
    PROVE  /\ toWrite(r, Created(b, u), b) = Created(b, u)
           /\ Created(b, u).rv = 1
<1>1. Created(b, u) \in Objects
  BY CreatedType
<1>2. /\ Created(b, u).owner = b.owner
      /\ Created(b, u).hash = b.hash
      /\ Created(b, u).spec = b.spec
      /\ Created(b, u).rv = 1
  BY DEF Created
<1>3. QED
  BY <1>1, <1>2, WriteIdempotent

LEMMA StoredSettled ==
    ASSUME NEW r, NEW o \in Objects, NEW b \in Bodies
    PROVE  /\ toWrite(r, Stored(o, toWrite(r, o, b)), b) = Stored(o, toWrite(r, o, b))
           /\ toWrite(r, o, b) = o => Stored(o, toWrite(r, o, b)) = o
           /\ toWrite(r, o, b) # o => Stored(o, toWrite(r, o, b)).rv = o.rv + 1
<1> DEFINE w == toWrite(r, o, b)
<1>1. w \in Objects
  BY ToWriteType
<1>2. /\ w.owner = b.owner
      /\ b.hash = NoHash \/ w.hash = b.hash
      /\ r = "ServiceAccount" \/ w.spec = b.spec
  BY DEF toWrite, EnsureObjectMeta, Objects, Bodies
<1> HIDE DEF w
<1>3. /\ Stored(o, w) \in Objects
      /\ Stored(o, w).owner = w.owner
      /\ Stored(o, w).hash = w.hash
      /\ Stored(o, w).spec = w.spec
      /\ w = o => Stored(o, w) = o
      /\ w # o => Stored(o, w).rv = o.rv + 1
  <2>1. CASE w = o
    BY <2>1, <1>1 DEF Stored
  <2>2. CASE w # o
    BY <2>2, <1>1, StoredType DEF Stored, Objects
  <2>3. QED
    BY <2>1, <2>2
<1>4. toWrite(r, Stored(o, w), b) = Stored(o, w)
  BY <1>2, <1>3, WriteIdempotent
<1>5. QED
  BY <1>3, <1>4 DEF w

-----------------------------------------------------------------------------
(***************************************************************************)
(* The debt to an operand nobody writes does not grow in a step that does  *)
(* not start a sync and changes neither the CliManager nor the process.    *)
(***************************************************************************)
LEMMA DebtRange ==
    ASSUME NEW r
    PROVE  /\ OwedWrites(r) \in 0 .. 2
           /\ up /\ Ahead(r) /\ Stale(r) => OwedWrites(r) >= 1
           /\ ~Ahead(r) \/ ~Stale(r) => OwedWrites(r) <= 1
BY DEF OwedWrites

LEMMA DebtKept ==
    ASSUME NEW r, up' = up, cfg' = cfg, obj'[r] = obj[r],
           cr' = cr \/ (/\ cr # NoCR /\ cr' # NoCR
                        /\ cr'.uid = cr.uid /\ cr'.logLevel = cr.logLevel),
           Ahead(r)' => Ahead(r) /\ snap' = snap
    PROVE  OwedWrites(r)' <= OwedWrites(r)
<1>1. /\ (cr' = NoCR) <=> (cr = NoCR)
      /\ cr # NoCR => Required(r, cr', cfg) = Required(r, cr, cfg)
  BY SameRequired
<1>2. cr # NoCR => (Drifted(r, cr)' <=> Drifted(r, cr))
  BY <1>1 DEF Drifted
<1>3. CASE ~Ahead(r)'
  <2>1. OwedWrites(r)' = IF ~up THEN 1
                         ELSE IF cr = NoCR \/ Drifted(r, cr) THEN 1 ELSE 0
    BY <1>1, <1>2, <1>3 DEF OwedWrites
  <2>2. QED
    BY <2>1 DEF OwedWrites
<1>4. CASE Ahead(r)'
  <2>1. Ahead(r) /\ snap' = snap
    BY <1>4
  <2>2. Stale(r)' <=> Stale(r)
    BY <1>1, <2>1 DEF Stale
  <2>3. Drifted(r, snap)' <=> Drifted(r, snap)
    BY <2>1 DEF Drifted
  <2>4. OwedWrites(r)' = OwedWrites(r)
    BY <1>1, <1>2, <1>4, <2>1, <2>2, <2>3 DEF OwedWrites
  <2>5. QED
    BY <2>4, DebtRange
<1>5. QED
  BY <1>3, <1>4

(***************************************************************************)
(* Advance takes exactly the operand at hand off the list.                 *)
(***************************************************************************)
LEMMA AdvancePassed ==
    ASSUME TypeOK, SyncInv, pc \in {"get", "write"}, NEW a, Advance(a)
    PROVE  /\ \A r : r = Operand => Ahead(r) /\ Passed(r)'
           /\ \A r : r # Operand => (Passed(r)' <=> Passed(r))
           /\ \A r : Ahead(r)' => Ahead(r)
           /\ InFlight /\ InFlight'
           /\ snap' = snap
<1>1. step \in 1 .. Len(SyncOrder) /\ Len(SyncOrder) \in Nat
  BY OperandFacts, OrderFacts
<1>2. step' = step + 1 /\ snap' = snap /\ InFlight' /\ InFlight
  BY DEF Advance, InFlight
<1>3. \A r : Passed(r)' <=> Passed(r) \/ Operand = r
  BY <1>1, <1>2 DEF Passed, Operand
<1>4. ~Passed(Operand)
  BY <1>1, OrderInjective DEF Passed, Operand
<1>5. QED
  BY <1>2, <1>3, <1>4 DEF Ahead

(***************************************************************************)
(* An effective write pays for itself: it raises the version by one, and   *)
(* afterwards the operand is as this sync wants it.                        *)
(***************************************************************************)
LEMMA WritePays ==
    ASSUME TypeOK, SyncInv, QueueInv, ReadInv, pc = "write",
           ObjectCreated \/ ObjectUpdated
    PROVE  /\ obj'[Operand] # NoObj
           /\ obj'[Operand].rv = Version(Operand) + (IF Drifted(Operand, snap) THEN 1 ELSE 0)
           /\ toWrite(Operand, obj'[Operand], RequiredNow) = obj'[Operand]
           /\ ~Drifted(Operand, snap) => obj'[Operand] = obj[Operand]
<1>1. /\ Operand \in Resources /\ RequiredNow \in Bodies
      /\ obj \in [Resources -> Objects \cup {NoObj}]
      /\ uids[Operand] + 1 \in Nat
      /\ seen \in Objects \cup {NoObj}
  BY OperandFacts DEF TypeOK, Names
<1>2. CASE ObjectCreated
  <2>1. obj[Operand] = NoObj /\ obj'[Operand] = Created(RequiredNow, uids[Operand] + 1)
    BY <1>1, <1>2 DEF ObjectCreated, CreateAccepted
  <2>2. Drifted(Operand, snap) /\ Version(Operand) = 0
    BY <2>1 DEF Drifted, Version
  <2> DEFINE o == Created(RequiredNow, uids[Operand] + 1)
  <2>3. o # NoObj /\ o.rv = 1 /\ toWrite(Operand, o, RequiredNow) = o
    BY <1>1, CreatedSettled, CreatedType
  <2> HIDE DEF o
  <2>4. obj'[Operand] = o
    BY <2>1 DEF o
  <2>5. QED
    BY <2>2, <2>3, <2>4
<1>3. CASE ObjectUpdated
  <2>1. /\ obj[Operand] \in Objects /\ seen \in Objects
        /\ obj[Operand].uid = seen.uid /\ obj[Operand].rv = seen.rv
    BY <1>1, <1>3 DEF ObjectUpdated, UpdateAccepted, Current
  <2>2. seen = obj[Operand]
    <3>1. obj[Operand].rv \in Nat
      BY <2>1 DEF Objects
    <3>2. QED
      BY <2>1, <3>1, NoValueAssumption DEF ReadInv
  <2>3. obj'[Operand] = Stored(obj[Operand], toWrite(Operand, obj[Operand], RequiredNow))
    BY <1>1, <1>3, <2>2 DEF ObjectUpdated
  <2>4. Drifted(Operand, snap) <=>
          toWrite(Operand, obj[Operand], RequiredNow) # obj[Operand]
    BY <2>1, NoValueAssumption DEF Drifted, RequiredNow
  <2>5. Version(Operand) = obj[Operand].rv
    BY <2>1, NoValueAssumption DEF Version
  <2>6. obj'[Operand] \in Objects
    BY <1>3, WriteType
  <2>7. obj[Operand].rv \in Nat
    BY <2>1 DEF Objects
  <2>8. /\ toWrite(Operand, obj'[Operand], RequiredNow) = obj'[Operand]
        /\ ~Drifted(Operand, snap) => obj'[Operand] = obj[Operand]
        /\ Drifted(Operand, snap) => obj'[Operand].rv = obj[Operand].rv + 1
    BY <1>1, <2>1, <2>3, <2>4, StoredSettled
  <2>9. QED
    BY <2>5, <2>6, <2>7, <2>8, NoValueAssumption
<1>4. QED
  BY <1>2, <1>3

(***************************************************************************)
(* The account of one operand over one step.                               *)
(***************************************************************************)
Account(r) ==
    /\ obj'[r] # NoObj => obj'[r].rv >= 1
    /\ Version(r)' + OwedWrites(r)' <= 1 + 2 * Changes'

\* A step of the operator that does not touch operand r.
LEMMA AccountKept ==
    ASSUME TypeOK, WritesInv, NEW r \in Resources,
           Changes' >= Changes, Changes' \in Nat,
           obj'[r] = obj[r], OwedWrites(r)' <= OwedWrites(r)
    PROVE  Account(r)
<1>1. /\ obj[r] # NoObj => obj[r].rv >= 1
      /\ Version(r) + OwedWrites(r) <= 1 + 2 * Changes
  BY DEF WritesInv
<1>2. Version(r)' = Version(r) /\ Version(r) \in Nat
  BY DEF Version, TypeOK, Objects
<1>3. Changes \in Nat /\ OwedWrites(r) \in 0 .. 2 /\ OwedWrites(r)' \in 0 .. 2
  <2>1. OwedWrites(r)' \in 0 .. 2
    BY DEF OwedWrites
  <2>2. QED
    BY <2>1, DebtRange DEF Changes, TypeOK
<1>4. QED
  BY <1>1, <1>2, <1>3 DEF Account

\* A step that is charged to others or to a failure.
LEMMA AccountCharged ==
    ASSUME TypeOK, WritesInv, NEW r \in Resources, Changes' = Changes + 1,
           \/ obj'[r] = NoObj
           \/ obj'[r].rv = 1
           \/ obj'[r] = obj[r]
           \/ /\ obj[r] # NoObj /\ obj'[r].rv = obj[r].rv + 1
              /\ OwedWrites(r)' <= OwedWrites(r) + 1
           \/ /\ obj[r] # NoObj /\ obj'[r].rv = obj[r].rv + 1
              /\ OwedWrites(r)' <= 1
    PROVE  Account(r)
<1>1. /\ obj[r] # NoObj => obj[r].rv >= 1
      /\ Version(r) + OwedWrites(r) <= 1 + 2 * Changes
  BY DEF WritesInv
<1>2. Version(r) \in Nat /\ (obj[r] # NoObj => Version(r) = obj[r].rv /\ obj[r].rv \in Nat)
  BY DEF Version, TypeOK, Objects
<1>3. Changes \in Nat /\ OwedWrites(r) \in 0 .. 2 /\ OwedWrites(r)' \in 0 .. 2
  <2>1. OwedWrites(r)' \in 0 .. 2
    BY DEF OwedWrites
  <2>2. QED
    BY <2>1, DebtRange DEF Changes, TypeOK
<1>4. Version(r)' = IF obj'[r] = NoObj THEN 0 ELSE obj'[r].rv
  BY DEF Version
<1>5. obj'[r] = obj[r] => Version(r)' = Version(r)
  BY DEF Version
<1>6. QED
  BY <1>1, <1>2, <1>3, <1>4, <1>5 DEF Account

\* What others write is one version newer, or new, or gone, and the running
\* sync takes as much notice of the CliManager as before.
LEMMA AccountPut ==
    ASSUME TypeOK, WritesInv, NEW q \in Resources, NEW o, Put(q, o), cr' = cr, Edit,
           \/ o = NoObj
           \/ o.rv = 1
           \/ obj[q] # NoObj /\ o.rv = obj[q].rv + 1,
           NEW r \in Resources
    PROVE  Account(r)
<1>1. Changes' = Changes + 1 /\ Changes' \in Nat /\ Changes' >= Changes
  BY DEF Changes, TypeOK, Edit, Put, Others
<1>2. UNCHANGED <<up, cfg, pc, step, snap>>
  BY DEF Put, Others, local
<1>3. Ahead(r)' <=> Ahead(r)
  BY <1>2 DEF Ahead, InFlight, Passed
<1>4. CASE r # q
  <2>1. obj'[r] = obj[r]
    BY <1>4 DEF Put, TypeOK
  <2>2. QED
    BY <1>1, <1>2, <1>3, <2>1, DebtKept, AccountKept
<1>5. CASE r = q
  <2>1. obj'[r] = o
    BY <1>5 DEF Put, TypeOK
  <2>2. OwedWrites(r)' <= OwedWrites(r) + 1
    <3>1. Stale(r)' <=> Stale(r)
      BY <1>2 DEF Stale
    <3>2. OwedWrites(r) \in 0 .. 2
      BY DebtRange
    <3>3. CASE ~up
      BY <1>2, <3>2, <3>3 DEF OwedWrites
    <3>4. CASE up /\ Ahead(r) /\ Stale(r)
      <4>1. OwedWrites(r) >= 1
        BY <3>4, DebtRange
      <4>2. OwedWrites(r)' \in 0 .. 2
        BY DEF OwedWrites
      <4>3. QED
        BY <4>1, <4>2, <3>2
    <3>5. CASE ~(Ahead(r) /\ Stale(r))
      <4>1. OwedWrites(r)' \in 0 .. 1
        BY <1>3, <3>1, <3>5 DEF OwedWrites
      <4>2. QED
        BY <4>1, <3>2
    <3>6. QED
      BY <3>3, <3>4, <3>5
  <2>3. QED
    BY <1>1, <1>5, <2>1, <2>2, AccountCharged
<1>6. QED
  BY <1>4, <1>5

LEMMA WritesStep ==
    TypeOK /\ SyncInv /\ QueueInv /\ ReadInv /\ WritesInv /\ [Next]_vars
        => WritesInv'
<1> SUFFICES ASSUME TypeOK, SyncInv, QueueInv, ReadInv, WritesInv, [Next]_vars
             PROVE  WritesInv'
  OBVIOUS
<1>0. SUFFICES ASSUME NEW r \in Resources PROVE Account(r)
  BY DEF WritesInv, Account
<1>a. /\ edits \in Nat /\ faults \in Nat /\ Changes \in Nat
      /\ obj \in [Resources -> Objects \cup {NoObj}]
  BY DEF TypeOK, Changes
<1>b. OwedWrites(r) \in 0 .. 2
  BY DebtRange
\* Steps of the operator that write nothing and do not begin a sync.
<1>1. ASSUME UNCHANGED <<cr, obj, up, cfg>>, Changes' >= Changes, Changes' \in Nat,
             Ahead(r)' => Ahead(r) /\ snap' = snap
      PROVE  Account(r)
  BY <1>1, DebtKept, AccountKept
<1>2. ASSUME UNCHANGED <<cr, obj, up, cfg, edits, faults>>,
             ~InFlight' \/ (UNCHANGED <<step, snap>> /\ InFlight)
      PROVE  Account(r)
  <2>1. Changes' = Changes
    BY <1>2 DEF Changes
  <2>2. Ahead(r)' => Ahead(r) /\ snap' = snap
    BY <1>2 DEF Ahead, Passed
  <2>3. QED
    BY <1>1, <1>2, <1>a, <2>1, <2>2
<1>3. CASE UNCHANGED vars \/ Backoff \/ Resync \/ \E i \in Informers : Deliver(i)
  <2>1. UNCHANGED <<cr, obj, up, cfg, edits, faults, step, snap, pc>>
    BY <1>3 DEF vars, cluster, local, Backoff, Resync, Deliver
  <2>2. QED
    BY <1>2, <2>1 DEF InFlight
<1>4. CASE Get \/ Done \/ GetCliManagerNotFound \/ WriteRefused \/ GetStatusUnchanged
           \/ UpdateStatusFails
  BY <1>2, <1>4 DEF Get, Done, GetCliManagerNotFound, WriteRefused,
     GetStatusUnchanged, UpdateStatusFails, Fail, Succeed, InFlight, cluster
<1>5. CASE GetToWrite \/ GetStatusToWrite \/ UpdateStatusRetry
  BY <1>2, <1>5 DEF GetToWrite, GetStatusToWrite, UpdateStatusRetry, InFlight,
     cluster, local
<1>6. CASE CallFails
  <2>1. UNCHANGED <<cr, obj, up, cfg>> /\ Changes' = Changes + 1 /\ ~InFlight'
    BY <1>6, <1>a DEF CallFails, Fail, InFlight, cluster, Changes
  <2>2. QED
    BY <1>1, <1>a, <2>1 DEF Ahead
<1>7. CASE GetUpToDate
  <2>1. /\ UNCHANGED <<cr, obj, up, cfg, edits, faults>>
        /\ pc = "get" /\ Advance(obj[Operand])
    BY <1>7 DEF GetUpToDate, cluster
  <2>2. Ahead(r)' => Ahead(r) /\ snap' = snap
    BY <2>1, AdvancePassed
  <2>3. QED
    BY <1>1, <1>a, <2>1, <2>2 DEF Changes
\* The beginning of a sync: the CliManager it reads is the live one.
<1>8. CASE GetCliManager
  <2>1. UNCHANGED <<cr, obj, up, cfg, edits, faults>> /\ snap' = cr /\ cr # NoCR
        /\ pc = "fetch"
    BY <1>8 DEF GetCliManager, cluster
  <2>2. ~Stale(r)'
    BY <2>1 DEF Stale
  <2>3. Drifted(r, cr)' <=> Drifted(r, cr)
    BY <2>1 DEF Drifted
  <2>4. ~Ahead(r)
    BY <2>1 DEF Ahead, InFlight
  <2>5. OwedWrites(r)' <= OwedWrites(r)
    BY <2>1, <2>2, <2>3, <2>4 DEF OwedWrites
  <2>6. QED
    BY <1>a, <2>1, <2>5, AccountKept DEF Changes
\* A stopped process owes one write, a started one no more than that.
<1>9. CASE RunOperator
  <2>1. UNCHANGED <<obj, edits, faults, pc>> /\ ~up
    BY <1>9 DEF RunOperator, cluster
  <2>2. ~Ahead(r)'
    BY <2>1 DEF QueueInv, Ahead, InFlight
  <2>3. OwedWrites(r) = 1 /\ OwedWrites(r)' <= 1
    BY <2>1, <2>2 DEF OwedWrites
  <2>4. QED
    BY <1>a, <2>1, <2>3, AccountKept DEF Changes
<1>10. CASE Crash
  <2>1. obj' = obj /\ Changes' = Changes + 1
    BY <1>10, <1>a DEF Crash, cluster, Changes
  <2>2. QED
    BY <2>1, AccountCharged
\* The operator's writes of operands.
<1>11. ASSUME pc = "write", ObjectCreated \/ ObjectUpdated, UNCHANGED <<up, cfg>>
       PROVE  /\ r # Operand => obj'[r] = obj[r]
              /\ cr' = cr
  BY <1>11, WriteType DEF ObjectCreated, ObjectUpdated
<1>12. CASE CreateObject \/ UpdateObject
  <2>1. /\ pc = "write" /\ (ObjectCreated \/ ObjectUpdated)
        /\ Advance(obj'[Operand])
        /\ UNCHANGED <<up, cfg, edits, faults>>
    BY <1>12 DEF CreateObject, UpdateObject
  <2>2. Changes' = Changes
    BY <2>1 DEF Changes
  <2>3. CASE r # Operand
    BY <1>11, <1>a, <2>1, <2>2, <2>3, AdvancePassed, DebtKept, AccountKept
  <2>4. CASE r = Operand
    <3>1. up
      BY <2>1 DEF QueueInv
    <3>2. Ahead(r) /\ ~Ahead(r)' /\ cr' = cr /\ snap' = snap
      BY <1>11, <2>1, <2>4, AdvancePassed DEF Ahead
    <3>3. /\ obj'[r] # NoObj
          /\ obj'[r].rv = Version(r) + (IF Drifted(r, snap) THEN 1 ELSE 0)
          /\ toWrite(r, obj'[r], Required(r, snap, cfg)) = obj'[r]
      BY <2>1, <2>4, WritePays DEF RequiredNow
    <3>4. /\ Version(r)' = obj'[r].rv
          /\ Version(r) \in Nat
          /\ obj[r] # NoObj => Version(r) >= 1
          /\ obj[r] = NoObj => Drifted(r, snap)
          /\ Version(r) + OwedWrites(r) <= 1 + 2 * Changes
      BY <3>3, <1>a DEF Version, WritesInv, Drifted, Objects
    <3>5. CASE Stale(r)
      <4>1. OwedWrites(r) = IF Drifted(r, snap) THEN 2 ELSE 1
        BY <3>1, <3>2, <3>5 DEF OwedWrites
      <4>2. OwedWrites(r)' \in 0 .. 1
        BY <3>2 DEF OwedWrites
      <4>3. QED
        BY <1>a, <2>2, <3>3, <3>4, <4>1, <4>2 DEF Account
    <3>6. CASE ~Stale(r)
      <4>1. cr # NoCR /\ Required(r, snap, cfg) = Required(r, cr, cfg)
        BY <3>6 DEF Stale
      <4>2. OwedWrites(r) = IF Drifted(r, snap) THEN 1 ELSE 0
        BY <3>1, <3>6, <4>1 DEF OwedWrites, Drifted
      <4>3. ~Drifted(r, cr)'
        BY <2>1, <3>2, <3>3, <4>1 DEF Drifted
      <4>4. OwedWrites(r)' = 0
        BY <2>1, <3>1, <3>2, <4>1, <4>3 DEF OwedWrites
      <4>5. QED
        BY <1>a, <2>2, <3>3, <3>4, <4>2, <4>4 DEF Account
    <3>7. QED
      BY <3>5, <3>6
  <2>5. QED
    BY <2>3, <2>4
\* The operator's writes of the status.
<1>13. ASSUME StatusUpdated, pc = "statusWrite", UNCHANGED <<up, cfg>>, ~InFlight',
              Changes' >= Changes, Changes' \in Nat
       PROVE  Account(r)
  <2>1. cr \in CRs /\ cr # NoCR /\ obj' = obj
    BY <1>13 DEF StatusUpdated, StatusCurrent, TypeOK
  <2>2. cr' \in CRs
    BY <1>13, StatusType
  <2>3. cr' # NoCR /\ cr'.uid = cr.uid /\ cr'.logLevel = cr.logLevel
    BY <1>13, <2>1, <2>2, NoValueAssumption
    DEF StatusUpdated, SetDeploymentGeneration, CRs
  <2>4. OwedWrites(r)' <= OwedWrites(r)
    BY <1>13, <2>1, <2>3, DebtKept DEF Ahead
  <2>5. QED
    BY <1>13, <2>1, <2>4, AccountKept
<1>14. CASE UpdateStatus
  BY <1>13, <1>14, <1>a DEF UpdateStatus, Succeed, InFlight, Changes
<1>15. CASE ReplyLost
  <2>1. UNCHANGED <<up, cfg>> /\ ~InFlight' /\ Changes' = Changes + 1
    BY <1>15, <1>a DEF ReplyLost, Fail, InFlight, Changes
  <2>2. CASE pc = "write" /\ (ObjectCreated \/ ObjectUpdated)
    <3>1. CASE r # Operand
      BY <1>11, <2>1, <2>2, <3>1, AccountCharged
    <3>2. CASE r = Operand
      <4>1. obj'[r].rv = Version(r) + (IF Drifted(r, snap) THEN 1 ELSE 0)
            /\ obj'[r] # NoObj
            /\ (~Drifted(r, snap) => obj'[r] = obj[r])
        BY <2>2, <3>2, WritePays
      <4>2. OwedWrites(r)' <= 1
        BY <2>1 DEF OwedWrites, Ahead
      <4>3. CASE obj[r] = NoObj
        <5>1. obj'[r].rv = 1
          BY <4>1, <4>3 DEF Version, Drifted
        <5>2. QED
          BY <2>1, <5>1, AccountCharged
      <4>4. CASE obj[r] # NoObj
        <5>1. Version(r) = obj[r].rv
          BY <4>4 DEF Version
        <5>2. QED
          BY <2>1, <4>1, <4>2, <4>4, <5>1, AccountCharged
      <4>5. QED
        BY <4>3, <4>4
    <3>3. QED
      BY <3>1, <3>2
  <2>3. CASE pc = "statusWrite" /\ StatusUpdated
    BY <1>13, <1>a, <2>1, <2>3
  <2>4. QED
    BY <1>15, <2>2, <2>3 DEF ReplyLost
\* Users and other controllers.
<1>16. CASE CreateCR \/ EditCR \/ DeleteCR
  <2>1. obj' = obj /\ edits' = edits + 1 /\ faults' = faults
    BY <1>16 DEF CreateCR, EditCR, DeleteCR, Edit, Others
  <2>2. Changes' = Changes + 1
    BY <1>a, <2>1 DEF Changes
  <2>3. QED
    BY <2>1, <2>2, AccountCharged
<1>17. ASSUME NEW q \in Resources,
              EditObject(q) \/ AnnotateObject(q) \/ StripObject(q)
       PROVE  Account(r)
  <2>1. obj[q] \in Objects /\ obj[q] # NoObj /\ Edit /\ cr' = cr
    BY <1>17, <1>a DEF EditObject, AnnotateObject, StripObject
  <2>2. PICK o : Put(q, o) /\ o.rv = obj[q].rv + 1
    <3>1. \A d : [obj[q] EXCEPT !.rv = @ + 1, !.gen = @ + 1, !.spec.drift = d].rv
                   = obj[q].rv + 1
      BY <2>1 DEF Objects
    <3>2. [obj[q] EXCEPT !.rv = @ + 1, !.note = @ + 1].rv = obj[q].rv + 1
      BY <2>1 DEF Objects
    <3>3. [obj[q] EXCEPT !.rv = @ + 1, !.owner = 0, !.hash = NoHash].rv
            = obj[q].rv + 1
      BY <2>1 DEF Objects
    <3>4. CASE EditObject(q)
      <4>1. PICK f \in EditableFields(q), revert \in BOOLEAN :
              Put(q, [obj[q] EXCEPT !.rv = @ + 1, !.gen = @ + 1,
                                    !.spec.drift = IF revert THEN @ \ {f}
                                                             ELSE @ \cup {f}])
        BY <3>4 DEF EditObject
      <4>2. QED
        BY <3>1, <4>1
    <3>5. QED
      BY <1>17, <3>2, <3>3, <3>4 DEF AnnotateObject, StripObject
  <2>3. QED
    BY <2>1, <2>2, AccountPut
<1>18. ASSUME NEW q \in Resources, DeleteObject(q) \/ UsurpObject(q)
       PROVE  Account(r)
  <2>1. Edit /\ cr' = cr
    BY <1>18 DEF DeleteObject, UsurpObject
  <2>2. PICK o : Put(q, o) /\ (o = NoObj \/ o.rv = 1)
    BY <1>18 DEF DeleteObject, UsurpObject, Created
  <2>3. QED
    BY <2>1, <2>2, AccountPut
<1>19. ASSUME NEW q \in Resources, CollectGarbage(q)
       PROVE  Account(r)
  <2>1. /\ UNCHANGED <<cr, up, cfg, pc, step, snap, edits, faults>>
        /\ obj' = [obj EXCEPT ![q] = NoObj]
        /\ obj[q] # NoObj
    BY <1>19 DEF CollectGarbage, Orphaned, Put, Others, local
  <2>2. Ahead(r)' <=> Ahead(r)
    BY <2>1 DEF Ahead, InFlight, Passed
  <2>3. Changes' = Changes
    BY <2>1 DEF Changes
  <2>4. CASE r # q
    BY <1>a, <2>1, <2>2, <2>3, <2>4, DebtKept, AccountKept
  <2>5. CASE r = q
    <3>1. obj'[r] = NoObj /\ Version(r)' = 0
      BY <1>a, <2>1, <2>5 DEF Version
    <3>2. Version(r) \in Nat \ {0}
      BY <1>a, <2>1, <2>5 DEF Version, WritesInv, Objects
    <3>3. OwedWrites(r)' \in 0 .. 2 /\ OwedWrites(r)' <= OwedWrites(r) + 1
      <4>1. Stale(r)' <=> Stale(r)
        BY <2>1 DEF Stale
      <4>2. OwedWrites(r)' \in 0 .. 2
        BY DEF OwedWrites
      <4>3. CASE up /\ Ahead(r) /\ Stale(r)
        BY <1>b, <4>2, <4>3, DebtRange
      <4>4. CASE ~up \/ ~Ahead(r) \/ ~Stale(r)
        <5>1. OwedWrites(r)' \in 0 .. 1
          BY <2>1, <2>2, <4>1, <4>4 DEF OwedWrites
        <5>2. QED
          BY <1>b, <4>2, <5>1
      <4>5. QED
        BY <4>3, <4>4
    <3>4. Version(r) + OwedWrites(r) <= 1 + 2 * Changes
      BY DEF WritesInv
    <3>5. QED
      BY <1>a, <1>b, <2>3, <3>1, <3>2, <3>3, <3>4 DEF Account
  <2>6. QED
    BY <2>4, <2>5
<1>20. QED
  BY <1>3, <1>4, <1>5, <1>6, <1>7, <1>8, <1>9, <1>10, <1>12, <1>14, <1>15, <1>16,
     <1>17, <1>18, <1>19
  DEF Next, Process, processNextWorkItem, sync, Environment, Failure

-----------------------------------------------------------------------------
(***************************************************************************)
(* The status.  The operator writes it when the generation it has seen of  *)
(* the Deployment is not the recorded one, and that becomes so when it     *)
(* writes the Deployment, or when others do.                               *)
(***************************************************************************)
One(b) == IF b THEN 1 ELSE 0

\* An update by the requirements of c would change the Deployment, or its
\* generation is not g.
Off(c, g) == Drifted("Deployment", c) \/ obj["Deployment"].gen # g

OwedStatus ==
    IF ~up THEN 1
    ELSE IF Ahead("Deployment")
      THEN IF snap.uid # cr.uid THEN 2
           ELSE One(Stale("Deployment")) + One(Off(snap, cr.lastGen))
    ELSE IF InFlight
      THEN One(dep.gen # cr.lastGen) + One(Off(cr, dep.gen))
    ELSE One(Off(cr, cr.lastGen))

StatusInv == cr # NoCR => cr.rv + OwedStatus <= 2 + 2 * Changes

\* What the process has read of the CliManager is the live one, or older, or of
\* an earlier incarnation; only the operator records a generation, and it does
\* so at the end of a sync, if it has to.
StatusReadInv ==
    /\ cr # NoCR => cr.uid <= uids["CliManager"]
    /\ InFlight => snap.uid <= uids["CliManager"]
    /\ InFlight /\ cr # NoCR /\ cr.uid = snap.uid => cr.lastGen = snap.lastGen
    /\ pc = "statusWrite" =>
         /\ got.uid <= uids["CliManager"]
         /\ got.lastGen # dep.gen
         /\ cr # NoCR /\ cr.uid = got.uid => got = cr \/ got.rv < cr.rv

(***************************************************************************)
(* How the CliManager may change.                                          *)
(***************************************************************************)
CREffect ==
    \/ cr' = cr
    \/ cr' = NoCR
    \/ /\ cr = NoCR /\ cr' # NoCR
       /\ cr'.uid = uids["CliManager"] + 1
       /\ cr'.rv = 1
    \/ /\ cr # NoCR /\ cr' # NoCR
       /\ cr'.uid = cr.uid /\ cr'.lastGen = cr.lastGen
       /\ cr'.rv = cr.rv + 1

LEMMA EnvironmentCR ==
    ASSUME TypeOK, Environment
    PROVE  /\ CREffect
           /\ uids'["CliManager"] \in Nat
           /\ uids'["CliManager"] >= uids["CliManager"]
           /\ cr' # NoCR /\ cr' # cr /\ cr = NoCR =>
                uids'["CliManager"] = uids["CliManager"] + 1
           /\ UNCHANGED <<up, cfg, pc, step, snap, dep, got>>
           /\ cr' # cr => obj' = obj /\ Edit /\ faults' = faults
<1>0. uids \in [Names -> Nat] /\ "CliManager" \in Names /\ cr \in CRs \cup {NoCR}
  BY DEF TypeOK, Names
<1>1. UNCHANGED <<up, cfg, pc, step, snap, dep, got>>
  BY EnvironmentEffect DEF EnvEffect
<1>2. CASE CreateCR
  <2>1. PICK l \in LogLevels, m \in MgmtStates :
          cr' = [uid |-> uids["CliManager"] + 1, rv |-> 1, logLevel |-> l,
                 mgmt |-> m, lastGen |-> -1]
    BY <1>2 DEF CreateCR
  <2>2. cr' # NoCR
    <3>1. uids["CliManager"] + 1 \in Nat
      BY <1>0
    <3>2. cr' \in CRs
      BY <2>1, <3>1, CRWriteType
    <3>3. QED
      BY <3>2, NoValueAssumption
  <2>3. cr'.uid = uids["CliManager"] + 1 /\ cr'.rv = 1
    BY <2>1
  <2>4. cr = NoCR /\ Edit /\ obj' = obj /\ faults' = faults
    BY <1>2 DEF CreateCR, Others
  <2>5. uids'["CliManager"] = uids["CliManager"] + 1
    BY <1>0, <1>2 DEF CreateCR
  <2>6. QED
    BY <1>0, <1>1, <2>2, <2>3, <2>4, <2>5 DEF CREffect
<1>3. CASE EditCR
  <2>1. PICK l \in LogLevels, m \in MgmtStates :
          cr' = [cr EXCEPT !.rv = @ + 1, !.logLevel = l, !.mgmt = m]
    BY <1>3 DEF EditCR
  <2>2. cr \in CRs /\ cr # NoCR /\ Edit /\ obj' = obj /\ uids' = uids /\ faults' = faults
    BY <1>0, <1>3 DEF EditCR, Others
  <2>3. cr' # NoCR
    BY <2>1, <2>2, CRWriteType, NoValueAssumption
  <2>4. cr'.uid = cr.uid /\ cr'.lastGen = cr.lastGen /\ cr'.rv = cr.rv + 1
    BY <2>1, <2>2 DEF CRs
  <2>5. QED
    BY <1>0, <1>1, <2>2, <2>3, <2>4 DEF CREffect
<1>4. CASE DeleteCR
  <2>1. cr' = NoCR /\ uids' = uids /\ obj' = obj /\ Edit /\ faults' = faults
    BY <1>4 DEF DeleteCR, Others
  <2>2. QED
    BY <1>0, <1>1, <2>1 DEF CREffect
<1>5. CASE \E r \in Resources :
             \/ EditObject(r) \/ AnnotateObject(r) \/ StripObject(r)
             \/ DeleteObject(r) \/ UsurpObject(r) \/ CollectGarbage(r)
  <2>1. PICK r \in Resources :
             \/ EditObject(r) \/ AnnotateObject(r) \/ StripObject(r)
             \/ DeleteObject(r) \/ UsurpObject(r) \/ CollectGarbage(r)
    BY <1>5
  <2>2. cr' = cr
    BY <2>1 DEF EditObject, AnnotateObject, StripObject, DeleteObject, UsurpObject,
                CollectGarbage
  <2>3. uids'["CliManager"] = uids["CliManager"]
    <3>1. uids' = uids \/ uids' = [uids EXCEPT ![r] = @ + 1]
      BY <2>1 DEF EditObject, AnnotateObject, StripObject, DeleteObject,
                  UsurpObject, CollectGarbage
    <3>2. r # "CliManager"
      BY OrderFacts
    <3>3. QED
      BY <1>0, <3>1, <3>2
  <2>4. QED
    BY <1>0, <1>1, <2>2, <2>3 DEF CREffect
<1>6. QED
  BY <1>2, <1>3, <1>4, <1>5 DEF Environment

LEMMA StatusChangedGeneration ==
    ASSUME NEW c \in CRs, StatusChanged(c) PROVE c.lastGen # dep.gen
BY DEF StatusChanged, SetDeploymentGeneration, CRs

LEMMA StatusWrite ==
    ASSUME TypeOK, SyncInv, pc = "statusWrite", StatusUpdated
    PROVE  /\ cr \in CRs /\ cr' \in CRs /\ cr # NoCR /\ cr' # NoCR
           /\ cr'.uid = cr.uid /\ cr'.logLevel = cr.logLevel
           /\ cr'.rv = cr.rv + 1
           /\ cr'.lastGen = dep.gen
           /\ UNCHANGED <<obj, uids>>
<1>1. cr \in CRs /\ cr # NoCR /\ cr' = [SetDeploymentGeneration(cr) EXCEPT !.rv = @ + 1]
  BY DEF StatusUpdated, StatusCurrent, TypeOK
<1>2. cr' \in CRs /\ obj' = obj /\ uids' = uids
  BY StatusType
<1>3. /\ cr'.uid = cr.uid /\ cr'.logLevel = cr.logLevel
      /\ cr'.rv = cr.rv + 1
      /\ cr'.lastGen = dep.gen
  BY <1>1 DEF SetDeploymentGeneration, CRs
<1>4. QED
  BY <1>1, <1>2, <1>3, NoValueAssumption

LEMMA StatusReadStep ==
    TypeOK /\ SyncInv /\ StatusReadInv /\ [Next]_vars => StatusReadInv'
<1> SUFFICES ASSUME TypeOK, SyncInv, StatusReadInv, [Next]_vars
             PROVE  StatusReadInv'
  OBVIOUS
<1>0. uids["CliManager"] \in Nat /\ cr \in CRs \cup {NoCR}
      /\ snap \in CRs \cup {NoCR} /\ got \in CRs \cup {NoCR}
      /\ \A c \in CRs : c.uid \in Nat /\ c.rv \in Nat
  BY DEF TypeOK, Names, CRs
<1>1. ASSUME UNCHANGED <<cr, uids>>, ~InFlight'
      PROVE  StatusReadInv'
  BY <1>1 DEF StatusReadInv, InFlight
<1>2. ASSUME cr' = cr, uids'["CliManager"] = uids["CliManager"],
             UNCHANGED <<snap, got, dep>>,
             InFlight' => InFlight, pc' = "statusWrite" => pc = "statusWrite"
      PROVE  StatusReadInv'
  BY <1>2 DEF StatusReadInv
<1>3. CASE UNCHANGED vars \/ Backoff \/ Resync \/ RunOperator
           \/ \E i \in Informers : Deliver(i)
  <2>1. UNCHANGED <<cr, uids, pc, snap, got, dep>>
    BY <1>3 DEF vars, cluster, local, Backoff, Resync, Deliver, RunOperator
  <2>2. QED
    BY <1>2, <2>1 DEF InFlight
<1>4. CASE Environment
  <2>1. /\ CREffect
        /\ uids'["CliManager"] \in Nat
        /\ uids'["CliManager"] >= uids["CliManager"]
        /\ cr' # NoCR /\ cr' # cr /\ cr = NoCR =>
             uids'["CliManager"] = uids["CliManager"] + 1
        /\ UNCHANGED <<pc, snap, dep, got>>
    BY <1>4, EnvironmentCR
  <2>2. /\ InFlight => snap \in CRs
        /\ pc = "statusWrite" => InFlight /\ got \in CRs
    BY <1>0 DEF SyncInv, InFlight
  <2>3. /\ InFlight' <=> InFlight
        /\ InFlight => snap.uid \in Nat
        /\ pc = "statusWrite" => got.uid \in Nat /\ got.rv \in Nat
        /\ cr # NoCR => cr.uid \in Nat /\ cr.rv \in Nat
    BY <1>0, <2>1, <2>2 DEF InFlight
  <2>4. CASE cr' = NoCR
    BY <1>0, <2>1, <2>3, <2>4 DEF StatusReadInv
  <2>5. CASE cr' = cr
    BY <1>0, <2>1, <2>3, <2>5 DEF StatusReadInv
  <2>6. CASE /\ cr = NoCR /\ cr' # NoCR /\ cr'.uid = uids["CliManager"] + 1
    <3>1. uids'["CliManager"] = uids["CliManager"] + 1
      BY <2>1, <2>6
    <3>2. InFlight => cr'.uid # snap.uid
      BY <1>0, <2>3, <2>6 DEF StatusReadInv
    <3>3. pc = "statusWrite" => cr'.uid # got.uid
      BY <1>0, <2>3, <2>6 DEF StatusReadInv
    <3>4. QED
      BY <1>0, <2>1, <2>3, <2>6, <3>1, <3>2, <3>3 DEF StatusReadInv
  <2>7. CASE /\ cr # NoCR /\ cr' # NoCR
             /\ cr'.uid = cr.uid /\ cr'.lastGen = cr.lastGen
             /\ cr'.rv = cr.rv + 1
    <3>1. cr'.uid <= uids'["CliManager"]
      BY <1>0, <2>1, <2>3, <2>7 DEF StatusReadInv
    <3>2. InFlight => snap.uid <= uids'["CliManager"]
      BY <1>0, <2>1, <2>3 DEF StatusReadInv
    <3>3. pc = "statusWrite" => got.uid <= uids'["CliManager"]
      BY <1>0, <2>1, <2>3 DEF StatusReadInv
    <3>4. pc = "statusWrite" /\ cr'.uid = got.uid => got.rv < cr'.rv
      BY <2>3, <2>7 DEF StatusReadInv
    <3>5. QED
      BY <2>1, <2>3, <2>7, <3>1, <3>2, <3>3, <3>4 DEF StatusReadInv
  <2>8. QED
    BY <2>1, <2>4, <2>5, <2>6, <2>7 DEF CREffect
<1>5. CASE Get \/ Done \/ GetCliManagerNotFound \/ WriteRefused \/ GetStatusUnchanged
           \/ UpdateStatusFails \/ CallFails \/ Crash
  BY <1>1, <1>5 DEF Get, Done, GetCliManagerNotFound, WriteRefused,
     GetStatusUnchanged, UpdateStatusFails, CallFails, Crash, Reset, Fail, Succeed,
     InFlight, cluster
<1>6. CASE GetCliManager
  BY <1>6 DEF GetCliManager, StatusReadInv, InFlight, cluster
<1>7. ASSUME pc \in {"get", "write"}, NEW a, Advance(a), cr' = cr,
             uids'["CliManager"] = uids["CliManager"]
      PROVE  StatusReadInv'
  <2>1. snap' = snap /\ pc' # "statusWrite" /\ InFlight
    BY <1>7 DEF Advance, InFlight
  <2>2. QED
    BY <1>7, <2>1 DEF StatusReadInv
<1>8. CASE GetUpToDate
  BY <1>7, <1>8 DEF GetUpToDate, cluster
<1>9. ASSUME pc = "write", ObjectCreated \/ ObjectUpdated
      PROVE  cr' = cr /\ uids'["CliManager"] = uids["CliManager"]
  <2>1. Operand # "CliManager"
    BY <1>9, OperandFacts, OrderFacts
  <2>2. QED
    BY <1>9, <2>1 DEF ObjectCreated, ObjectUpdated, TypeOK, Names
<1>10. CASE CreateObject \/ UpdateObject
  BY <1>7, <1>9, <1>10 DEF CreateObject, UpdateObject
<1>11. CASE GetToWrite \/ UpdateStatusRetry
  BY <1>2, <1>11 DEF GetToWrite, UpdateStatusRetry, InFlight, cluster, local
<1>12. CASE GetStatusToWrite
  <2>1. /\ pc = "statusGet" /\ cr \in CRs /\ StatusChanged(cr) /\ got' = cr
        /\ UNCHANGED <<cr, uids, snap, dep>>
    BY <1>0, <1>12 DEF GetStatusToWrite, cluster
  <2>2. cr.lastGen # dep.gen
    BY <2>1, StatusChangedGeneration
  <2>3. cr # NoCR
    BY <2>1, NoValueAssumption
  <2>4. QED
    BY <2>1, <2>2, <2>3 DEF StatusReadInv, InFlight
<1>13. ASSUME pc = "statusWrite", StatusUpdated, ~InFlight'
       PROVE  StatusReadInv'
  <2>1. cr # NoCR /\ cr'.uid = cr.uid /\ uids' = uids
    BY <1>13, StatusWrite
  <2>2. pc' # "statusWrite"
    BY <1>13 DEF InFlight
  <2>3. QED
    BY <1>13, <2>1, <2>2 DEF StatusReadInv
<1>14. CASE UpdateStatus
  BY <1>13, <1>14 DEF UpdateStatus, Succeed, InFlight
<1>15. CASE ReplyLost
  <2>1. ~InFlight' /\ pc' # "statusWrite"
    BY <1>15 DEF ReplyLost, Fail, InFlight
  <2>2. CASE pc = "write" /\ (ObjectCreated \/ ObjectUpdated)
    BY <1>9, <2>1, <2>2 DEF StatusReadInv
  <2>3. QED
    BY <1>13, <1>15, <2>1, <2>2 DEF ReplyLost
<1>16. QED
  BY <1>3, <1>4, <1>5, <1>6, <1>8, <1>10, <1>11, <1>12, <1>14, <1>15
  DEF Next, Process, processNextWorkItem, sync, Failure

(***************************************************************************)
(* The account of the status over one step.                                *)
(***************************************************************************)
StatusAccount == cr' # NoCR => cr'.rv + OwedStatus' <= 2 + 2 * Changes'

LEMMA StatusDebtRange ==
    /\ OwedStatus \in 0 .. 2
    /\ OwedStatus' \in 0 .. 2
    /\ ~InFlight => OwedStatus <= 1
    /\ ~InFlight' => OwedStatus' <= 1
<1>1. \A b : One(b) \in 0 .. 1
  BY DEF One
<1>2. OwedStatus \in 0 .. 2 /\ (~InFlight => OwedStatus <= 1)
  BY <1>1 DEF OwedStatus, Ahead
<1>3. OwedStatus' \in 0 .. 2 /\ (~InFlight' => OwedStatus' <= 1)
  BY <1>1 DEF OwedStatus, Ahead
<1>4. QED
  BY <1>2, <1>3

LEMMA StatusAccountKept ==
    ASSUME TypeOK, StatusInv, cr' = cr, Changes' >= Changes, Changes' \in Nat,
           cr # NoCR => OwedStatus' <= OwedStatus
    PROVE  StatusAccount
<1>1. Changes \in Nat /\ (cr # NoCR => cr.rv \in Nat)
  BY DEF Changes, TypeOK, CRs
<1>2. QED
  BY <1>1, StatusDebtRange DEF StatusInv, StatusAccount

LEMMA StatusAccountCharged ==
    ASSUME TypeOK, StatusInv, Changes' = Changes + 1,
           \/ cr' = cr
           \/ cr' = NoCR
           \/ cr'.rv = 1
           \/ /\ cr # NoCR /\ cr'.rv = cr.rv + 1
              /\ OwedStatus' <= OwedStatus + 1
           \/ /\ cr # NoCR /\ cr'.rv = cr.rv + 1
              /\ OwedStatus' <= 1
    PROVE  StatusAccount
<1>1. Changes \in Nat /\ (cr # NoCR => cr.rv \in Nat)
  BY DEF Changes, TypeOK, CRs
<1>2. QED
  BY <1>1, StatusDebtRange DEF StatusInv, StatusAccount

\* Nothing the debt depends on changes.
LEMMA StatusDebtKept ==
    ASSUME UNCHANGED <<cr, up, cfg, snap, dep>>,
           obj'["Deployment"] = obj["Deployment"],
           InFlight' <=> InFlight,
           Passed("Deployment")' <=> Passed("Deployment")
    PROVE  OwedStatus' = OwedStatus
<1>1. Ahead("Deployment")' <=> Ahead("Deployment")
  BY DEF Ahead
<1>2. /\ Drifted("Deployment", snap)' <=> Drifted("Deployment", snap)
      /\ Drifted("Deployment", cr)' <=> Drifted("Deployment", cr)
      /\ Stale("Deployment")' <=> Stale("Deployment")
  BY DEF Drifted, Stale
<1>3. /\ Off(snap, cr.lastGen)' <=> Off(snap, cr.lastGen)
      /\ Off(cr, cr.lastGen)' <=> Off(cr, cr.lastGen)
      /\ Off(cr, dep.gen)' <=> Off(cr, dep.gen)
  BY <1>2 DEF Off
<1>4. QED
  BY <1>1, <1>2, <1>3 DEF OwedStatus, One

\* A sync ends, well or badly.
LEMMA StatusDebtAtEnd ==
    ASSUME UNCHANGED <<cr, up, cfg>>, obj'["Deployment"] = obj["Deployment"],
           ~InFlight', cr # NoCR
    PROVE  OwedStatus' <= OwedStatus
<1>1. Off(cr, cr.lastGen)' <=> Off(cr, cr.lastGen)
  BY DEF Off, Drifted
<1>2. OwedStatus' = IF ~up THEN 1 ELSE One(Off(cr, cr.lastGen))
  BY <1>1 DEF OwedStatus, Ahead, One
<1>3. CASE ~up
  BY <1>2, <1>3 DEF OwedStatus
<1>4. CASE up /\ Ahead("Deployment")
  <2>1. ~Stale("Deployment") => (Off(snap, cr.lastGen) <=> Off(cr, cr.lastGen))
    BY DEF Stale, Off, Drifted
  <2>2. QED
    BY <1>2, <1>4, <2>1 DEF OwedStatus, One
<1>5. CASE up /\ ~Ahead("Deployment") /\ InFlight
  <2>1. OwedStatus = One(dep.gen # cr.lastGen) + One(Off(cr, dep.gen))
    BY <1>5 DEF OwedStatus
  <2>2. dep.gen = cr.lastGen => (Off(cr, dep.gen) <=> Off(cr, cr.lastGen))
    BY DEF Off
  <2>3. QED
    BY <1>2, <1>5, <2>1, <2>2 DEF One
<1>6. CASE up /\ ~InFlight
  <2>1. OwedStatus = One(Off(cr, cr.lastGen))
    BY <1>6 DEF OwedStatus, Ahead
  <2>2. QED
    BY <1>2, <1>6, <2>1 DEF One
<1>7. QED
  BY <1>3, <1>4, <1>5, <1>6

\* The sync is through with the Deployment: what it will record is what it has
\* found or written.
LEMMA StatusDebtAtDeployment ==
    ASSUME TypeOK, SyncInv, QueueInv, StatusReadInv, pc \in {"get", "write"},
           Operand = "Deployment", Advance(obj'["Deployment"]), cr # NoCR,
           UNCHANGED <<cr, up, cfg>>,
           \/ /\ obj'["Deployment"] = obj["Deployment"]
              /\ obj["Deployment"] # NoObj
              /\ obj["Deployment"].gen = snap.lastGen
           \/ /\ obj'["Deployment"] # NoObj
              /\ toWrite("Deployment", obj'["Deployment"],
                         Required("Deployment", snap, cfg)) = obj'["Deployment"]
              /\ ~Drifted("Deployment", snap) =>
                    obj'["Deployment"] = obj["Deployment"]
    PROVE  OwedStatus' <= OwedStatus
<1>1. Ahead("Deployment") /\ ~Ahead("Deployment")' /\ InFlight /\ InFlight'
      /\ snap' = snap
  BY AdvancePassed DEF Ahead
<1>2. up
  BY DEF QueueInv
<1>3. dep' = obj'["Deployment"]
  BY DEF Advance
<1>4. Off(cr, dep.gen)' <=> Drifted("Deployment", cr)'
  BY <1>3 DEF Off
<1>5. OwedStatus' = One(obj'["Deployment"].gen # cr.lastGen)
                      + One(Drifted("Deployment", cr)')
  BY <1>1, <1>2, <1>3, <1>4 DEF OwedStatus, One
<1>6. CASE snap.uid # cr.uid
  BY <1>1, <1>2, <1>6, StatusDebtRange DEF OwedStatus
<1>7. CASE snap.uid = cr.uid
  <2>1. cr.lastGen = snap.lastGen
    BY <1>1, <1>7 DEF StatusReadInv
  <2>2. OwedStatus = One(Stale("Deployment")) + One(Off(snap, cr.lastGen))
    BY <1>1, <1>2, <1>7 DEF OwedStatus
  <2>3. CASE /\ obj'["Deployment"] = obj["Deployment"]
             /\ obj["Deployment"] # NoObj
             /\ obj["Deployment"].gen = snap.lastGen
    <3>1. ~Stale("Deployment") =>
            (Drifted("Deployment", cr)' => Drifted("Deployment", snap))
      BY <2>3 DEF Stale, Drifted
    <3>2. Drifted("Deployment", snap) => Off(snap, cr.lastGen)
      BY DEF Off
    <3>3. QED
      BY <1>5, <2>1, <2>2, <2>3, <3>1, <3>2 DEF One
  <2>4. CASE /\ obj'["Deployment"] # NoObj
             /\ toWrite("Deployment", obj'["Deployment"],
                        Required("Deployment", snap, cfg)) = obj'["Deployment"]
             /\ ~Drifted("Deployment", snap) =>
                   obj'["Deployment"] = obj["Deployment"]
    <3>1. ~Stale("Deployment") => ~Drifted("Deployment", cr)'
      BY <2>4 DEF Stale, Drifted
    <3>2. obj'["Deployment"].gen # cr.lastGen => Off(snap, cr.lastGen)
      BY <2>4 DEF Off
    <3>3. QED
      BY <1>5, <2>2, <3>1, <3>2 DEF One
  <2>5. QED
    BY <2>3, <2>4
<1>8. QED
  BY <1>6, <1>7

\* The garbage collector takes only what the operator would have to write
\* anyway.
LEMMA StatusDebtAtCollection ==
    ASSUME TypeOK, SyncInv, CollectGarbage("Deployment"), cr # NoCR
    PROVE  OwedStatus' <= OwedStatus
<1> DEFINE D == "Deployment"
<1>1. /\ UNCHANGED <<cr, up, cfg, pc, step, snap, dep>>
      /\ obj[D] # NoObj /\ obj[D].owner # cr.uid
  BY DEF CollectGarbage, Orphaned, Put, Others, local
<1>2. /\ obj[D] \in Objects /\ D \in Resources /\ cr \in CRs /\ cfg \in Configs
      /\ InFlight => snap \in CRs
  BY <1>1, OrderFacts DEF TypeOK, SyncInv
<1>3. ASSUME NEW c \in CRs, c.uid = cr.uid
      PROVE  Drifted(D, c)
  <2>1. Required(D, c, cfg) \in Bodies
    BY <1>2, RequiredType
  <2>2. Required(D, c, cfg).owner = cr.uid
    BY <1>3 DEF Required, OwnerReference
  <2>3. QED
    BY <1>1, <1>2, <2>1, <2>2, WriteOwner DEF Drifted
<1>4. /\ InFlight' <=> InFlight
      /\ Ahead(D)' <=> Ahead(D)
      /\ Stale(D)' <=> Stale(D)
  BY <1>1 DEF InFlight, Ahead, Passed, Stale
<1>5. Off(cr, cr.lastGen) /\ Off(cr, dep.gen)
  BY <1>2, <1>3 DEF Off
<1>6. Ahead(D) /\ snap.uid = cr.uid => Off(snap, cr.lastGen)
  BY <1>2, <1>3 DEF Off, Ahead
<1>7. CASE ~up
  BY <1>1, <1>7 DEF OwedStatus
<1>8. CASE up /\ Ahead(D)
  BY <1>1, <1>4, <1>6, <1>8, StatusDebtRange DEF OwedStatus, One
<1>9. CASE up /\ ~Ahead(D)
  BY <1>1, <1>4, <1>5, <1>9, StatusDebtRange DEF OwedStatus, One
<1>10. QED
  BY <1>7, <1>8, <1>9

LEMMA StatusDebtAtEdit ==
    ASSUME TypeOK, SyncInv, EditCR
    PROVE  OwedStatus' <= OwedStatus + 1
<1> DEFINE D == "Deployment"
<1>1. UNCHANGED <<obj, up, cfg, pc, step, snap, dep>> /\ cr # NoCR
  BY DEF EditCR, Others, local
<1>2. cr'.uid = cr.uid /\ cr'.lastGen = cr.lastGen
  <2>1. PICK l \in LogLevels, m \in MgmtStates :
          cr' = [cr EXCEPT !.rv = @ + 1, !.logLevel = l, !.mgmt = m]
    BY DEF EditCR
  <2>2. QED
    BY <1>1, <2>1 DEF TypeOK, CRs
<1>3. /\ InFlight' <=> InFlight
      /\ Ahead(D)' <=> Ahead(D)
  BY <1>1 DEF InFlight, Ahead, Passed
<1>4. Off(snap, cr.lastGen)' <=> Off(snap, cr.lastGen)
  BY <1>1, <1>2 DEF Off, Drifted
<1>5. CASE ~up
  BY <1>1, <1>5 DEF OwedStatus
<1>6. CASE up /\ Ahead(D)
  BY <1>1, <1>2, <1>3, <1>4, <1>6 DEF OwedStatus, One
<1>7. CASE up /\ ~Ahead(D) /\ InFlight
  BY <1>1, <1>2, <1>3, <1>7 DEF OwedStatus, One
<1>8. CASE ~InFlight
  BY <1>3, <1>8, StatusDebtRange
<1>9. QED
  BY <1>5, <1>6, <1>7, <1>8

LEMMA StatusStep ==
    /\ TypeOK /\ SyncInv /\ QueueInv /\ ReadInv /\ StatusReadInv /\ StatusInv
    /\ [Next]_vars
    => StatusInv'
<1> SUFFICES ASSUME TypeOK, SyncInv, QueueInv, ReadInv, StatusReadInv, StatusInv,
                    [Next]_vars
             PROVE  StatusInv'
  OBVIOUS
<1> SUFFICES StatusAccount
  BY DEF StatusInv, StatusAccount
<1> DEFINE D == "Deployment"
<1>a. /\ edits \in Nat /\ faults \in Nat /\ Changes \in Nat
      /\ obj \in [Resources -> Objects \cup {NoObj}]
      /\ D \in Resources
  BY OrderFacts DEF TypeOK, Changes
<1>1. ASSUME UNCHANGED <<cr, obj, up, cfg, edits, faults>>,
             ~InFlight' \/ (UNCHANGED <<step, snap, dep>> /\ InFlight /\ InFlight')
      PROVE  StatusAccount
  <2>1. Changes' = Changes
    BY <1>1 DEF Changes
  <2>2. CASE ~InFlight'
    BY <1>1, <1>a, <2>1, <2>2, StatusDebtAtEnd, StatusAccountKept
  <2>3. CASE UNCHANGED <<step, snap, dep>> /\ InFlight /\ InFlight'
    <3>1. Passed(D)' <=> Passed(D)
      BY <2>3 DEF Passed
    <3>2. OwedStatus' = OwedStatus
      BY <1>1, <2>3, <3>1, StatusDebtKept
    <3>3. QED
      BY <1>1, <1>a, <2>1, <3>2, StatusDebtRange, StatusAccountKept
  <2>4. QED
    BY <1>1, <2>2, <2>3
<1>2. CASE UNCHANGED vars \/ Backoff \/ Resync \/ \E i \in Informers : Deliver(i)
  <2>1. UNCHANGED <<cr, obj, up, cfg, edits, faults, step, snap, dep, pc>>
    BY <1>2 DEF vars, cluster, local, Backoff, Resync, Deliver
  <2>2. QED
    BY <1>1, <2>1 DEF InFlight
<1>3. CASE Get \/ Done \/ GetCliManagerNotFound \/ WriteRefused \/ GetStatusUnchanged
           \/ UpdateStatusFails
  BY <1>1, <1>3 DEF Get, Done, GetCliManagerNotFound, WriteRefused,
     GetStatusUnchanged, UpdateStatusFails, Fail, Succeed, InFlight, cluster
<1>4. CASE GetToWrite \/ GetStatusToWrite \/ UpdateStatusRetry
  BY <1>1, <1>4 DEF GetToWrite, GetStatusToWrite, UpdateStatusRetry, InFlight,
     cluster, local
<1>5. CASE CallFails \/ Crash
  <2>1. cr' = cr /\ Changes' = Changes + 1
    BY <1>5, <1>a DEF CallFails, Crash, cluster, Changes
  <2>2. QED
    BY <2>1, StatusAccountCharged
<1>6. CASE RunOperator
  <2>1. UNCHANGED <<cr, edits, faults, pc>> /\ ~up
    BY <1>6 DEF RunOperator, cluster
  <2>2. ~InFlight'
    BY <2>1 DEF QueueInv, InFlight
  <2>3. OwedStatus = 1 /\ OwedStatus' <= 1
    BY <2>1, <2>2, StatusDebtRange DEF OwedStatus
  <2>4. QED
    BY <1>a, <2>1, <2>3, StatusAccountKept DEF Changes
<1>7. CASE GetCliManager
  <2>1. /\ UNCHANGED <<cr, obj, up, cfg, edits, faults>> /\ snap' = cr /\ cr # NoCR
        /\ pc = "fetch" /\ pc' = "get" /\ step' = 1
    BY <1>7 DEF GetCliManager, cluster
  <2>2. ~Stale(D)'
    BY <2>1 DEF Stale
  <2>3. Off(snap, cr.lastGen)' <=> Off(cr, cr.lastGen)
    BY <2>1 DEF Off, Drifted
  <2>4. Ahead(D)' /\ ~InFlight
    BY <2>1 DEF Ahead, Passed, InFlight
  <2>5. up
    BY <2>1 DEF QueueInv
  <2>6. OwedStatus = One(Off(cr, cr.lastGen))
    BY <2>4, <2>5 DEF OwedStatus, Ahead
  <2>7. OwedStatus' <= OwedStatus
    BY <2>1, <2>2, <2>3, <2>4, <2>6 DEF OwedStatus, One
  <2>8. QED
    BY <1>a, <2>1, <2>7, StatusAccountKept DEF Changes
\* Advance past another operand.
<1>8. ASSUME pc \in {"get", "write"}, NEW a, Advance(a), Operand # D,
             UNCHANGED <<cr, up, cfg, edits, faults>>, obj'[D] = obj[D]
      PROVE  StatusAccount
  <2>1. /\ InFlight' <=> InFlight
        /\ Passed(D)' <=> Passed(D)
        /\ snap' = snap
    BY <1>8, AdvancePassed
  <2>2. dep' = dep
    BY <1>8 DEF Advance
  <2>3. OwedStatus' = OwedStatus
    BY <1>8, <2>1, <2>2, StatusDebtKept
  <2>4. QED
    BY <1>8, <1>a, <2>3, StatusDebtRange, StatusAccountKept DEF Changes
<1>9. CASE GetUpToDate
  <2>1. /\ UNCHANGED <<cr, obj, up, cfg, edits, faults>>
        /\ pc = "get" /\ Advance(obj'[Operand]) /\ obj[Operand] # NoObj
        /\ SkipsWrite(Operand, obj[Operand], RequiredNow, ExpectedDeploymentGeneration)
    BY <1>9 DEF GetUpToDate, cluster
  <2>2. CASE Operand # D
    BY <1>8, <2>1, <2>2
  <2>3. CASE Operand = D
    <3>1. obj[D].gen = snap.lastGen
      <4>1. SpecSame("Deployment", obj[D], RequiredNow, snap.lastGen)
        BY <2>1, <2>3 DEF SkipsWrite, InSync, ExpectedDeploymentGeneration
      <4>2. QED
        BY <4>1 DEF SpecSame, generationSame, Services
    <3>2. cr # NoCR => OwedStatus' <= OwedStatus
      BY <2>1, <2>3, <3>1, StatusDebtAtDeployment
    <3>3. QED
      BY <1>a, <2>1, <3>2, StatusAccountKept DEF Changes
  <2>4. QED
    BY <2>2, <2>3
<1>10. CASE CreateObject \/ UpdateObject
  <2>1. /\ pc = "write" /\ (ObjectCreated \/ ObjectUpdated)
        /\ Advance(obj'[Operand])
        /\ UNCHANGED <<up, cfg, edits, faults>>
    BY <1>10 DEF CreateObject, UpdateObject
  <2>2. cr' = cr /\ (D # Operand => obj'[D] = obj[D])
    BY <1>a, <2>1, WriteType
  <2>3. CASE Operand # D
    BY <1>8, <2>1, <2>2, <2>3
  <2>4. CASE Operand = D
    <3>1. /\ obj'[D] # NoObj
          /\ toWrite(D, obj'[D], Required(D, snap, cfg)) = obj'[D]
          /\ ~Drifted(D, snap) => obj'[D] = obj[D]
      BY <2>1, <2>4, WritePays DEF RequiredNow
    <3>2. cr # NoCR => OwedStatus' <= OwedStatus
      BY <2>1, <2>2, <2>4, <3>1, StatusDebtAtDeployment
    <3>3. QED
      BY <1>a, <2>1, <2>2, <3>2, StatusAccountKept DEF Changes
  <2>5. QED
    BY <2>3, <2>4
\* The write of the status pays for itself: the generation it records is not the
\* one that was there.
<1>11. CASE UpdateStatus
  <2>1. /\ pc = "statusWrite" /\ StatusUpdated /\ ~InFlight'
        /\ UNCHANGED <<up, cfg, edits, faults, dep>>
    BY <1>11 DEF UpdateStatus, Succeed, InFlight, local
  <2>2. /\ cr \in CRs /\ cr # NoCR /\ cr' # NoCR
        /\ cr'.uid = cr.uid /\ cr'.logLevel = cr.logLevel
        /\ cr'.rv = cr.rv + 1
        /\ cr'.lastGen = dep.gen
        /\ obj' = obj
    BY <2>1, StatusWrite
  <2>3. cr.lastGen # dep.gen
    <3>1. cr.uid = got.uid /\ cr.rv = got.rv
      BY <2>1 DEF StatusUpdated, StatusCurrent
    <3>2. cr.rv \in Nat
      BY <2>2 DEF CRs
    <3>3. got = cr
      BY <2>1, <2>2, <3>1, <3>2 DEF StatusReadInv
    <3>4. QED
      BY <2>1, <3>3 DEF StatusReadInv
  <2>4. Required(D, cr', cfg) = Required(D, cr, cfg)
    BY <2>2, SameRequired
  <2>5. Off(cr, cr.lastGen)' <=> Off(cr, dep.gen)
    BY <2>1, <2>2, <2>4 DEF Off, Drifted
  <2>6. InFlight /\ up /\ ~Ahead(D)
    <3>1. InFlight /\ up
      BY <2>1 DEF InFlight, QueueInv
    <3>2. step = Len(SyncOrder) + 1
      BY <2>1, <3>1 DEF SyncInv
    <3>3. Passed(D)
      BY <3>2, OrderFacts DEF Passed
    <3>4. QED
      BY <3>1, <3>3 DEF Ahead
  <2>7. OwedStatus = 1 + One(Off(cr, dep.gen))
    BY <2>3, <2>6 DEF OwedStatus, One
  <2>8. OwedStatus' = One(Off(cr, dep.gen))
    BY <2>1, <2>5, <2>6 DEF OwedStatus, One, Ahead
  <2>9. cr.rv \in Nat /\ Changes' = Changes /\ One(Off(cr, dep.gen)) \in 0 .. 1
    BY <2>1, <2>2 DEF CRs, Changes, One
  <2>10. QED
    BY <1>a, <2>2, <2>7, <2>8, <2>9 DEF StatusInv, StatusAccount
<1>12. CASE ReplyLost
  <2>1. ~InFlight' /\ Changes' = Changes + 1
    BY <1>12, <1>a DEF ReplyLost, Fail, InFlight, Changes
  <2>2. CASE pc = "write" /\ (ObjectCreated \/ ObjectUpdated)
    <3>1. cr' = cr
      BY <2>2 DEF ObjectCreated, ObjectUpdated
    <3>2. QED
      BY <2>1, <3>1, StatusAccountCharged
  <2>3. CASE pc = "statusWrite" /\ StatusUpdated
    <3>1. cr # NoCR /\ cr'.rv = cr.rv + 1
      BY <2>3, StatusWrite
    <3>2. QED
      BY <2>1, <3>1, StatusDebtRange, StatusAccountCharged
  <2>4. QED
    BY <1>12, <2>2, <2>3 DEF ReplyLost
\* Users and other controllers.
<1>13. ASSUME Edit, faults' = faults
       PROVE  Changes' = Changes + 1
  BY <1>13, <1>a DEF Edit, Changes
<1>14. CASE CreateCR \/ DeleteCR
  <2>1. Changes' = Changes + 1
    BY <1>13, <1>14 DEF CreateCR, DeleteCR, Others
  <2>2. cr' = NoCR \/ cr'.rv = 1
    BY <1>14 DEF CreateCR, DeleteCR
  <2>3. QED
    BY <2>1, <2>2, StatusAccountCharged
<1>15. CASE EditCR
  <2>1. Changes' = Changes + 1 /\ cr # NoCR
    BY <1>13, <1>15 DEF EditCR, Others
  <2>2. cr'.rv = cr.rv + 1
    <3>1. PICK l \in LogLevels, m \in MgmtStates :
            cr' = [cr EXCEPT !.rv = @ + 1, !.logLevel = l, !.mgmt = m]
      BY <1>15 DEF EditCR
    <3>2. QED
      BY <2>1, <3>1 DEF TypeOK, CRs
  <2>3. QED
    BY <1>15, <2>1, <2>2, StatusDebtAtEdit, StatusAccountCharged
<1>16. ASSUME NEW q \in Resources,
              \/ EditObject(q) \/ AnnotateObject(q) \/ StripObject(q)
              \/ DeleteObject(q) \/ UsurpObject(q)
       PROVE  StatusAccount
  <2>1. cr' = cr /\ Edit /\ faults' = faults
    BY <1>16 DEF EditObject, AnnotateObject, StripObject, DeleteObject, UsurpObject,
                 Put, Others
  <2>2. QED
    BY <1>13, <2>1, StatusAccountCharged
<1>17. ASSUME NEW q \in Resources, CollectGarbage(q)
       PROVE  StatusAccount
  <2>1. /\ UNCHANGED <<cr, up, cfg, pc, step, snap, dep, edits, faults>>
        /\ obj' = [obj EXCEPT ![q] = NoObj]
    BY <1>17 DEF CollectGarbage, Put, Others, local
  <2>2. CASE q = D
    BY <1>17, <1>a, <2>1, <2>2, StatusDebtAtCollection, StatusAccountKept DEF Changes
  <2>3. CASE q # D
    <3>1. obj'[D] = obj[D]
      BY <1>a, <2>1, <2>3
    <3>2. (InFlight' <=> InFlight) /\ (Passed(D)' <=> Passed(D))
      BY <2>1 DEF InFlight, Passed
    <3>3. OwedStatus' = OwedStatus
      BY <2>1, <3>1, <3>2, StatusDebtKept
    <3>4. QED
      BY <1>a, <2>1, <3>3, StatusDebtRange, StatusAccountKept DEF Changes
  <2>4. QED
    BY <2>2, <2>3
<1>18. QED
  BY <1>2, <1>3, <1>4, <1>5, <1>6, <1>7, <1>9, <1>10, <1>11, <1>12, <1>14, <1>15,
     <1>16, <1>17
  DEF Next, Process, processNextWorkItem, sync, Environment, Failure

-----------------------------------------------------------------------------
LEMMA WritesInit == Init => WritesInv /\ StatusReadInv /\ StatusInv
<1> SUFFICES ASSUME Init PROVE WritesInv /\ StatusReadInv /\ StatusInv
  OBVIOUS
<1>1. ~up /\ pc = "idle" /\ Changes = 0 /\ \A r \in Resources : obj[r] = NoObj
  BY DEF Init, Changes
<1>2. WritesInv
  BY <1>1 DEF WritesInv, Version, OwedWrites
<1>3. cr # NoCR => cr.uid = 1 /\ cr.rv = 1
  BY DEF Init
<1>4. uids["CliManager"] = 1
  BY DEF Init, Names
<1>5. StatusReadInv
  BY <1>1, <1>3, <1>4 DEF StatusReadInv, InFlight
<1>6. StatusInv
  BY <1>1, <1>3 DEF StatusInv, OwedStatus
<1>7. QED
  BY <1>2, <1>5, <1>6

(***************************************************************************)
(* The operator does not keep itself busy: whatever others do and whatever *)
(* fails, the versions of the status and of every operand are bounded by   *)
(* the number of their changes and failures, however many syncs run.       *)
(***************************************************************************)
THEOREM NoSelfTriggeredLoop == Spec => []OwnWritesBounded
<1>1. /\ TypeOK /\ ReconcileInv /\ WritesInv /\ StatusReadInv /\ StatusInv
      /\ [Next]_vars
      => WritesInv' /\ StatusReadInv' /\ StatusInv'
  BY WritesStep, StatusReadStep, StatusStep DEF ReconcileInv
<1>2. TypeOK /\ WritesInv /\ StatusInv => OwnWritesBounded
  <2> SUFFICES ASSUME TypeOK, WritesInv, StatusInv
               PROVE  OwnWritesBounded
    OBVIOUS
  <2>0. Changes = edits + faults /\ edits \in Nat /\ faults \in Nat
    BY DEF Changes, TypeOK
  <2>1. cr # NoCR => cr.rv <= 2 + 2 * (edits + faults)
    <3>1. cr # NoCR => cr.rv \in Nat
      BY DEF TypeOK, CRs
    <3>2. QED
      BY <2>0, <3>1, StatusDebtRange DEF StatusInv
  <2>2. ASSUME NEW r \in Resources, obj[r] # NoObj
        PROVE  obj[r].rv <= 1 + 2 * (edits + faults)
    <3>1. obj[r].rv \in Nat /\ Version(r) = obj[r].rv
      BY <2>2 DEF TypeOK, Objects, Version
    <3>2. QED
      BY <2>0, <2>2, <3>1, DebtRange DEF WritesInv
  <2>3. QED
    BY <2>1, <2>2 DEF OwnWritesBounded
<1>3. QED
  BY <1>1, <1>2, WritesInit, Typing, Reconciling, PTL DEF Spec
=============================================================================
