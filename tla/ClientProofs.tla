---------------------------- MODULE ClientProofs ----------------------------
(***************************************************************************)
(* CLIManagerClient implements AtomicClient, for every set of fields,      *)
(* managers, requests and goroutines and any number of calls, edits and    *)
(* failures.                                                               *)
(*                                                                         *)
(* First the operators: what the server makes of a body is a body.  Then   *)
(* the invariant: what a goroutine has read is older than the live         *)
(* CliManager or equal to it, so a write that passes the test of the       *)
(* resourceVersion was computed from the live CliManager.  Then the        *)
(* refinement: an accepted write is the abstract action, and so is a call  *)
(* that finds nothing to do.                                               *)
(***************************************************************************)
EXTENDS CliManagerClient, TLAPS

Requested(r) ==
    /\ r.kind \in {"update", "apply", "patch"}
    /\ r.part \in {"spec", "status"}
    /\ r.valid \in BOOLEAN
    /\ DOMAIN r.want \subseteq PartFields(r.part)
    /\ \A f \in DOMAIN r.want : r.want[f] \in Values \cup {Unset}

\* What callers ask for is a request.
LEMMA RequestsRequested == \A r \in Requests : Requested(r)
  BY RequestsAssumption DEF Requested

LEMMA PartFieldsFields == \A part : PartFields(part) \subseteq Fields
  BY DEF PartFields, Fields

Vals == [Fields -> Values \cup {Unset}]

\* The parts of a body.
LEMMA BodyParts ==
    ASSUME NEW b \in Bodies
    PROVE  b.meta \in Nat /\ b.val \in Vals /\ b.own \in [Fields -> SUBSET Owners]
  BY DEF Bodies, Vals

LEMMA BodyMade ==
    ASSUME NEW b \in Bodies, NEW val \in Vals, NEW own \in [Fields -> SUBSET Owners]
    PROVE  [b EXCEPT !.val = val, !.own = own] \in Bodies
  BY DEF Bodies, Vals

\* Two bodies with the same parts are the same body.
LEMMA BodyEqual ==
    ASSUME NEW b \in Bodies, NEW c \in Bodies,
           b.meta = c.meta, b.val = c.val, b.own = c.own
    PROVE  b = c
  BY DEF Bodies

LEMMA OverlayType ==
    ASSUME NEW val \in Vals, NEW r, Requested(r)
    PROVE  Overlay(val, r.want) \in Vals
  BY DEF Vals, Overlay, Requested

LEMMA RewrittenType ==
    ASSUME NEW b \in Bodies, NEW val \in Vals
    PROVE  /\ Rewritten(b, val) \in Bodies
           /\ Rewritten(b, val).meta = b.meta
           /\ Rewritten(b, val).val = val
  <1> DEFINE own == [f \in Fields |-> IF val[f] = b.val[f] THEN b.own[f]
                                      ELSE IF val[f] = Unset THEN {}
                                      ELSE {"update"}]
  <1>1. own \in [Fields -> SUBSET Owners]
    <2>1. b.own \in [Fields -> SUBSET Owners]
      BY BodyParts
    <2> QED BY <2>1 DEF Owners
  <1>2. Rewritten(b, val) = [b EXCEPT !.val = val, !.own = own]
    BY DEF Rewritten
  <1> HIDE DEF own
  <1>3. /\ [b EXCEPT !.val = val, !.own = own] \in Bodies
        /\ [b EXCEPT !.val = val, !.own = own].meta = b.meta
        /\ [b EXCEPT !.val = val, !.own = own].val = val
    BY <1>1 DEF Bodies, Vals
  <1> QED BY <1>2, <1>3

\* A write that changes no value changes nothing.
LEMMA RewrittenSame ==
    ASSUME NEW b \in Bodies
    PROVE  Rewritten(b, b.val) = b
  <1>1. b.own \in [Fields -> SUBSET Owners]
    BY BodyParts
  <1>2. [f \in Fields |-> IF b.val[f] = b.val[f] THEN b.own[f]
                          ELSE IF b.val[f] = Unset THEN {} ELSE {"update"}] = b.own
    BY <1>1
  <1>3. Rewritten(b, b.val) = [b EXCEPT !.val = b.val, !.own = b.own]
    BY <1>2 DEF Rewritten
  <1> QED BY <1>3 DEF Bodies

LEMMA AppliedType ==
    ASSUME NEW b \in Bodies, NEW r, Requested(r), NEW m \in Managers
    PROVE  /\ Applied(b, r.want, m, r.part) \in Bodies
           /\ \A f \in DOMAIN r.want : f \in Fields
  <1> DEFINE want == r.want
             part == r.part
             val == [f \in Fields |->
                        IF f \in DOMAIN want THEN want[f]
                        ELSE IF f \in PartFields(part) /\ b.own[f] = {m} THEN Unset
                        ELSE b.val[f]]
             own == [f \in Fields |->
                        IF f \in DOMAIN want
                        THEN IF b.val[f] = want[f] THEN b.own[f] \cup {m} ELSE {m}
                        ELSE IF f \in PartFields(part) THEN b.own[f] \ {m}
                        ELSE b.own[f]]
  <1>1. b.val \in Vals /\ b.own \in [Fields -> SUBSET Owners]
    BY BodyParts
  <1>2. val \in Vals
    BY <1>1 DEF Requested, Vals
  <1>3. own \in [Fields -> SUBSET Owners]
    BY <1>1 DEF Owners
  <1>4. Applied(b, r.want, m, r.part) = [b EXCEPT !.val = val, !.own = own]
    BY DEF Applied
  <1>5. DOMAIN r.want \subseteq Fields
    BY PartFieldsFields DEF Requested
  <1> HIDE DEF val, own
  <1>6. [b EXCEPT !.val = val, !.own = own] \in Bodies
    BY <1>2, <1>3, BodyMade
  <1> QED BY <1>4, <1>5, <1>6

LEMMA EmptyBodyType == EmptyBody \in Bodies
  BY DEF EmptyBody, Bodies

\* Every part of a body has a field with no update: metadata of others.
LEMMA NotedType ==
    ASSUME NEW b \in Bodies
    PROVE  [b EXCEPT !.meta = @ + 1] \in Bodies
  BY DEF Bodies

-----------------------------------------------------------------------------
(***************************************************************************)
(* The effect of a step on the CliManager and on the revision.             *)
(***************************************************************************)
Kept == live' = live /\ revision' = revision

Stored(body) ==
    /\ live' \in Objects
    /\ live'.body = body
    /\ \/ Kept
       \/ revision' = revision + 1 /\ live'.rv = revision + 1

Progress ==
    \/ Kept
    \/ revision' = revision + 1 /\ live' = NoCR
    \/ \E body \in Bodies : Stored(body)

Sinces == [Conditions -> Nat]

LEMMA ObjectParts ==
    ASSUME NEW o \in Objects
    PROVE  o.rv \in Nat /\ o.body \in Bodies /\ o.since \in Sinces /\ o # NoCR
  BY NoCRAssumption DEF Objects, Sinces

LEMMA StoreStores ==
    ASSUME TypeOK, NEW body \in Bodies, NEW since \in Sinces, Store(body, since)
    PROVE  Stored(body)
  <1>1. CASE live # NoCR /\ live.body = body /\ live.since = since
    BY <1>1 DEF TypeOK, Store, Stored, Kept
  <1>2. CASE ~(live # NoCR /\ live.body = body /\ live.since = since)
    <2>1. revision' = revision + 1
      BY <1>2 DEF Store
    <2>2. live' = [rv |-> revision + 1, body |-> body, since |-> since]
      BY <1>2 DEF Store
    <2>3. live' \in Objects /\ live'.rv = revision + 1 /\ live'.body = body
      BY <2>2 DEF TypeOK, Objects, Sinces
    <2> QED BY <2>1, <2>3 DEF Stored
  <1> QED BY <1>1, <1>2

LEMMA RestampedType ==
    ASSUME TypeOK, live # NoCR, NEW body
    PROVE  Restamped(body) \in Sinces
  <1>1. live.since \in Sinces /\ revision \in Nat
    BY ObjectParts DEF TypeOK
  <1> QED BY <1>1 DEF Restamped, Sinces

\* An object some goroutine has read stays old or up to date.
LEMMA FaithfulKept ==
    ASSUME TypeOK, ReadInv, Progress, NEW o \in Objects, Faithful(o)
    PROVE  Faithful(o)'
  <1>1. o.rv \in Nat /\ revision \in Nat
    BY ObjectParts DEF TypeOK
  <1>2. CASE Kept
    BY <1>2 DEF Kept, Faithful
  <1>3. CASE revision' = revision + 1 /\ live' = NoCR
    BY <1>1, <1>3 DEF Faithful
  <1>4. CASE revision' = revision + 1 /\ live' \in Objects /\ live'.rv = revision + 1
    BY <1>1, <1>4 DEF Faithful
  <1> QED BY <1>2, <1>3, <1>4 DEF Progress, Stored

-----------------------------------------------------------------------------
(***************************************************************************)
(* The writes.                                                             *)
(***************************************************************************)
\* A write that passes the server's test of the resourceVersion: both copies
\* its goroutine has read are the live CliManager.
LEMMA CopiesLive ==
    ASSUME TypeOK, ReadInv, NEW p \in Procs, pc[p] = "write", Update(p)
    PROVE  live \in Objects /\ got[p] = live /\ base[p] = live
  <1>1. req[p].kind = "update" /\ live # NoCR /\ live.rv = got[p].rv
    BY DEF Update, resourceVersion
  <1>2. ReadBy(p)
    BY DEF ReadInv
  <1>3. got[p] # NoCR /\ Faithful(got[p]) /\ base[p] # NoCR /\ Faithful(base[p])
          /\ got[p].rv <= base[p].rv
    BY <1>1, <1>2 DEF ReadBy
  <1>4. live \in Objects /\ base[p] \in Objects /\ got[p] \in Objects
    BY <1>1, <1>3 DEF TypeOK
  <1>5. live.rv \in Nat /\ base[p].rv \in Nat /\ got[p].rv \in Nat
    BY <1>4, ObjectParts
  <1>6. got[p] = live
    BY <1>1, <1>3 DEF Faithful
  <1>7. base[p].rv = live.rv
    BY <1>1, <1>3, <1>5 DEF Faithful
  <1> QED BY <1>1, <1>3, <1>4, <1>6, <1>7 DEF Faithful

LEMMA UpdateStores ==
    ASSUME TypeOK, ReadInv, NEW p \in Procs, pc[p] = "write", Update(p)
    PROVE  LET body == Rewritten(live.body, Overlay(live.body.val, req[p].want))
           IN  body \in Bodies /\ Stored(body)
  <1> DEFINE val == Overlay(live.body.val, req[p].want)
             body == Rewritten(live.body, val)
  <1>1. live \in Objects /\ got[p] = live /\ base[p] = live
    BY CopiesLive
  <1>2. live.body \in Bodies /\ live.since \in Sinces /\ live # NoCR
    BY <1>1, ObjectParts
  <1>3. live.body.val \in Vals
    BY <1>2, BodyParts
  <1>4. Requested(req[p])
    BY RequestsRequested DEF TypeOK
  <1>5. val \in Vals
    BY <1>3, <1>4, OverlayType
  <1>6. Modified(p, got[p]) = val
    BY <1>1 DEF Modified
  <1>7. body \in Bodies /\ body.meta = live.body.meta
    BY <1>2, <1>5, RewrittenType
  <1>8. CASE UpdateOperatorSpec(p)
    <2> DEFINE new == [f \in Fields |-> IF f \in SpecFields THEN Modified(p, got[p])[f]
                                        ELSE live.body.val[f]]
    <2>1. DOMAIN req[p].want \subseteq SpecFields
      BY <1>4, <1>8 DEF UpdateOperatorSpec, Requested, PartFields
    <2>2. new = val
      BY <1>6, <2>1 DEF Overlay
    <2>3. Store([Rewritten(live.body, new) EXCEPT !.meta = base[p].body.meta], live.since)
      BY <1>8 DEF UpdateOperatorSpec
    <2> HIDE DEF new, val
    <2>4. [body EXCEPT !.meta = live.body.meta] = body
      <3> HIDE DEF body
      <3> QED BY <1>7 DEF Bodies
    <2>5. Store(body, live.since)
      BY <1>1, <2>2, <2>3, <2>4
    <2>6. Stored(body)
      <3> HIDE DEF body
      <3> QED BY <1>2, <1>7, <2>5, StoreStores
    <2> QED BY <1>7, <2>6 DEF val
  <1>9. CASE UpdateOperatorStatus(p)
    <2> DEFINE new == [f \in Fields |-> IF f \in StatusFields THEN Modified(p, got[p])[f]
                                        ELSE live.body.val[f]]
    <2>1. DOMAIN req[p].want \subseteq StatusFields
      BY <1>4, <1>9 DEF UpdateOperatorStatus, Requested, PartFields
    <2>2. new = val
      BY <1>6, <2>1 DEF Overlay
    <2>3. Store(Rewritten(live.body, new), Restamped(Rewritten(live.body, new)))
      BY <1>9 DEF UpdateOperatorStatus
    <2> HIDE DEF new, val
    <2>4. Store(body, Restamped(body))
      BY <2>2, <2>3
    <2>5. Restamped(body) \in Sinces
      BY <1>2, RestampedType
    <2>6. Stored(body)
      <3> HIDE DEF body
      <3> QED BY <1>7, <2>4, <2>5, StoreStores
    <2> QED BY <1>7, <2>6 DEF val
  <1> QED BY <1>8, <1>9 DEF Update

LEMMA ApplyStores ==
    ASSUME TypeOK, NEW p \in Procs, pc[p] = "write", Apply(p)
    PROVE  LET body == Applied(IF live = NoCR THEN EmptyBody ELSE live.body,
                               req[p].want, Manager[p], req[p].part)
           IN  /\ body \in Bodies
               /\ Stored(body)
               /\ live # NoCR \/ req[p].part = "spec"
  <1> DEFINE was == IF live = NoCR THEN EmptyBody ELSE live.body
             body == Applied(was, req[p].want, Manager[p], req[p].part)
  <1>1. live # NoCR => live.body \in Bodies /\ live.since \in Sinces
    BY ObjectParts DEF TypeOK
  <1>2. was \in Bodies
    BY <1>1, EmptyBodyType
  <1>3. Requested(req[p]) /\ Manager[p] \in Managers
    BY RequestsRequested, ProcsAssumption DEF TypeOK
  <1> HIDE DEF was
  <1>4. body \in Bodies
    BY <1>2, <1>3, AppliedType
  <1> USE DEF was
  <1>5. CASE ApplyOperatorSpec(p)
    <2>1. [f \in Conditions |-> 0] \in Sinces
      BY DEF Sinces
    <2>2. req[p].part = "spec"
      BY <1>5 DEF ApplyOperatorSpec
    <2>3. CASE live = NoCR
      <3>1. Store(body, [f \in Conditions |-> 0])
        BY <1>5, <2>2, <2>3 DEF ApplyOperatorSpec
      <3>2. Stored(body)
        <4> HIDE DEF body
        <4> QED BY <1>4, <2>1, <3>1, StoreStores
      <3> QED BY <1>4, <2>2, <3>2
    <2>4. CASE live # NoCR
      <3>1. Store(body, live.since)
        BY <1>5, <2>2, <2>4 DEF ApplyOperatorSpec
      <3>2. Stored(body)
        <4> HIDE DEF body
        <4> QED BY <1>1, <1>4, <2>4, <3>1, StoreStores
      <3> QED BY <1>4, <2>2, <3>2
    <2> QED BY <2>3, <2>4
  <1>6. CASE ApplyOperatorStatus(p)
    <2> DEFINE since == [f \in Conditions |->
                           IF f \notin DOMAIN req[p].want THEN Restamped(body)[f]
                           ELSE IF f \in TransitionTimes(p) THEN got[p].since[f]
                           ELSE revision + 1]
    <2>1. live # NoCR /\ req[p].part = "status"
      BY <1>6 DEF ApplyOperatorStatus
    <2>2. Store(body, since)
      BY <1>6, <2>1 DEF ApplyOperatorStatus
    <2>3. Restamped(body) \in Sinces /\ revision \in Nat
      BY <2>1, RestampedType DEF TypeOK
    <2>4. ASSUME NEW f \in Conditions, f \in TransitionTimes(p)
          PROVE  got[p].since[f] \in Nat
      <3>1. got[p] # NoCR
        BY <2>4 DEF TransitionTimes
      <3>2. got[p].since \in Sinces
        BY <3>1, ObjectParts DEF TypeOK
      <3> QED BY <3>2 DEF Sinces
    <2>5. since \in Sinces
      <3> HIDE DEF body
      <3> QED BY <2>3, <2>4 DEF Sinces
    <2>6. Stored(body)
      <3> HIDE DEF body, since
      <3> QED BY <1>4, <2>2, <2>5, StoreStores
    <2> QED BY <1>4, <2>1, <2>6
  <1> QED BY <1>5, <1>6 DEF Apply

\* AtomicClient speaks of the same server.
LEMMA SameServer ==
    /\ \A b, want, m, part : Atomic!Applied(b, want, m, part) = Applied(b, want, m, part)
    /\ \A b, val : Atomic!Rewritten(b, val) = Rewritten(b, val)
    /\ \A val, want : Atomic!Overlay(val, want) = Overlay(val, want)
    /\ Atomic!EmptyBody = EmptyBody
  BY DEF Atomic!Applied, Applied, Atomic!Rewritten, Rewritten, Atomic!Overlay, Overlay,
         Atomic!EmptyBody, EmptyBody, Atomic!Fields, Fields, Atomic!PartFields, PartFields

\* The abstract actions at the state of the server.
LEMMA AtomicUpdate ==
    ASSUME TypeOK, live # NoCR, NEW r, r.kind = "update", NEW m
    PROVE  /\ Atomic!Accepts(r)
           /\ Atomic!Effect(r, m) = Rewritten(live.body, Overlay(live.body.val, r.want))
  <1>1. live.body # NoCR
    BY ObjectParts, ValuesAssumption DEF TypeOK
  <1>2. Atomic!Accepts(r)
    BY <1>1, SameServer DEF Atomic!Accepts
  <1>3. Atomic!Effect(r, m) = Rewritten(live.body, Overlay(live.body.val, r.want))
    BY <1>1, SameServer, Zenon DEF Atomic!Effect
  <1> QED BY <1>2, <1>3

LEMMA AtomicApply ==
    ASSUME TypeOK, NEW r, r.kind = "apply", live # NoCR \/ r.part = "spec", NEW m
    PROVE  /\ Atomic!Accepts(r)
           /\ Atomic!Effect(r, m) = Applied(IF live = NoCR THEN EmptyBody ELSE live.body,
                                            r.want, m, r.part)
  <1>1. live # NoCR => live.body # NoCR
    BY ObjectParts, ValuesAssumption DEF TypeOK
  <1>2. Atomic!Accepts(r)
    BY <1>1, SameServer DEF Atomic!Accepts
  <1>3. Atomic!Effect(r, m) = Applied(IF live = NoCR THEN EmptyBody ELSE live.body,
                                      r.want, m, r.part)
    BY <1>1, SameServer, Zenon DEF Atomic!Effect
  <1> QED BY <1>2, <1>3

\* An accepted write has exactly the effect of the abstract call.
LEMMA CommitActs ==
    ASSUME TypeOK, ReadInv, NEW p \in Procs, pc[p] = "write",
           Update(p) \/ Apply(p)
    PROVE  /\ Atomic!Accepts(req[p])
           /\ Atomic!Effect(req[p], Manager[p]) \in Bodies
           /\ Stored(Atomic!Effect(req[p], Manager[p]))
  <1>1. CASE Update(p)
    <2>1. req[p].kind = "update" /\ live # NoCR
      BY <1>1 DEF Update
    <2> QED BY <1>1, <2>1, UpdateStores, AtomicUpdate
  <1>2. CASE Apply(p)
    <2>1. req[p].kind = "apply"
      BY <1>2 DEF Apply
    <2> QED BY <1>2, <2>1, ApplyStores, AtomicApply
  <1> QED BY <1>1, <1>2

-----------------------------------------------------------------------------
(***************************************************************************)
(* The invariant.                                                          *)
(***************************************************************************)
SameFor(q) ==
    /\ pc'[q] = pc[q] /\ req'[q] = req[q] /\ got'[q] = got[q]
    /\ base'[q] = base[q] /\ tries'[q] = tries[q]

\* What the server holds after a step, and what a bystander has read.
LEMMA Bystander ==
    ASSUME TypeOK, ReadInv, Progress
    PROVE  /\ live' \in Objects \cup {NoCR}
           /\ revision' \in Nat
           /\ live' # NoCR => live'.rv <= revision'
           /\ \A q \in Procs : SameFor(q) => ReadBy(q)'
  <1>1. revision \in Nat /\ live \in Objects \cup {NoCR}
    BY DEF TypeOK
  <1>2. /\ live' \in Objects \cup {NoCR}
        /\ revision' \in Nat
        /\ live' # NoCR => live'.rv <= revision'
    <2>1. CASE Kept
      BY <1>1, <2>1 DEF Kept, ReadInv
    <2>2. CASE revision' = revision + 1 /\ live' = NoCR
      BY <1>1, <2>2
    <2>3. CASE revision' = revision + 1 /\ live' \in Objects /\ live'.rv = revision + 1
      BY <1>1, <2>3
    <2> QED BY <2>1, <2>2, <2>3 DEF Progress, Stored
  <1>3. ASSUME NEW q \in Procs, SameFor(q) PROVE ReadBy(q)'
    <2>1. ReadBy(q)
      BY DEF ReadInv
    <2>2. got[q] \in Objects \cup {NoCR} /\ base[q] \in Objects \cup {NoCR}
      BY DEF TypeOK
    <2>3. got[q] # NoCR /\ Faithful(got[q]) => Faithful(got[q])'
      <3>1. SUFFICES ASSUME NEW o \in Objects, Faithful(o) PROVE Faithful(o)'
        BY <1>3, <2>2 DEF SameFor, Faithful
      <3> QED BY <3>1, FaithfulKept
    <2>4. base[q] # NoCR /\ Faithful(base[q]) => Faithful(base[q])'
      <3>1. SUFFICES ASSUME NEW o \in Objects, Faithful(o) PROVE Faithful(o)'
        BY <1>3, <2>2 DEF SameFor, Faithful
      <3> QED BY <3>1, FaithfulKept
    <2> QED BY <1>3, <2>1, <2>3, <2>4 DEF ReadBy, SameFor
  <1> QED BY <1>2, <1>3

Inv == TypeOK /\ ReadInv

Places == {"idle", "read", "reread", "write", "ok", "failed"}

\* A step of p, whatever it does to the CliManager, keeps the invariant if it
\* does for p.
LEMMA StepOf ==
    ASSUME Inv, Progress, NEW p \in Procs, NEW at \in Places,
           NEW r \in Requests, NEW g \in Objects \cup {NoCR},
           NEW b \in Objects \cup {NoCR}, NEW n \in 0 .. Steps,
           pc' = [pc EXCEPT ![p] = at], req' = [req EXCEPT ![p] = r],
           got' = [got EXCEPT ![p] = g], base' = [base EXCEPT ![p] = b],
           tries' = [tries EXCEPT ![p] = n],
           calls' \in Nat, edits' \in Nat, faults' \in Nat,
           ReadBy(p)'
    PROVE  Inv'
  <1>1. TypeOK'
    BY Bystander DEF Inv, TypeOK, Places
  <1>2. \A q \in Procs : q # p => SameFor(q)
    BY DEF Inv, TypeOK, SameFor
  <1>3. ReadInv'
    BY <1>2, Bystander DEF Inv, ReadInv
  <1> QED BY <1>1, <1>3 DEF Inv

\* A step after which p has no call under way, or waits for the next attempt.
LEMMA MoveOf ==
    ASSUME Inv, Progress, NEW p \in Procs, NEW at \in Places, Go(p, at),
           UNCHANGED locals, calls' \in Nat, edits' \in Nat, faults' \in Nat,
           \/ at \in {"idle", "ok", "failed"}
           \/ at = "read" /\ req[p].valid /\ req[p].kind # "patch" /\ tries[p] > 0
    PROVE  Inv'
  <1>1. /\ req[p] \in Requests /\ got[p] \in Objects \cup {NoCR}
        /\ base[p] \in Objects \cup {NoCR} /\ tries[p] \in 0 .. Steps
    BY DEF Inv, TypeOK
  <1>2. /\ pc' = [pc EXCEPT ![p] = at] /\ req' = [req EXCEPT ![p] = req[p]]
        /\ got' = [got EXCEPT ![p] = got[p]] /\ base' = [base EXCEPT ![p] = base[p]]
        /\ tries' = [tries EXCEPT ![p] = tries[p]]
    BY DEF Inv, TypeOK, Go, locals
  <1>3. ReadBy(p)'
    BY DEF Inv, TypeOK, ReadBy, Go, locals
  <1> QED BY <1>1, <1>2, <1>3, StepOf

\* What has just been read is the live CliManager.
LEMMA JustRead ==
    ASSUME Inv, live # NoCR
    PROVE  live \in Objects /\ Faithful(live)
  <1>1. live \in Objects
    BY DEF Inv, TypeOK
  <1>2. live.rv \in Nat
    BY <1>1, ObjectParts
  <1> QED BY <1>1, <1>2 DEF Inv, ReadInv, Faithful

LEMMA PatchStep ==
    ASSUME Inv, NEW p \in Procs, PatchOperatorStatus(p)
    PROVE  Inv'
  <1>0. PICK r \in Requests : req' = [req EXCEPT ![p] = r]
    BY DEF PatchOperatorStatus
  <1>1. Progress /\ calls' \in Nat /\ edits' \in Nat /\ faults' \in Nat
    BY DEF PatchOperatorStatus, Progress, Kept, Inv, TypeOK
  <1>2. /\ got[p] \in Objects \cup {NoCR} /\ base[p] \in Objects \cup {NoCR}
        /\ tries[p] \in 0 .. Steps /\ "failed" \in Places
    BY DEF Inv, TypeOK, Places
  <1>3. /\ pc' = [pc EXCEPT ![p] = "failed"]
        /\ got' = [got EXCEPT ![p] = got[p]] /\ base' = [base EXCEPT ![p] = base[p]]
        /\ tries' = [tries EXCEPT ![p] = tries[p]]
    BY DEF PatchOperatorStatus, Go, Inv, TypeOK
  <1>4. ReadBy(p)'
    BY <1>3 DEF ReadBy, Inv, TypeOK
  <1> QED BY <1>0, <1>1, <1>2, <1>3, <1>4, StepOf

LEMMA CallStep ==
    ASSUME Inv, NEW p \in Procs, Call(p)
    PROVE  Inv'
  <1>0. PICK r \in Requests :
           /\ r.kind # "patch"
           /\ req' = [req EXCEPT ![p] = r]
           /\ Go(p, IF r.valid THEN "read" ELSE "failed")
    BY DEF Call
  <1> DEFINE at == IF r.valid THEN "read" ELSE "failed"
  <1>1. at \in Places
    BY DEF Places
  <1>2. Progress /\ calls' \in Nat /\ edits' \in Nat /\ faults' \in Nat
    BY DEF Call, Progress, Kept, Inv, TypeOK
  <1>3. got[p] \in Objects \cup {NoCR} /\ base[p] \in Objects \cup {NoCR}
          /\ Steps \in 0 .. Steps
    BY StepsAssumption DEF Inv, TypeOK
  <1>4. /\ pc' = [pc EXCEPT ![p] = at]
        /\ got' = [got EXCEPT ![p] = got[p]] /\ base' = [base EXCEPT ![p] = base[p]]
        /\ tries' = [tries EXCEPT ![p] = Steps]
    BY <1>0 DEF Call, Go, Inv, TypeOK
  <1>5. ReadBy(p)'
    <2>1. pc'[p] = at /\ req'[p] = r /\ tries'[p] = Steps
      BY <1>0, <1>4 DEF Inv, TypeOK
    <2> QED BY <1>0, <2>1, StepsAssumption DEF ReadBy
  <1> HIDE DEF at
  <1> QED BY <1>0, <1>1, <1>2, <1>3, <1>4, <1>5, StepOf

LEMMA GetOperatorStateStep ==
    ASSUME Inv, NEW p \in Procs, GetOperatorState(p)
    PROVE  Inv'
  <1> DEFINE at == IF Modified(p, live) = live.body.val THEN "ok" ELSE "reread"
  <1>1. at \in Places
    BY DEF Places
  <1>2. Progress /\ calls' \in Nat /\ edits' \in Nat /\ faults' \in Nat
    BY DEF GetOperatorState, Progress, Kept, Inv, TypeOK
  <1>3. live \in Objects /\ Faithful(live) /\ live # NoCR
    BY JustRead DEF GetOperatorState
  <1>4. ReadBy(p) /\ pc[p] = "read" /\ req[p].kind = "update"
    BY DEF GetOperatorState, Inv, ReadInv
  <1>5. req[p] \in Requests /\ base[p] \in Objects \cup {NoCR} /\ tries[p] - 1 \in 0 .. Steps
    <2>1. tries[p] \in 0 .. Steps /\ tries[p] > 0
      BY <1>4 DEF Inv, TypeOK, ReadBy
    <2> QED BY <2>1, StepsAssumption DEF Inv, TypeOK
  <1>6. /\ pc' = [pc EXCEPT ![p] = at] /\ req' = [req EXCEPT ![p] = req[p]]
        /\ got' = [got EXCEPT ![p] = live] /\ base' = [base EXCEPT ![p] = base[p]]
        /\ tries' = [tries EXCEPT ![p] = tries[p] - 1]
    BY DEF GetOperatorState, Go, Inv, TypeOK
  <1>7. ReadBy(p)'
    <2>1. pc'[p] = at /\ req'[p] = req[p] /\ got'[p] = live
      BY <1>6 DEF Inv, TypeOK
    <2>2. live' = live /\ revision' = revision
      BY DEF GetOperatorState
    <2> QED BY <1>3, <1>4, <2>1, <2>2 DEF ReadBy, Faithful
  <1> HIDE DEF at
  <1> QED BY <1>1, <1>2, <1>3, <1>5, <1>6, <1>7, StepOf

LEMMA GetOriginalStep ==
    ASSUME Inv, NEW p \in Procs, GetOriginal(p)
    PROVE  Inv'
  <1>1. "write" \in Places
    BY DEF Places
  <1>2. Progress /\ calls' \in Nat /\ edits' \in Nat /\ faults' \in Nat
    BY DEF GetOriginal, Progress, Kept, Inv, TypeOK
  <1>3. live \in Objects /\ Faithful(live) /\ live # NoCR
    BY JustRead DEF GetOriginal
  <1>4. ReadBy(p) /\ pc[p] = "reread"
    BY DEF GetOriginal, Inv, ReadInv
  <1>5. req[p] \in Requests /\ got[p] \in Objects \cup {NoCR} /\ tries[p] \in 0 .. Steps
    BY DEF Inv, TypeOK
  <1>6. /\ pc' = [pc EXCEPT ![p] = "write"] /\ req' = [req EXCEPT ![p] = req[p]]
        /\ got' = [got EXCEPT ![p] = got[p]] /\ base' = [base EXCEPT ![p] = live]
        /\ tries' = [tries EXCEPT ![p] = tries[p]]
    BY DEF GetOriginal, Go, Inv, TypeOK
  <1>7. ReadBy(p)'
    <2>1. pc'[p] = "write" /\ req'[p] = req[p] /\ got'[p] = got[p] /\ base'[p] = live
      BY <1>6 DEF Inv, TypeOK
    <2>2. live' = live /\ revision' = revision
      BY DEF GetOriginal
    <2>3. got[p] # NoCR /\ Faithful(got[p]) /\ req[p].valid /\ req[p].kind = "update"
      BY <1>4 DEF ReadBy
    <2>4. got[p].rv <= live.rv
      BY <1>3, <2>3 DEF Faithful
    <2> QED BY <1>3, <2>1, <2>2, <2>3, <2>4 DEF ReadBy, Faithful
  <1> QED BY <1>1, <1>2, <1>3, <1>5, <1>6, <1>7, StepOf

LEMMA GetToApplyStep ==
    ASSUME Inv, NEW p \in Procs, GetToApply(p)
    PROVE  Inv'
  <1>0. PICK at \in {"ok", "write"} : Go(p, at)
    BY DEF GetToApply
  <1>1. at \in Places
    BY DEF Places
  <1>2. Progress /\ calls' \in Nat /\ edits' \in Nat /\ faults' \in Nat
    BY DEF GetToApply, Progress, Kept, Inv, TypeOK
  <1>3. live \in Objects \cup {NoCR}
    BY DEF Inv, TypeOK
  <1>4. ReadBy(p) /\ pc[p] = "read" /\ req[p].kind = "apply"
    BY DEF GetToApply, Inv, ReadInv
  <1>5. req[p] \in Requests /\ base[p] \in Objects \cup {NoCR} /\ tries[p] \in 0 .. Steps
    BY DEF Inv, TypeOK
  <1>6. /\ pc' = [pc EXCEPT ![p] = at] /\ req' = [req EXCEPT ![p] = req[p]]
        /\ got' = [got EXCEPT ![p] = live] /\ base' = [base EXCEPT ![p] = base[p]]
        /\ tries' = [tries EXCEPT ![p] = tries[p]]
    BY <1>0 DEF GetToApply, Go, Inv, TypeOK
  <1>7. ReadBy(p)'
    <2>1. pc'[p] = at /\ req'[p] = req[p]
      BY <1>6 DEF Inv, TypeOK
    <2> QED BY <1>4, <2>1 DEF ReadBy
  <1> QED BY <1>1, <1>2, <1>3, <1>5, <1>6, <1>7, StepOf

\* Steps that read nothing and write nothing.
LEMMA OtherStep ==
    ASSUME Inv, NEW p \in Procs,
           Conflict(p) \/ Refused(p) \/ CallFails(p) \/ Return(p)
    PROVE  Inv'
  <1>1. Progress /\ UNCHANGED locals /\ calls' \in Nat /\ edits' \in Nat /\ faults' \in Nat
    BY DEF Conflict, Refused, CallFails, Return, Progress, Kept, Inv, TypeOK
  <1>2. \E at \in {"idle", "failed"} : Go(p, at)
        \/ (Go(p, "read") /\ req[p].kind = "update" /\ tries[p] > 0 /\ pc[p] = "write")
    BY DEF Conflict, Refused, CallFails, Return
  <1>3. ASSUME NEW at \in {"idle", "failed"}, Go(p, at) PROVE Inv'
    BY <1>1, <1>3, MoveOf DEF Places
  <1>4. CASE Go(p, "read") /\ req[p].kind = "update" /\ tries[p] > 0 /\ pc[p] = "write"
    <2>1. req[p].valid
      BY <1>4 DEF Inv, ReadInv, ReadBy
    <2> QED BY <1>1, <1>4, <2>1, MoveOf DEF Places
  <1> QED BY <1>2, <1>3, <1>4

\* A write is accepted, whether or not its answer arrives.
LEMMA CommitStep ==
    ASSUME Inv, NEW p \in Procs, Write(p) \/ ReplyLost(p)
    PROVE  Inv'
  <1>1. PICK outcome \in {"ok", "failed"} : Commit(p, outcome)
    BY DEF Write, ReplyLost
  <1>2. Progress
    BY <1>1, CommitActs DEF Commit, Progress, Inv
  <1>3. UNCHANGED locals /\ calls' \in Nat /\ edits' \in Nat /\ faults' \in Nat
    BY <1>1 DEF Commit, Write, ReplyLost, Inv, TypeOK
  <1> QED BY <1>1, <1>2, <1>3, MoveOf DEF Commit, Places

\* What users do to the CliManager.
LEMMA UsersWrite ==
    ASSUME Inv, Users
    PROVE  \/ live = NoCR /\ Stored(EmptyBody)
           \/ live # NoCR /\ live' = NoCR /\ revision' = revision + 1
           \/ /\ live # NoCR
              /\ [live.body EXCEPT !.meta = @ + 1] \in Bodies
              /\ Stored([live.body EXCEPT !.meta = @ + 1])
           \/ /\ live # NoCR
              /\ \E f \in SpecFields, v \in Values :
                    LET body == Rewritten(live.body, Overlay(live.body.val, [g \in {f} |-> v]))
                    IN  body \in Bodies /\ Stored(body)
  <1>0. TypeOK /\ (live # NoCR => live.body \in Bodies /\ live.since \in Sinces)
    BY ObjectParts DEF Inv, TypeOK
  <1>1. CASE live = NoCR /\ Store(EmptyBody, [f \in Conditions |-> 0])
    <2>1. [f \in Conditions |-> 0] \in Sinces
      BY DEF Sinces
    <2> QED BY <1>0, <1>1, <2>1, EmptyBodyType, StoreStores
  <1>2. CASE live # NoCR /\ live' = NoCR /\ revision' = revision + 1
    BY <1>2
  <1>3. CASE live # NoCR /\ Store([live.body EXCEPT !.meta = @ + 1], live.since)
    <2> DEFINE body == [live.body EXCEPT !.meta = @ + 1]
    <2>1. body \in Bodies
      BY <1>0, <1>3, NotedType
    <2>2. Stored(body)
      <3> HIDE DEF body
      <3>1. Store(body, live.since)
        BY <1>3 DEF body
      <3> QED BY <1>0, <1>3, <2>1, <3>1, StoreStores
    <2> QED BY <1>3, <2>1, <2>2
  <1>4. ASSUME live # NoCR, NEW f \in SpecFields, NEW v \in Values,
               Store(Rewritten(live.body, Overlay(live.body.val, [g \in {f} |-> v])),
                     live.since)
        PROVE  LET body == Rewritten(live.body, Overlay(live.body.val, [g \in {f} |-> v]))
               IN  body \in Bodies /\ Stored(body)
    <2> DEFINE val == Overlay(live.body.val, [g \in {f} |-> v])
               body == Rewritten(live.body, val)
    <2>1. val \in Vals
      BY <1>0, <1>4, BodyParts DEF Vals, Overlay
    <2>2. body \in Bodies
      <3> HIDE DEF val
      <3> QED BY <1>0, <1>4, <2>1, RewrittenType
    <2>3. Store(body, live.since)
      BY <1>4
    <2>4. Stored(body)
      <3> HIDE DEF body
      <3> QED BY <1>0, <1>4, <2>2, <2>3, StoreStores
    <2> QED BY <2>2, <2>4
  <1> QED BY <1>1, <1>2, <1>3, <1>4 DEF Users

LEMMA UsersStep ==
    ASSUME Inv, Users
    PROVE  Inv'
  <1>1. Progress
    BY UsersWrite, EmptyBodyType DEF Progress
  <1>2. /\ UNCHANGED <<pc, locals, calls, faults>>
        /\ edits' \in Nat
    BY DEF Users, Inv, TypeOK
  <1>3. TypeOK'
    BY <1>1, <1>2, Bystander DEF Inv, TypeOK, locals
  <1>4. \A q \in Procs : SameFor(q)
    BY <1>2 DEF SameFor, locals
  <1>5. ReadInv'
    BY <1>1, <1>4, Bystander DEF Inv, ReadInv
  <1> QED BY <1>3, <1>5 DEF Inv

LEMMA InvInit == Init => Inv
  BY StepsAssumption DEF Init, Inv, TypeOK, ReadInv, ReadBy

LEMMA InvStep == Inv /\ [Next]_vars => Inv'
  <1> SUFFICES ASSUME Inv, [Next]_vars PROVE Inv'
    OBVIOUS
  <1>1. ASSUME NEW p \in Procs, Step(p) PROVE Inv'
    BY <1>1, CallStep, PatchStep, GetOperatorStateStep, GetOriginalStep, GetToApplyStep,
       OtherStep, CommitStep DEF Step
  <1>2. CASE Users
    BY <1>2, UsersStep
  <1>3. CASE UNCHANGED vars
    <2>1. TypeOK'
      BY <1>3 DEF vars, locals, Inv, TypeOK
    <2>2. ReadInv'
      BY <1>3 DEF vars, locals, Inv, ReadInv, ReadBy, Faithful
    <2> QED BY <2>1, <2>2 DEF Inv
  <1> QED BY <1>1, <1>2, <1>3 DEF Next

\* Every variable of the client and of the server keeps its type, and no retry
\* loop makes more than Steps attempts.
THEOREM ClientTyped == Spec => []TypeOK
  <1>1. Inv => TypeOK
    BY DEF Inv
  <1> QED BY <1>1, InvInit, InvStep, PTL DEF Spec

\* What a call has read of the CliManager is old or up to date, and if its
\* resourceVersion is still the live one then it is the live CliManager.
THEOREM ReadsFaithful == Spec => []ReadInv
  <1>1. Inv => ReadInv
    BY DEF Inv
  <1> QED BY <1>1, InvInit, InvStep, PTL DEF Spec

-----------------------------------------------------------------------------
(***************************************************************************)
(* The refinement.                                                         *)
(***************************************************************************)
\* An apply that is not sent would have changed nothing.
LEMMA AppliedSame ==
    ASSUME NEW o \in Objects, NEW r, Requested(r), NEW m \in Managers,
           AlreadyApplied(o, r, m)
    PROVE  Applied(o.body, r.want, m, r.part) = o.body
  <1> DEFINE b == o.body
             want == r.want
             part == r.part
  <1>1. b \in Bodies
    BY ObjectParts
  <1>2. b.val \in Vals /\ b.own \in [Fields -> SUBSET Owners]
    BY <1>1, BodyParts
  <1>3. DOMAIN want = Extracted(o, m, part)
    BY DEF AlreadyApplied, ExtractCliManagerFrom
  <1>4. DOMAIN want = Owned(o, m, part)
    <2>1. Owned(o, m, part) \subseteq Extracted(o, m, part)
      BY DEF Extracted
    <2>2. Owned(o, m, part) \cap Conditions = {}
      BY <1>3, <2>1 DEF AlreadyApplied
    <2> QED BY <1>3, <2>2 DEF Extracted
  <1>5. \A f \in DOMAIN want : want[f] = b.val[f]
    BY <1>3 DEF AlreadyApplied, ExtractCliManagerFrom
  <1>6. \A f \in Fields : f \in DOMAIN want <=> f \in PartFields(part) /\ m \in b.own[f]
    BY <1>4 DEF Owned
  <1>7. [f \in Fields |-> IF f \in DOMAIN want THEN want[f]
                          ELSE IF f \in PartFields(part) /\ b.own[f] = {m} THEN Unset
                          ELSE b.val[f]] = b.val
    BY <1>2, <1>5, <1>6 DEF Vals
  <1>8. [f \in Fields |-> IF f \in DOMAIN want
                          THEN IF b.val[f] = want[f] THEN b.own[f] \cup {m} ELSE {m}
                          ELSE IF f \in PartFields(part) THEN b.own[f] \ {m}
                          ELSE b.own[f]] = b.own
    BY <1>2, <1>5, <1>6
  <1>9. Applied(b, want, m, part) = [b EXCEPT !.val = b.val, !.own = b.own]
    BY <1>7, <1>8 DEF Applied
  <1>10. [b EXCEPT !.val = b.val, !.own = b.own] = b
    BY <1>1 DEF Bodies
  <1> QED BY <1>9, <1>10

Res == IF live = NoCR THEN NoCR ELSE live.body

Stages == [p \in Procs |-> Stage(pc[p])]

LEMMA ResStored ==
    ASSUME NEW body, Stored(body)
    PROVE  Res' = body
  <1>1. live' \in Objects /\ live'.body = body
    BY DEF Stored
  <1>2. live' # NoCR
    BY <1>1, NoCRAssumption
  <1> QED BY <1>1, <1>2 DEF Res

LEMMA StagesMove ==
    ASSUME TypeOK, NEW p \in Procs, NEW at, Go(p, at)
    PROVE  Stages' = [Stages EXCEPT ![p] = Stage(at)]
  BY DEF TypeOK, Go, Stages

LEMMA StageOf ==
    /\ Stage("idle") = "idle" /\ Stage("ok") = "ok" /\ Stage("failed") = "failed"
    /\ Stage("read") = "pending" /\ Stage("reread") = "pending"
    /\ Stage("write") = "pending"
  BY DEF Stage

LEMMA StageAt ==
    ASSUME NEW p \in Procs
    PROVE  Stages[p] = Stage(pc[p])
  BY DEF Stages

\* The abstract actions in terms of Res and Stages.
LEMMA ActsBar ==
    ASSUME NEW p \in Procs, NEW outcome \in {"ok", "failed"},
           Stages[p] = "pending", Atomic!Accepts(req[p]),
           Res' = Atomic!Effect(req[p], Manager[p]),
           Stages' = [Stages EXCEPT ![p] = outcome], req' = req
    PROVE  Atomic!Act(p)
  BY DEF Atomic!Act, Res, Stages

LEMMA RefusesBar ==
    ASSUME NEW p \in Procs, Stages[p] = "pending", Res' = Res,
           Stages' = [Stages EXCEPT ![p] = "failed"], req' = req
    PROVE  Atomic!Refuse(p)
  BY DEF Atomic!Refuse, Res, Stages

LEMMA CommitRefines ==
    ASSUME Inv, NEW p \in Procs, Write(p) \/ ReplyLost(p)
    PROVE  Atomic!Act(p)
  <1>1. PICK outcome \in {"ok", "failed"} : Commit(p, outcome)
    BY DEF Write, ReplyLost
  <1>2. /\ Atomic!Accepts(req[p])
        /\ Stored(Atomic!Effect(req[p], Manager[p]))
    BY <1>1, CommitActs DEF Commit, Inv
  <1>3. Res' = Atomic!Effect(req[p], Manager[p])
    BY <1>2, ResStored
  <1>4. Stages[p] = "pending" /\ Stages' = [Stages EXCEPT ![p] = outcome]
    BY <1>1, StageOf, StageAt, StagesMove DEF Commit, Inv
  <1>5. req' = req
    BY <1>1 DEF Commit, locals
  <1> QED BY <1>2, <1>3, <1>4, <1>5, ActsBar

LEMMA GetOperatorStateRefines ==
    ASSUME Inv, NEW p \in Procs, GetOperatorState(p)
    PROVE  Atomic!Act(p) \/ (Res' = Res /\ Stages' = Stages /\ req' = req)
  <1>1. /\ pc[p] = "read" /\ req[p].kind = "update" /\ live # NoCR
        /\ live' = live /\ req' = req
    BY DEF GetOperatorState
  <1>2. Stages[p] = "pending" /\ Res' = Res /\ Res = live.body
    BY <1>1, StageOf, StageAt DEF Res
  <1>3. CASE Modified(p, live) = live.body.val
    <2>1. Stages' = [Stages EXCEPT ![p] = "ok"]
      BY <1>3, StageOf, StagesMove DEF GetOperatorState, Inv
    <2>2. live.body \in Bodies
      BY <1>1, ObjectParts DEF Inv, TypeOK
    <2>3. Rewritten(live.body, Overlay(live.body.val, req[p].want)) = live.body
      BY <1>3, <2>2, RewrittenSame DEF Modified
    <2>4. /\ Atomic!Accepts(req[p])
          /\ Atomic!Effect(req[p], Manager[p]) = live.body
      BY <1>1, <2>3, AtomicUpdate DEF Inv
    <2> QED BY <1>1, <1>2, <2>1, <2>4, ActsBar
  <1>4. CASE Modified(p, live) # live.body.val
    <2>1. Stages' = [Stages EXCEPT ![p] = "pending"]
      BY <1>4, StageOf, StagesMove DEF GetOperatorState, Inv
    <2>2. Stages' = Stages
      BY <1>2, <2>1 DEF Stages
    <2> QED BY <1>1, <1>2, <2>2
  <1> QED BY <1>3, <1>4

LEMMA GetToApplyRefines ==
    ASSUME Inv, NEW p \in Procs, GetToApply(p)
    PROVE  Atomic!Act(p) \/ (Res' = Res /\ Stages' = Stages /\ req' = req)
  <1>1. pc[p] = "read" /\ req[p].kind = "apply" /\ live' = live /\ req' = req
    BY DEF GetToApply
  <1>2. Stages[p] = "pending" /\ Res' = Res
    BY <1>1, StageOf, StageAt DEF Res
  <1>3. CASE live # NoCR /\ AlreadyApplied(live, req[p], Manager[p])
    <2>1. Stages' = [Stages EXCEPT ![p] = "ok"]
      BY <1>3, StageOf, StagesMove DEF GetToApply, Inv
    <2>2. live \in Objects /\ Requested(req[p]) /\ Manager[p] \in Managers
      BY <1>3, RequestsRequested, ProcsAssumption DEF Inv, TypeOK
    <2>3. Applied(live.body, req[p].want, Manager[p], req[p].part) = live.body
      BY <1>3, <2>2, AppliedSame
    <2>4. /\ Atomic!Accepts(req[p])
          /\ Atomic!Effect(req[p], Manager[p]) = live.body
      BY <1>1, <1>3, <2>3, AtomicApply DEF Inv
    <2>5. Res = live.body
      BY <1>3 DEF Res
    <2> QED BY <1>1, <1>2, <2>1, <2>4, <2>5, ActsBar
  <1>4. CASE ~(live # NoCR /\ AlreadyApplied(live, req[p], Manager[p]))
    <2>1. Stages' = [Stages EXCEPT ![p] = "pending"]
      BY <1>4, StageOf, StagesMove DEF GetToApply, Inv
    <2>2. Stages' = Stages
      BY <1>2, <2>1 DEF Stages
    <2> QED BY <1>1, <1>2, <2>2
  <1> QED BY <1>3, <1>4

LEMMA CallRefines ==
    ASSUME Inv, NEW p \in Procs, Call(p)
    PROVE  Atomic!Invoke(p)
  <1>0. PICK r \in Requests :
           /\ r.kind # "patch"
           /\ req' = [req EXCEPT ![p] = r]
           /\ Go(p, IF r.valid THEN "read" ELSE "failed")
    BY DEF Call
  <1>1. Stages' = [Stages EXCEPT ![p] = IF r.valid /\ r.kind # "patch"
                                        THEN "pending" ELSE "failed"]
    BY <1>0, StageOf, StagesMove DEF Inv
  <1>2. Stages[p] = "idle" /\ Res' = Res
    BY StageOf, StageAt DEF Call, Res
  <1> QED BY <1>0, <1>1, <1>2 DEF Atomic!Invoke, Res, Stages

LEMMA PatchRefines ==
    ASSUME Inv, NEW p \in Procs, PatchOperatorStatus(p)
    PROVE  Atomic!Invoke(p)
  <1>0. PICK r \in Requests : r.kind = "patch" /\ req' = [req EXCEPT ![p] = r]
    BY DEF PatchOperatorStatus
  <1>1. Stages' = [Stages EXCEPT ![p] = IF r.valid /\ r.kind # "patch"
                                        THEN "pending" ELSE "failed"]
    BY <1>0, StageOf, StagesMove DEF PatchOperatorStatus, Inv
  <1>2. Stages[p] = "idle" /\ Res' = Res
    BY StageOf, StageAt DEF PatchOperatorStatus, Res
  <1> QED BY <1>0, <1>1, <1>2 DEF Atomic!Invoke, Res, Stages

\* The steps that neither read nor write: the call ends, or nothing happens.
LEMMA OtherRefines ==
    ASSUME Inv, NEW p \in Procs,
           GetOriginal(p) \/ Conflict(p) \/ Refused(p) \/ CallFails(p) \/ Return(p)
    PROVE  Atomic!Refuse(p) \/ Atomic!Return(p)
             \/ (Res' = Res /\ Stages' = Stages /\ req' = req)
  <1>1. Res' = Res /\ req' = req
    BY DEF GetOriginal, Conflict, Refused, CallFails, Return, Res, locals
  <1>2. CASE Return(p)
    <2>1. Stages[p] \in {"ok", "failed"} /\ Stages' = [Stages EXCEPT ![p] = "idle"]
      BY <1>2, StageOf, StageAt, StagesMove DEF Return, Inv
    <2> QED BY <1>1, <2>1 DEF Atomic!Return, Res, Stages
  <1>3. CASE GetOriginal(p) \/ Conflict(p) \/ Refused(p) \/ CallFails(p)
    <2>1. Stages[p] = "pending"
      BY <1>3, StageOf, StageAt DEF GetOriginal, Conflict, Refused, CallFails
    <2>2. Go(p, "write") \/ Go(p, "read") \/ Go(p, "failed")
      BY <1>3 DEF GetOriginal, Conflict, Refused, CallFails
    <2>3. Stages' = [Stages EXCEPT ![p] = "pending"]
            \/ Stages' = [Stages EXCEPT ![p] = "failed"]
      BY <2>2, StageOf, StagesMove DEF Inv
    <2>4. CASE Stages' = [Stages EXCEPT ![p] = "pending"]
      BY <1>1, <2>1, <2>4 DEF Stages
    <2>5. CASE Stages' = [Stages EXCEPT ![p] = "failed"]
      BY <1>1, <2>1, <2>5, RefusesBar
    <2> QED BY <2>3, <2>4, <2>5
  <1> QED BY <1>2, <1>3

LEMMA UsersRefine ==
    ASSUME Inv, Users
    PROVE  Atomic!Users
  <1>1. Stages' = Stages /\ req' = req
    BY DEF Users, Stages, locals
  <1>2. live # NoCR => Res = live.body /\ Res # NoCR
    BY ObjectParts, ValuesAssumption DEF Inv, TypeOK, Res
  <1>3. \/ Res = NoCR /\ Res' = EmptyBody
        \/ Res # NoCR /\ Res' = NoCR
        \/ Res # NoCR /\ Res' = [Res EXCEPT !.meta = @ + 1]
        \/ /\ Res # NoCR
           /\ \E f \in SpecFields, v \in Values :
                 Res' = Rewritten(Res, Overlay(Res.val, [g \in {f} |-> v]))
    BY <1>2, UsersWrite, ResStored DEF Res
  <1> QED BY <1>1, <1>3, SameServer DEF Atomic!Users, Res, Stages

\* Every step of the client, of the server and of users is a step of
\* AtomicClient or changes nothing that it speaks of.
LEMMA StepRefines == Inv /\ [Next]_vars => [Atomic!Next]_(Atomic!vars)
  <1> SUFFICES ASSUME Inv, [Next]_vars PROVE Atomic!Next \/ UNCHANGED Atomic!vars
    OBVIOUS
  <1>0. ASSUME Res' = Res, Stages' = Stages, req' = req PROVE UNCHANGED Atomic!vars
    BY <1>0 DEF Atomic!vars, Res, Stages
  <1>1. ASSUME NEW p \in Procs, Step(p) PROVE Atomic!Next \/ UNCHANGED Atomic!vars
    BY <1>0, <1>1, CommitRefines, GetOperatorStateRefines, GetToApplyRefines,
       CallRefines, PatchRefines, OtherRefines DEF Step, Atomic!Next
  <1>2. CASE Users
    BY <1>2, UsersRefine DEF Atomic!Next
  <1>3. CASE UNCHANGED vars
    <2>1. Res' = Res /\ Stages' = Stages /\ req' = req
      BY <1>3 DEF vars, locals, Res, Stages
    <2> QED BY <1>0, <2>1
  <1> QED BY <1>1, <1>2, <1>3 DEF Next

LEMMA InitRefines == Init => Atomic!Init
  BY DEF Init, Atomic!Init, Stage

\* CLIManagerClient implements AtomicClient: each of its updates and applies, two
\* or three API calls long, acts on the CliManager as a single step or not at all,
\* and its patches never act.
THEOREM ClientLinearizable == Spec => Linearizable
  <1>1. Spec => []Inv
    BY InvInit, InvStep, PTL DEF Spec
  <1> QED BY <1>1, InitRefines, StepRefines, PTL DEF Spec, Linearizable, Atomic!Spec

-----------------------------------------------------------------------------
(***************************************************************************)
(* A repeated apply is quiet.  The server keeps the version only if the    *)
(* times of the conditions stay as well as the body: a condition that the  *)
(* manager keeps owning keeps its time because the GET returned that time; *)
(* a condition that is not in the request keeps it because one that is not *)
(* there has no time, which is the invariant this needs.                   *)
(***************************************************************************)
\* Conditions that are not there have no lastTransitionTime.
Dated(body, since) == \A f \in Conditions : body.val[f] = Unset => since[f] = 0

DatedInv == live # NoCR => Dated(live.body, live.since)

LEMMA StoreDated ==
    ASSUME TypeOK, DatedInv, NEW body, NEW since, Store(body, since), Dated(body, since)
    PROVE  DatedInv'
  <1>1. CASE live # NoCR /\ live.body = body /\ live.since = since
    BY <1>1 DEF Store, DatedInv, Dated
  <1>2. CASE ~(live # NoCR /\ live.body = body /\ live.since = since)
    <2>1. live' = [rv |-> revision + 1, body |-> body, since |-> since]
      BY <1>2 DEF Store
    <2>2. live'.body = body /\ live'.since = since
      BY <2>1
    <2> QED BY <2>2 DEF DatedInv, Dated
  <1> QED BY <1>1, <1>2

\* A write that leaves the conditions alone, and their times.
LEMMA StatusLeft ==
    ASSUME TypeOK, DatedInv, live # NoCR, NEW body,
           \A f \in Conditions : body.val[f] = live.body.val[f],
           Store(body, live.since)
    PROVE  DatedInv'
  <1>1. Dated(body, live.since)
    BY DEF DatedInv, Dated
  <1> QED BY <1>1, StoreDated

\* A write whose conditions are stamped.
LEMMA StatusRestamped ==
    ASSUME TypeOK, DatedInv, NEW body, Store(body, Restamped(body))
    PROVE  DatedInv'
  <1>1. Dated(body, Restamped(body))
    BY DEF Dated, Restamped
  <1> QED BY <1>1, StoreDated

\* Conditions are fields of the status, and of no spec.
LEMMA ConditionsApart == \A f \in Conditions : f \in Fields /\ f \notin SpecFields
  BY FieldsAssumption, ConditionsAssumption DEF Fields

LEMMA UpdateDated ==
    ASSUME TypeOK, DatedInv, NEW p \in Procs, Update(p)
    PROVE  DatedInv'
  <1>1. CASE UpdateOperatorStatus(p)
    BY <1>1, StatusRestamped DEF UpdateOperatorStatus
  <1>2. CASE UpdateOperatorSpec(p)
    <2> DEFINE new == [f \in Fields |-> IF f \in SpecFields THEN Modified(p, got[p])[f]
                                        ELSE live.body.val[f]]
               body == [Rewritten(live.body, new) EXCEPT !.meta = base[p].body.meta]
    <2>1. live # NoCR /\ Store(body, live.since)
      BY <1>2 DEF Update, UpdateOperatorSpec
    <2>2. \A f \in Conditions : new[f] = live.body.val[f]
      BY ConditionsApart
    <2>3. live.body \in Bodies
      BY <2>1, ObjectParts DEF TypeOK
    <2>4. body.val = new
      <3> HIDE DEF new
      <3> QED BY <2>3 DEF Rewritten, Bodies
    <2> HIDE DEF new, body
    <2> QED BY <2>1, <2>2, <2>4, StatusLeft
  <1> QED BY <1>1, <1>2 DEF Update

\* What an apply makes of the values.
LEMMA AppliedValues ==
    ASSUME NEW b \in Bodies, NEW want, NEW m, NEW part, NEW f \in Fields
    PROVE  Applied(b, want, m, part).val[f] =
               IF f \in DOMAIN want THEN want[f]
               ELSE IF f \in PartFields(part) /\ b.own[f] = {m} THEN Unset
               ELSE b.val[f]
  <1> DEFINE val == [g \in Fields |->
                        IF g \in DOMAIN want THEN want[g]
                        ELSE IF g \in PartFields(part) /\ b.own[g] = {m} THEN Unset
                        ELSE b.val[g]]
  <1>1. Applied(b, want, m, part).val = val
    <2> HIDE DEF val
    <2>1. \A own : [b EXCEPT !.val = val, !.own = own].val = val
      BY DEF Bodies
    <2> QED BY <2>1 DEF Applied, val
  <1> QED BY <1>1

\* An apply makes its manager own the fields it sets.
LEMMA AppliedOwned ==
    ASSUME NEW b \in Bodies, NEW want, NEW m, NEW part, NEW f \in Fields,
           f \in DOMAIN want
    PROVE  m \in Applied(b, want, m, part).own[f]
  <1> DEFINE own == [g \in Fields |->
                        IF g \in DOMAIN want
                        THEN IF b.val[g] = want[g] THEN b.own[g] \cup {m} ELSE {m}
                        ELSE IF g \in PartFields(part) THEN b.own[g] \ {m}
                        ELSE b.own[g]]
  <1>1. Applied(b, want, m, part).own = own
    <2> HIDE DEF own
    <2>1. \A val : [b EXCEPT !.val = val, !.own = own].own = own
      BY DEF Bodies
    <2> QED BY <2>1 DEF Applied, own
  <1>2. m \in own[f]
    OBVIOUS
  <1> QED BY <1>1, <1>2

LEMMA ApplyDated ==
    ASSUME TypeOK, DatedInv, NEW p \in Procs, Apply(p)
    PROVE  DatedInv'
  <1>1. req[p] \in Requests /\ req[p].kind = "apply"
    BY DEF Apply, TypeOK
  <1>2. live # NoCR => live.body \in Bodies
    BY ObjectParts DEF TypeOK
  <1>3. CASE ApplyOperatorSpec(p) /\ live = NoCR
    <2>1. Dated(Applied(EmptyBody, req[p].want, Manager[p], "spec"),
                [f \in Conditions |-> 0])
      BY DEF Dated
    <2> QED BY <1>3, <2>1, StoreDated DEF ApplyOperatorSpec
  <1>4. CASE ApplyOperatorSpec(p) /\ live # NoCR
    <2> DEFINE body == Applied(live.body, req[p].want, Manager[p], "spec")
    <2>1. Store(body, live.since)
      BY <1>4 DEF ApplyOperatorSpec
    <2>2. \A f \in DOMAIN req[p].want : f \in SpecFields
      BY <1>1, <1>4, RequestsAssumption DEF ApplyOperatorSpec, PartFields
    <2>3. ASSUME NEW f \in Conditions PROVE body.val[f] = live.body.val[f]
      <3>1. f \in Fields /\ f \notin SpecFields /\ f \notin DOMAIN req[p].want
        BY <2>2, ConditionsApart
      <3>2. f \notin PartFields("spec")
        BY <3>1 DEF PartFields
      <3> QED BY <1>2, <1>4, <3>1, <3>2, AppliedValues
    <2> HIDE DEF body
    <2> QED BY <1>4, <2>1, <2>3, StatusLeft
  <1>5. CASE ApplyOperatorStatus(p)
    <2> DEFINE body == Applied(live.body, req[p].want, Manager[p], "status")
               since == [f \in Conditions |->
                           IF f \notin DOMAIN req[p].want THEN Restamped(body)[f]
                           ELSE IF f \in TransitionTimes(p) THEN got[p].since[f]
                           ELSE revision + 1]
    <2>1. live # NoCR /\ Store(body, since)
      BY <1>5 DEF ApplyOperatorStatus
    <2>2. ASSUME NEW f \in Conditions, body.val[f] = Unset PROVE since[f] = 0
      <3>1. CASE f \in DOMAIN req[p].want
        <4>1. req[p].want[f] # Unset
          BY <1>1, <3>1, RequestsAssumption, ValuesAssumption
        <4>2. body.val[f] = req[p].want[f]
          BY <1>2, <2>1, <3>1, AppliedValues, ConditionsApart
        <4> QED BY <2>2, <4>1, <4>2
      <3>2. CASE f \notin DOMAIN req[p].want
        <4>1. Restamped(body)[f] = 0
          BY <2>2 DEF Restamped
        <4> QED BY <3>2, <4>1
      <3> QED BY <3>1, <3>2
    <2>3. Dated(body, since)
      BY <2>2 DEF Dated
    <2> HIDE DEF body, since
    <2> QED BY <2>1, <2>3, StoreDated
  <1> QED BY <1>3, <1>4, <1>5 DEF Apply, ApplyOperatorSpec

LEMMA UsersDated ==
    ASSUME TypeOK, DatedInv, Users
    PROVE  DatedInv'
  <1>0. live # NoCR => live.body \in Bodies
    BY ObjectParts DEF TypeOK
  <1>1. CASE live = NoCR /\ Store(EmptyBody, [f \in Conditions |-> 0])
    <2>1. Dated(EmptyBody, [f \in Conditions |-> 0])
      BY DEF Dated
    <2> QED BY <1>1, <2>1, StoreDated
  <1>2. CASE live' = NoCR
    BY <1>2 DEF DatedInv
  <1>3. CASE live # NoCR /\ Store([live.body EXCEPT !.meta = @ + 1], live.since)
    <2>1. [live.body EXCEPT !.meta = @ + 1].val = live.body.val
      BY <1>0, <1>3 DEF Bodies
    <2> QED BY <1>3, <2>1, StatusLeft
  <1>4. ASSUME live # NoCR, NEW f \in SpecFields, NEW v \in Values,
               Store(Rewritten(live.body, Overlay(live.body.val, [g \in {f} |-> v])),
                     live.since)
        PROVE  DatedInv'
    <2> DEFINE val == Overlay(live.body.val, [g \in {f} |-> v])
    <2>1. val \in Vals
      BY <1>0, <1>4, BodyParts DEF Vals, Overlay
    <2>2. \A g \in Conditions : val[g] = live.body.val[g]
      BY ConditionsApart DEF Overlay
    <2> HIDE DEF val
    <2>3. Rewritten(live.body, val).val = val
      BY <1>0, <1>4, <2>1, RewrittenType
    <2>4. Store(Rewritten(live.body, val), live.since)
      BY <1>4 DEF val
    <2> QED BY <1>4, <2>2, <2>3, <2>4, StatusLeft
  <1> QED BY <1>1, <1>2, <1>3, <1>4 DEF Users

LEMMA DatedInit == Init => DatedInv
  BY DEF Init, DatedInv

LEMMA DatedStep == TypeOK /\ DatedInv /\ [Next]_vars => DatedInv'
  <1> SUFFICES ASSUME TypeOK, DatedInv, [Next]_vars PROVE DatedInv'
    OBVIOUS
  <1>1. CASE UNCHANGED live
    BY <1>1 DEF DatedInv
  <1>2. ASSUME NEW p \in Procs, Write(p) \/ ReplyLost(p) PROVE DatedInv'
    <2>1. Update(p) \/ Apply(p)
      BY <1>2 DEF Write, ReplyLost, Commit
    <2> QED BY <2>1, UpdateDated, ApplyDated
  <1>3. ASSUME NEW p \in Procs, Step(p) PROVE DatedInv'
    <2>1. CASE Call(p) \/ GetOperatorState(p) \/ GetOriginal(p) \/ GetToApply(p)
      BY <1>1, <2>1 DEF Call, GetOperatorState, GetOriginal, GetToApply
    <2>2. CASE Conflict(p) \/ Refused(p) \/ CallFails(p) \/ Return(p)
               \/ PatchOperatorStatus(p)
      BY <1>1, <2>2 DEF Conflict, Refused, CallFails, Return, PatchOperatorStatus
    <2> QED BY <1>2, <1>3, <2>1, <2>2 DEF Step
  <1>4. CASE Users
    BY <1>4, UsersDated
  <1>5. CASE UNCHANGED vars
    BY <1>1, <1>5 DEF vars
  <1> QED BY <1>3, <1>4, <1>5 DEF Next

\* The times an apply of the status sends, when it repeats what is there.
LEMMA TimesKept ==
    ASSUME TypeOK, DatedInv, NEW p \in Procs, live # NoCR, live = got[p],
           live.body = Applied(live.body, req[p].want, Manager[p], "status"),
           NEW f \in Conditions
    PROVE  (IF f \notin DOMAIN req[p].want THEN Restamped(live.body)[f]
            ELSE IF f \in TransitionTimes(p) THEN got[p].since[f]
            ELSE revision + 1) = live.since[f]
  <1>1. live.body \in Bodies
    BY ObjectParts DEF TypeOK
  <1>2. f \in Fields /\ f \in PartFields("status")
    BY ConditionsAssumption DEF Fields, PartFields
  <1>3. CASE f \notin DOMAIN req[p].want
    <2>1. Restamped(live.body)[f] = live.since[f]
      BY DEF Restamped, DatedInv, Dated
    <2> QED BY <1>3, <2>1
  <1>4. CASE f \in DOMAIN req[p].want
    <2>1. live.body.val[f] = req[p].want[f]
      BY <1>1, <1>2, <1>4, AppliedValues
    <2>2. Manager[p] \in live.body.own[f]
      <3>1. Manager[p] \in Applied(live.body, req[p].want, Manager[p], "status").own[f]
        BY <1>1, <1>2, <1>4, AppliedOwned
      <3> QED BY <3>1
    <2>3. f \in Extracted(got[p], Manager[p], "status")
      BY <1>2, <2>2 DEF Extracted, Owned
    <2>4. f \in TransitionTimes(p)
      BY <1>4, <2>1, <2>3 DEF TransitionTimes
    <2> QED BY <1>4, <2>4
  <1> QED BY <1>3, <1>4

LEMMA ApplyQuiet ==
    ASSUME TypeOK, DatedInv, NEW p \in Procs, Apply(p), live # NoCR, live = got[p],
           live.body = Applied(live.body, req[p].want, Manager[p], req[p].part)
    PROVE  UNCHANGED live
  <1>1. CASE ApplyOperatorSpec(p)
    <2>1. Store(live.body, live.since)
      BY <1>1 DEF ApplyOperatorSpec
    <2> QED BY <2>1 DEF Store
  <1>2. CASE ApplyOperatorStatus(p)
    <2> DEFINE since == [f \in Conditions |->
                           IF f \notin DOMAIN req[p].want THEN Restamped(live.body)[f]
                           ELSE IF f \in TransitionTimes(p) THEN got[p].since[f]
                           ELSE revision + 1]
    <2>1. live.body = Applied(live.body, req[p].want, Manager[p], "status")
      BY <1>2 DEF ApplyOperatorStatus
    <2>2. Store(live.body, since)
      BY <1>2, <2>1 DEF ApplyOperatorStatus
    <2>3. \A f \in Conditions : since[f] = live.since[f]
      BY <2>1, TimesKept
    <2>4. live.since \in Sinces
      BY ObjectParts DEF TypeOK
    <2>5. since = live.since
      BY <2>3, <2>4 DEF Sinces
    <2> HIDE DEF since
    <2> QED BY <2>2, <2>5 DEF Store
  <1> QED BY <1>1, <1>2 DEF Apply

\* Repeating an apply is quiet: if the CliManager already says what an
\* ApplyOperatorSpec or ApplyOperatorStatus asks for, owned by its manager, and
\* has not changed since the call read it, then the server writes nothing, the
\* lastTransitionTimes included.
THEOREM RepeatedApplyIsQuiet == Spec => RepeatedApplyQuiet
  <1>1. Spec => [](Inv /\ DatedInv)
    <2>1. Inv => TypeOK
      BY DEF Inv
    <2> QED BY <2>1, InvInit, InvStep, DatedInit, DatedStep, PTL DEF Spec
  <1>2. ASSUME Inv, DatedInv, [Next]_vars
        PROVE  [\A p \in Procs :
                  /\ pc[p] = "write" /\ Apply(p)
                  /\ live # NoCR /\ live = got[p]
                  /\ live.body = Applied(live.body, req[p].want, Manager[p], req[p].part)
                  => UNCHANGED live]_vars
    BY <1>2, ApplyQuiet DEF Inv
  <1> QED BY <1>1, <1>2, PTL DEF Spec, RepeatedApplyQuiet
=============================================================================
