-------------------------- MODULE CliManagerClient --------------------------
(***************************************************************************)
(* CLIManagerClient of pkg/operator/operatorclient/interfaces.go, used by  *)
(* several goroutines at once: UpdateOperatorSpec and UpdateOperatorStatus *)
(* inside the retry loops of v1helpers.UpdateSpec and UpdateStatus,        *)
(* ApplyOperatorSpec and ApplyOperatorStatus, with one step for each       *)
(* answer of an API call, and PatchOperatorStatus, which never makes one.  *)
(*                                                                         *)
(* In the server the CliManager is [rv, body, since]: its resourceVersion, *)
(* the body of OperatorResource and the lastTransitionTime of conditions.  *)
(* revision is the cluster's counter of writes, from which                 *)
(* resourceVersions are taken; it serves as the clock as well.             *)
(***************************************************************************)
EXTENDS OperatorResource

CONSTANTS
    Procs,        \* goroutines that call the client
    Manager,      \* the field manager each of them applies as
    Conditions,   \* the fields of the status that are conditions
    Steps,        \* attempts of retry.DefaultBackoff
    MaxCalls,     \* bound: calls made
    MaxEdits,     \* bound: writes of users
    MaxFaults     \* bound: failed API calls

VARIABLES
    live,         \* the CliManager in the API server, or NoCR
    revision,     \* the last resourceVersion given
    pc,           \* where each goroutine stands in its call
    req,          \* its request
    got,          \* what its first GET returned
    base,         \* original, of UpdateOperatorSpec and UpdateOperatorStatus
    tries,        \* attempts its retry loop has left
    calls,        \* calls so far
    edits,        \* writes of users so far
    faults        \* failed API calls so far

locals == <<req, got, base, tries>>
vars == <<live, revision, pc, locals, calls, edits, faults>>

ASSUME ProcsAssumption == Manager \in [Procs -> Managers]

ASSUME ConditionsAssumption == Conditions \subseteq StatusFields

ASSUME StepsAssumption == Steps \in Nat \ {0}

Objects == [rv : Nat, body : Bodies, since : [Conditions -> Nat]]

ASSUME NoCRAssumption == NoCR \notin Objects

Go(p, to) == pc' = [pc EXCEPT ![p] = to]

\* The server stores a body: a write that changes nothing keeps the version.
Store(body, since) ==
    IF live # NoCR /\ live.body = body /\ live.since = since
    THEN UNCHANGED <<live, revision>>
    ELSE /\ revision' = revision + 1
         /\ live' = [rv |-> revision + 1, body |-> body, since |-> since]

\* A condition that changes gets a new lastTransitionTime, one that goes none.
Restamped(body) ==
    [f \in Conditions |-> IF body.val[f] = Unset THEN 0
                          ELSE IF body.val[f] = live.body.val[f] THEN live.since[f]
                          ELSE revision + 1]

-----------------------------------------------------------------------------
(***************************************************************************)
(* An update or apply begins; an apply with desiredConfiguration == nil    *)
(* fails before anything is sent.                                          *)
(***************************************************************************)
Call(p) ==
    /\ pc[p] = "idle"
    /\ calls < MaxCalls
    /\ calls' = calls + 1
    /\ \E r \in Requests :
          /\ r.kind # "patch"
          /\ req' = [req EXCEPT ![p] = r]
          /\ Go(p, IF r.valid THEN "read" ELSE "failed")
    /\ tries' = [tries EXCEPT ![p] = Steps]
    /\ UNCHANGED <<live, revision, got, base, edits, faults>>

\* A patch fails before anything is sent: jsonPatch.Marshal refuses an invalid
\* one, and client-go's Request.SubResource refuses the subresource "/status"
\* of any other, since a path segment may not contain a slash.
PatchOperatorStatus(p) ==
    /\ pc[p] = "idle"
    /\ calls < MaxCalls
    /\ calls' = calls + 1
    /\ \E r \in Requests :
          /\ r.kind = "patch"
          /\ req' = [req EXCEPT ![p] = r]
    /\ Go(p, "failed")
    /\ UNCHANGED <<live, revision, got, base, tries, edits, faults>>

\* The update functions, on the copy the GET returned.
Modified(p, o) == Overlay(o.body.val, req[p].want)

\* Mutant: the update functions work on what the GET returned, not on a copy.
GetOperatorStateInPlace(p) ==
    /\ pc[p] = "read"
    /\ req[p].kind = "update"
    /\ live # NoCR
    /\ got' = [got EXCEPT ![p] = [live EXCEPT !.body.val = Modified(p, live)]]
    /\ Go(p, IF Modified(p, live) = live.body.val THEN "ok" ELSE "reread")
    /\ tries' = [tries EXCEPT ![p] = @ - 1]
    /\ UNCHANGED <<live, revision, req, base, calls, edits, faults>>

\* GetOperatorState, the update functions, and DeepEqual.  The GET is live, so
\* after a conflict it never returns the version it returned before.
GetOperatorState(p) ==
    /\ pc[p] = "read"
    /\ req[p].kind = "update"
    /\ live # NoCR
    /\ got' = [got EXCEPT ![p] = live]
    /\ Go(p, IF Modified(p, live) = live.body.val THEN "ok" ELSE "reread")
    /\ tries' = [tries EXCEPT ![p] = @ - 1]
    /\ UNCHANGED <<live, revision, req, base, calls, edits, faults>>

\* UpdateOperatorSpec and UpdateOperatorStatus get the resource again.
GetOriginal(p) ==
    /\ pc[p] = "reread"
    /\ live # NoCR
    /\ base' = [base EXCEPT ![p] = live]
    /\ Go(p, "write")
    /\ UNCHANGED <<live, revision, req, got, tries, calls, edits, faults>>

\* Mutant: copy.ResourceVersion is not set.
versionOfOriginal(p) == base[p].rv

\* copy.ResourceVersion = resourceVersion
resourceVersion(p) == got[p].rv

\* copy.Spec.OperatorSpec = *spec; an update of the spec leaves the status.
UpdateOperatorSpec(p) ==
    /\ req[p].part = "spec"
    /\ LET new == [f \in Fields |-> IF f \in SpecFields THEN Modified(p, got[p])[f]
                                    ELSE live.body.val[f]]
       IN Store([Rewritten(live.body, new) EXCEPT !.meta = base[p].body.meta],
                live.since)

\* copy.Status.OperatorStatus = *status; only the status is taken from the copy.
UpdateOperatorStatus(p) ==
    /\ req[p].part = "status"
    /\ LET new == [f \in Fields |-> IF f \in StatusFields THEN Modified(p, got[p])[f]
                                    ELSE live.body.val[f]]
           body == Rewritten(live.body, new)
       IN Store(body, Restamped(body))

Update(p) ==
    /\ req[p].kind = "update"
    /\ live # NoCR
    /\ live.rv = resourceVersion(p)
    /\ UpdateOperatorSpec(p) \/ UpdateOperatorStatus(p)

\* Mutant: a conflict is always retried.
ConflictRetried(p) ==
    /\ pc[p] = "write"
    /\ req[p].kind = "update"
    /\ live # NoCR
    /\ live.rv # resourceVersion(p)
    /\ Go(p, "read")
    /\ UNCHANGED <<live, revision, locals, calls, edits, faults>>

\* RetryOnConflict
Conflict(p) ==
    /\ pc[p] = "write"
    /\ req[p].kind = "update"
    /\ live # NoCR
    /\ live.rv # resourceVersion(p)
    /\ Go(p, IF tries[p] > 0 THEN "read" ELSE "failed")
    /\ UNCHANGED <<live, revision, locals, calls, edits, faults>>

-----------------------------------------------------------------------------
(***************************************************************************)
(* Server-side apply.                                                      *)
(***************************************************************************)
Owned(o, m, part) == {f \in PartFields(part) : m \in o.body.own[f]}

\* The generated schema knows no list keys: it takes conditions as a whole.
Extracted(o, m, part) ==
    LET own == Owned(o, m, part)
    IN  IF own \cap Conditions = {} THEN own
        ELSE own \cup {f \in Conditions : o.body.val[f] # Unset}

ExtractCliManagerFrom(o, m, part) ==
    [f \in Extracted(o, m, part) |-> o.body.val[f]]

\* equality.Semantic.DeepEqual(original, desired).  Extracted conditions have a
\* lastTransitionTime, the desired ones do not have one yet.
AlreadyApplied(o, r, m) ==
    /\ ExtractCliManagerFrom(o, m, r.part) = r.want
    /\ DOMAIN r.want \cap Conditions = {}

GetToApply(p) ==
    /\ pc[p] = "read"
    /\ req[p].kind = "apply"
    /\ got' = [got EXCEPT ![p] = live]
    /\ Go(p, IF live # NoCR /\ AlreadyApplied(live, req[p], Manager[p])
             THEN "ok" ELSE "write")
    /\ UNCHANGED <<live, revision, req, base, tries, calls, edits, faults>>

\* Mutant: every condition is stamped with the time of the call.
NoTransitionTimes(p) == {}

\* SetApplyConditionsLastTransitionTime: the conditions whose time is kept.
TransitionTimes(p) ==
    IF got[p] = NoCR THEN {}
    ELSE {f \in Extracted(got[p], Manager[p], "status") \cap DOMAIN req[p].want :
             got[p].body.val[f] = req[p].want[f]}

\* An apply creates the resource if there is none.
ApplyOperatorSpec(p) ==
    /\ req[p].part = "spec"
    /\ IF live = NoCR
       THEN Store(Applied(EmptyBody, req[p].want, Manager[p], "spec"),
                  [f \in Conditions |-> 0])
       ELSE Store(Applied(live.body, req[p].want, Manager[p], "spec"), live.since)

ApplyOperatorStatus(p) ==
    /\ req[p].part = "status"
    /\ live # NoCR
    /\ LET body == Applied(live.body, req[p].want, Manager[p], "status")
       IN Store(body,
                [f \in Conditions |->
                    IF f \notin DOMAIN req[p].want THEN Restamped(body)[f]
                    ELSE IF f \in TransitionTimes(p) THEN got[p].since[f]
                    ELSE revision + 1])

Apply(p) ==
    /\ req[p].kind = "apply"
    /\ ApplyOperatorSpec(p) \/ ApplyOperatorStatus(p)

-----------------------------------------------------------------------------
\* A write is accepted; with outcome "failed" its answer is lost.
Commit(p, outcome) ==
    /\ pc[p] = "write"
    /\ Update(p) \/ Apply(p)
    /\ Go(p, outcome)
    /\ UNCHANGED <<locals, calls, edits>>

Write(p) == Commit(p, "ok") /\ UNCHANGED faults

ReplyLost(p) ==
    /\ faults < MaxFaults
    /\ faults' = faults + 1
    /\ Commit(p, "failed")

\* There is no CliManager to update or to apply a status to.
Refused(p) ==
    /\ pc[p] \in {"read", "reread", "write"}
    /\ \/ live = NoCR /\ req[p].kind = "update"
       \/ live = NoCR /\ req[p].part = "status" /\ pc[p] = "write"
    /\ Go(p, "failed")
    /\ UNCHANGED <<live, revision, locals, calls, edits, faults>>

\* Any other error, of any API call.
CallFails(p) ==
    /\ pc[p] \in {"read", "reread", "write"}
    /\ faults < MaxFaults
    /\ faults' = faults + 1
    /\ Go(p, "failed")
    /\ UNCHANGED <<live, revision, locals, calls, edits>>

Return(p) ==
    /\ pc[p] \in {"ok", "failed"}
    /\ Go(p, "idle")
    /\ UNCHANGED <<live, revision, locals, calls, edits, faults>>

\* Users create, delete, label and edit the CliManager.
Users ==
    /\ edits < MaxEdits
    /\ edits' = edits + 1
    /\ \/ live = NoCR /\ Store(EmptyBody, [f \in Conditions |-> 0])
       \/ live # NoCR /\ live' = NoCR /\ revision' = revision + 1
       \/ live # NoCR /\ Store([live.body EXCEPT !.meta = @ + 1], live.since)
       \/ /\ live # NoCR
          /\ \E f \in SpecFields, v \in Values :
                Store(Rewritten(live.body, Overlay(live.body.val, [g \in {f} |-> v])),
                      live.since)
    /\ UNCHANGED <<pc, locals, calls, faults>>

Init ==
    /\ live = NoCR
    /\ revision = 0
    /\ pc = [p \in Procs |-> "idle"]
    /\ req \in [Procs -> Requests]
    /\ got = [p \in Procs |-> NoCR]
    /\ base = [p \in Procs |-> NoCR]
    /\ tries = [p \in Procs |-> 0]
    /\ calls = 0
    /\ edits = 0
    /\ faults = 0

Step(p) ==
    \/ Call(p) \/ PatchOperatorStatus(p) \/ Return(p)
    \/ GetOperatorState(p) \/ GetOriginal(p) \/ Conflict(p)
    \/ GetToApply(p)
    \/ Write(p) \/ ReplyLost(p) \/ Refused(p) \/ CallFails(p)

Next == Users \/ \E p \in Procs : Step(p)

Spec == Init /\ [][Next]_vars

-----------------------------------------------------------------------------
\* Every variable has its type; no retry loop makes more than Steps attempts.
TypeOK ==
    /\ live \in Objects \cup {NoCR}
    /\ revision \in Nat
    /\ pc \in [Procs -> {"idle", "read", "reread", "write", "ok", "failed"}]
    /\ req \in [Procs -> Requests]
    /\ got \in [Procs -> Objects \cup {NoCR}]
    /\ base \in [Procs -> Objects \cup {NoCR}]
    /\ tries \in [Procs -> 0 .. Steps]
    /\ calls \in Nat /\ edits \in Nat /\ faults \in Nat

\* A copy with the version of the live CliManager is the live CliManager, any
\* other copy is older.
Faithful(copy) ==
    /\ copy.rv <= revision
    /\ live # NoCR => copy.rv <= live.rv
    /\ live # NoCR /\ live.rv = copy.rv => live = copy

\* What goroutine p has read is old or up to date, and what its second GET
\* returned is not older than what its first one did.
ReadBy(p) ==
    pc[p] \in {"read", "reread", "write"} =>
        /\ req[p].valid /\ req[p].kind # "patch"
        /\ pc[p] = "read" => tries[p] > 0
        /\ pc[p] = "reread" => req[p].kind = "update"
        /\ pc[p] \in {"reread", "write"} /\ req[p].kind = "update" =>
              got[p] # NoCR /\ Faithful(got[p])
        /\ pc[p] = "write" /\ req[p].kind = "update" =>
              base[p] # NoCR /\ Faithful(base[p]) /\ got[p].rv <= base[p].rv

\* The inductive invariant: if the version of a goroutine's first GET is still
\* the live one then so is all that it has read.
ReadInv ==
    /\ live # NoCR => live.rv <= revision
    /\ \A p \in Procs : ReadBy(p)

Stage(at) == IF at \in {"read", "reread", "write"} THEN "pending" ELSE at

Atomic == INSTANCE AtomicClient WITH
    res   <- IF live = NoCR THEN NoCR ELSE live.body,
    stage <- [p \in Procs |-> Stage(pc[p])],
    ask   <- req

\* The client implements AtomicClient: although an update or apply is two or
\* three API calls, and those of other goroutines and of users fall between
\* them, it acts as a single step or not at all; no update is lost or applied
\* to a stale copy, no status write touches the spec or the metadata and none
\* brings a deleted CliManager back.  A patch is refused and changes nothing.
Linearizable == Atomic!Spec

\* Repeating an apply is quiet: ApplyOperatorStatus always sends conditions to
\* the server, but if the CliManager already says so and has not changed since
\* it was read, nothing is written and no watcher woken up.
RepeatedApplyQuiet ==
    [][\A p \in Procs :
         /\ pc[p] = "write" /\ Apply(p)
         /\ live # NoCR /\ live = got[p]
         /\ live.body = Applied(live.body, req[p].want, Manager[p], req[p].part)
         => UNCHANGED live]_vars

\* ExtractCliManagerFrom returns "the applied configuration owned by
\* fieldManager".
ExtractedOwned ==
    live # NoCR =>
        \A m \in Managers, part \in {"spec", "status"} :
            DOMAIN ExtractCliManagerFrom(live, m, part) \subseteq Owned(live, m, part)
=============================================================================
