---------------------------- MODULE AtomicClient ----------------------------
(***************************************************************************)
(* What a caller of v1helpers.OperatorClient may rely on: every call acts  *)
(* on the resource as it is at one instant between the call and its        *)
(* return, as if read, modified and written in a single step.  A call that *)
(* succeeds has acted exactly once, one that fails at most once.           *)
(***************************************************************************)
EXTENDS OperatorResource

CONSTANTS
    Procs,        \* goroutines that call the client
    Manager       \* the field manager each of them applies as

VARIABLES
    res,          \* the body of the CliManager, or NoCR
    stage,        \* "idle", "pending", "ok" or "failed", for each goroutine
    ask           \* its last request

vars == <<res, stage, ask>>

Accepts(r) ==
    \/ r.kind = "update" /\ res # NoCR
    \/ r.kind = "apply" /\ (res # NoCR \/ r.part = "spec")

Effect(r, m) ==
    CASE r.kind = "update" -> Rewritten(res, Overlay(res.val, r.want))
      [] r.kind = "apply"  -> Applied(IF res = NoCR THEN EmptyBody ELSE res,
                                      r.want, m, r.part)

Init ==
    /\ res = NoCR
    /\ stage = [p \in Procs |-> "idle"]
    /\ ask \in [Procs -> Requests]

\* An invalid request fails at once, and so does every patch.
Invoke(p) ==
    /\ stage[p] = "idle"
    /\ \E r \in Requests :
          /\ ask' = [ask EXCEPT ![p] = r]
          /\ stage' = [stage EXCEPT ![p] = IF r.valid /\ r.kind # "patch"
                                           THEN "pending" ELSE "failed"]
    /\ UNCHANGED res

\* The call acts, and its answer arrives or is lost.
Act(p) ==
    /\ stage[p] = "pending"
    /\ Accepts(ask[p])
    /\ res' = Effect(ask[p], Manager[p])
    /\ \E outcome \in {"ok", "failed"} : stage' = [stage EXCEPT ![p] = outcome]
    /\ UNCHANGED ask

Refuse(p) ==
    /\ stage[p] = "pending"
    /\ stage' = [stage EXCEPT ![p] = "failed"]
    /\ UNCHANGED <<res, ask>>

Return(p) ==
    /\ stage[p] \in {"ok", "failed"}
    /\ stage' = [stage EXCEPT ![p] = "idle"]
    /\ UNCHANGED <<res, ask>>

\* Users create, label, edit and delete the resource.
Users ==
    /\ \/ res = NoCR /\ res' = EmptyBody
       \/ res # NoCR /\ res' = NoCR
       \/ res # NoCR /\ res' = [res EXCEPT !.meta = @ + 1]
       \/ /\ res # NoCR
          /\ \E f \in SpecFields, v \in Values :
                res' = Rewritten(res, Overlay(res.val, [g \in {f} |-> v]))
    /\ UNCHANGED <<stage, ask>>

Next ==
    \/ Users
    \/ \E p \in Procs : Invoke(p) \/ Act(p) \/ Refuse(p) \/ Return(p)

Spec == Init /\ [][Next]_vars
=============================================================================
