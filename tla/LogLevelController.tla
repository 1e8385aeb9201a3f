------------------------- MODULE LogLevelController -------------------------
(***************************************************************************)
(* The log level controller that RunOperator starts next to the target     *)
(* config reconciler: library-go's loglevel.LogLevelController, which sets *)
(* klog's verbosity from spec.operatorLogLevel of the CliManager, read     *)
(* through CLIManagerClient.  A work queue with one key, as in module      *)
(* TargetConfigReconciler; here "dirty" alone stands for it, since there a *)
(* key is in the queue exactly if it is dirty and not being processed.     *)
(***************************************************************************)
EXTENDS Naturals

CONSTANTS
    NoCR,         \* there is no CliManager
    Levels,       \* values users give spec.operatorLogLevel
    Flags,        \* verbosities a process is started with (flag -v)
    MaxEdits,     \* bound: changes users make
    MaxFaults     \* bound: failed API calls and restarts

VARIABLES
    level,        \* spec.operatorLogLevel in the API server, or NoCR
    verbosity,    \* klog's verbosity in the operator process
    pc,           \* where the worker stands
    got,          \* what GetOperatorState returned
    dirty,        \* the key is to be processed
    delayed,      \* the key waits for its backoff
    pending,      \* the informer has events its handler has not had yet
    edits,
    faults

vars == <<level, verbosity, pc, got, dirty, delayed, pending, edits, faults>>

ASSUME FlagsAssumption == Flags \subseteq Nat

ASSUME NoCRAssumption == NoCR \notin Levels

-----------------------------------------------------------------------------
LogLevelToVerbosity(l) ==
    CASE l = "Debug" -> 4 [] l = "Trace" -> 6 [] l = "TraceAll" -> 8 [] OTHER -> 2

\* GetLogLevel: the highest level klog has enabled, unknown below V(2).
currentLogLevel ==
    CASE verbosity >= 8        -> "TraceAll"
      [] verbosity \in 6 .. 7 -> "Trace"
      [] verbosity \in 4 .. 5 -> "Debug"
      [] OTHER                -> "Normal"

isUnknown == verbosity < 2

\* An empty or an invalid level means defaultLogLevel.
desiredLogLevel(l) ==
    IF l \in {"Normal", "Debug", "Trace", "TraceAll"} THEN l ELSE "Normal"

\* Mutant: that klog's level could not be determined is ignored.
NothingToDoUnknown(l) == currentLogLevel = desiredLogLevel(l)

NothingToDo(l) ==
    /\ ~isUnknown
    /\ currentLogLevel = desiredLogLevel(l)

\* A change of the CliManager reaches the informer.
Notify == pending' = TRUE

Deliver ==
    /\ pending
    /\ pending' = FALSE
    /\ dirty' = TRUE
    /\ UNCHANGED <<level, verbosity, pc, got, delayed, edits, faults>>

\* The resync period of the informer has passed.
Resync ==
    /\ level # NoCR
    /\ ~pending
    /\ pending' = TRUE
    /\ UNCHANGED <<level, verbosity, pc, got, dirty, delayed, edits, faults>>

Backoff ==
    /\ delayed
    /\ delayed' = FALSE
    /\ dirty' = TRUE
    /\ UNCHANGED <<level, verbosity, pc, got, pending, edits, faults>>

\* queue.Get
Get ==
    /\ pc = "idle"
    /\ dirty
    /\ dirty' = FALSE
    /\ pc' = "read"
    /\ UNCHANGED <<level, verbosity, got, delayed, pending, edits, faults>>

GetOperatorState ==
    /\ pc = "read"
    /\ level # NoCR
    /\ got' = level
    /\ pc' = "set"
    /\ UNCHANGED <<level, verbosity, dirty, delayed, pending, edits, faults>>

\* errors.IsNotFound(err) && management.IsOperatorRemovable(): sync is done.
GetOperatorStateNotFound ==
    /\ pc = "read"
    /\ level = NoCR
    /\ pc' = "idle"
    /\ UNCHANGED <<level, verbosity, got, dirty, delayed, pending, edits, faults>>

\* Mutant: an error is not retried.
CallFailsForgetting ==
    /\ pc = "read"
    /\ faults < MaxFaults
    /\ faults' = faults + 1
    /\ pc' = "idle"
    /\ UNCHANGED <<level, verbosity, got, dirty, delayed, pending, edits>>

\* Any other error: AddRateLimited.
CallFails ==
    /\ pc = "read"
    /\ faults < MaxFaults
    /\ faults' = faults + 1
    /\ delayed' = TRUE
    /\ pc' = "idle"
    /\ UNCHANGED <<level, verbosity, got, dirty, pending, edits>>

\* setLogLevelFn, unless there is nothing to do.
SetLogLevel ==
    /\ pc = "set"
    /\ verbosity' = IF NothingToDo(got) THEN verbosity
                    ELSE LogLevelToVerbosity(desiredLogLevel(got))
    /\ pc' = "idle"
    /\ UNCHANGED <<level, got, dirty, delayed, pending, edits, faults>>

\* The process ends and another one starts: its informer lists the CliManager.
Restart ==
    /\ faults < MaxFaults
    /\ faults' = faults + 1
    /\ verbosity' \in Flags
    /\ pc' = "idle"
    /\ got' = NoCR
    /\ dirty' = FALSE
    /\ delayed' = FALSE
    /\ pending' = (level # NoCR)
    /\ UNCHANGED <<level, edits>>

\* Users create, edit and delete the CliManager.
EditCR ==
    /\ edits < MaxEdits
    /\ edits' = edits + 1
    /\ level' \in (Levels \cup {NoCR}) \ {level}
    /\ Notify
    /\ UNCHANGED <<verbosity, pc, got, dirty, delayed, faults>>

Init ==
    /\ level \in Levels \cup {NoCR}
    /\ verbosity \in Flags
    /\ pc = "idle"
    /\ got = NoCR
    /\ dirty = FALSE
    /\ delayed = FALSE
    /\ pending = (level # NoCR)
    /\ edits = 0
    /\ faults = 0

processNextWorkItem ==
    Get \/ GetOperatorState \/ GetOperatorStateNotFound \/ SetLogLevel

Next ==
    \/ processNextWorkItem
    \/ Deliver \/ Resync \/ Backoff
    \/ CallFails \/ Restart \/ EditCR

Spec == Init /\ [][Next]_vars

\* The worker, the informer and the delaying queue run on.
FairSpec ==
    /\ Spec
    /\ WF_vars(processNextWorkItem)
    /\ WF_vars(Deliver)
    /\ WF_vars(Backoff)

-----------------------------------------------------------------------------
Quiet == pc = "idle" /\ ~dirty /\ ~delayed /\ ~pending

InEffect(l) == ~isUnknown /\ currentLogLevel = desiredLogLevel(l)

\* Whenever the controller rests, klog logs at the level the CliManager asks
\* for, whatever edits and failed reads it went through and whatever verbosity
\* the process was started with: no edit between the read and the setting of
\* the level is lost.
LevelFollows == Quiet /\ level # NoCR => InEffect(level)

\* The inductive invariant behind it: what sync has read is what the CliManager
\* says, or there is an event that leads to another sync.
LevelInv ==
    /\ verbosity \in Nat
    /\ pc \in {"idle", "read", "set"}
    /\ pc = "set" /\ ~dirty /\ ~pending => got = level
    /\ LevelFollows

\* After the last edit and the last failure the level takes effect for good,
\* without the help of the informer's resync.
LevelSettles == <>[](level # NoCR => InEffect(level))

\* "uses level "Normal" if the operator CR is missing"
MissingMeansNormal == Quiet /\ level = NoCR => InEffect("Normal")
=============================================================================
