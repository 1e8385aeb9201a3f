------------------------------ MODULE Handover ------------------------------
(***************************************************************************)
(* Two operator processes at once.  Leader election gives RunOperator to   *)
(* one process at a time, but a process that cannot renew its lease        *)
(* releases it, or lets it expire, before its own workers have stopped:    *)
(* the process that takes over, perhaps of another release, starts while   *)
(* the deposed one still works.                                            *)
(*                                                                         *)
(* The new process is the one of TargetConfigReconciler.  The deposed one  *)
(* runs the same sync on locals of its own, again and again, until the     *)
(* process ends.  Its informers and its queue are left out: its worker may *)
(* find the key in the queue at any time.                                  *)
(***************************************************************************)
EXTENDS TargetConfigReconciler

CONSTANT
    MaxOldSyncs   \* bound: a deposed process takes its key again only while
                  \* fewer syncs than this ran under a lost lease

VARIABLES
    oldPc,        \* "idle" when there is no deposed process, "done" when it
                  \* is between two syncs
    oldCfg, oldStep, oldSnap, oldSeen, oldDep, oldGot, oldTries,
    oldDelayed,   \* not used: its key may be queued at any time
    oldTouched,   \* not used: the history variable of the new process counts
    oldSyncs      \* syncs that ran, or went on, under a lost lease

oldLocal == <<oldStep, oldSnap, oldSeen, oldDep, oldGot, oldTries>>
oldVars == <<oldPc, oldCfg, oldLocal, oldDelayed, oldTouched, oldSyncs>>
allVars == <<vars, oldVars>>

\* The deposed process.  Of the new one it shares the cluster, and the watch
\* events of what it writes go to the informers of the new one.
Old == INSTANCE TargetConfigReconciler WITH
    pc <- oldPc, cfg <- oldCfg, step <- oldStep, snap <- oldSnap,
    seen <- oldSeen, dep <- oldDep, got <- oldGot, tries <- oldTries,
    delayed <- oldDelayed, touched <- oldTouched

\* The lease is lost, in the middle of a sync or between two.
LoseLease ==
    /\ oldPc = "idle"
    /\ up
    /\ faults < MaxFaults
    /\ faults' = faults + 1
    /\ oldPc' = IF pc = "idle" THEN "done" ELSE pc
    /\ oldCfg' = cfg
    /\ oldStep' = step /\ oldSnap' = snap /\ oldSeen' = seen
    /\ oldDep' = dep /\ oldGot' = got /\ oldTries' = tries
    /\ up' = FALSE
    /\ pending' = {}
    /\ Reset
    /\ oldSyncs' = IF pc = "idle" THEN oldSyncs ELSE oldSyncs + 1
    /\ UNCHANGED <<cluster, cfg, edits, oldDelayed, oldTouched>>

\* To the new process the deposed one is one of the others.
Observed ==
    /\ touched' = IF up THEN touched \cup {r \in Resources : obj'[r] # obj[r]}
                        ELSE touched
    /\ UNCHANGED <<cfg, pc, local, delayed>>

OldSync == Old!sync /\ Observed /\ UNCHANGED oldSyncs

OldReset ==
    /\ oldStep' = 0
    /\ oldSnap' = NoCR
    /\ oldSeen' = NoObj
    /\ oldDep' = NoObj
    /\ oldGot' = NoCR
    /\ oldTries' = 0

\* The deposed process takes its key again: its sync has ended, or has returned
\* the error of an API call that failed, with or without effect.
OldGet ==
    /\ oldPc # "idle"
    /\ oldSyncs < MaxOldSyncs
    /\ oldSyncs' = oldSyncs + 1
    /\ oldPc' = "fetch"
    /\ OldReset
    /\ UNCHANGED <<vars, oldCfg, oldDelayed, oldTouched>>

\* os.Exit, at any time.
OldExit ==
    /\ oldPc # "idle"
    /\ oldPc' = "idle"
    /\ OldReset
    /\ UNCHANGED <<vars, oldCfg, oldDelayed, oldTouched, oldSyncs>>

Deposed == OldSync \/ OldGet \/ OldExit

HandoverInit ==
    /\ Init
    /\ oldPc = "idle"
    /\ oldCfg = cfg
    /\ oldStep = step /\ oldSnap = snap /\ oldSeen = seen
    /\ oldDep = dep /\ oldGot = got /\ oldTries = tries
    /\ oldDelayed = TRUE
    /\ oldTouched = {}
    /\ oldSyncs = 0

HandoverNext ==
    \/ Next /\ UNCHANGED oldVars
    \/ LoseLease
    \/ Deposed

HandoverSpec == HandoverInit /\ [][HandoverNext]_allVars

\* The deposed process comes to its end, whatever it is doing.
HandoverFairSpec == HandoverSpec /\ Fairness /\ WF_allVars(OldExit)

-----------------------------------------------------------------------------
\* Whichever of two releases writes an operand, and however their GETs and PUTs
\* interleave with each other and with writes of others, no write loses what
\* others wrote to its metadata, and none replaces its incarnation.
MetadataKeptByBoth ==
    [][OldSync \/ processNextWorkItem \/ ReplyLost =>
         \A r \in Resources : obj[r] # NoObj =>
            /\ obj'[r] # NoObj
            /\ obj'[r].uid = obj[r].uid
            /\ obj'[r].note = obj[r].note]_allVars
=============================================================================
