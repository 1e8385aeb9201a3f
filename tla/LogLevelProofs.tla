--------------------------- MODULE LogLevelProofs ---------------------------
(***************************************************************************)
(* The log level controller rests only at the level the CliManager asks    *)
(* for, for every set of levels, every verbosity a process is started with *)
(* and every number of edits, failed reads and restarts.                   *)
(***************************************************************************)
EXTENDS LogLevelController, TLAPS

\* A verbosity SetLogLevel sets is read back by GetLogLevel as the level it was
\* set for.
LEMMA SetThenGet ==
    ASSUME NEW l, verbosity' = LogLevelToVerbosity(desiredLogLevel(l))
    PROVE  InEffect(l)'
  <1>1. CASE l = "Debug"
    BY <1>1 DEF InEffect, currentLogLevel, isUnknown, desiredLogLevel, LogLevelToVerbosity
  <1>2. CASE l = "Trace"
    BY <1>2 DEF InEffect, currentLogLevel, isUnknown, desiredLogLevel, LogLevelToVerbosity
  <1>3. CASE l = "TraceAll"
    BY <1>3 DEF InEffect, currentLogLevel, isUnknown, desiredLogLevel, LogLevelToVerbosity
  <1>4. CASE l \notin {"Debug", "Trace", "TraceAll"}
    BY <1>4 DEF InEffect, currentLogLevel, isUnknown, desiredLogLevel, LogLevelToVerbosity
  <1> QED
    BY <1>1, <1>2, <1>3, <1>4

\* If sync has nothing to do the level is in effect already.
LEMMA NothingToDoInEffect ==
    ASSUME NEW l, NothingToDo(l), verbosity \in Nat, verbosity' = verbosity
    PROVE  InEffect(l)'
  BY DEF NothingToDo, InEffect, currentLogLevel, isUnknown

\* LevelInv holds of the initial states.
LEMMA LevelInvInit == Init => LevelInv
  BY FlagsAssumption DEF Init, LevelInv, LevelFollows, Quiet

\* Every step preserves LevelInv.
LEMMA LevelInvStep == LevelInv /\ [Next]_vars => LevelInv'
  <1> SUFFICES ASSUME LevelInv, [Next]_vars PROVE LevelInv'
    OBVIOUS
  <1> USE DEF LevelInv
  <1>1. CASE SetLogLevel
    <2>1. InEffect(got)'
      <3>1. CASE NothingToDo(got)
        BY <1>1, <3>1, NothingToDoInEffect DEF SetLogLevel
      <3>2. CASE ~NothingToDo(got)
        BY <1>1, <3>2, SetThenGet DEF SetLogLevel
      <3> QED BY <3>1, <3>2
    <2>2. LevelFollows'
      <3>1. got' = got /\ level' = level
        BY <1>1 DEF SetLogLevel
      <3>2. Quiet' => got = level
        BY <1>1 DEF SetLogLevel, Quiet
      <3> QED BY <2>1, <3>1, <3>2 DEF LevelFollows
    <2>3. verbosity' \in Nat /\ pc' = "idle"
      BY <1>1 DEF SetLogLevel, LogLevelToVerbosity
    <2> QED BY <2>2, <2>3
  <1>2. CASE Restart
    BY <1>2, FlagsAssumption DEF Restart, LevelFollows, Quiet
  <1>3. CASE EditCR
    BY <1>3 DEF EditCR, Notify, LevelFollows, Quiet
  <1>4. CASE Deliver \/ Backoff \/ Resync \/ Get \/ GetOperatorState \/ CallFails
    BY <1>4 DEF Deliver, Backoff, Resync, Get, GetOperatorState, CallFails,
                LevelFollows, Quiet
  <1>5. CASE GetOperatorStateNotFound
    BY <1>5 DEF GetOperatorStateNotFound, LevelFollows, Quiet
  <1>6. CASE UNCHANGED vars
    BY <1>6 DEF vars, LevelFollows, Quiet, InEffect, currentLogLevel, isUnknown
  <1> QED
    BY <1>1, <1>2, <1>3, <1>4, <1>5, <1>6 DEF Next, processNextWorkItem

\* Whenever the log level controller has nothing left to do, klog logs at the
\* level the CliManager asks for.
THEOREM LevelKept == Spec => []LevelFollows
  <1>1. LevelInv => LevelFollows
    BY DEF LevelInv
  <1> QED
    BY <1>1, LevelInvInit, LevelInvStep, PTL DEF Spec
=============================================================================
