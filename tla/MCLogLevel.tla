----------------------------- MODULE MCLogLevel -----------------------------
(***************************************************************************)
(* A small instance of LogLevelController for TLC: klog's default          *)
(* verbosity, one between two levels and the highest.                      *)
(***************************************************************************)
EXTENDS LogLevelController

SomeFlags == {0, 3, 8}
=============================================================================
