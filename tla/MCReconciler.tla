---------------------------- MODULE MCReconciler ----------------------------
(***************************************************************************)
(* Small instances of TargetConfigReconciler for TLC.                      *)
(***************************************************************************)
EXTENDS TargetConfigReconciler

\* One release, no --serve-artifacts-in-http.
OneConfig == {[release |-> "r1", image |-> "i1", http |-> FALSE]}

\* An upgrade, of the manifests, of the operand image and of the flags.
TwoConfigs ==
    OneConfig \cup {[release |-> "r2", image |-> "", http |-> TRUE]}

AllOperands == FullSyncOrder

\* An operand of each sort: watched, with an immutable part, with a generation
\* and a hash, with a hash and fields nobody compares.
FourOperands == <<"NetworkPolicy", "RoleBinding", "Deployment", "Service">>

ThreeOperands == <<"NetworkPolicy", "Deployment", "Service">>
=============================================================================
