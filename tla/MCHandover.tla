----------------------------- MODULE MCHandover -----------------------------
(***************************************************************************)
(* Small instances of Handover for TLC.                                    *)
(***************************************************************************)
EXTENDS Handover

\* An upgrade, of the manifests, of the operand image and of the flags.
TwoReleases ==
    {[release |-> "r1", image |-> "i1", http |-> FALSE],
     [release |-> "r2", image |-> "", http |-> TRUE]}

TwoOperands == <<"NetworkPolicy", "Deployment">>

=============================================================================
