------------------------------ MODULE MCClient ------------------------------
(***************************************************************************)
(* Small instances of CliManagerClient for TLC.                            *)
(***************************************************************************)
EXTENDS CliManagerClient, TLC

Valid(kind, part, want) == [kind |-> kind, part |-> part, want |-> want, valid |-> TRUE]

\* Controllers apply as field managers of their own.
OwnManager == [p \in Procs |-> IF p = "p" THEN "m" ELSE "n"]

Nothing == <<>>

\* Every kind of request, of the spec and of the status, and one without a
\* configuration; a condition and a field of the spec have several writers, and
\* a manager that applies another field gives up its condition.
Mixed ==
    {Valid("update", "status", "gen" :> 1), Valid("update", "status", "A" :> 2),
     Valid("update", "spec", "logLevel" :> 2),
     Valid("patch", "status", "A" :> 1),
     Valid("apply", "status", "A" :> 1), Valid("apply", "status", "gen" :> 1),
     Valid("apply", "spec", "logLevel" :> 1),
     [kind |-> "apply", part |-> "status", want |-> Nothing, valid |-> FALSE]}

\* Controllers report a condition each; one also sets a plain field.
Applies ==
    {Valid("apply", "status", "A" :> 1),
     Valid("apply", "status", "A" :> 2 @@ "gen" :> 1),
     Valid("apply", "status", "B" :> 1),
     Valid("apply", "status", "gen" :> 1),
     Valid("apply", "spec", "logLevel" :> 1)}
=============================================================================
