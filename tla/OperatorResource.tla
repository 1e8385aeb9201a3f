-------------------------- MODULE OperatorResource --------------------------
(***************************************************************************)
(* The CliManager resource as the API server keeps it, for clients that    *)
(* write it in different ways: whole-object updates of the spec or of the  *)
(* status, and server-side apply by field managers.  The server is not     *)
(* part of the repository: this is read off the way                        *)
(* pkg/operator/operatorclient uses it and off the CRD.                    *)
(*                                                                         *)
(* A body is a record                                                      *)
(*   meta  the metadata others write, as the number of times they did,     *)
(*   val   the value of every field of spec and status,                    *)
(*   own   the managers of every field (managedFields).                    *)
(* A request is what a caller asks of the client: to set the fields of     *)
(* DOMAIN want (update), to own exactly these fields with these values     *)
(* (apply), or to remove them if they have these values (patch), which the *)
(* client never sends.                                                     *)
(***************************************************************************)
EXTENDS Naturals

CONSTANTS
    SpecFields,   \* fields of the spec
    StatusFields, \* fields of the status
    Values,       \* the values fields take
    Managers,     \* field managers of server-side apply
    Unset,        \* a field that is not there
    NoCR,         \* the CliManager does not exist
    Requests      \* the requests callers make

Fields == SpecFields \cup StatusFields

PartFields(part) == IF part = "spec" THEN SpecFields ELSE StatusFields

Owners == Managers \cup {"update"}

Bodies ==
    [meta : Nat, val : [Fields -> Values \cup {Unset}],
     own : [Fields -> SUBSET Owners]]

ASSUME FieldsAssumption == SpecFields \cap StatusFields = {}

ASSUME ValuesAssumption == Unset \notin Values /\ NoCR \notin Bodies

\* An invalid request is an apply without a configuration or a patch that
\* tests the resourceVersion.  A configuration sets at least one field: who
\* manages an empty spec or status is not modelled.
ASSUME RequestsAssumption ==
    \A r \in Requests :
        /\ r.kind \in {"update", "apply", "patch"}
        /\ r.part \in {"spec", "status"}
        /\ r.valid \in BOOLEAN
        /\ r.kind = "apply" /\ r.valid => DOMAIN r.want # {}
        /\ DOMAIN r.want \subseteq PartFields(r.part)
        /\ \A f \in DOMAIN r.want :
              r.want[f] \in (IF r.kind = "update" THEN Values \cup {Unset} ELSE Values)

EmptyBody ==
    [meta |-> 0, val |-> [f \in Fields |-> Unset], own |-> [f \in Fields |-> {}]]

Overlay(val, want) ==
    [f \in Fields |-> IF f \in DOMAIN want THEN want[f] ELSE val[f]]

\* A write that is not an apply owns what it changes.
Rewritten(b, val) ==
    [b EXCEPT !.val = val,
              !.own = [f \in Fields |-> IF val[f] = b.val[f] THEN b.own[f]
                                        ELSE IF val[f] = Unset THEN {}
                                        ELSE {"update"}]]

\* A forced apply takes the fields it sets away from others, and gives up the
\* other fields of that part; fields without a manager are removed.
Applied(b, want, m, part) ==
    [b EXCEPT
        !.val = [f \in Fields |->
                    IF f \in DOMAIN want THEN want[f]
                    ELSE IF f \in PartFields(part) /\ b.own[f] = {m} THEN Unset
                    ELSE b.val[f]],
        !.own = [f \in Fields |->
                    IF f \in DOMAIN want
                    THEN IF b.val[f] = want[f] THEN b.own[f] \cup {m} ELSE {m}
                    ELSE IF f \in PartFields(part) THEN b.own[f] \ {m}
                    ELSE b.own[f]]]
=============================================================================
