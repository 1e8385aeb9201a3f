------------------------------ MODULE KubeAPI ------------------------------
(***************************************************************************)
(* What the operator relies on of the Kubernetes API server, as operators  *)
(* over stored objects.  The server is not part of the repository: these   *)
(* definitions are read off the way the clients of pkg/operator and of     *)
(* library-go's resourceapply use it.                                      *)
(*                                                                         *)
(* A stored object is a record                                             *)
(*   uid    identity of this incarnation of the name,                      *)
(*   rv     resourceVersion: grows with every effective write,             *)
(*   gen    metadata.generation: grows with every change of the spec,      *)
(*   owner  uid of the CliManager named in ownerReferences, 0 for none,    *)
(*   hash   the operator.openshift.io/spec-hash annotation,                *)
(*   note   all the metadata (and status) only others write, as the number *)
(*          of times they have written it,                                 *)
(*   spec   the rest of the object.                                        *)
(***************************************************************************)
EXTENDS Naturals

CONSTANT NoObj          \* what a GET that answers NotFound returns

(***************************************************************************)
(* POST of a body [owner, hash, spec] as the incarnation uid.              *)
(***************************************************************************)
Created(body, uid) ==
    [uid |-> uid, rv |-> 1, gen |-> 1, note |-> 0,
     owner |-> body.owner, hash |-> body.hash, spec |-> body.spec]

(***************************************************************************)
(* PUT of new over old: a request that changes nothing leaves the object   *)
(* and its resourceVersion alone.                                          *)
(***************************************************************************)
Stored(old, new) ==
    IF new = old
    THEN old
    ELSE [new EXCEPT !.rv = old.rv + 1,
                     !.gen = IF new.spec = old.spec THEN old.gen ELSE old.gen + 1]

(***************************************************************************)
(* The optimistic lock: a PUT carries the uid and the resourceVersion of   *)
(* the copy it was made from and is refused with Conflict (NotFound when   *)
(* the name is gone) unless the live object still has both.                *)
(***************************************************************************)
Current(copy, live) ==
    /\ live # NoObj
    /\ live.uid = copy.uid
    /\ live.rv = copy.rv
=============================================================================
