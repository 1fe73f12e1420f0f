------------------------------ MODULE MCUpstream ------------------------------
(***************************************************************************)
(* One query socket and the live socket, a fetch, a count, two publishes   *)
(* of one event and a live subscription, of which MaxCalls are made.       *)
(***************************************************************************)
EXTENDS Upstream, TLC

CONSTANTS f, n, p1, p2, l, event

MCEventOf == (p1 :> event) @@ (p2 :> event)
Publishes == Permutations({p1, p2})
=============================================================================
