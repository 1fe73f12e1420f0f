-------------------------------- MODULE Calls --------------------------------
(***************************************************************************)
(* What src/primal-shim/upstream.ts promises the verbs that await it: a    *)
(* call settles in the end, once, with a truthful answer or a failure, and *)
(* settles for good whatever happens to the connections underneath.        *)
(***************************************************************************)
CONSTANT Call

VARIABLE status

States == {"idle", "pending", "answered", "failed"}

Init == status = [c \in Call |-> "idle"]

(* A call that finds no connected socket fails before it begins. *)
Issue(c) ==
  /\ status[c] = "idle"
  /\ \E r \in {"pending", "failed"} : status' = [status EXCEPT ![c] = r]

Settle(C) ==
  /\ C # {}
  /\ \A c \in C : status[c] = "pending"
  /\ \E r \in [C -> {"answered", "failed"}] :
       status' = [c \in Call |-> IF c \in C THEN r[c] ELSE status[c]]

Next ==
  \/ \E c \in Call : Issue(c)
  \/ \E C \in SUBSET Call : Settle(C)

Spec == Init /\ [][Next]_status

(* Every call settles. *)
Settles == \A c \in Call : (status[c] = "pending") ~> (status[c] # "pending")

FairSpec == Spec /\ Settles
=============================================================================
