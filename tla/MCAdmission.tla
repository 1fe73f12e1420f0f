----------------------------- MODULE MCAdmission -----------------------------
(***************************************************************************)
(* The founder and a joiner that grants in turn once it is admitted, a     *)
(* second joiner, two connections and room for one or two writers.  The    *)
(* stray request replays the proof of the first connection.                *)
(***************************************************************************)
EXTENDS Admission

CONSTANTS f, a, b, c1, c2

MCEv     == << >>
MCStrays == {[key |-> b, proof |-> [invited |-> TRUE, conn |-> c1, key |-> b]]}
=============================================================================
