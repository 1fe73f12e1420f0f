-------------------------------- MODULE Reads --------------------------------
(***************************************************************************)
(* What is asked of a base while its log grows: the requests of clients    *)
(* (src/ws/handler.ts) and the founder's sweep of the expired              *)
(* (src/relay.ts).                                                         *)
(***************************************************************************)
EXTENDS EventStore, Query

CONSTANTS
  Requests,  \* the filters of the REQs and COUNTs that clients may send
  Clock,     \* the times at which requests are answered and sweeps run
  Sweep      \* EXPIRY_DELETE_BATCH

ASSUME ReadsAssumption ==
  /\ Requests \subseteq SUBSET Filter
  /\ Clock \subseteq 0 .. Width - 1
  /\ Sweep \in Nat

(***************************************************************************)
(* In every view of the log, REQ and COUNT are answered exactly from any   *)
(* index, and the founder reclaims exactly what has expired (query.ts and  *)
(* listExpired).                                                           *)
(***************************************************************************)
ReadsAreExact ==
  \A now \in Clock :
    /\ \A F \in Requests : AnswersExact(view, F, now)
    /\ ReclaimsExpired(view, now, Sweep)
=============================================================================
