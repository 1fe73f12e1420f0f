------------------------------ MODULE MCReplica ------------------------------
(***************************************************************************)
(* A founder, this peer, another one and one place for a writer, with a    *)
(* log of up to MaxNodes nodes over a note (1), its author's delete of it  *)
(* (2) and another author's note (3).                                      *)
(***************************************************************************)
EXTENDS Replica

CONSTANTS alice, bob, f, j, k

Note == [pubkey |-> alice, kind |-> 1, created_at |-> 1, d |-> "", etags |-> {},
         expiration |-> None, protected |-> FALSE, valid |-> TRUE]

MCEv ==
  << Note,
     [Note EXCEPT !.kind = 5, !.etags = {1}],
     [Note EXCEPT !.pubkey = bob, !.expiration = 5] >>

MCPubkey  == {alice, bob}
MCKey     == {f, j, k}
MCBatches == {{1, 3}}
MCRemote  ==
  {[type |-> "put", from |-> f, event |-> 1],
   [type |-> "delete", from |-> k, event |-> 2],
   [type |-> "add_writer", from |-> f, key |-> j],
   [type |-> "add_writer", from |-> f, key |-> k],
   [type |-> "add_writer", from |-> k, key |-> k],
   [type |-> "expiry_delete", from |-> f, ids |-> {1, 3}],
   [type |-> "prune_delete", from |-> f, ids |-> {1, 3}],
   [type |-> "set_config", from |-> f, value |-> TRUE]}
=============================================================================
