------------------------------- MODULE MCRelay -------------------------------
(***************************************************************************)
(* A founder f that admits this peer j and another writer g, which admits  *)
(* a third, k, while there are places for two.  The events are a profile   *)
(* (1), a newer version of it (2), its author's delete of the first (3),   *)
(* an ephemeral (4) and a protected (5) event.  One client has room for    *)
(* one subscription, under two ids.                                        *)
(***************************************************************************)
EXTENDS Relay

CONSTANTS alice, f, g, j, k, c, s, t

Profile == [pubkey |-> alice, kind |-> 0, created_at |-> 1, d |-> "", etags |-> {},
            expiration |-> None, protected |-> FALSE, valid |-> TRUE]

MCEv ==
  << Profile,
     [Profile EXCEPT !.created_at = 2],
     [Profile EXCEPT !.kind = 5, !.etags = {1}],
     [Profile EXCEPT !.kind = 20001],
     [Profile EXCEPT !.protected = TRUE] >>

MCPubkey  == {alice}
MCKey     == {f, g, j, k}
MCBatches == {{}}
MCFilters == {{1, 4}}
SubIds    == Permutations({s, t})

MCRemote  ==
  {[type |-> "add_writer", from |-> f, key |-> g],
   [type |-> "add_writer", from |-> f, key |-> j],
   [type |-> "add_writer", from |-> g, key |-> k],
   [type |-> "put", from |-> f, event |-> 1],
   [type |-> "delete", from |-> f, event |-> 3],
   [type |-> "set_config", from |-> f, value |-> TRUE]}

(* Bounds: a log of two nodes and no third writer while the client has a   *)
(* subscription or a query; beyond it, puts of this peer and the race of   *)
(* writers.  A read-only replica is offered the first version only, once   *)
(* the founder has written the policy that lets it accept.                 *)
NoSession   == connections = Conn /\ reading = {} /\ \A x \in Slots : subs[x] = None
OwnPuts     == \A i \in DOMAIN order : order[i].type = "put" => order[i].from = j
OnlyAdmitsJ == \A i \in DOMAIN order : order[i].type = "add_writer" => order[i].key = j

Bounds ==
  /\ offered \subseteq {1}
  /\ offered # {} => \E i \in DOMAIN order : order[i].type = "set_config"
  /\ \/ Len(order) <= 2 /\ OnlyAdmitsJ
     \/ NoSession /\ OwnPuts
=============================================================================
