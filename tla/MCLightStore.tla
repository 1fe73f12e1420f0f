---------------------------- MODULE MCLightStore ----------------------------
(***************************************************************************)
(* The owner's contact list names a friend (1) and comes by another        *)
(* writer.  The friend's mute list names the owner and a newcomer (2), who *)
(* are muted as long as half of those the owner follows say so.  The       *)
(* newcomer has three notes (3, 4, 5) and deletes the first (6).           *)
(***************************************************************************)
EXTENDS LightStore, TLC

CONSTANTS owner, friend, newcomer, node

Note == [pubkey |-> newcomer, kind |-> 1, created_at |-> 1, d |-> "", etags |-> {},
         expiration |-> None, protected |-> FALSE, valid |-> TRUE]

MCEv ==
  << [Note EXCEPT !.pubkey = owner, !.kind = 3],
     [Note EXCEPT !.pubkey = friend, !.kind = 10000],
     Note, [Note EXCEPT !.created_at = 2], Note,
     [Note EXCEPT !.kind = 5, !.etags = {3}] >>

MCPTags  == << {friend}, {owner, newcomer}, {}, {}, {}, {} >>
MCPubkey == {owner, friend, newcomer}
=============================================================================
