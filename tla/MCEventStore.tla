----------------------------- MODULE MCEventStore -----------------------------
(***************************************************************************)
(* A small log for EventStore: a note with an expiration that its author   *)
(* deletes (2) and another pubkey also targets (3), three versions of a    *)
(* replaceable slot of which two tie on created_at and the oldest names    *)
(* the newest in an "e" tag (4, 5, 6), a delete of the newest (7), and a   *)
(* protected addressable event (8).  Requests by every index, with limits  *)
(* below the matches, bounds inside and beyond the width, and ids whole or *)
(* not; the clock stands before or after the expiration.                   *)
(***************************************************************************)
EXTENDS Reads, TLC

CONSTANTS alice, bob, f, a, b

Note == [pubkey |-> alice, kind |-> 1, created_at |-> 1, d |-> "", etags |-> {},
         expiration |-> None, protected |-> FALSE, valid |-> TRUE]

MCEv ==
  << [Note EXCEPT !.expiration = 5],
     [Note EXCEPT !.kind = 5, !.etags = {1}],
     [Note EXCEPT !.kind = 5, !.etags = {1}, !.pubkey = bob],
     [Note EXCEPT !.kind = 0, !.etags = {5}],
     [Note EXCEPT !.kind = 0, !.created_at = 2],
     [Note EXCEPT !.kind = 0, !.created_at = 2],
     [Note EXCEPT !.kind = 5, !.etags = {5}],
     [Note EXCEPT !.kind = 30000, !.pubkey = bob, !.protected = TRUE] >>

MCPubkey    == {alice, bob}
MCKey       == {f, a, b}
MCLegacyIds == {1}
Joiners     == Permutations({a, b})
MCBatches   == {{1, 6}, {2, 7}}

Ask == [ids |-> None, fullIds |-> TRUE, authors |-> None, kinds |-> None, e |-> None,
        since |-> None, until |-> None, limit |-> 2]

MCRequests ==
  { {[Ask EXCEPT !.ids = {1, 4, 6}]},
    {[Ask EXCEPT !.ids = {1, 4, 6}, !.fullIds = FALSE]},
    {[Ask EXCEPT !.authors = {alice, bob}, !.kinds = {0, 5}, !.limit = 1]},
    {[Ask EXCEPT !.authors = {alice, bob}, !.since = 1, !.until = 1]},
    {[Ask EXCEPT !.kinds = {0, 1, 5}], [Ask EXCEPT !.authors = {bob}]},
    {[Ask EXCEPT !.e = {1, 5}, !.limit = 1], [Ask EXCEPT !.kinds = {}]},
    {[Ask EXCEPT !.e = {1, 5}, !.since = 2]},
    {[Ask EXCEPT !.until = 1, !.limit = 1]},
    {[Ask EXCEPT !.until = 9], [Ask EXCEPT !.since = -1]},
    {[Ask EXCEPT !.limit = 1]} }

MCClock == {4, 5}
=============================================================================
