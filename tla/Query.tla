-------------------------------- MODULE Query --------------------------------
(***************************************************************************)
(* Reads of a view (src/storage/query.ts, src/nostr/filters.ts and the     *)
(* time keys of src/util/keys.ts): the index a filter is served from, its  *)
(* range of inverted 32-bit timestamps, the match cap of each scanned      *)
(* value, and the merge; and listExpired, which the founder reclaims by.   *)
(*                                                                         *)
(* A request is a set of filters.  None is a field left out.  A field ids  *)
(* holds the ids that its values begin, fullIds that all are whole; other  *)
(* values are whole.  Of the tag filters "#e" stands for the first; NIP-50 *)
(* search, one more test of an event's content, is left out.               *)
(***************************************************************************)
EXTENDS StoreView, FiniteSetsExt

CONSTANTS
  Width,       \* 2^32: the timestamps that a key can hold
  CountLimit   \* the limit of a COUNT's queries

ASSUME QueryAssumption == Width \in Nat \ {0} /\ CountLimit \in Nat

Optional(S) == {None} \cup S

Filter ==
  [ids : Optional(SUBSET Id), fullIds : BOOLEAN, authors : Optional(SUBSET Pubkey),
   kinds : Optional(SUBSET Nat), e : Optional(SUBSET Id),
   since : Optional(Int), until : Optional(Int), limit : Nat]

Expired(e, now) == Expires(e) /\ Ev[e].expiration <= now

MatchFilter(f, e) ==
  /\ f.ids # None => e \in f.ids
  /\ f.authors # None => Ev[e].pubkey \in f.authors
  /\ f.kinds # None => Ev[e].kind \in f.kinds
  /\ f.since # None => Ev[e].created_at >= f.since
  /\ f.until # None => Ev[e].created_at <= f.until
  /\ f.e \notin {None, {}} => f.e \cap Ev[e].etags # {}

-----------------------------------------------------------------------------
(* >>> 0: a time that 32 bits do not hold wraps. *)
InvertTimestamp(ts) == (Width - 1 - ts) % Width

Inverted(e) == InvertTimestamp(Ev[e].created_at)

(* The order of the keys of one index value, and compareNewestFirst. *)
KeyBefore(d, e) == Inverted(d) < Inverted(e) \/ (Inverted(d) = Inverted(e) /\ d < e)
NewestFirst(d, e) ==
  \/ Ev[d].created_at > Ev[e].created_at
  \/ Ev[d].created_at = Ev[e].created_at /\ d < e

FirstKeys(S, n) == {e \in S : Cardinality({d \in S : KeyBefore(d, e)}) < n}
Newest(S, n)    == {e \in S : Cardinality({d \in S : NewestFirst(d, e)}) < n}

(* timeRangeForPrefix, timeRangeForCreatedAt: until bounds from below. *)
TimeRange(f, S) ==
  {e \in S : /\ f.until # None => Inverted(e) >= InvertTimestamp(f.until)
             /\ f.since # None => Inverted(e) <= InvertTimestamp(f.since)}

ScanIndexCapsEntries(v, f, now, cap, S, seen) ==
  seen \cup {e \in FirstKeys(TimeRange(f, S \cap v.events) \ seen, cap) :
               MatchFilter(f, e) /\ ~Expired(e, now)}

(* scanIndex: the entries S of one index value, at most cap new matches. *)
ScanIndex(v, f, now, cap, S, seen) ==
  seen \cup FirstKeys({e \in TimeRange(f, S \cap v.events) \ seen :
                         MatchFilter(f, e) /\ ~Expired(e, now)}, cap)

Given(x) == x \notin {None, {}}
ByIds(f) == Given(f.ids) /\ f.fullIds

(* The index a filter is served from: the entries of each of its values. *)
Values(v, f) ==
  CASE Given(f.authors) /\ Given(f.kinds) ->
         {{e \in v.indexed : Ev[e].pubkey = a /\ Ev[e].kind = k} : a \in f.authors, k \in f.kinds}
    [] Given(f.authors) /\ ~Given(f.kinds) ->
         {{e \in v.indexed : Ev[e].pubkey = a} : a \in f.authors}
    [] ~Given(f.authors) /\ Given(f.kinds) ->
         {{e \in v.indexed : Ev[e].kind = k} : k \in f.kinds}
    [] ~Given(f.authors) /\ ~Given(f.kinds) /\ Given(f.e) ->
         {{e \in v.indexed : t \in Ev[e].etags} : t \in f.e}
    [] OTHER -> {v.indexed}

(* queryFilter: the events it returns, newest first. *)
QueryFilter(v, f, now, limit) ==
  LET found == IF ByIds(f)
               THEN {e \in f.ids \cap v.events : MatchFilter(f, e) /\ ~Expired(e, now)}
               ELSE FoldSet(LAMBDA S, seen : ScanIndex(v, f, now, limit, S, seen),
                            {}, Values(v, f))
  IN Newest(found, limit)

(* queryFilters and countFilters, of the filters F of a request. *)
QueryFilters(v, F, now) == UNION {QueryFilter(v, f, now, f.limit) : f \in F}
CountFilters(v, F, now) == Cardinality(UNION {QueryFilter(v, f, now, CountLimit) : f \in F})

-----------------------------------------------------------------------------
(* expirationKey inverts twice. *)
ExpirationKey(e) == InvertTimestamp(Width - 1 - Ev[e].expiration)

ExpiresBefore(d, e) ==
  ExpirationKey(d) < ExpirationKey(e) \/ (ExpirationKey(d) = ExpirationKey(e) /\ d < e)

(* listExpired: the oldest expiries up to now, at most limit. *)
ListExpired(v, now, limit) ==
  LET due == {e \in v.indexed : Expires(e) /\ ExpirationKey(e) <= now % Width}
  IN {e \in due : Cardinality({d \in due : ExpiresBefore(d, e)}) < limit}

-----------------------------------------------------------------------------
(***************************************************************************)
(* What reads should be.  A lookup by whole ids also finds versions that   *)
(* were superseded, which stay in the events sub; every other filter finds *)
(* what is indexed.                                                        *)
(***************************************************************************)
Matching(v, f, now) ==
  {e \in IF ByIds(f) THEN v.events ELSE v.indexed : MatchFilter(f, e) /\ ~Expired(e, now)}

Fits(t) == t = None \/ t \in 0 .. Width - 1

(* The times of the view and of a filter that the keys hold unwrapped. *)
FitsWidth(v, f) ==
  Fits(f.since) /\ Fits(f.until) /\ \A e \in v.indexed : Fits(Ev[e].created_at)

(***************************************************************************)
(* A request is answered with the newest matches of each filter, as many   *)
(* as its limit, whichever index served it and however its values share    *)
(* the work; never with an event that does not match or has expired, even  *)
(* when a bound wraps.  COUNT counts each match once.                      *)
(***************************************************************************)
AnswersExact(v, F, now) ==
  /\ QueryFilters(v, F, now) \subseteq UNION {Matching(v, f, now) : f \in F}
  /\ (\A f \in F : FitsWidth(v, f)) =>
       /\ QueryFilters(v, F, now) = UNION {Newest(Matching(v, f, now), f.limit) : f \in F}
       /\ LET all == UNION {Matching(v, f, now) : f \in F} IN
            Cardinality(all) <= CountLimit => CountFilters(v, F, now) = Cardinality(all)

(* The founder is given only events that have expired, the first ones, and *)
(* misses none that is indexed.                                            *)
ReclaimsExpired(v, now, limit) ==
  (\A e \in v.indexed : Fits(Ev[e].expiration)) =>
    LET due    == {e \in v.indexed : Expired(e, now)}
        listed == ListExpired(v, now, limit)
    IN /\ listed \subseteq due
       /\ listed # due =>
            /\ Cardinality(listed) = limit
            /\ \A e \in listed, d \in due \ listed : Ev[e].expiration <= Ev[d].expiration

=============================================================================
