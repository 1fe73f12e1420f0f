------------------------------ MODULE StoreView ------------------------------
(***************************************************************************)
(* The materialised view of one base and the apply function that every     *)
(* peer re-runs over the linearised log (src/storage/store.ts).  A view is *)
(* a record and each handler of apply is an operator from a view to the    *)
(* next one, so that the modules with state (EventStore, Replica) share    *)
(* one definition of the consensus rules, as the peers share apply.        *)
(*                                                                         *)
(*   events    ids in the "events" sub                                     *)
(*   indexed   ids in the kind/author/authorKind/createdAt/tag and         *)
(*             expiration subs, which the code always writes and deletes   *)
(*             together under keys the event determines                    *)
(*   pointer   the "replaceable" and "addressable" subs: slot -> id        *)
(*   deletion  the "deletion" sub: the pubkey of an object tombstone, or   *)
(*             Legacy for a pre-upgrade string tombstone                   *)
(*   addedBy   the "writers" sub                                           *)
(*   accept    the accept_optimistic flag of the "config" sub              *)
(***************************************************************************)
EXTENDS Events, FiniteSets

CONSTANTS
  Key,         \* writer keys, the founder's included
  Founder,     \* the base key: the founder's own writer key
  MaxWriters,  \* MAX_WRITERS (64 in the code)
  Legacy       \* a string tombstone

ASSUME StoreAssumption ==
  /\ Founder \in Key
  /\ MaxWriters \in Nat
  /\ IsFiniteSet(Key)
  /\ None \notin Key
  /\ Legacy \notin Pubkey \cup {None}

View ==
  [events   : SUBSET Id,
   indexed  : SUBSET Id,
   pointer  : [SlotKey -> Id \cup {None}],
   deletion : [Id -> Pubkey \cup {Legacy, None}],
   addedBy  : [Key -> Key \cup {None}],
   accept   : BOOLEAN]

(* A view before any op: empty but for the string tombstones it migrated. *)
EmptyView(legacyIds) ==
  [events   |-> {},
   indexed  |-> {},
   pointer  |-> [s \in SlotKey |-> None],
   deletion |-> [e \in Id |-> IF e \in legacyIds THEN Legacy ELSE None],
   addedBy  |-> [k \in Key |-> None],
   accept   |-> FALSE]

Writers(v)  == {k \in Key : v.addedBy[k] # None}
MayWrite(v) == Writers(v) \cup {Founder}   \* whose non-optimistic blocks Autobase honours

-----------------------------------------------------------------------------
RemoveIndexesAnyPointer(v, S) ==
  [v EXCEPT !.indexed = @ \ S,
            !.pointer = [s \in SlotKey |->
                           IF \E e \in S \cap Versioned : Slot(e) = s
                           THEN None ELSE v.pointer[s]]]

(***************************************************************************)
(* removeIndexes of each event of S: the pointer of its slot goes only     *)
(* when it still references the event.                                     *)
(***************************************************************************)
RemoveIndexes(v, S) ==
  [v EXCEPT !.indexed = @ \ S,
            !.pointer = [s \in SlotKey |->
                           IF v.pointer[s] \in S THEN None ELSE v.pointer[s]]]

RemoveEvents(v, S) == [RemoveIndexes(v, S) EXCEPT !.events = @ \ S]

-----------------------------------------------------------------------------
BlockedByLegacyOnly(v, e) == v.deletion[e] = Legacy

(* applyPut: the tombstone check. *)
BlockedByTombstone(v, e) == v.deletion[e] \in {Legacy, Ev[e].pubkey}

(* The stored version the pointer of e's slot references, if any. *)
Previous(v, e) ==
  IF e \in Versioned THEN {v.pointer[Slot(e)]} \cap v.events ELSE {}

PutStoresNoRank(v, e) ==
  /\ Admissible(e)
  /\ e \notin v.events
  /\ ~BlockedByTombstone(v, e)
  /\ ~Ephemeral(e)

(* applyPut stores e, rather than skipping it at one of its early returns. *)
PutStores(v, e) ==
  /\ Admissible(e)
  /\ e \notin v.events                                  \* dedup
  /\ ~BlockedByTombstone(v, e)
  /\ \A p \in Previous(v, e) : ShouldReplace(p, e)
  /\ ~Ephemeral(e)

StoreAlwaysPoints(v, e) ==
  [v EXCEPT !.events  = @ \cup {e},
            !.indexed = @ \cup {e},
            !.pointer = [s \in SlotKey \cup {Slot(e)} |->
                           IF s = Slot(e) THEN e ELSE v.pointer[s]]]

(* applyPut: the writes of a put that stores e. *)
Store(v, e) ==
  [v EXCEPT !.events  = @ \cup {e},
            !.indexed = @ \cup {e},
            !.pointer = IF e \in Versioned THEN [@ EXCEPT ![Slot(e)] = e] ELSE @]

ApplyPutKeepOld(v, e) == IF PutStores(v, e) THEN Store(v, e) ELSE v

(* applyPut: a superseded version leaves the indexes but stays in events. *)
ApplyPut(v, e) ==
  IF PutStores(v, e) THEN Store(RemoveIndexes(v, Previous(v, e)), e) ELSE v

-----------------------------------------------------------------------------
DeletableAnyAuthor(v, e) == Ev[e].etags \cap v.events

(* applyDelete: only the author's own stored events go. *)
Deletable(v, e) == {t \in Ev[e].etags \cap v.events : Ev[t].pubkey = Ev[e].pubkey}

Entomb(v, e) ==
  [v EXCEPT !.deletion = [t \in Id |-> IF t \in Ev[e].etags THEN Ev[e].pubkey ELSE @[t]]]

(***************************************************************************)
(* applyDelete: remove the author's targets, overwrite the tombstone of    *)
(* every target, then store the deletion event itself.  The handler never  *)
(* looks at the kind of the event that a delete op carries.                *)
(***************************************************************************)
ApplyDelete(v, e) ==
  IF Ev[e].valid
  THEN ApplyPut(Entomb(RemoveEvents(v, Deletable(v, e)), e), e)
  ELSE v

-----------------------------------------------------------------------------
ApplyAddWriterAgain(v, from, k) ==
  IF k # Founder /\ (k \in Writers(v) \/ Cardinality(Writers(v)) < MaxWriters)
  THEN [v EXCEPT !.addedBy[k] = from]
  ELSE v

ApplyAddWriterNoCap(v, from, k) ==
  IF k # Founder /\ k \notin Writers(v) THEN [v EXCEPT !.addedBy[k] = from] ELSE v

ApplyAddWriterMakesRoom(v, from, k) ==
  IF k # Founder /\ k \notin Writers(v)
  THEN [v EXCEPT !.addedBy =
          [o \in Key |-> IF o = k THEN from
                         ELSE IF Cardinality(Writers(v)) < MaxWriters \/ o = from
                              THEN @[o] ELSE None]]
  ELSE v

(* applyAddWriter: never the founder, never twice, never above the cap. *)
ApplyAddWriter(v, from, k) ==
  IF /\ k # Founder
     /\ k \notin Writers(v)
     /\ Cardinality(Writers(v)) < MaxWriters
  THEN [v EXCEPT !.addedBy[k] = from]
  ELSE v

(* applyExpiryDelete: the founder's op, and only events that carry the tag. *)
ApplyExpiryDelete(v, from, S) ==
  IF from = Founder
  THEN RemoveEvents(v, {e \in S \cap v.events : Expires(e)})
  ELSE v

(* applyPruneDelete: the founder's op, whatever the events. *)
ApplyPruneDelete(v, from, S) ==
  IF from = Founder THEN RemoveEvents(v, S \cap v.events) ELSE v

(* applySetConfig: the founder's op. *)
ApplySetConfig(v, from, value) ==
  IF from = Founder THEN [v EXCEPT !.accept = value] ELSE v

(***************************************************************************)
(* applyOptimistic of a put by a peer that is not a writer.  Any other op  *)
(* on an optimistic block, and a put of a future version, is skipped.  The *)
(* block is acked (kept by Autobase) exactly when this condition holds.    *)
(***************************************************************************)
OptimisticAcked(v, e) == v.accept /\ Admissible(e)

ApplyOptimistic(v, e) == IF OptimisticAcked(v, e) THEN ApplyPut(v, e) ELSE v

-----------------------------------------------------------------------------
(***************************************************************************)
(* Predicates of a view, for the invariants of the modules that hold one.  *)
(*                                                                         *)
(* The primary sub, the secondary indexes and the version pointers agree:  *)
(* an index never outlives its event, a regular event is always indexed,   *)
(* and of the versions of a slot exactly the one the pointer references is *)
(* indexed (removeIndexes must not orphan a replacement's pointer).        *)
(***************************************************************************)
IndexesAgree(v) ==
  /\ v.indexed \subseteq v.events
  /\ \A e \in v.events : e \in v.indexed \/ e \in Versioned
  /\ \A e \in Versioned : e \in v.indexed <=> v.pointer[Slot(e)] = e
  /\ \A s \in SlotKey : v.pointer[s] # None =>
       v.pointer[s] \in Versioned /\ Slot(v.pointer[s]) = s

(* No forged, protected (NIP-70) or ephemeral event is stored. *)
OnlyAdmissible(v) == \A e \in v.events : Admissible(e) /\ ~Ephemeral(e)

(***************************************************************************)
(* While the tombstone of an event is its author's, or a legacy one, the   *)
(* event is not stored: the delete removed it if it came first, and        *)
(* applyPut refuses it if it comes later or again.                         *)
(***************************************************************************)
TombstonesHold(v) == \A e \in v.events : v.deletion[e] \notin {Legacy, Ev[e].pubkey}

(***************************************************************************)
(* The writers sub: never the founder, never above the cap, and every      *)
(* admission traces back to the founder, so no set of writers admitted     *)
(* itself (applyAddWriter trusts whoever Autobase lets write).             *)
(***************************************************************************)
AdmissionsRooted(v) ==
  /\ Founder \notin Writers(v)
  /\ Cardinality(Writers(v)) <= MaxWriters
  /\ \A k \in Writers(v) : v.addedBy[k] \in MayWrite(v)
  /\ \A S \in SUBSET Writers(v) : S # {} => \E k \in S : v.addedBy[k] \notin S

(***************************************************************************)
(* From v to w, reads do not go back in any slot: a version that stays     *)
(* stored gives up its place only to one that outranks it.                 *)
(***************************************************************************)
MovesForward(v, w) ==
  \A s \in SlotKey :
    (v.pointer[s] \in w.events /\ w.pointer[s] # v.pointer[s])
    => w.pointer[s] # None /\ ShouldReplace(v.pointer[s], w.pointer[s])

ViewInv(v) ==
  /\ v \in View
  /\ IndexesAgree(v)
  /\ OnlyAdmissible(v)
  /\ TombstonesHold(v)
  /\ AdmissionsRooted(v)

=============================================================================
