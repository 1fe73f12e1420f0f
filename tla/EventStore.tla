------------------------------ MODULE EventStore ------------------------------
(***************************************************************************)
(* One base: the log of its writers, linearised by Autobase, applied op by *)
(* op to the view.  A step is one node of the log and the whole of apply   *)
(* for it.  Autobase is external: it hands apply the blocks of the founder *)
(* and of the admitted writers, and the optimistic blocks of anyone.       *)
(* "Replicated ops are never trusted", so a writer may log any op.         *)
(***************************************************************************)
EXTENDS StoreView

CONSTANTS
  LegacyIds,  \* ids that may carry a string tombstone from the start
  Batches     \* the id lists that reclaim ops may carry

ASSUME EventStoreAssumption ==
  /\ LegacyIds \subseteq Id
  /\ Batches \subseteq SUBSET Id

VARIABLES
  view,       \* the materialised view
  halted,     \* apply met an op of a newer consensus version
  retracted   \* history: ids their own author has deleted in this log

vars == <<view, halted, retracted>>

Init ==
  /\ \E L \in SUBSET LegacyIds : view = EmptyView(L)
  /\ halted = FALSE
  /\ retracted = {}

(* The next node of the log is a non-optimistic block of w. *)
Logged(w) == ~halted /\ w \in MayWrite(view)

Put(w, e) ==
  /\ Logged(w)
  /\ view' = ApplyPut(view, e)
  /\ UNCHANGED <<halted, retracted>>

Delete(w, e) ==
  /\ Logged(w)
  /\ view' = ApplyDelete(view, e)
  /\ retracted' = retracted \cup
       {t \in Ev[e].etags : Ev[e].valid /\ Ev[t].pubkey = Ev[e].pubkey}
  /\ UNCHANGED halted

AddWriter(w, k) ==
  /\ Logged(w)
  /\ view' = ApplyAddWriter(view, w, k)
  /\ UNCHANGED <<halted, retracted>>

ExpiryDelete(w, S) ==
  /\ Logged(w)
  /\ view' = ApplyExpiryDelete(view, w, S)
  /\ UNCHANGED <<halted, retracted>>

PruneDelete(w, S) ==
  /\ Logged(w)
  /\ view' = ApplyPruneDelete(view, w, S)
  /\ UNCHANGED <<halted, retracted>>

SetConfig(w, value) ==
  /\ Logged(w)
  /\ view' = ApplySetConfig(view, w, value)
  /\ UNCHANGED <<halted, retracted>>

(* An optimistic block: an ordinary peer's put, or anything else, skipped. *)
OptimisticPut(e) ==
  /\ ~halted
  /\ view' = ApplyOptimistic(view, e)
  /\ UNCHANGED <<halted, retracted>>

(* host.interrupt on an op of a newer version: this peer applies no more. *)
Interrupt(w) ==
  /\ Logged(w)
  /\ halted' = TRUE
  /\ UNCHANGED <<view, retracted>>

Next ==
  \/ \E w \in Key, e \in Id : Put(w, e)
  \/ \E w \in Key, e \in Id : Delete(w, e)
  \/ \E w \in Key, k \in Key : AddWriter(w, k)
  \/ \E w \in Key, S \in Batches : ExpiryDelete(w, S)
  \/ \E w \in Key, S \in Batches : PruneDelete(w, S)
  \/ \E w \in Key, b \in BOOLEAN : SetConfig(w, b)
  \/ \E e \in Id : OptimisticPut(e)
  \/ \E w \in Key : Interrupt(w)

Spec == Init /\ [][Next]_vars

-----------------------------------------------------------------------------
(* Every variable has its type. *)
TypeOK ==
  /\ view \in View
  /\ halted \in BOOLEAN
  /\ retracted \subseteq Id

(* The primary sub, the indexes and the version pointers agree. *)
IndexConsistency == IndexesAgree(view)

(* Nothing inadmissible is stored, nor anything its author's (or a legacy) *)
(* tombstone excludes, by whichever handler and in whichever order.        *)
TombstoneExcludes == OnlyAdmissible(view) /\ TombstonesHold(view)

(* Nobody admits themselves, and the writers sub stays within its cap. *)
WritersRooted == AdmissionsRooted(view)

(***************************************************************************)
(* A stored event disappears only by a delete its own author signed, by an *)
(* expiry_delete of the founder if it declared an expiration, or by a      *)
(* prune_delete of the founder; never by a put, an optimistic block, an    *)
(* admission, or another writer's reclaim.                                 *)
(***************************************************************************)
Lost == view.events \ view'.events

RemovalIsAuthorised ==
  Lost # {} =>
    \/ \E e \in Id :
         /\ Ev[e].valid
         /\ \A t \in Lost : t \in Ev[e].etags /\ Ev[t].pubkey = Ev[e].pubkey
         /\ \E w \in Key : Delete(w, e)
    \/ \E S \in Batches :
         /\ \A t \in Lost : t \in S /\ Expires(t)
         /\ ExpiryDelete(Founder, S)
    \/ \E S \in Batches : Lost \subseteq S /\ PruneDelete(Founder, S)

RemovalsAuthorised == [][RemovalIsAuthorised]_vars

(***************************************************************************)
(* Reads never go back in a slot: a version that stays stored gives up its *)
(* place only to one that outranks it (created_at, then the lower id).     *)
(***************************************************************************)
VersionsMoveForward == [][MovesForward(view, view')]_vars

(* The base keeps what NostrSet promises of the events a query can return. *)
Visible == INSTANCE NostrSet WITH visible <- view.indexed

ImplementsNostrSet == Visible!SetSpec

-----------------------------------------------------------------------------
(* Claim of store.ts:488-490, architecture.md:158 and multiwriter-sync.md  *)
(* rule 6: an event its author deleted never comes back, whatever the      *)
(* order of the ops ("makes delete-before-put ordering safe").             *)
DeletedStaysOut == retracted \cap view.events = {}

(* Claim of architecture.md:429-431, "One per pubkey+kind, newer replaces  *)
(* older": the version a reader sees is the newest the base still stores.  *)
NewestIsVisible ==
  \A e \in view.events \cap Versioned :
    LET p == view.pointer[Slot(e)] IN
      p # None => p = e \/ ShouldReplace(e, p)

=============================================================================
