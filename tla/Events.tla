-------------------------------- MODULE Events --------------------------------
(***************************************************************************)
(* Nostr events and the pure predicates on them that the relay's consensus *)
(* rules consult (src/nostr/events.ts and the slot keys of                 *)
(* src/util/keys.ts).                                                      *)
(*                                                                         *)
(* An event is its id; Ev gives the attributes the rules tell apart.  Ids  *)
(* are numbers so that "the lower id wins" is <, the order of the hex ids. *)
(* valid stands for validateEventStructure /\ verifyEventSignature: an     *)
(* event with valid = FALSE is a forged or malformed one a log may carry.  *)
(***************************************************************************)
EXTENDS Integers

CONSTANTS
  Ev,      \* the events of the instance: a function from ids to attributes
  Pubkey,  \* the authors
  DTag,    \* the values of "d" tags
  None     \* no expiration, no pointer, no tombstone, no admitter

Id == DOMAIN Ev

EventRecord ==
  [pubkey     : Pubkey,
   kind       : Nat,
   created_at : Int,
   d          : DTag,
   etags      : SUBSET Id,
   expiration : Int \cup {None},
   protected  : BOOLEAN,
   valid      : BOOLEAN]

ASSUME EventsAssumption ==
  /\ Id \subseteq Nat
  /\ Ev \in [Id -> EventRecord]
  /\ None \notin Id
  /\ None \notin Pubkey
  /\ None \notin Int

(* The id of a verified event is the hash of its content, tags included. *)
ASSUME HashAssumption == \A e \in Id : Ev[e].valid => e \notin Ev[e].etags

-----------------------------------------------------------------------------
(* classifyKind *)
ClassifyKind(kind) ==
  CASE kind \in {0, 3} \/ kind \in 10000 .. 19999 -> "replaceable"
    [] kind \in 20000 .. 29999                    -> "ephemeral"
    [] kind \in 30000 .. 39999                    -> "addressable"
    [] OTHER                                      -> "regular"

Class(e)     == ClassifyKind(Ev[e].kind)
Versioned    == {e \in Id : Class(e) \in {"replaceable", "addressable"}}
Ephemeral(e) == Class(e) = "ephemeral"

IsDeletion(e) == Ev[e].kind = 5
Expires(e)    == Ev[e].expiration # None

(* Every gate that applyPut and applyOptimistic put before a stored event. *)
Admissible(e) == Ev[e].valid /\ ~Ev[e].protected

(***************************************************************************)
(* replaceableKey and addressableKey: the slot of which an event is one    *)
(* version.                                                                *)
(***************************************************************************)
Slot(e) ==
  IF Class(e) = "replaceable"
  THEN <<Ev[e].pubkey, Ev[e].kind>>
  ELSE <<Ev[e].pubkey, Ev[e].kind, Ev[e].d>>

SlotKey == {Slot(e) : e \in Versioned}

Rivals(e, o) == e # o /\ e \in Versioned /\ o \in Versioned /\ Slot(e) = Slot(o)

(* shouldReplace: newer created_at, and the lower id on a tie. *)
ShouldReplace(existing, incoming) ==
  \/ Ev[incoming].created_at > Ev[existing].created_at
  \/ /\ Ev[incoming].created_at = Ev[existing].created_at
     /\ incoming < existing

=============================================================================
