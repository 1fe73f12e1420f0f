------------------------------- MODULE NostrSet -------------------------------
(***************************************************************************)
(* What a base promises its readers, without logs, tombstones, pointers or *)
(* writers: a set of visible events (the ones a query can return) that     *)
(* grows by admissible events, keeps one version per slot, replaces a      *)
(* version only by one that outranks it, and loses events only to their    *)
(* own author or to reclamation by the base's owner.                       *)
(***************************************************************************)
EXTENDS Events

CONSTANT Batches   \* the id lists the base's owner may reclaim

VARIABLE visible

SetInit == visible = {}

(* e may join the visible set S: it is storable and outranks its rivals. *)
Acceptable(e, S) ==
  /\ Admissible(e)
  /\ ~Ephemeral(e)
  /\ \A o \in S : Rivals(e, o) => ShouldReplace(o, e)

Joined(e, S) == {o \in S : ~Rivals(e, o)} \cup {e}

Accept(e) == Acceptable(e, visible) /\ visible' = Joined(e, visible)

(* e retracts every event of its author that it names, and may join. *)
Retract(e) ==
  LET kept == {t \in visible : t \notin Ev[e].etags \/ Ev[t].pubkey # Ev[e].pubkey} IN
    /\ Ev[e].valid
    /\ \/ visible' = kept
       \/ Acceptable(e, kept) /\ visible' = Joined(e, kept)

(* The owner reclaims a list of events, or the expiring events of a list. *)
Reclaim(S) ==
  \/ visible' = visible \ S
  \/ visible' = {e \in visible : e \notin S \/ ~Expires(e)}

SetNext ==
  \/ \E e \in Id : Accept(e)
  \/ \E e \in Id : Retract(e)
  \/ \E S \in Batches : Reclaim(S)

SetSpec == SetInit /\ [][SetNext]_visible

=============================================================================
