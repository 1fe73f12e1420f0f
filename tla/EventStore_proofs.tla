-------------------------- MODULE EventStore_proofs --------------------------
(***************************************************************************)
(* EventStore keeps its view consistent, for every set of events, writers  *)
(* and caps.  The inductive invariant is ViewInv of the view: the indexes  *)
(* agree only because nothing inadmissible is stored under a pointer, and  *)
(* admissions stay rooted only because a candidate does not write yet.     *)
(* What is read of it is exact: the last part, on finite sets, folds and   *)
(* the first elements of an order, leads to ReadsStayExact.                *)
(***************************************************************************)
EXTENDS Reads, StoreView_proofs, WellFoundedInduction

IInv == ViewInv(view) /\ halted \in BOOLEAN /\ retracted \subseteq Id

LEMMA InitIInv == Init => IInv
  BY EmptyViewInv, EventStoreAssumption DEF Init, IInv

LEMMA ViewStep ==
  ASSUME IInv, Next
  PROVE  ViewInv(view')
<1>1. ViewInv(view)
  BY DEF IInv
<1>2. ASSUME NEW w \in Key, NEW e \in Id, Put(w, e)
      PROVE  ViewInv(view')
  BY <1>1, <1>2, ApplyPutKeepsInv DEF Put
<1>3. ASSUME NEW w \in Key, NEW e \in Id, Delete(w, e)
      PROVE  ViewInv(view')
  BY <1>1, <1>3, ApplyDeleteKeepsInv DEF Delete
<1>4. ASSUME NEW w \in Key, NEW k \in Key, AddWriter(w, k)
      PROVE  ViewInv(view')
  BY <1>1, <1>4, AddWriterKeepsInv DEF AddWriter, Logged
<1>5. ASSUME NEW w \in Key, NEW S \in Batches, ExpiryDelete(w, S)
      PROVE  ViewInv(view')
  BY <1>1, <1>5, ExpiryDeleteKeepsInv DEF ExpiryDelete
<1>6. ASSUME NEW w \in Key, NEW S \in Batches, PruneDelete(w, S)
      PROVE  ViewInv(view')
  BY <1>1, <1>6, PruneDeleteKeepsInv DEF PruneDelete
<1>7. ASSUME NEW w \in Key, NEW b \in BOOLEAN, SetConfig(w, b)
      PROVE  ViewInv(view')
  BY <1>1, <1>7, SetConfigKeepsInv DEF SetConfig
<1>8. ASSUME NEW e \in Id, OptimisticPut(e)
      PROVE  ViewInv(view')
  BY <1>1, <1>8, OptimisticKeepsInv DEF OptimisticPut
<1>9. ASSUME NEW w \in Key, Interrupt(w)
      PROVE  ViewInv(view')
  BY <1>1, <1>9 DEF Interrupt
<1>10. QED
  BY <1>2, <1>3, <1>4, <1>5, <1>6, <1>7, <1>8, <1>9 DEF Next

LEMMA StepIInv == IInv /\ [Next]_vars => IInv'
<1> SUFFICES ASSUME IInv, [Next]_vars
             PROVE  IInv'
  OBVIOUS
<1>1. CASE Next
  <2>1. ViewInv(view')
    BY <1>1, ViewStep
  <2>2. halted' \in BOOLEAN
    BY <1>1 DEF IInv, Next, Put, Delete, AddWriter, ExpiryDelete, PruneDelete,
                SetConfig, OptimisticPut, Interrupt
  <2>3. retracted' \subseteq Id
    <3>1. \A e \in Id : Ev[e].etags \subseteq Id
      BY EventsAssumption DEF EventRecord
    <3>2. QED
      BY <1>1, <3>1 DEF IInv, Next, Put, Delete, AddWriter, ExpiryDelete, PruneDelete,
                        SetConfig, OptimisticPut, Interrupt
  <2>4. QED
    BY <2>1, <2>2, <2>3 DEF IInv
<1>2. CASE UNCHANGED vars
  BY <1>2 DEF IInv, vars
<1>3. QED
  BY <1>1, <1>2

LEMMA Invariance == Spec => []IInv
  BY InitIInv, StepIInv, PTL DEF Spec

(* Every variable keeps its type. *)
THEOREM TypeCorrect == Spec => []TypeOK
<1>1. IInv => TypeOK
  BY DEF IInv, ViewInv, TypeOK
<1>2. QED
  BY <1>1, Invariance, PTL

(***************************************************************************)
(* The primary sub, the indexes and the version pointers never disagree,   *)
(* whatever sequence of ops the writers log.                               *)
(***************************************************************************)
THEOREM IndexesStayConsistent == Spec => []IndexConsistency
<1>1. IInv => IndexConsistency
  BY DEF IInv, ViewInv, IndexConsistency
<1>2. QED
  BY <1>1, Invariance, PTL

(***************************************************************************)
(* Nothing forged, protected or ephemeral is ever stored, and nothing that *)
(* a tombstone of its own author excludes.                                 *)
(***************************************************************************)
THEOREM TombstonesExclude == Spec => []TombstoneExcludes
<1>1. IInv => TombstoneExcludes
  BY DEF IInv, ViewInv, TombstoneExcludes
<1>2. QED
  BY <1>1, Invariance, PTL

(* Every admission traces back to the founder, and the cap holds. *)
THEOREM AdmissionsStayRooted == Spec => []WritersRooted
<1>1. IInv => WritersRooted
  BY DEF IInv, ViewInv, WritersRooted
<1>2. QED
  BY <1>1, Invariance, PTL

-----------------------------------------------------------------------------
(* The lists a reclaim op removes are stored events. *)
LEMMA ReclaimLists ==
  ASSUME NEW S
  PROVE  /\ {e \in S \cap view.events : Expires(e)} \in SUBSET view.events
         /\ S \cap view.events \in SUBSET view.events
  OBVIOUS

LEMMA StepMovesForward ==
  ASSUME IInv, Next
  PROVE  MovesForward(view, view')
<1>1. ViewInv(view)
  BY DEF IInv
<1>2. ASSUME view' = view \/ view'.pointer = view.pointer
      PROVE  MovesForward(view, view')
  BY <1>2 DEF MovesForward
<1>3. ASSUME NEW w \in Key, NEW e \in Id, Put(w, e)
      PROVE  MovesForward(view, view')
  BY <1>1, <1>3, PutMovesForward DEF Put
<1>4. ASSUME NEW w \in Key, NEW e \in Id, Delete(w, e)
      PROVE  MovesForward(view, view')
  BY <1>1, <1>4, DeleteMovesForward DEF Delete
<1>5. ASSUME NEW w \in Key, NEW k \in Key, AddWriter(w, k)
      PROVE  MovesForward(view, view')
  <2>1. view' = view \/ view' = [view EXCEPT !.addedBy[k] = w]
    BY <1>5 DEF AddWriter, ApplyAddWriter
  <2>2. view'.pointer = view.pointer
    BY <1>1, <2>1 DEF ViewInv, View
  <2>3. QED
    BY <1>2, <2>2
<1>6. ASSUME NEW w \in Key, NEW S \in Batches, ExpiryDelete(w, S)
      PROVE  MovesForward(view, view')
  <2>1. CASE w = Founder
    <3>1. view' = RemoveEvents(view, {e \in S \cap view.events : Expires(e)})
      BY <1>6, <2>1 DEF ExpiryDelete, ApplyExpiryDelete
    <3>2. QED
      BY <1>1, <3>1, ReclaimLists, RemoveMovesForward
  <2>2. CASE w # Founder
    BY <1>2, <1>6, <2>2 DEF ExpiryDelete, ApplyExpiryDelete
  <2>3. QED
    BY <2>1, <2>2
<1>7. ASSUME NEW w \in Key, NEW S \in Batches, PruneDelete(w, S)
      PROVE  MovesForward(view, view')
  <2>1. CASE w = Founder
    <3>1. view' = RemoveEvents(view, S \cap view.events)
      BY <1>7, <2>1 DEF PruneDelete, ApplyPruneDelete
    <3>2. QED
      BY <1>1, <3>1, ReclaimLists, RemoveMovesForward
  <2>2. CASE w # Founder
    BY <1>2, <1>7, <2>2 DEF PruneDelete, ApplyPruneDelete
  <2>3. QED
    BY <2>1, <2>2
<1>8. ASSUME NEW w \in Key, NEW b \in BOOLEAN, SetConfig(w, b)
      PROVE  MovesForward(view, view')
  <2>1. view' = view \/ view' = [view EXCEPT !.accept = b]
    BY <1>8 DEF SetConfig, ApplySetConfig
  <2>2. view'.pointer = view.pointer
    BY <1>1, <2>1 DEF ViewInv, View
  <2>3. QED
    BY <1>2, <2>2
<1>9. ASSUME NEW e \in Id, OptimisticPut(e)
      PROVE  MovesForward(view, view')
  <2>1. view' = view \/ view' = ApplyPut(view, e)
    BY <1>9 DEF OptimisticPut, ApplyOptimistic
  <2>2. QED
    BY <1>1, <1>2, <2>1, PutMovesForward
<1>10. ASSUME NEW w \in Key, Interrupt(w)
       PROVE  MovesForward(view, view')
  BY <1>2, <1>10 DEF Interrupt
<1>11. QED
  BY <1>3, <1>4, <1>5, <1>6, <1>7, <1>8, <1>9, <1>10 DEF Next

(***************************************************************************)
(* Reads never go back in a slot: while a version stays stored, only one   *)
(* that outranks it takes its place, whichever op the step applies.        *)
(***************************************************************************)
THEOREM ReadsMoveForward == Spec => VersionsMoveForward
<1>1. IInv /\ [Next]_vars => [MovesForward(view, view')]_vars
  BY StepMovesForward
<1>2. QED
  BY <1>1, Invariance, PTL DEF Spec, VersionsMoveForward

-----------------------------------------------------------------------------
LEMMA StepRemovesWithAuthority ==
  ASSUME IInv, Next
  PROVE  RemovalIsAuthorised
<1>1. ViewInv(view)
  BY DEF IInv
<1>2. ASSUME view'.events = view.events
      PROVE  RemovalIsAuthorised
  BY <1>2 DEF RemovalIsAuthorised, Lost
<1>3. ASSUME NEW e \in Id, view' = ApplyPut(view, e)
      PROVE  RemovalIsAuthorised
  <2>1. view.events \subseteq view'.events
    BY <1>1, <1>3, PutLosesNothing
  <2>2. QED
    BY <2>1 DEF RemovalIsAuthorised, Lost
<1>4. ASSUME NEW w \in Key, NEW e \in Id, Delete(w, e)
      PROVE  RemovalIsAuthorised
  <2>1. \A t \in Lost : Ev[e].valid /\ t \in Deletable(view, e)
    BY <1>1, <1>4, DeleteLosesOnlyOwn DEF Delete, Lost
  <2>2. \A t \in Lost : Ev[e].valid /\ t \in Ev[e].etags /\ Ev[t].pubkey = Ev[e].pubkey
    BY <2>1 DEF Deletable
  <2>3. QED
    BY <1>4, <2>2 DEF RemovalIsAuthorised
<1>5. ASSUME NEW w \in Key, NEW k \in Key, AddWriter(w, k)
      PROVE  RemovalIsAuthorised
  <2>1. view' = view \/ view' = [view EXCEPT !.addedBy[k] = w]
    BY <1>5 DEF AddWriter, ApplyAddWriter
  <2>2. view'.events = view.events
    BY <1>1, <2>1 DEF ViewInv, View
  <2>3. QED
    BY <1>2, <2>2
<1>6. ASSUME NEW w \in Key, NEW S \in Batches, ExpiryDelete(w, S)
      PROVE  RemovalIsAuthorised
  <2> DEFINE X == {e \in S \cap view.events : Expires(e)}
  <2>1. CASE w = Founder
    <3>1. view' = RemoveEvents(view, X)
      BY <1>6, <2>1 DEF ExpiryDelete, ApplyExpiryDelete
    <3>2. view \in View /\ X \in SUBSET Id
      BY <1>1 DEF ViewInv, View
    <3>3. view'.events = view.events \ X
      BY <3>1, <3>2, RemoveEventsFields
    <3>4. \A t \in Lost : t \in S /\ Expires(t)
      BY <3>3 DEF Lost
    <3>5. QED
      BY <1>6, <2>1, <3>4 DEF RemovalIsAuthorised
  <2>2. CASE w # Founder
    BY <1>2, <1>6, <2>2 DEF ExpiryDelete, ApplyExpiryDelete
  <2>3. QED
    BY <2>1, <2>2
<1>7. ASSUME NEW w \in Key, NEW S \in Batches, PruneDelete(w, S)
      PROVE  RemovalIsAuthorised
  <2>1. CASE w = Founder
    <3>1. view' = RemoveEvents(view, S \cap view.events)
      BY <1>7, <2>1 DEF PruneDelete, ApplyPruneDelete
    <3>2. view \in View /\ S \cap view.events \in SUBSET Id
      BY <1>1 DEF ViewInv, View
    <3>3. view'.events = view.events \ (S \cap view.events)
      BY <3>1, <3>2, RemoveEventsFields
    <3>4. Lost \subseteq S
      BY <3>3 DEF Lost
    <3>5. QED
      BY <1>7, <2>1, <3>4 DEF RemovalIsAuthorised
  <2>2. CASE w # Founder
    BY <1>2, <1>7, <2>2 DEF PruneDelete, ApplyPruneDelete
  <2>3. QED
    BY <2>1, <2>2
<1>8. ASSUME NEW w \in Key, NEW b \in BOOLEAN, SetConfig(w, b)
      PROVE  RemovalIsAuthorised
  <2>1. view' = view \/ view' = [view EXCEPT !.accept = b]
    BY <1>8 DEF SetConfig, ApplySetConfig
  <2>2. view'.events = view.events
    BY <1>1, <2>1 DEF ViewInv, View
  <2>3. QED
    BY <1>2, <2>2
<1>9. QED
  BY <1>2, <1>3, <1>4, <1>5, <1>6, <1>7, <1>8
     DEF Next, Put, OptimisticPut, ApplyOptimistic, Interrupt

(***************************************************************************)
(* A stored event disappears only by its author's delete, or by a reclaim  *)
(* op of the founder, an expiry one only if the event declared expiration. *)
(***************************************************************************)
THEOREM RemovalsAreAuthorised == Spec => RemovalsAuthorised
<1>1. IInv /\ [Next]_vars => [RemovalIsAuthorised]_vars
  BY StepRemovesWithAuthority
<1>2. QED
  BY <1>1, Invariance, PTL DEF Spec, RemovalsAuthorised

-----------------------------------------------------------------------------
(***************************************************************************)
(* The base implements NostrSet, the visible events being the indexed      *)
(* ones.  The instance has its own copies of the definitions of Events.    *)
(***************************************************************************)
LEMMA SameEvents ==
  /\ Visible!Id = Id
  /\ \A e : Visible!Admissible(e) <=> Admissible(e)
  /\ \A e : Visible!Ephemeral(e) <=> Ephemeral(e)
  /\ \A e : Visible!Expires(e) <=> Expires(e)
  /\ \A e, o : Visible!ShouldReplace(e, o) <=> ShouldReplace(e, o)
  /\ \A e, o : Visible!Rivals(e, o) <=> Rivals(e, o)
<1>1. Visible!Id = Id
  BY DEF Visible!Id, Id
<1>2. \A e : Visible!Class(e) = Class(e)
  <2>1. \A k : Visible!ClassifyKind(k) = ClassifyKind(k)
    BY DEF Visible!ClassifyKind, ClassifyKind
  <2>2. QED
    BY <2>1 DEF Visible!Class, Class
<1>3. \A e : Visible!Slot(e) = Slot(e)
  BY <1>2 DEF Visible!Slot, Slot
<1>4. Visible!Versioned = Versioned
  BY <1>1, <1>2 DEF Visible!Versioned, Versioned
<1>5. \A e, o : Visible!Rivals(e, o) <=> Rivals(e, o)
  BY <1>3, <1>4 DEF Visible!Rivals, Rivals
<1>6. \A e : Visible!Ephemeral(e) <=> Ephemeral(e)
  BY <1>2 DEF Visible!Ephemeral, Ephemeral
<1>7. \A e : Visible!Admissible(e) <=> Admissible(e)
  BY Zenon DEF Visible!Admissible, Admissible
<1>8. \A e, o : Visible!ShouldReplace(e, o) <=> ShouldReplace(e, o)
  BY Zenon DEF Visible!ShouldReplace, ShouldReplace
<1>9. \A e : Visible!Expires(e) <=> Expires(e)
  BY Zenon DEF Visible!Expires, Expires
<1>10. QED
  BY <1>1, <1>5, <1>6, <1>7, <1>8, <1>9

(* A put that is stored joins the visible set, replacing its rival. *)
LEMMA StoredPutJoins ==
  ASSUME NEW v, ViewInv(v), NEW e \in Id, PutStores(v, e)
  PROVE  /\ Visible!Acceptable(e, v.indexed)
         /\ ApplyPut(v, e).indexed = Visible!Joined(e, v.indexed)
<1>1. /\ v.indexed \subseteq v.events
      /\ v.events \subseteq Id
      /\ \A x \in Versioned : x \in v.indexed <=> v.pointer[Slot(x)] = x
  BY DEF ViewInv, IndexesAgree, View
<1>2. /\ \A p \in Previous(v, e) : e \in Versioned /\ p \in Versioned /\ Slot(p) = Slot(e)
      /\ \A o \in v.indexed : e \in Versioned /\ o \in Versioned /\ Slot(o) = Slot(e)
                             => o \in Previous(v, e)
      /\ Previous(v, e) \subseteq v.events
  BY PreviousIsRival
<1>3. /\ e \notin v.events
      /\ Admissible(e)
      /\ ~Ephemeral(e)
      /\ \A p \in Previous(v, e) : ShouldReplace(p, e)
  BY DEF PutStores
<1>4. \A o \in v.indexed : Rivals(e, o) <=> o \in Previous(v, e)
  BY <1>1, <1>2, <1>3 DEF Rivals
<1>5. Visible!Acceptable(e, v.indexed)
  BY <1>3, <1>4, SameEvents DEF Visible!Acceptable
<1>6. ApplyPut(v, e).indexed = (v.indexed \ Previous(v, e)) \cup {e}
  BY ApplyPutEffect
<1>7. Visible!Joined(e, v.indexed) = (v.indexed \ Previous(v, e)) \cup {e}
  BY <1>4, SameEvents DEF Visible!Joined
<1>8. QED
  BY <1>5, <1>6, <1>7

LEMMA PutImplementsAccept ==
  ASSUME IInv, NEW e \in Id, view' = ApplyPut(view, e)
  PROVE  view'.indexed = view.indexed \/ Visible!Accept(e)
<1>1. CASE PutStores(view, e)
  BY <1>1, StoredPutJoins DEF IInv, Visible!Accept
<1>2. CASE ~PutStores(view, e)
  BY <1>2 DEF ApplyPut
<1>3. QED
  BY <1>1, <1>2

LEMMA DeleteImplementsRetract ==
  ASSUME IInv, NEW e \in Id, view' = ApplyDelete(view, e)
  PROVE  view'.indexed = view.indexed \/ Visible!Retract(e)
<1>1. CASE Ev[e].valid
  <2> DEFINE kept == {t \in view.indexed : t \notin Ev[e].etags \/ Ev[t].pubkey # Ev[e].pubkey}
  <2>1. PICK u : /\ ViewInv(u)
                 /\ u.indexed = view.indexed \ Deletable(view, e)
                 /\ view' = ApplyPut(u, e)
    BY <1>1, DeleteSplits DEF IInv
  <2>2. u.indexed = kept
    BY <2>1 DEF IInv, ViewInv, IndexesAgree, Deletable
  <2>3. CASE PutStores(u, e)
    <3>1. Visible!Acceptable(e, kept) /\ view'.indexed = Visible!Joined(e, kept)
      BY <2>1, <2>2, <2>3, StoredPutJoins
    <3>2. QED
      BY <1>1, <3>1 DEF Visible!Retract
  <2>4. CASE ~PutStores(u, e)
    BY <1>1, <2>1, <2>2, <2>4 DEF ApplyPut, Visible!Retract
  <2>5. QED
    BY <2>3, <2>4
<1>2. CASE ~Ev[e].valid
  BY <1>2 DEF ApplyDelete
<1>3. QED
  BY <1>1, <1>2

LEMMA StepRefines ==
  ASSUME IInv, Next
  PROVE  view'.indexed = view.indexed \/ Visible!SetNext
<1>1. ViewInv(view) /\ view \in View /\ view.indexed \subseteq view.events
  BY DEF IInv, ViewInv, IndexesAgree
<1>2. ASSUME NEW e \in Id, view' = ApplyPut(view, e)
      PROVE  view'.indexed = view.indexed \/ Visible!SetNext
  BY <1>2, PutImplementsAccept, SameEvents DEF Visible!SetNext
<1>3. ASSUME NEW w \in Key, NEW e \in Id, Delete(w, e)
      PROVE  view'.indexed = view.indexed \/ Visible!SetNext
  BY <1>3, DeleteImplementsRetract, SameEvents DEF Delete, Visible!SetNext
<1>4. ASSUME NEW w \in Key, NEW k \in Key, AddWriter(w, k)
      PROVE  view'.indexed = view.indexed
  <2>1. view' = view \/ view' = [view EXCEPT !.addedBy[k] = w]
    BY <1>4 DEF AddWriter, ApplyAddWriter
  <2>2. QED
    BY <1>1, <2>1 DEF View
<1>5. ASSUME NEW w \in Key, NEW S \in Batches, ExpiryDelete(w, S)
      PROVE  view'.indexed = view.indexed \/ Visible!SetNext
  <2> DEFINE X == {e \in S \cap view.events : Expires(e)}
  <2>1. CASE w = Founder
    <3>1. view' = RemoveEvents(view, X)
      BY <1>5, <2>1 DEF ExpiryDelete, ApplyExpiryDelete
    <3>2. X \in SUBSET Id
      BY <1>1 DEF View
    <3>3. view'.indexed = view.indexed \ X
      BY <1>1, <3>1, <3>2, RemoveEventsFields
    <3>4. view'.indexed = {e \in view.indexed : e \notin S \/ ~Expires(e)}
      BY <1>1, <3>3
    <3>5. Visible!Reclaim(S)
      BY <3>4, SameEvents DEF Visible!Reclaim
    <3>6. QED
      BY <3>5 DEF Visible!SetNext
  <2>2. CASE w # Founder
    BY <1>5, <2>2 DEF ExpiryDelete, ApplyExpiryDelete
  <2>3. QED
    BY <2>1, <2>2
<1>6. ASSUME NEW w \in Key, NEW S \in Batches, PruneDelete(w, S)
      PROVE  view'.indexed = view.indexed \/ Visible!SetNext
  <2>1. CASE w = Founder
    <3>1. view' = RemoveEvents(view, S \cap view.events)
      BY <1>6, <2>1 DEF PruneDelete, ApplyPruneDelete
    <3>2. S \cap view.events \in SUBSET Id
      BY <1>1 DEF View
    <3>3. view'.indexed = view.indexed \ (S \cap view.events)
      BY <1>1, <3>1, <3>2, RemoveEventsFields
    <3>4. view'.indexed = view.indexed \ S
      BY <1>1, <3>3
    <3>5. QED
      BY <3>4 DEF Visible!Reclaim, Visible!SetNext
  <2>2. CASE w # Founder
    BY <1>6, <2>2 DEF PruneDelete, ApplyPruneDelete
  <2>3. QED
    BY <2>1, <2>2
<1>7. ASSUME NEW w \in Key, NEW b \in BOOLEAN, SetConfig(w, b)
      PROVE  view'.indexed = view.indexed
  <2>1. view' = view \/ view' = [view EXCEPT !.accept = b]
    BY <1>7 DEF SetConfig, ApplySetConfig
  <2>2. QED
    BY <1>1, <2>1 DEF View
<1>8. QED
  BY <1>2, <1>3, <1>4, <1>5, <1>6, <1>7
     DEF Next, Put, OptimisticPut, ApplyOptimistic, Interrupt

(***************************************************************************)
(* Every base implements NostrSet: admissible events only, one visible     *)
(* version per slot, replaced by one that outranks it, retracted by its    *)
(* author or reclaimed by the base's owner.                                *)
(***************************************************************************)
THEOREM StoreImplementsNostrSet == Spec => ImplementsNostrSet
<1>1. Init => Visible!SetInit
  BY DEF Init, EmptyView, Visible!SetInit
<1>2. IInv /\ [Next]_vars => [Visible!SetNext]_(view.indexed)
  BY StepRefines DEF vars
<1>3. QED
  BY <1>1, <1>2, Invariance, PTL DEF Spec, ImplementsNostrSet, Visible!SetSpec

-----------------------------------------------------------------------------
(* A set of subsets of a finite set has a smallest one. *)
LEMMA SmallestSet ==
  ASSUME NEW D, IsFiniteSet(D), NEW B, B \subseteq SUBSET D, B # {}
  PROVE  \E s \in B : \A t \in B : t \subseteq s => t = s
<1>1. FiniteSubsetsOf(D) = SUBSET D
  BY FS_FiniteSubsetsOfFinite
<1>2. IsWellFoundedOn(StrictSubsetOrdering(D), SUBSET D)
  BY <1>1, FS_StrictSubsetOrderingWellFounded
<1>3. PICK s \in B : \A t \in B : ~(<<t, s>> \in StrictSubsetOrdering(D))
  BY <1>2, WFMin
<1>4. \A t \in B : t \subseteq s => t = s
  <2> TAKE t \in B
  <2>1. <<t, s>> \in (SUBSET D) \X (SUBSET D)
    OBVIOUS
  <2>2. t \subseteq s /\ t # s => <<t, s>> \in StrictSubsetOrdering(D)
    BY <2>1 DEF StrictSubsetOrdering
  <2>3. QED
    BY <1>3, <2>2
<1>5. QED
  BY <1>4

-----------------------------------------------------------------------------
(***************************************************************************)
(* A fold takes the elements of a set in the order that CHOOSE gives them. *)
(* FoldExists and FoldedAgree justify the recursion of the library's       *)
(* FoldSet over a finite set, by its smallest subset that has no solution. *)
(***************************************************************************)
Chosen(s) == CHOOSE x \in s : TRUE

Folded(op, base, s, g) ==
  \A t \in SUBSET s : g[t] = IF t = {} THEN base ELSE op[<<Chosen(t), g[t \ {Chosen(t)}]>>]

LEMMA ChosenIn == ASSUME NEW s, s # {} PROVE Chosen(s) \in s
BY DEF Chosen

LEMMA FoldedAgree ==
  ASSUME NEW D, IsFiniteSet(D), NEW op, NEW base, NEW r \in SUBSET D, NEW s \in SUBSET D,
         NEW g, NEW h, Folded(op, base, r, g), Folded(op, base, s, h),
         NEW t \in SUBSET r, t \in SUBSET s
  PROVE  g[t] = h[t]
<1> DEFINE B == {u \in SUBSET D : u \subseteq r /\ u \subseteq s /\ g[u] # h[u]}
<1>1. SUFFICES ASSUME B # {} PROVE FALSE
  OBVIOUS
<1>2. B \subseteq SUBSET D
  OBVIOUS
<1> HIDE DEF B
<1>3. PICK u \in B : \A w \in B : w \subseteq u => w = u
  BY <1>1, <1>2, SmallestSet
<1>4. u \in SUBSET D /\ u \in SUBSET r /\ u \in SUBSET s /\ g[u] # h[u]
  BY <1>3 DEF B
<1>5. CASE u = {}
  BY <1>4, <1>5 DEF Folded
<1>6. CASE u # {}
  <2> DEFINE w == u \ {Chosen(u)}
  <2>1. Chosen(u) \in u
    BY <1>6, ChosenIn
  <2>2. w \subseteq u /\ w # u
    BY <2>1
  <2>3. g[w] = h[w]
    BY <1>3, <1>4, <2>2 DEF B
  <2>4. g[u] = op[<<Chosen(u), g[w]>>] /\ h[u] = op[<<Chosen(u), h[w]>>]
    BY <1>4, <1>6 DEF Folded
  <2>5. QED
    BY <1>4, <2>3, <2>4
<1>7. QED
  BY <1>5, <1>6

LEMMA FoldExists ==
  ASSUME NEW D, IsFiniteSet(D), NEW X, NEW base \in X, NEW op \in [D \X X -> X]
  PROVE  \E g \in [SUBSET D -> X] : Folded(op, base, D, g)
<1> DEFINE Solves(s, g) == g \in [SUBSET s -> X] /\ Folded(op, base, s, g)
           B == {s \in SUBSET D : ~\E g : Solves(s, g)}
<1>1. SUFFICES ASSUME B # {} PROVE FALSE
  OBVIOUS
<1>2. B \subseteq SUBSET D
  OBVIOUS
<1> HIDE DEF B
<1>3. PICK s \in B : \A t \in B : t \subseteq s => t = s
  BY <1>1, <1>2, SmallestSet
<1>4. s \in SUBSET D /\ ~\E g : Solves(s, g)
  BY <1>3 DEF B
<1>5. \A t \in SUBSET s : t # s => \E g : Solves(t, g)
  BY <1>3, <1>4 DEF B
<1> DEFINE Sol(t) == CHOOSE g : Solves(t, g)
<1>6. \A t \in SUBSET s : t # s => Solves(t, Sol(t))
  BY <1>5
<1> DEFINE Rest(t) == t \ {Chosen(t)}
           g == [t \in SUBSET s |-> IF t = {} THEN base
                                    ELSE op[<<Chosen(t), Sol(Rest(t))[Rest(t)]>>]]
<1>7. \A t \in SUBSET s : t # {} => Chosen(t) \in t /\ Rest(t) \in SUBSET t
                                    /\ Rest(t) \in SUBSET s /\ Rest(t) # s
  BY ChosenIn
<1>8. \A u \in SUBSET s : u # s => Sol(u)[u] \in X /\ Folded(op, base, u, Sol(u))
  BY <1>6
<1> HIDE DEF Sol, Solves
<1>9. g \in [SUBSET s -> X]
  <2> SUFFICES ASSUME NEW t \in SUBSET s, t # {}
               PROVE  op[<<Chosen(t), Sol(Rest(t))[Rest(t)]>>] \in X
    OBVIOUS
  <2>1. Chosen(t) \in D /\ Sol(Rest(t))[Rest(t)] \in X
    BY <1>4, <1>7, <1>8
  <2> HIDE DEF Rest
  <2>2. QED
    BY <2>1
<1>10. \A u \in SUBSET s : u # s => g[u] = Sol(u)[u]
  <2> SUFFICES ASSUME NEW u \in SUBSET s, u # s PROVE g[u] = Sol(u)[u]
    OBVIOUS
  <2>1. Folded(op, base, u, Sol(u))
    BY <1>8
  <2>2. CASE u = {}
    BY <2>1, <2>2 DEF Folded
  <2>3. CASE u # {}
    <3>1. Sol(u)[u] = op[<<Chosen(u), Sol(u)[Rest(u)]>>]
      BY <2>1, <2>3 DEF Folded
    <3>2. g[u] = op[<<Chosen(u), Sol(Rest(u))[Rest(u)]>>]
      BY <2>3
    <3>3. Rest(u) \in SUBSET u /\ Rest(u) \in SUBSET s /\ Rest(u) # s
      BY <1>7, <2>3
    <3>4. Folded(op, base, Rest(u), Sol(Rest(u)))
      BY <1>8, <3>3
    <3>5. PICK w : w = Rest(u)
      OBVIOUS
    <3>6. Sol(u)[w] = Sol(w)[w]
      <4>1. u \in SUBSET D /\ w \in SUBSET D /\ w \in SUBSET u /\ w \in SUBSET w
        BY <1>4, <3>3, <3>5
      <4>2. Folded(op, base, w, Sol(w))
        BY <3>4, <3>5
      <4>3. QED
        BY <2>1, <4>1, <4>2, FoldedAgree
    <3>7. QED
      BY <3>1, <3>2, <3>5, <3>6
  <2>4. QED
    BY <2>2, <2>3
<1>11. Folded(op, base, s, g)
  <2> SUFFICES ASSUME NEW t \in SUBSET s, t # {}
               PROVE  g[t] = op[<<Chosen(t), g[Rest(t)]>>]
    BY DEF Folded
  <2>1. g[Rest(t)] = Sol(Rest(t))[Rest(t)]
    BY <1>7, <1>10
  <2> HIDE DEF Rest
  <2>2. QED
    BY <2>1
<1>12. Solves(s, g)
  BY <1>9, <1>11 DEF Solves
<1>13. QED
  BY <1>4, <1>12

-----------------------------------------------------------------------------
(* The first n of a finite set in a total order R. *)
Before(R, M, e) == {d \in M : <<d, e>> \in R}
First(R, M, n)  == {e \in M : Cardinality(Before(R, M, e)) < n}

Orders(R, M) ==
  /\ \A d, e \in M : d # e => (<<d, e>> \in R \/ <<e, d>> \in R)
  /\ \A d, e \in M : <<d, e>> \in R => <<e, d>> \notin R
  /\ \A c, d, e \in M : <<c, d>> \in R /\ <<d, e>> \in R => <<c, e>> \in R

LEMMA BeforeGrows ==
  ASSUME NEW R, NEW M, IsFiniteSet(M), Orders(R, M), NEW d \in M, NEW e \in M, <<d, e>> \in R
  PROVE  Before(R, M, d) \subseteq Before(R, M, e) \ {d}
BY DEF Before, Orders

LEMMA BeforeCount ==
  ASSUME NEW R, NEW M, IsFiniteSet(M), NEW e
  PROVE  /\ IsFiniteSet(Before(R, M, e)) /\ Cardinality(Before(R, M, e)) \in Nat
         /\ Before(R, M, e) \subseteq M
<1>1. Before(R, M, e) \subseteq M
  BY DEF Before
<1>2. QED
  BY <1>1, FS_Subset, FS_CardinalityType

LEMMA Least ==
  ASSUME NEW R, NEW M, IsFiniteSet(M), Orders(R, M), NEW T, T \subseteq M, T # {}
  PROVE  \E t \in T : \A u \in T : u = t \/ <<t, u>> \in R
<1> DEFINE B == {Before(R, M, t) : t \in T}
<1>1. B \subseteq SUBSET M /\ B # {}
  BY DEF Before
<1> HIDE DEF B
<1>2. PICK s \in B : \A w \in B : w \subseteq s => w = s
  BY <1>1, SmallestSet
<1>3. PICK t \in T : s = Before(R, M, t)
  BY <1>2 DEF B
<1>4. ASSUME NEW u \in T, u # t, <<t, u>> \notin R PROVE FALSE
  <2>1. <<u, t>> \in R /\ u \in M /\ t \in M
    BY <1>4 DEF Orders
  <2>2. Before(R, M, u) \subseteq Before(R, M, t) \ {u}
    BY <2>1, BeforeGrows
  <2>3. u \in Before(R, M, t)
    BY <2>1 DEF Before
  <2>4. Before(R, M, u) \in B
    BY DEF B
  <2>5. QED
    BY <1>2, <1>3, <2>2, <2>3, <2>4
<1>5. QED
  BY <1>4

LEMMA FirstOfMore ==
  ASSUME NEW R, NEW M, IsFiniteSet(M), Orders(R, M), NEW n \in Nat,
         NEW N, N \subseteq M, First(R, M, n) \subseteq N
  PROVE  First(R, N, n) = First(R, M, n)
<1>1. IsFiniteSet(N)
  BY FS_Subset
<1>2. \A e : Before(R, N, e) \subseteq Before(R, M, e)
  BY DEF Before
<1>3. ASSUME NEW e \in First(R, M, n) PROVE e \in First(R, N, n)
  <2>1. e \in N /\ Cardinality(Before(R, M, e)) < n
    BY DEF First
  <2>2. Cardinality(Before(R, N, e)) <= Cardinality(Before(R, M, e))
    BY <1>2, BeforeCount, FS_Subset
  <2>3. Cardinality(Before(R, N, e)) \in Nat /\ Cardinality(Before(R, M, e)) \in Nat
    BY <1>1, BeforeCount
  <2>4. QED
    BY <2>1, <2>2, <2>3 DEF First
<1>4. ASSUME NEW e \in First(R, N, n), e \notin First(R, M, n) PROVE FALSE
  <2>1. e \in N /\ e \in M /\ Cardinality(Before(R, N, e)) < n
        /\ ~(Cardinality(Before(R, M, e)) < n)
    BY <1>4 DEF First
  <2> DEFINE T == Before(R, M, e) \ N
  <2>2. T # {}
    <3>1. Before(R, N, e) # Before(R, M, e)
      BY <2>1
    <3>2. QED
      BY <3>1 DEF Before
  <2>3. T \subseteq M
    BY DEF Before
  <2> HIDE DEF T
  <2>4. PICK t \in T : \A u \in T : u = t \/ <<t, u>> \in R
    BY <2>2, <2>3, Least
  <2>5. t \in M /\ t \notin N /\ <<t, e>> \in R
    BY <2>4 DEF T, Before
  <2>6. Before(R, M, t) \subseteq Before(R, N, e)
    <3> SUFFICES ASSUME NEW u \in M, <<u, t>> \in R PROVE u \in N /\ <<u, e>> \in R
      BY DEF Before
    <3>1. <<u, e>> \in R
      BY <2>1, <2>5 DEF Orders
    <3>2. u \notin T
      BY <2>4, <2>5 DEF Orders
    <3>3. QED
      BY <3>1, <3>2 DEF T, Before
  <2>7. Cardinality(Before(R, M, t)) <= Cardinality(Before(R, N, e))
    BY <1>1, <2>6, BeforeCount, FS_Subset
  <2>8. Cardinality(Before(R, M, t)) \in Nat /\ Cardinality(Before(R, N, e)) \in Nat
    BY <1>1, BeforeCount
  <2>9. t \in First(R, M, n)
    BY <2>1, <2>5, <2>7, <2>8 DEF First
  <2>10. QED
    BY <2>5, <2>9
<1>5. QED
  BY <1>3, <1>4

LEMMA FirstAll ==
  ASSUME NEW R, NEW M, IsFiniteSet(M), Orders(R, M), NEW n \in Nat, Cardinality(M) <= n
  PROVE  First(R, M, n) = M
<1> SUFFICES ASSUME NEW e \in M PROVE Cardinality(Before(R, M, e)) < n
  BY DEF First
<1>1. Before(R, M, e) \subseteq M \ {e} /\ IsFiniteSet(M \ {e})
      /\ Cardinality(M \ {e}) = Cardinality(M) - 1
  <2>1. Before(R, M, e) \subseteq M \ {e}
    BY DEF Before, Orders
  <2>2. QED
    BY <2>1, FS_RemoveElement
<1>2. Cardinality(Before(R, M, e)) <= Cardinality(M \ {e})
  BY <1>1, FS_Subset
<1>3. Cardinality(Before(R, M, e)) \in Nat /\ Cardinality(M) \in Nat
  BY BeforeCount, FS_CardinalityType
<1>4. QED
  BY <1>1, <1>2, <1>3

LEMMA FirstCount ==
  ASSUME NEW R, NEW M, IsFiniteSet(M), Orders(R, M), NEW n \in Nat, First(R, M, n) # M
  PROVE  /\ Cardinality(First(R, M, n)) = n
         /\ \A e \in First(R, M, n), d \in M \ First(R, M, n) : <<e, d>> \in R
<1> DEFINE F == First(R, M, n)
           T == M \ F
<1>0. F \subseteq M /\ T \subseteq M /\ T # {} /\ IsFiniteSet(F)
  <2>1. F \subseteq M
    BY DEF First
  <2>2. QED
    BY <2>1, FS_Subset
<1>1. \A e \in M : Cardinality(Before(R, M, e)) \in Nat
                   /\ (e \in F <=> Cardinality(Before(R, M, e)) < n)
  BY BeforeCount DEF First
<1> HIDE DEF F, T
<1>2. \A d, e \in M : <<d, e>> \in R => Cardinality(Before(R, M, d)) < Cardinality(Before(R, M, e))
  <2> SUFFICES ASSUME NEW d \in M, NEW e \in M, <<d, e>> \in R
               PROVE  Cardinality(Before(R, M, d)) < Cardinality(Before(R, M, e))
    OBVIOUS
  <2> DEFINE A == Before(R, M, e)
  <2>1. d \in A
    BY DEF Before
  <2>2. Before(R, M, d) \subseteq A \ {d}
    BY BeforeGrows
  <2>3. IsFiniteSet(A) /\ Cardinality(A) \in Nat
    BY BeforeCount
  <2> HIDE DEF A
  <2>4. IsFiniteSet(A \ {d}) /\ Cardinality(A \ {d}) = Cardinality(A) - 1
    BY <2>1, <2>3, FS_RemoveElement
  <2>5. Cardinality(Before(R, M, d)) <= Cardinality(A \ {d})
    BY <2>2, <2>4, FS_Subset
  <2>6. Cardinality(Before(R, M, d)) \in Nat
    BY BeforeCount
  <2>7. QED
    BY <2>3, <2>4, <2>5, <2>6 DEF A
<1>3. ASSUME NEW e \in F, NEW d \in T PROVE <<e, d>> \in R
  <2>1. e \in M /\ d \in M /\ e # d
        /\ Cardinality(Before(R, M, e)) < n /\ ~(Cardinality(Before(R, M, d)) < n)
    BY <1>0, <1>1 DEF T
  <2>2. Cardinality(Before(R, M, e)) \in Nat /\ Cardinality(Before(R, M, d)) \in Nat
    BY <1>1, <2>1
  <2>3. <<d, e>> \notin R
    BY <1>2, <2>1, <2>2
  <2>4. QED
    BY <2>1, <2>3 DEF Orders
<1>4. PICK t \in T : \A u \in T : u = t \/ <<t, u>> \in R
  BY <1>0, Least
<1>5. F = Before(R, M, t)
  <2>1. t \in M
    BY <1>0
  <2>2. F \subseteq Before(R, M, t)
    BY <1>0, <1>3 DEF Before
  <2>3. Before(R, M, t) \subseteq F
    BY <1>4, <2>1 DEF Before, T, Orders
  <2>4. QED
    BY <2>2, <2>3
<1>6. Cardinality(F) \in Nat /\ ~(Cardinality(F) < n)
  BY <1>0, <1>1, <1>5 DEF T
<1>7. Cardinality(F) <= n
  <2>1. CASE F = {}
    BY <2>1, FS_EmptySet
  <2>2. CASE F # {}
    <3> DEFINE Q == {x \in M \X M : <<x[2], x[1]>> \in R}
    <3>1. Orders(Q, M) /\ \A d, e \in M : <<d, e>> \in Q <=> <<e, d>> \in R
      <4>1. \A d, e \in M : <<d, e>> \in Q <=> <<e, d>> \in R
        OBVIOUS
      <4> HIDE DEF Q
      <4>2. QED
        BY <4>1 DEF Orders
    <3> HIDE DEF Q
    <3>2. PICK l \in F : \A u \in F : u = l \/ <<l, u>> \in Q
      BY <1>0, <2>2, <3>1, Least
    <3>3. l \in M /\ \A u \in F : u = l \/ <<u, l>> \in R
      BY <1>0, <3>1, <3>2
    <3>4. F \ {l} \subseteq Before(R, M, l)
      BY <1>0, <3>3 DEF Before
    <3>5. IsFiniteSet(F \ {l}) /\ Cardinality(F \ {l}) = Cardinality(F) - 1
      BY <1>0, FS_RemoveElement
    <3>6. Cardinality(F \ {l}) <= Cardinality(Before(R, M, l))
      BY <3>4, BeforeCount, FS_Subset
    <3>7. Cardinality(Before(R, M, l)) < n /\ Cardinality(Before(R, M, l)) \in Nat
      BY <1>1, <3>3
    <3>8. QED
      BY <1>6, <3>5, <3>6, <3>7
  <2>3. QED
    BY <2>1, <2>2
<1>8. Cardinality(F) = n
  BY <1>6, <1>7
<1>9. QED
  BY <1>3, <1>8 DEF F, T

-----------------------------------------------------------------------------
(* What the scan of an index's values, one after the other, has found. *)
Scanned(v, f, now, limit, D) ==
  FoldSet(LAMBDA S, seen : ScanIndex(v, f, now, limit, S, seen), {}, D)

(* g is what is found in each subset of D, taken in the order of Chosen. *)
ScansInTurn(v, f, now, limit, D, g) ==
  \A s \in SUBSET D :
    /\ s = {} => g[s] = {}
    /\ s # {} => g[s] = ScanIndex(v, f, now, limit, Chosen(s), g[s \ {Chosen(s)}])

LEMMA ScanFold ==
  ASSUME NEW v, NEW f, NEW now, NEW limit, NEW D, IsFiniteSet(D)
  PROVE  \E g : ScansInTurn(v, f, now, limit, D, g) /\ Scanned(v, f, now, limit, D) = g[D]
<1> DEFINE Eq(g) == g = [s \in SUBSET D |->
                          IF s = {} THEN {}
                          ELSE ScanIndex(v, f, now, limit, Chosen(s), g[s \ {Chosen(s)}])]
           iter == CHOOSE g : Eq(g)
           X == SUBSET v.events
           op == [x \in D \X X |-> ScanIndex(v, f, now, limit, x[1], x[2])]
<1>1. op \in [D \X X -> X]
  <2>1. \A S \in D, seen \in X : ScanIndex(v, f, now, limit, S, seen) \in X
    BY DEF ScanIndex, FirstKeys, TimeRange
  <2>2. QED
    BY <2>1
<1>2. {} \in X
  OBVIOUS
<1>3. \A S \in D, seen \in X : op[<<S, seen>>] = ScanIndex(v, f, now, limit, S, seen)
  OBVIOUS
<1> HIDE DEF op, X
<1>4. PICK g \in [SUBSET D -> X] : Folded(op, {}, D, g)
  BY <1>1, <1>2, FoldExists
<1>5. Eq(g)
  <2>1. \A s \in SUBSET D : s # {} => g[s] = ScanIndex(v, f, now, limit, Chosen(s), g[s \ {Chosen(s)}])
    <3> TAKE s \in SUBSET D
    <3>1. SUFFICES ASSUME s # {}
                   PROVE  g[s] = ScanIndex(v, f, now, limit, Chosen(s), g[s \ {Chosen(s)}])
      OBVIOUS
    <3>2. Chosen(s) \in D /\ s \ {Chosen(s)} \in SUBSET D
      BY <3>1, ChosenIn
    <3>3. g[s \ {Chosen(s)}] \in X
      BY <3>2
    <3>4. g[s] = op[<<Chosen(s), g[s \ {Chosen(s)}]>>]
      BY <1>4, <3>1 DEF Folded
    <3>5. QED
      BY <1>3, <3>2, <3>3, <3>4
  <2>2. \A s \in SUBSET D : s = {} => g[s] = {}
    BY <1>4 DEF Folded
  <2>3. QED
    BY <2>1, <2>2
<1>6. Eq(iter)
  BY <1>5
<1>7. Scanned(v, f, now, limit, D) = iter[D]
  BY Zenon DEF Scanned, FoldSet, MapThenFoldSet, Chosen
<1>8. ScansInTurn(v, f, now, limit, D, iter)
  <2> HIDE DEF iter
  <2>1. QED
    BY <1>6 DEF ScansInTurn
<1> HIDE DEF iter
<1>9. QED
  BY <1>7, <1>8

-----------------------------------------------------------------------------
(* What a filter that scans an index looks for. *)
Sought(v, f, now) == {e \in v.indexed : MatchFilter(f, e) /\ ~Expired(e, now)}

(* The scan finds nothing else, even when a bound wraps. *)
LEMMA ScanSound ==
  ASSUME NEW v, NEW f, NEW now, NEW limit, NEW D, IsFiniteSet(D), D \subseteq SUBSET v.indexed
  PROVE  Scanned(v, f, now, limit, D) \subseteq Sought(v, f, now)
<1>1. PICK g : ScansInTurn(v, f, now, limit, D, g) /\ Scanned(v, f, now, limit, D) = g[D]
  BY ScanFold
<1> DEFINE B == {s \in SUBSET D : ~(g[s] \subseteq Sought(v, f, now))}
<1>3. SUFFICES ASSUME B # {} PROVE FALSE
  BY <1>1
<1>4. B \subseteq SUBSET D
  OBVIOUS
<1> HIDE DEF B
<1>5. PICK s \in B : \A w \in B : w \subseteq s => w = s
  BY <1>3, <1>4, SmallestSet
<1>6. s \in SUBSET D /\ ~(g[s] \subseteq Sought(v, f, now))
  BY <1>5 DEF B
<1>7. s # {}
  BY <1>1, <1>6 DEF ScansInTurn
<1>8. Chosen(s) \in s
  BY <1>7, ChosenIn
<1> DEFINE w == s \ {Chosen(s)}
<1>9. w \in SUBSET D /\ w \subseteq s /\ w # s
  BY <1>6, <1>8
<1>10. g[w] \subseteq Sought(v, f, now)
  BY <1>5, <1>9 DEF B
<1>11. g[s] = ScanIndex(v, f, now, limit, Chosen(s), g[w])
  BY <1>1, <1>6, <1>7 DEF ScansInTurn
<1>12. Chosen(s) \subseteq v.indexed
  BY <1>6, <1>8
<1> HIDE DEF w
<1>13. ScanIndex(v, f, now, limit, Chosen(s), g[w]) \subseteq Sought(v, f, now)
  BY <1>10, <1>12 DEF ScanIndex, FirstKeys, TimeRange, Sought
<1>14. QED
  BY <1>6, <1>11, <1>13

(* NewestFirst among the events of M, as a relation. *)
Newer(M) == {x \in M \X M : NewestFirst(x[1], x[2])}

LEMMA NewerOrders ==
  ASSUME NEW M, M \subseteq Id
  PROVE  /\ Orders(Newer(M), M)
         /\ \A d, e \in M : <<d, e>> \in Newer(M) <=> NewestFirst(d, e)
<1>1. \A d, e \in M : <<d, e>> \in Newer(M) <=> NewestFirst(d, e)
  BY DEF Newer
<1>2. \A e \in M : e \in Int /\ Ev[e].created_at \in Int
  BY EventsAssumption DEF EventRecord
<1>3. \A d, e \in M : d # e => NewestFirst(d, e) \/ NewestFirst(e, d)
  BY <1>2 DEF NewestFirst
<1>4. \A d, e \in M : NewestFirst(d, e) => ~NewestFirst(e, d)
  BY <1>2 DEF NewestFirst
<1>5. \A c, d, e \in M : NewestFirst(c, d) /\ NewestFirst(d, e) => NewestFirst(c, e)
  <2> TAKE c, d, e \in M
  <2>1. PICK x, y, z \in Int : x = Ev[c].created_at /\ y = Ev[d].created_at /\ z = Ev[e].created_at
    BY <1>2
  <2>2. c \in Int /\ d \in Int /\ e \in Int
    BY <1>2
  <2>3. QED
    BY <2>1, <2>2 DEF NewestFirst
<1> HIDE DEF Newer
<1>6. QED
  BY <1>1, <1>3, <1>4, <1>5 DEF Orders

LEMMA NewestIsFirst ==
  ASSUME NEW M, NEW N, N \subseteq M, NEW n
  PROVE  Newest(N, n) = First(Newer(M), N, n)
<1>1. \A e \in N : {d \in N : NewestFirst(d, e)} = Before(Newer(M), N, e)
  BY DEF Newer, Before
<1>2. QED
  BY <1>1 DEF Newest, First

LEMMA InvertFits ==
  ASSUME NEW t \in 0 .. Width - 1
  PROVE  InvertTimestamp(t) = Width - 1 - t
<1>1. Width \in Nat /\ Width > 0
  BY QueryAssumption
<1>2. PICK x \in Int : x = Width - 1 - t /\ 0 <= x /\ x < Width
  BY <1>1
<1>3. x % Width = x
  BY <1>1, <1>2
<1>4. QED
  BY <1>2, <1>3 DEF InvertTimestamp

-----------------------------------------------------------------------------
(* While the times fit, the keys sort the newest first... *)
LEMMA KeysAreNewest ==
  ASSUME NEW v, NEW f, v.indexed \subseteq Id, FitsWidth(v, f),
         NEW d \in v.indexed, NEW e \in v.indexed
  PROVE  KeyBefore(d, e) <=> NewestFirst(d, e)
<1>1. \A t : t \in Int /\ Fits(t) => t \in 0 .. Width - 1
  BY EventsAssumption DEF Fits
<1>2. Ev[d].created_at \in 0 .. Width - 1 /\ Ev[e].created_at \in 0 .. Width - 1
  BY <1>1, EventsAssumption DEF EventRecord, FitsWidth
<1>3. Inverted(d) = Width - 1 - Ev[d].created_at /\ Inverted(e) = Width - 1 - Ev[e].created_at
  BY <1>2, InvertFits DEF Inverted
<1>4. PICK x, y \in Int : x = Ev[d].created_at /\ y = Ev[e].created_at
  BY <1>2
<1>5. Width \in Int
  BY QueryAssumption
<1>6. QED
  BY <1>3, <1>4, <1>5 DEF KeyBefore, NewestFirst

(* ... and the range of a scan holds all that matches. *)
LEMMA RangeHoldsSought ==
  ASSUME NEW v, NEW f \in Filter, NEW now, v.indexed \subseteq Id, FitsWidth(v, f),
         NEW S, NEW e \in S \cap Sought(v, f, now)
  PROVE  e \in TimeRange(f, S)
<1>1. e \in v.indexed /\ MatchFilter(f, e)
  BY DEF Sought
<1>2. \A t : t \in Int /\ Fits(t) => t \in 0 .. Width - 1
  BY EventsAssumption DEF Fits
<1>3. PICK x \in 0 .. Width - 1 : x = Ev[e].created_at
  BY <1>1, <1>2, EventsAssumption DEF EventRecord, FitsWidth
<1>4. Inverted(e) = Width - 1 - x
  BY <1>3, InvertFits DEF Inverted
<1>5. f.until \in Int \cup {None} /\ f.since \in Int \cup {None} /\ Width \in Int
  BY QueryAssumption DEF Filter, Optional
<1>6. ASSUME f.until # None PROVE Inverted(e) >= InvertTimestamp(f.until)
  <2>1. PICK u \in 0 .. Width - 1 : u = f.until
    BY <1>2, <1>5, <1>6 DEF FitsWidth
  <2>2. x <= u
    BY <1>1, <1>3, <1>6, <2>1 DEF MatchFilter
  <2>3. InvertTimestamp(f.until) = Width - 1 - u
    BY <2>1, InvertFits
  <2>4. QED
    BY <1>4, <1>5, <2>2, <2>3
<1>7. ASSUME f.since # None PROVE Inverted(e) <= InvertTimestamp(f.since)
  <2>1. PICK u \in 0 .. Width - 1 : u = f.since
    BY <1>2, <1>5, <1>7 DEF FitsWidth
  <2>2. x >= u
    BY <1>1, <1>3, <1>7, <2>1 DEF MatchFilter
  <2>3. InvertTimestamp(f.since) = Width - 1 - u
    BY <2>1, InvertFits
  <2>4. QED
    BY <1>4, <1>5, <2>2, <2>3
<1>8. QED
  BY <1>6, <1>7 DEF TimeRange

(* Some value of the index holds each event that matches. *)
LEMMA ValuesCover ==
  ASSUME NEW v, NEW f \in Filter, NEW now
  PROVE  /\ Values(v, f) \subseteq SUBSET v.indexed
         /\ Sought(v, f, now) \subseteq UNION Values(v, f)
<1>1. ASSUME NEW e \in Sought(v, f, now)
      PROVE  /\ e \in v.indexed
             /\ f.authors # None => Ev[e].pubkey \in f.authors
             /\ f.kinds # None => Ev[e].kind \in f.kinds
             /\ Given(f.e) => f.e \cap Ev[e].etags # {}
  BY <1>1 DEF Sought, MatchFilter, Given
<1>2. CASE Given(f.authors) /\ Given(f.kinds)
  <2>1. Values(v, f) =
         {{e \in v.indexed : Ev[e].pubkey = a /\ Ev[e].kind = k} : a \in f.authors, k \in f.kinds}
    BY <1>2 DEF Values
  <2>2. Values(v, f) \subseteq SUBSET v.indexed
    BY <2>1
  <2>3. ASSUME NEW e \in Sought(v, f, now) PROVE e \in UNION Values(v, f)
    <3> DEFINE a == Ev[e].pubkey
               k == Ev[e].kind
               Both == {c \in v.indexed : Ev[c].pubkey = a /\ Ev[c].kind = k}
    <3>1. a \in f.authors /\ k \in f.kinds /\ e \in v.indexed
      BY <1>1, <1>2 DEF Given
    <3>2. e \in Both
      BY <3>1
    <3>3. Both \in Values(v, f)
      BY <2>1, <3>1
    <3>4. QED
      BY <3>2, <3>3
  <2>4. QED
    BY <2>2, <2>3
<1>3. CASE Given(f.authors) /\ ~Given(f.kinds)
  <2>1. Values(v, f) = {{e \in v.indexed : Ev[e].pubkey = a} : a \in f.authors}
    BY <1>3 DEF Values
  <2>2. QED
    BY <1>1, <1>3, <2>1 DEF Given
<1>4. CASE ~Given(f.authors) /\ Given(f.kinds)
  <2>1. Values(v, f) = {{e \in v.indexed : Ev[e].kind = k} : k \in f.kinds}
    BY <1>4 DEF Values
  <2>2. QED
    BY <1>1, <1>4, <2>1 DEF Given
<1>5. CASE ~Given(f.authors) /\ ~Given(f.kinds) /\ Given(f.e)
  <2>1. Values(v, f) = {{e \in v.indexed : t \in Ev[e].etags} : t \in f.e}
    BY <1>5 DEF Values
  <2>2. QED
    BY <1>1, <1>5, <2>1 DEF Given
<1>6. CASE ~Given(f.authors) /\ ~Given(f.kinds) /\ ~Given(f.e)
  <2>1. Values(v, f) = {v.indexed}
    BY <1>6 DEF Values
  <2>2. QED
    BY <1>1, <2>1
<1>7. QED
  BY <1>2, <1>3, <1>4, <1>5, <1>6

-----------------------------------------------------------------------------
(***************************************************************************)
(* Every scan keeps the newest: of the events that match, one with fewer   *)
(* than limit newer ones is found by the scan of any value that holds it,  *)
(* because what the scan finds of that value it takes in the order of the  *)
(* keys, up to limit, and does not count what was found already.           *)
(***************************************************************************)
LEMMA ScanKeepsNewest ==
  ASSUME NEW v, NEW f \in Filter, NEW now, NEW limit \in Nat, NEW S, NEW seen,
         v.indexed \subseteq Id, v.indexed \subseteq v.events, IsFiniteSet(v.indexed),
         FitsWidth(v, f), S \subseteq v.indexed,
         NEW e, e \in First(Newer(Sought(v, f, now)), Sought(v, f, now), limit), e \in S
  PROVE  e \in ScanIndex(v, f, now, limit, S, seen)
<1> DEFINE M == Sought(v, f, now)
           C == {c \in TimeRange(f, S \cap v.events) \ seen : MatchFilter(f, c) /\ ~Expired(c, now)}
           K == {d \in C : KeyBefore(d, e)}
           P == Before(Newer(M), M, e)
<1>1. M \subseteq v.indexed /\ IsFiniteSet(M) /\ M \subseteq Id
  <2>1. M \subseteq v.indexed
    BY DEF Sought
  <2> HIDE DEF M
  <2>2. QED
    BY <2>1, FS_Subset
<1>2. e \in M /\ Cardinality(P) < limit
  BY DEF First
<1>3. C \subseteq M
  BY DEF TimeRange, Sought
<1>4. e \in seen \/ e \in C
  <2>1. e \in (S \cap v.events) \cap Sought(v, f, now)
    BY <1>1, <1>2
  <2>2. e \in TimeRange(f, S \cap v.events)
    BY <2>1, RangeHoldsSought
  <2>3. MatchFilter(f, e) /\ ~Expired(e, now)
    BY <1>2 DEF Sought
  <2>4. QED
    BY <2>2, <2>3
<1>5. ScanIndex(v, f, now, limit, S, seen) = seen \cup {c \in C : Cardinality({d \in C : KeyBefore(d, c)}) < limit}
  BY DEF ScanIndex, FirstKeys
<1> HIDE DEF C
<1>6. K \subseteq P
  <2> SUFFICES ASSUME NEW d \in C, KeyBefore(d, e) PROVE d \in P
    OBVIOUS
  <2>1. d \in M /\ d \in v.indexed /\ e \in v.indexed
    BY <1>1, <1>2, <1>3
  <2>2. NewestFirst(d, e)
    BY <2>1, KeysAreNewest
  <2> HIDE DEF M
  <2>3. <<d, e>> \in Newer(M)
    BY <1>1, <1>2, <2>1, <2>2, NewerOrders
  <2>4. QED
    BY <2>1, <2>3 DEF Before
<1> HIDE DEF M
<1>7. IsFiniteSet(P) /\ Cardinality(P) \in Nat
  BY <1>1, BeforeCount
<1> HIDE DEF K, P
<1>8. Cardinality(K) <= Cardinality(P) /\ Cardinality(K) \in Nat
  BY <1>6, <1>7, FS_Subset, FS_CardinalityType
<1>9. Cardinality(K) < limit
  BY <1>2, <1>7, <1>8
<1>10. QED
  BY <1>4, <1>5, <1>9 DEF K

LEMMA ScanComplete ==
  ASSUME NEW v, NEW f \in Filter, NEW now, NEW limit \in Nat,
         v.indexed \subseteq Id, v.indexed \subseteq v.events, IsFiniteSet(v.indexed),
         FitsWidth(v, f), NEW D, IsFiniteSet(D), D \subseteq SUBSET v.indexed,
         Sought(v, f, now) \subseteq UNION D
  PROVE  First(Newer(Sought(v, f, now)), Sought(v, f, now), limit)
           \subseteq Scanned(v, f, now, limit, D)
<1> DEFINE N == First(Newer(Sought(v, f, now)), Sought(v, f, now), limit)
<1>1. PICK g : ScansInTurn(v, f, now, limit, D, g) /\ Scanned(v, f, now, limit, D) = g[D]
  BY ScanFold
<1>2. N \subseteq UNION D
  BY DEF First
<1> DEFINE B == {s \in SUBSET D : ~(N \cap UNION s \subseteq g[s])}
<1>3. SUFFICES ASSUME B # {} PROVE FALSE
  BY <1>1, <1>2
<1>4. B \subseteq SUBSET D
  OBVIOUS
<1> HIDE DEF B
<1>5. PICK s \in B : \A w \in B : w \subseteq s => w = s
  BY <1>3, <1>4, SmallestSet
<1>6. s \in SUBSET D /\ ~(N \cap UNION s \subseteq g[s])
  BY <1>5 DEF B
<1>7. s # {}
  BY <1>6
<1>8. Chosen(s) \in s
  BY <1>7, ChosenIn
<1> DEFINE w == s \ {Chosen(s)}
<1>9. w \in SUBSET D /\ w \subseteq s /\ w # s
  BY <1>6, <1>8
<1>10. N \cap UNION w \subseteq g[w]
  BY <1>5, <1>9 DEF B
<1>11. g[s] = ScanIndex(v, f, now, limit, Chosen(s), g[w])
  BY <1>1, <1>6, <1>7 DEF ScansInTurn
<1>12. Chosen(s) \subseteq v.indexed
  BY <1>6, <1>8
<1>13. PICK e \in N \cap UNION s : e \notin g[s]
  BY <1>6
<1>14. e \in Chosen(s) \/ e \in UNION w
  BY <1>13
<1> HIDE DEF w
<1>15. g[w] \subseteq g[s]
  BY <1>11 DEF ScanIndex
<1>16. CASE e \in UNION w
  BY <1>10, <1>13, <1>15, <1>16
<1>17. CASE e \in Chosen(s)
  <2>1. e \in ScanIndex(v, f, now, limit, Chosen(s), g[w])
    BY <1>12, <1>13, <1>17, ScanKeepsNewest
  <2>2. QED
    BY <1>11, <1>13, <2>1
<1>18. QED
  BY <1>14, <1>16, <1>17

(* queryFilter returns only what matches... *)
LEMMA QuerySound ==
  ASSUME NEW v, NEW f \in Filter, NEW now, NEW limit \in Nat, IsFiniteSet(v.indexed)
  PROVE  QueryFilter(v, f, now, limit) \subseteq Matching(v, f, now)
<1>1. CASE ByIds(f)
  <2>1. QueryFilter(v, f, now, limit) =
          Newest({e \in f.ids \cap v.events : MatchFilter(f, e) /\ ~Expired(e, now)}, limit)
    BY <1>1 DEF QueryFilter
  <2>2. QED
    BY <1>1, <2>1 DEF Newest, Matching
<1>2. CASE ~ByIds(f)
  <2> DEFINE D == Values(v, f)
  <2>1. QueryFilter(v, f, now, limit) = Newest(Scanned(v, f, now, limit, D), limit)
    BY <1>2, Zenon DEF QueryFilter, Scanned
  <2>2. Matching(v, f, now) = Sought(v, f, now)
    BY <1>2 DEF Matching, Sought
  <2>3. D \subseteq SUBSET v.indexed /\ IsFiniteSet(SUBSET v.indexed)
    BY ValuesCover, FS_SUBSET
  <2> HIDE DEF D
  <2>4. IsFiniteSet(D)
    BY <2>3, FS_Subset
  <2>5. Scanned(v, f, now, limit, D) \subseteq Sought(v, f, now)
    BY <2>3, <2>4, ScanSound
  <2>6. QED
    BY <2>1, <2>2, <2>5 DEF Newest
<1>3. QED
  BY <1>1, <1>2

(* ... and, while the times fit, the newest of it. *)
LEMMA QueryExact ==
  ASSUME NEW v, NEW f \in Filter, NEW now, NEW limit \in Nat,
         v.events \subseteq Id, v.indexed \subseteq v.events, IsFiniteSet(v.events),
         FitsWidth(v, f)
  PROVE  QueryFilter(v, f, now, limit) = Newest(Matching(v, f, now), limit)
<1>1. CASE ByIds(f)
  <2>1. QueryFilter(v, f, now, limit) =
          Newest({e \in f.ids \cap v.events : MatchFilter(f, e) /\ ~Expired(e, now)}, limit)
    BY <1>1 DEF QueryFilter
  <2>2. Matching(v, f, now) = {e \in f.ids \cap v.events : MatchFilter(f, e) /\ ~Expired(e, now)}
    BY <1>1 DEF Matching, MatchFilter, ByIds, Given
  <2>3. QED
    BY <2>1, <2>2
<1>2. CASE ~ByIds(f)
  <2> DEFINE D == Values(v, f)
             M == Sought(v, f, now)
             N == Scanned(v, f, now, limit, D)
  <2>1. QueryFilter(v, f, now, limit) = Newest(N, limit)
    BY <1>2, Zenon DEF QueryFilter, Scanned
  <2>2. Matching(v, f, now) = M
    BY <1>2 DEF Matching, Sought
  <2>3. IsFiniteSet(v.indexed) /\ v.indexed \subseteq Id
    BY FS_Subset
  <2>4. D \subseteq SUBSET v.indexed /\ IsFiniteSet(SUBSET v.indexed) /\ M \subseteq UNION D
    BY <2>3, ValuesCover, FS_SUBSET
  <2>5. M \subseteq v.indexed
    BY DEF Sought
  <2> HIDE DEF D
  <2>6. IsFiniteSet(D)
    BY <2>4, FS_Subset
  <2>7. N \subseteq M
    BY <2>4, <2>6, ScanSound
  <2>8. First(Newer(M), M, limit) \subseteq N
    BY <2>3, <2>4, <2>6, ScanComplete
  <2> HIDE DEF M, N
  <2>9. IsFiniteSet(M) /\ M \subseteq Id
    BY <2>3, <2>5, FS_Subset
  <2>10. Orders(Newer(M), M)
    BY <2>9, NewerOrders
  <2>11. First(Newer(M), N, limit) = First(Newer(M), M, limit)
    BY <2>7, <2>8, <2>9, <2>10, FirstOfMore
  <2>12. Newest(N, limit) = First(Newer(M), N, limit) /\ Newest(M, limit) = First(Newer(M), M, limit)
    BY <2>7, NewestIsFirst
  <2>13. QED
    BY <2>1, <2>2, <2>11, <2>12
<1>3. QED
  BY <1>1, <1>2

-----------------------------------------------------------------------------
LEMMA AnswersAreExact ==
  ASSUME NEW v, NEW F \in SUBSET Filter, NEW now,
         v.events \subseteq Id, v.indexed \subseteq v.events, IsFiniteSet(v.events)
  PROVE  AnswersExact(v, F, now)
<1> DEFINE all == UNION {Matching(v, f, now) : f \in F}
<1>1. CountLimit \in Nat /\ \A f \in F : f \in Filter /\ f.limit \in Nat
  BY QueryAssumption DEF Filter
<1>2. IsFiniteSet(v.indexed)
  BY FS_Subset
<1>3. QueryFilters(v, F, now) \subseteq all
  <2>1. \A f \in F : QueryFilter(v, f, now, f.limit) \subseteq Matching(v, f, now)
    BY <1>1, <1>2, QuerySound
  <2>2. QED
    BY <2>1 DEF QueryFilters
<1>4. ASSUME \A f \in F : FitsWidth(v, f)
      PROVE  QueryFilters(v, F, now) = UNION {Newest(Matching(v, f, now), f.limit) : f \in F}
  <2>1. \A f \in F : QueryFilter(v, f, now, f.limit) = Newest(Matching(v, f, now), f.limit)
    BY <1>1, <1>4, QueryExact
  <2>2. QED
    BY <2>1 DEF QueryFilters
<1>5. ASSUME \A f \in F : FitsWidth(v, f), Cardinality(all) <= CountLimit
      PROVE  CountFilters(v, F, now) = Cardinality(all)
  <2>1. \A f \in F : Matching(v, f, now) \subseteq v.events
    BY DEF Matching
  <2>2. all \subseteq v.events
    BY <2>1
  <2>3. IsFiniteSet(all) /\ Cardinality(all) \in Nat
    BY <2>2, FS_Subset, FS_CardinalityType
  <2>4. ASSUME NEW f \in F
        PROVE  QueryFilter(v, f, now, CountLimit) = Matching(v, f, now)
    <3> DEFINE M == Matching(v, f, now)
    <3>1. M \subseteq all
      OBVIOUS
    <3>2. QueryFilter(v, f, now, CountLimit) = Newest(M, CountLimit)
      BY <1>1, <1>5, QueryExact
    <3>3. M \subseteq Id
      BY <2>1
    <3> HIDE DEF M, all
    <3>4. IsFiniteSet(M) /\ Cardinality(M) \in Nat /\ Cardinality(M) <= Cardinality(all)
      BY <2>3, <3>1, FS_Subset, FS_CardinalityType
    <3>5. Cardinality(M) <= CountLimit
      BY <1>1, <1>5, <2>3, <3>4 DEF all
    <3>6. Orders(Newer(M), M)
      BY <3>3, NewerOrders
    <3>7. First(Newer(M), M, CountLimit) = M
      BY <1>1, <3>4, <3>5, <3>6, FirstAll
    <3>8. Newest(M, CountLimit) = First(Newer(M), M, CountLimit)
      BY NewestIsFirst
    <3>9. QED
      BY <3>2, <3>7, <3>8 DEF M
  <2>5. UNION {QueryFilter(v, f, now, CountLimit) : f \in F} = all
    BY <2>4
  <2>6. QED
    BY <2>5 DEF CountFilters
<1>6. QED
  BY <1>3, <1>4, <1>5 DEF AnswersExact

-----------------------------------------------------------------------------
(* ExpiresBefore among the events of M, as a relation. *)
Sooner(M) == {x \in M \X M : ExpiresBefore(x[1], x[2])}

LEMMA ExpirationKeyFits ==
  ASSUME NEW e, Ev[e].expiration \in 0 .. Width - 1
  PROVE  ExpirationKey(e) = Ev[e].expiration
<1>1. PICK x \in 0 .. Width - 1 : x = Ev[e].expiration
  OBVIOUS
<1>2. Width \in Nat
  BY QueryAssumption
<1>3. PICK y \in 0 .. Width - 1 : y = Width - 1 - x
  BY <1>1, <1>2
<1>4. InvertTimestamp(y) = Width - 1 - y
  BY <1>3, InvertFits
<1>5. ExpirationKey(e) = InvertTimestamp(y)
  BY <1>1, <1>3 DEF ExpirationKey
<1>6. QED
  BY <1>1, <1>2, <1>3, <1>4, <1>5

LEMMA SoonerOrders ==
  ASSUME NEW M, M \subseteq Id, \A e \in M : ExpirationKey(e) \in Int
  PROVE  /\ Orders(Sooner(M), M)
         /\ \A d, e \in M : <<d, e>> \in Sooner(M) <=> ExpiresBefore(d, e)
<1>1. \A d, e \in M : <<d, e>> \in Sooner(M) <=> ExpiresBefore(d, e)
  BY DEF Sooner
<1>2. \A e \in M : e \in Int /\ ExpirationKey(e) \in Int
  BY EventsAssumption
<1>3. \A d, e \in M : d # e => ExpiresBefore(d, e) \/ ExpiresBefore(e, d)
  BY <1>2 DEF ExpiresBefore
<1>4. \A d, e \in M : ExpiresBefore(d, e) => ~ExpiresBefore(e, d)
  BY <1>2 DEF ExpiresBefore
<1>5. \A c, d, e \in M : ExpiresBefore(c, d) /\ ExpiresBefore(d, e) => ExpiresBefore(c, e)
  <2> TAKE c, d, e \in M
  <2>1. PICK x, y, z \in Int :
          x = ExpirationKey(c) /\ y = ExpirationKey(d) /\ z = ExpirationKey(e)
    BY <1>2
  <2>2. c \in Int /\ d \in Int /\ e \in Int
    BY <1>2
  <2>3. QED
    BY <2>1, <2>2 DEF ExpiresBefore
<1> HIDE DEF Sooner
<1>6. QED
  BY <1>1, <1>3, <1>4, <1>5 DEF Orders

LEMMA ReclaimIsExact ==
  ASSUME NEW v, NEW now \in 0 .. Width - 1, NEW limit \in Nat,
         v.indexed \subseteq Id, IsFiniteSet(v.indexed)
  PROVE  ReclaimsExpired(v, now, limit)
<1> SUFFICES ASSUME \A e \in v.indexed : Fits(Ev[e].expiration)
             PROVE  LET due    == {e \in v.indexed : Expired(e, now)}
                        listed == ListExpired(v, now, limit)
                    IN /\ listed \subseteq due
                       /\ listed # due =>
                            /\ Cardinality(listed) = limit
                            /\ \A e \in listed, d \in due \ listed :
                                 Ev[e].expiration <= Ev[d].expiration
  BY DEF ReclaimsExpired
<1> DEFINE due    == {e \in v.indexed : Expired(e, now)}
           listed == ListExpired(v, now, limit)
           past   == {e \in v.indexed : Expires(e) /\ ExpirationKey(e) <= now % Width}
<1>1. now % Width = now /\ Width \in Int
  <2>1. Width \in Nat \ {0}
    BY QueryAssumption
  <2>2. PICK x \in Int : x = now /\ 0 <= x /\ x < Width
    BY <2>1
  <2>3. QED
    BY <2>1, <2>2
<1>2. \A e \in v.indexed : Expires(e) =>
        Ev[e].expiration \in 0 .. Width - 1 /\ ExpirationKey(e) = Ev[e].expiration
  BY ExpirationKeyFits DEF Fits, Expires
<1>3. past = due
  BY <1>1, <1>2 DEF Expired
<1>4. \A e \in due : /\ e \in v.indexed /\ Expires(e)
                     /\ Ev[e].expiration \in 0 .. Width - 1
                     /\ ExpirationKey(e) = Ev[e].expiration
  BY <1>2 DEF Expired
<1>5. due \subseteq v.indexed
  OBVIOUS
<1>6. listed = First(Sooner(due), due, limit)
  <2>1. listed = {e \in due : Cardinality({d \in due : ExpiresBefore(d, e)}) < limit}
    BY <1>3 DEF ListExpired
  <2> HIDE DEF due, listed, past
  <2>2. \A e \in due : {d \in due : ExpiresBefore(d, e)} = Before(Sooner(due), due, e)
    BY DEF Sooner, Before
  <2>3. QED
    BY <2>1, <2>2 DEF First
<1> HIDE DEF due, listed, past
<1>7. IsFiniteSet(due) /\ due \subseteq Id
  BY <1>5, FS_Subset
<1>8. \A e \in due : ExpirationKey(e) \in Int
  BY <1>4
<1>9. Orders(Sooner(due), due) /\ \A d, e \in due : <<d, e>> \in Sooner(due) <=> ExpiresBefore(d, e)
  BY <1>7, <1>8, SoonerOrders
<1>10. listed \subseteq due
  BY <1>6 DEF First
<1>11. ASSUME listed # due
       PROVE  /\ Cardinality(listed) = limit
              /\ \A e \in listed, d \in due \ listed : <<e, d>> \in Sooner(due)
  BY <1>6, <1>7, <1>9, <1>11, FirstCount
<1>12. ASSUME listed # due, NEW e \in listed, NEW d \in due \ listed
       PROVE  Ev[e].expiration <= Ev[d].expiration
  <2>1. e \in due /\ d \in due /\ <<e, d>> \in Sooner(due)
    BY <1>10, <1>11, <1>12
  <2>2. ExpiresBefore(e, d)
    BY <1>9, <2>1
  <2>3. PICK x, y \in 0 .. Width - 1 : x = Ev[e].expiration /\ y = Ev[d].expiration
    BY <1>4, <2>1
  <2>4. ExpirationKey(e) = x /\ ExpirationKey(d) = y
    BY <1>4, <2>1, <2>3
  <2>5. x <= y
    BY <1>1, <2>2, <2>4 DEF ExpiresBefore
  <2>6. QED
    BY <2>3, <2>5
<1>13. QED
  BY <1>10, <1>11, <1>12 DEF due, listed

-----------------------------------------------------------------------------
(* A node of the log adds at most one event. *)
LEMMA RemoveAddsNone ==
  ASSUME NEW v, ViewInv(v), NEW S \in SUBSET v.events
  PROVE  RemoveEvents(v, S).events \subseteq v.events
<1>1. v \in View /\ S \in SUBSET Id
  BY DEF ViewInv, View
<1>2. RemoveEvents(v, S).events = v.events \ S
  BY <1>1, RemoveEventsFields
<1>3. QED
  BY <1>2

LEMMA StepAddsOne ==
  ASSUME IInv, Next
  PROVE  \E e : view'.events \subseteq view.events \cup {e}
<1>1. ViewInv(view) /\ view \in View
  BY DEF IInv, ViewInv
<1>2. ASSUME NEW w \in Key, NEW e \in Id, Put(w, e)
      PROVE  view'.events \subseteq view.events \cup {e}
  BY <1>1, <1>2, PutAddsOne DEF Put
<1>3. ASSUME NEW w \in Key, NEW e \in Id, Delete(w, e)
      PROVE  view'.events \subseteq view.events \cup {e}
  BY <1>1, <1>3, DeleteAddsOne DEF Delete
<1>4. ASSUME NEW w \in Key, NEW k \in Key, AddWriter(w, k)
      PROVE  view'.events = view.events
  BY <1>1, <1>4 DEF AddWriter, ApplyAddWriter, View
<1>5. ASSUME NEW w \in Key, NEW S \in Batches, ExpiryDelete(w, S)
      PROVE  view'.events \subseteq view.events
  BY <1>1, <1>5, ReclaimLists, RemoveAddsNone DEF ExpiryDelete, ApplyExpiryDelete
<1>6. ASSUME NEW w \in Key, NEW S \in Batches, PruneDelete(w, S)
      PROVE  view'.events \subseteq view.events
  BY <1>1, <1>6, ReclaimLists, RemoveAddsNone DEF PruneDelete, ApplyPruneDelete
<1>7. ASSUME NEW w \in Key, NEW b \in BOOLEAN, SetConfig(w, b)
      PROVE  view'.events = view.events
  BY <1>1, <1>7 DEF SetConfig, ApplySetConfig, View
<1>8. ASSUME NEW e \in Id, OptimisticPut(e)
      PROVE  view'.events \subseteq view.events \cup {e}
  BY <1>1, <1>8, PutAddsOne DEF OptimisticPut, ApplyOptimistic
<1>9. ASSUME NEW w \in Key, Interrupt(w)
      PROVE  view'.events = view.events
  BY <1>9 DEF Interrupt
<1>10. QED
  BY <1>2, <1>3, <1>4, <1>5, <1>6, <1>7, <1>8, <1>9 DEF Next

(* A view is finite, though the events that may be published need not be. *)
Finite == IsFiniteSet(view.events)

LEMMA InitFinite == Init => Finite
  BY FS_EmptySet DEF Init, EmptyView, Finite

LEMMA StepFinite == IInv /\ Finite /\ [Next]_vars => Finite'
<1> SUFFICES ASSUME IInv, Finite, [Next]_vars
             PROVE  IsFiniteSet(view'.events)
  BY DEF Finite
<1>1. CASE Next
  <2>1. PICK e : view'.events \subseteq view.events \cup {e}
    BY <1>1, StepAddsOne
  <2>2. IsFiniteSet(view.events \cup {e})
    BY FS_AddElement DEF Finite
  <2>3. QED
    BY <2>1, <2>2, FS_Subset
<1>2. CASE UNCHANGED vars
  BY <1>2 DEF vars, Finite
<1>3. QED
  BY <1>1, <1>2

(***************************************************************************)
(* In every view that a log can reach, REQ and COUNT are answered exactly  *)
(* whichever index serves a filter, however many of its values share the   *)
(* work of the scan, and the founder reclaims exactly what has expired     *)
(* (queryFilter, countFilters, scanIndex and listExpired).                 *)
(***************************************************************************)
THEOREM ReadsStayExact == Spec => []ReadsAreExact
<1>1. IInv /\ Finite => ReadsAreExact
  <2> SUFFICES ASSUME IInv, Finite PROVE ReadsAreExact
    OBVIOUS
  <2>1. /\ view.events \subseteq Id
        /\ view.indexed \subseteq view.events
        /\ view.indexed \subseteq Id
        /\ IsFiniteSet(view.events)
    BY DEF IInv, ViewInv, View, IndexesAgree, Finite
  <2>2. IsFiniteSet(view.indexed)
    BY <2>1, FS_Subset
  <2>3. \A now \in Clock, F \in Requests : AnswersExact(view, F, now)
    BY <2>1, AnswersAreExact, ReadsAssumption
  <2>4. \A now \in Clock : ReclaimsExpired(view, now, Sweep)
    BY <2>1, <2>2, ReclaimIsExact, ReadsAssumption
  <2>5. QED
    BY <2>3, <2>4 DEF ReadsAreExact
<1>2. Spec => []Finite
  BY InitFinite, StepFinite, Invariance, PTL DEF Spec
<1>3. QED
  BY <1>1, <1>2, Invariance, PTL

=============================================================================
