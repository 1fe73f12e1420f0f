--------------------------- MODULE StoreView_proofs ---------------------------
(***************************************************************************)
(* Each handler of apply takes a consistent view to a consistent view, for *)
(* every set of events, writers and caps.  The modules whose state holds a *)
(* view (EventStore, Replica) cite these lemmas step by step.              *)
(***************************************************************************)
EXTENDS StoreView, FiniteSetTheorems, TLAPS

(* Versions of an instance have a slot. *)
LEMMA SlotIsKey == \A e \in Versioned : e \in Id /\ Slot(e) \in SlotKey
  BY DEF Versioned, SlotKey

(***************************************************************************)
(* The parts of a view that no event op touches leave AdmissionsRooted as  *)
(* it is.                                                                  *)
(***************************************************************************)
LEMMA SameWriters ==
  ASSUME NEW v, NEW w, w.addedBy = v.addedBy, AdmissionsRooted(v)
  PROVE  AdmissionsRooted(w)
  BY DEF AdmissionsRooted, Writers, MayWrite

(* removeIndexes and the removal of the events themselves. *)
LEMMA RemoveEventsFields ==
  ASSUME NEW v \in View, NEW S \in SUBSET Id
  PROVE  LET w == RemoveEvents(v, S) IN
           /\ w \in View
           /\ w.events = v.events \ S
           /\ w.indexed = v.indexed \ S
           /\ w.pointer = [s \in SlotKey |-> IF v.pointer[s] \in S THEN None ELSE v.pointer[s]]
           /\ w.deletion = v.deletion
           /\ w.addedBy = v.addedBy
           /\ w.accept = v.accept
  BY DEF View, RemoveEvents, RemoveIndexes

LEMMA RemoveEventsKeepsInv ==
  ASSUME NEW v, ViewInv(v), NEW S \in SUBSET v.events
  PROVE  ViewInv(RemoveEvents(v, S))
<1> DEFINE w == RemoveEvents(v, S)
<1>1. v \in View /\ S \in SUBSET Id
  BY DEF ViewInv, View
<1>2. /\ w \in View
      /\ w.events = v.events \ S
      /\ w.indexed = v.indexed \ S
      /\ w.pointer = [s \in SlotKey |-> IF v.pointer[s] \in S THEN None ELSE v.pointer[s]]
      /\ w.deletion = v.deletion
      /\ w.addedBy = v.addedBy
  BY <1>1, RemoveEventsFields
<1> HIDE DEF w
<1>3. IndexesAgree(w)
  <2>1. \A s \in SlotKey : w.pointer[s] = IF v.pointer[s] \in S THEN None ELSE v.pointer[s]
    BY <1>2
  <2>2. IndexesAgree(v)
    BY DEF ViewInv
  <2>3. \A e \in Versioned : e \in w.indexed <=> w.pointer[Slot(e)] = e
    BY <1>2, <2>1, <2>2, SlotIsKey, EventsAssumption DEF IndexesAgree
  <2>4. QED
    BY <1>2, <2>1, <2>2, <2>3 DEF IndexesAgree
<1>4. OnlyAdmissible(w) /\ TombstonesHold(w)
  BY <1>2 DEF ViewInv, OnlyAdmissible, TombstonesHold
<1>5. AdmissionsRooted(w)
  BY <1>2, SameWriters DEF ViewInv
<1>6. QED
  BY <1>2, <1>3, <1>4, <1>5 DEF ViewInv, w

-----------------------------------------------------------------------------
(***************************************************************************)
(* applyPut.  The previous version, if the pointer references a stored     *)
(* one, is the only rival among the indexed events.                        *)
(***************************************************************************)
LEMMA PreviousIsRival ==
  ASSUME NEW v, ViewInv(v), NEW e \in Id
  PROVE  /\ Previous(v, e) \subseteq v.events
         /\ \A p \in Previous(v, e) : e \in Versioned /\ p \in Versioned /\ Slot(p) = Slot(e)
         /\ \A o \in v.indexed : e \in Versioned /\ o \in Versioned /\ Slot(o) = Slot(e)
                                => o \in Previous(v, e)
<1>1. v \in View /\ IndexesAgree(v)
  BY DEF ViewInv
<1>2. v.events \subseteq Id
  BY <1>1 DEF View
<1>3. CASE e \in Versioned
  <2>1. Previous(v, e) = {v.pointer[Slot(e)]} \cap v.events
    BY <1>3 DEF Previous
  <2>2. \A p \in Previous(v, e) : p # None /\ p = v.pointer[Slot(e)]
    BY <1>2, <2>1, EventsAssumption
  <2>3. \A p \in Previous(v, e) : p \in Versioned /\ Slot(p) = Slot(e)
    BY <1>1, <1>3, <2>2, SlotIsKey DEF IndexesAgree
  <2>4. \A o \in v.indexed : o \in Versioned /\ Slot(o) = Slot(e) => o \in Previous(v, e)
    BY <1>1, <2>1 DEF IndexesAgree
  <2>5. QED
    BY <1>3, <2>1, <2>3, <2>4
<1>4. CASE e \notin Versioned
  BY <1>4 DEF Previous
<1>5. QED
  BY <1>3, <1>4

LEMMA StoreFields ==
  ASSUME NEW v \in View, NEW S \in SUBSET Id, NEW e \in Id
  PROVE  LET w == Store(RemoveIndexes(v, S), e) IN
           /\ w \in View
           /\ w.events = v.events \cup {e}
           /\ w.indexed = (v.indexed \ S) \cup {e}
           /\ \A s \in SlotKey :
                w.pointer[s] = IF e \in Versioned /\ s = Slot(e) THEN e
                               ELSE IF v.pointer[s] \in S THEN None ELSE v.pointer[s]
           /\ w.deletion = v.deletion
           /\ w.addedBy = v.addedBy
           /\ w.accept = v.accept
<1> DEFINE u == RemoveIndexes(v, S)
           w == Store(u, e)
<1>1. /\ u \in View
      /\ u.events = v.events
      /\ u.indexed = v.indexed \ S
      /\ u.pointer = [s \in SlotKey |-> IF v.pointer[s] \in S THEN None ELSE v.pointer[s]]
      /\ u.deletion = v.deletion
      /\ u.addedBy = v.addedBy
      /\ u.accept = v.accept
  BY DEF View, RemoveIndexes
<1> HIDE DEF u
<1>2. /\ w \in View
      /\ w.events = u.events \cup {e}
      /\ w.indexed = u.indexed \cup {e}
      /\ w.pointer = IF e \in Versioned THEN [u.pointer EXCEPT ![Slot(e)] = e] ELSE u.pointer
      /\ w.deletion = u.deletion
      /\ w.addedBy = u.addedBy
      /\ w.accept = u.accept
  BY <1>1, SlotIsKey DEF View, Store
<1>3. \A s \in SlotKey :
        w.pointer[s] = IF e \in Versioned /\ s = Slot(e) THEN e
                       ELSE IF v.pointer[s] \in S THEN None ELSE v.pointer[s]
  <2>1. u.pointer \in [SlotKey -> Id \cup {None}]
    BY <1>1 DEF View
  <2>2. QED
    BY <1>1, <1>2, <2>1, SlotIsKey
<1>4. QED
  BY <1>1, <1>2, <1>3 DEF u

(* What a put that is stored does to the view. *)
LEMMA ApplyPutEffect ==
  ASSUME NEW v, ViewInv(v), NEW e \in Id, PutStores(v, e)
  PROVE  LET w == ApplyPut(v, e)
             P == Previous(v, e)
         IN  /\ w \in View
             /\ w.events = v.events \cup {e}
             /\ w.indexed = (v.indexed \ P) \cup {e}
             /\ \A s \in SlotKey :
                  w.pointer[s] = IF e \in Versioned /\ s = Slot(e) THEN e
                                 ELSE IF v.pointer[s] \in P THEN None ELSE v.pointer[s]
             /\ w.deletion = v.deletion
             /\ w.addedBy = v.addedBy
<1>1. v \in View /\ v.events \subseteq Id
  BY DEF ViewInv, View
<1>2. Previous(v, e) \in SUBSET Id
  BY <1>1, PreviousIsRival
<1>3. ApplyPut(v, e) = Store(RemoveIndexes(v, Previous(v, e)), e)
  BY DEF ApplyPut
<1>4. QED
  BY <1>1, <1>2, <1>3, StoreFields

LEMMA ApplyPutKeepsInv ==
  ASSUME NEW v, ViewInv(v), NEW e \in Id
  PROVE  ViewInv(ApplyPut(v, e))
<1>1. CASE ~PutStores(v, e)
  BY <1>1 DEF ApplyPut
<1>2. CASE PutStores(v, e)
  <2> DEFINE P == Previous(v, e)
             w == ApplyPut(v, e)
  <2>1. /\ v \in View
        /\ IndexesAgree(v)
        /\ v.events \subseteq Id
    BY DEF ViewInv, View
  <2>2. /\ P \subseteq v.events
        /\ \A p \in P : e \in Versioned /\ p \in Versioned /\ Slot(p) = Slot(e)
        /\ \A o \in v.indexed : e \in Versioned /\ o \in Versioned /\ Slot(o) = Slot(e) => o \in P
    BY PreviousIsRival
  <2>4. /\ w \in View
        /\ w.events = v.events \cup {e}
        /\ w.indexed = (v.indexed \ P) \cup {e}
        /\ \A s \in SlotKey :
             w.pointer[s] = IF e \in Versioned /\ s = Slot(e) THEN e
                            ELSE IF v.pointer[s] \in P THEN None ELSE v.pointer[s]
        /\ w.deletion = v.deletion
        /\ w.addedBy = v.addedBy
    BY <1>2, ApplyPutEffect
  <2> HIDE DEF w, P
  <2>5. e \notin v.events /\ Admissible(e) /\ ~Ephemeral(e) /\ v.deletion[e] \notin {Legacy, Ev[e].pubkey}
    BY <1>2 DEF PutStores, BlockedByTombstone
  <2>6. IndexesAgree(w)
    <3>1. w.indexed \subseteq w.events
      BY <2>1, <2>4 DEF IndexesAgree
    <3>2. \A x \in w.events : x \in w.indexed \/ x \in Versioned
      BY <2>1, <2>2, <2>4 DEF IndexesAgree
    <3>3. ASSUME NEW x \in Versioned
          PROVE  x \in w.indexed <=> w.pointer[Slot(x)] = x
      <4>1. x \in Id /\ Slot(x) \in SlotKey /\ x # None
        BY SlotIsKey, EventsAssumption
      <4>2. w.pointer[Slot(x)] = IF e \in Versioned /\ Slot(x) = Slot(e) THEN e
                                 ELSE IF v.pointer[Slot(x)] \in P THEN None ELSE v.pointer[Slot(x)]
        BY <2>4, <4>1
      <4>3. x \in v.indexed <=> v.pointer[Slot(x)] = x
        BY <2>1 DEF IndexesAgree
      <4>4. CASE x = e
        BY <2>4, <4>2, <4>4
      <4>5. CASE x # e /\ e \in Versioned /\ Slot(x) = Slot(e)
        BY <2>2, <2>4, <4>2, <4>5
      <4>6. CASE x # e /\ ~(e \in Versioned /\ Slot(x) = Slot(e))
        BY <2>2, <2>4, <4>1, <4>2, <4>3, <4>6
      <4>7. QED
        BY <4>4, <4>5, <4>6
    <3>4. ASSUME NEW s \in SlotKey, w.pointer[s] # None
          PROVE  w.pointer[s] \in Versioned /\ Slot(w.pointer[s]) = s
      BY <2>1, <2>4, <3>4 DEF IndexesAgree
    <3>5. QED
      BY <3>1, <3>2, <3>3, <3>4 DEF IndexesAgree
  <2>7. OnlyAdmissible(w) /\ TombstonesHold(w)
    BY <2>4, <2>5 DEF ViewInv, OnlyAdmissible, TombstonesHold
  <2>8. AdmissionsRooted(w)
    BY <2>4, SameWriters DEF ViewInv
  <2>9. QED
    BY <2>4, <2>6, <2>7, <2>8 DEF ViewInv, w, P
<1>3. QED
  BY <1>1, <1>2

-----------------------------------------------------------------------------
(***************************************************************************)
(* applyDelete.  Removing the author's targets first is what lets the      *)
(* overwritten tombstones hold.                                            *)
(***************************************************************************)
LEMMA EntombFields ==
  ASSUME NEW v \in View, NEW e \in Id
  PROVE  LET w == Entomb(v, e) IN
           /\ w \in View
           /\ w.events = v.events
           /\ w.indexed = v.indexed
           /\ w.pointer = v.pointer
           /\ \A t \in Id : w.deletion[t] = IF t \in Ev[e].etags THEN Ev[e].pubkey ELSE v.deletion[t]
           /\ w.addedBy = v.addedBy
           /\ w.accept = v.accept
<1>1. Ev[e].pubkey \in Pubkey
  BY EventsAssumption DEF EventRecord
<1>2. QED
  BY <1>1 DEF View, Entomb

(***************************************************************************)
(* applyDelete is a removal of the author's targets followed by a put, and *)
(* the put sees a view that still satisfies the invariant.                 *)
(***************************************************************************)
LEMMA DeleteSplits ==
  ASSUME NEW v, ViewInv(v), NEW e \in Id, Ev[e].valid
  PROVE  \E u : /\ ViewInv(u)
                /\ u.events = v.events \ Deletable(v, e)
                /\ u.indexed = v.indexed \ Deletable(v, e)
                /\ u.pointer = [s \in SlotKey |-> IF v.pointer[s] \in Deletable(v, e)
                                                  THEN None ELSE v.pointer[s]]
                /\ ApplyDelete(v, e) = ApplyPut(u, e)
<1> DEFINE r == RemoveEvents(v, Deletable(v, e))
           w == Entomb(r, e)
<1>1. Deletable(v, e) \in SUBSET v.events /\ v \in View /\ v.events \subseteq Id
  BY DEF Deletable, ViewInv, View
<1>2. Deletable(v, e) \in SUBSET Id
  BY <1>1
<1>3. ViewInv(r)
  BY <1>1, RemoveEventsKeepsInv
<1>4. /\ r.events = v.events \ Deletable(v, e)
      /\ r.indexed = v.indexed \ Deletable(v, e)
      /\ r.pointer = [s \in SlotKey |-> IF v.pointer[s] \in Deletable(v, e)
                                        THEN None ELSE v.pointer[s]]
  BY <1>1, <1>2, RemoveEventsFields
<1> HIDE DEF r
<1>5. /\ w \in View
      /\ w.events = r.events
      /\ w.indexed = r.indexed
      /\ w.pointer = r.pointer
      /\ \A t \in Id : w.deletion[t] = IF t \in Ev[e].etags THEN Ev[e].pubkey ELSE r.deletion[t]
      /\ w.addedBy = r.addedBy
  BY <1>3, EntombFields DEF ViewInv
<1>6. ApplyDelete(v, e) = ApplyPut(w, e)
  BY DEF ApplyDelete, r
<1> HIDE DEF w
<1>7. IndexesAgree(w) /\ OnlyAdmissible(w)
  BY <1>3, <1>5 DEF ViewInv, IndexesAgree, OnlyAdmissible
<1>8. TombstonesHold(w)
  <2>1. SUFFICES ASSUME NEW t \in w.events
                 PROVE  w.deletion[t] \notin {Legacy, Ev[t].pubkey}
    BY DEF TombstonesHold
  <2>2. t \in Id /\ t \in r.events /\ t \in v.events
    BY <1>1, <1>4, <1>5
  <2>3. CASE t \in Ev[e].etags
    <3>1. w.deletion[t] = Ev[e].pubkey /\ Ev[e].pubkey \in Pubkey
      BY <1>5, <2>2, <2>3, EventsAssumption DEF EventRecord
    <3>2. Ev[t].pubkey # Ev[e].pubkey
      BY <1>4, <2>2, <2>3 DEF Deletable
    <3>3. QED
      BY <3>1, <3>2, StoreAssumption
  <2>4. CASE t \notin Ev[e].etags
    BY <1>3, <1>5, <2>2, <2>4 DEF ViewInv, TombstonesHold
  <2>5. QED
    BY <2>3, <2>4
<1>9. AdmissionsRooted(w)
  BY <1>3, <1>5, SameWriters DEF ViewInv
<1>10. ViewInv(w)
  BY <1>5, <1>7, <1>8, <1>9 DEF ViewInv
<1>11. QED
  BY <1>4, <1>5, <1>6, <1>10

LEMMA ApplyDeleteKeepsInv ==
  ASSUME NEW v, ViewInv(v), NEW e \in Id
  PROVE  ViewInv(ApplyDelete(v, e))
<1>1. CASE Ev[e].valid
  <2>1. PICK u : ViewInv(u) /\ ApplyDelete(v, e) = ApplyPut(u, e)
    BY <1>1, DeleteSplits
  <2>2. QED
    BY <2>1, ApplyPutKeepsInv
<1>2. CASE ~Ev[e].valid
  BY <1>2 DEF ApplyDelete
<1>3. QED
  BY <1>1, <1>2

-----------------------------------------------------------------------------
(***************************************************************************)
(* applyAddWriter.  The admitter writes already and the candidate does     *)
(* not, so the candidate cannot close a cycle of admissions.               *)
(***************************************************************************)
LEMMA AddWriterKeepsInv ==
  ASSUME NEW v, ViewInv(v), NEW from \in MayWrite(v), NEW k \in Key
  PROVE  ViewInv(ApplyAddWriter(v, from, k))
<1> DEFINE w == [v EXCEPT !.addedBy[k] = from]
<1>1. CASE ~(k # Founder /\ k \notin Writers(v) /\ Cardinality(Writers(v)) < MaxWriters)
  BY <1>1 DEF ApplyAddWriter
<1>2. CASE k # Founder /\ k \notin Writers(v) /\ Cardinality(Writers(v)) < MaxWriters
  <2>1. v \in View /\ AdmissionsRooted(v)
    BY DEF ViewInv
  <2>2. from \in Key /\ from # None /\ from # k
    BY <1>2, StoreAssumption DEF MayWrite, Writers
  <2>3. /\ w \in View
        /\ w.events = v.events
        /\ w.indexed = v.indexed
        /\ w.pointer = v.pointer
        /\ w.deletion = v.deletion
        /\ w.addedBy = [v.addedBy EXCEPT ![k] = from]
    BY <2>1, <2>2 DEF View
  <2>4. /\ v.addedBy \in [Key -> Key \cup {None}]
        /\ w.addedBy[k] = from
        /\ \A j \in Key : j # k => w.addedBy[j] = v.addedBy[j]
    BY <2>1, <2>3 DEF View
  <2> HIDE DEF w
  <2>5. Writers(w) = Writers(v) \cup {k}
    BY <2>2, <2>4 DEF Writers
  <2>6. Cardinality(Writers(w)) <= MaxWriters
    <3>1. IsFiniteSet(Writers(v))
      BY StoreAssumption, FS_Subset DEF Writers
    <3>2. Cardinality(Writers(w)) = Cardinality(Writers(v)) + 1 /\ Cardinality(Writers(v)) \in Nat
      BY <1>2, <2>5, <3>1, FS_AddElement, FS_CardinalityType
    <3>3. QED
      BY <1>2, <3>2, StoreAssumption
  <2>7. \A j \in Writers(w) : w.addedBy[j] \in MayWrite(w)
    BY <2>1, <2>4, <2>5 DEF AdmissionsRooted, MayWrite, Writers
  <2>8. ASSUME NEW S \in SUBSET Writers(w), S # {}
        PROVE  \E j \in S : w.addedBy[j] \notin S
    <3>1. CASE S \subseteq Writers(v)
      <4>1. PICK j \in S : v.addedBy[j] \notin S
        BY <2>1, <2>8, <3>1 DEF AdmissionsRooted
      <4>2. j \in Key /\ j # k
        BY <1>2, <3>1 DEF Writers
      <4>3. QED
        BY <2>4, <4>1, <4>2
    <3>2. CASE k \in S /\ S \ {k} = {}
      BY <2>2, <2>4, <3>2
    <3>3. CASE k \in S /\ S \ {k} # {}
      <4>1. S \ {k} \in SUBSET Writers(v)
        BY <2>5
      <4>2. PICK j \in S \ {k} : v.addedBy[j] \notin S \ {k}
        BY <2>1, <3>3, <4>1 DEF AdmissionsRooted
      <4>3. v.addedBy[j] \in MayWrite(v) /\ k \notin MayWrite(v) /\ j \in Key
        BY <1>2, <2>1, <4>1, <4>2 DEF AdmissionsRooted, MayWrite, Writers
      <4>4. QED
        BY <2>4, <4>2, <4>3
    <3>4. QED
      BY <2>5, <2>8, <3>1, <3>2, <3>3
  <2>9. AdmissionsRooted(w)
    BY <1>2, <2>1, <2>5, <2>6, <2>7, <2>8 DEF AdmissionsRooted
  <2>10. IndexesAgree(w) /\ OnlyAdmissible(w) /\ TombstonesHold(w)
    BY <2>3 DEF ViewInv, IndexesAgree, OnlyAdmissible, TombstonesHold
  <2>11. QED
    BY <1>2, <2>3, <2>9, <2>10 DEF ViewInv, ApplyAddWriter, w
<1>3. QED
  BY <1>1, <1>2

(* The founder's ops and the optimistic path. *)
LEMMA ExpiryDeleteKeepsInv ==
  ASSUME NEW v, ViewInv(v), NEW from, NEW S
  PROVE  ViewInv(ApplyExpiryDelete(v, from, S))
<1>1. {e \in S \cap v.events : Expires(e)} \in SUBSET v.events
  OBVIOUS
<1>2. QED
  BY <1>1, RemoveEventsKeepsInv DEF ApplyExpiryDelete

LEMMA PruneDeleteKeepsInv ==
  ASSUME NEW v, ViewInv(v), NEW from, NEW S
  PROVE  ViewInv(ApplyPruneDelete(v, from, S))
<1>1. S \cap v.events \in SUBSET v.events
  OBVIOUS
<1>2. QED
  BY <1>1, RemoveEventsKeepsInv DEF ApplyPruneDelete

LEMMA SetConfigKeepsInv ==
  ASSUME NEW v, ViewInv(v), NEW from, NEW b \in BOOLEAN
  PROVE  ViewInv(ApplySetConfig(v, from, b))
<1> DEFINE w == [v EXCEPT !.accept = b]
<1>1. /\ w \in View
      /\ w.events = v.events
      /\ w.indexed = v.indexed
      /\ w.pointer = v.pointer
      /\ w.deletion = v.deletion
      /\ w.addedBy = v.addedBy
  BY DEF ViewInv, View
<1> HIDE DEF w
<1>2. IndexesAgree(w) /\ OnlyAdmissible(w) /\ TombstonesHold(w)
  BY <1>1 DEF ViewInv, IndexesAgree, OnlyAdmissible, TombstonesHold
<1>3. AdmissionsRooted(w)
  BY <1>1, SameWriters DEF ViewInv
<1>4. QED
  BY <1>1, <1>2, <1>3 DEF ViewInv, ApplySetConfig, w

LEMMA OptimisticKeepsInv ==
  ASSUME NEW v, ViewInv(v), NEW e \in Id
  PROVE  ViewInv(ApplyOptimistic(v, e))
BY ApplyPutKeepsInv DEF ApplyOptimistic

LEMMA EmptyViewInv ==
  ASSUME NEW L \in SUBSET Id
  PROVE  ViewInv(EmptyView(L))
<1> DEFINE v == EmptyView(L)
<1>1. /\ v \in View
      /\ v.events = {}
      /\ v.indexed = {}
      /\ v.pointer = [s \in SlotKey |-> None]
      /\ v.addedBy = [k \in Key |-> None]
  BY DEF View, EmptyView
<1> HIDE DEF v
<1>2. IndexesAgree(v)
  BY <1>1, SlotIsKey, EventsAssumption DEF IndexesAgree
<1>3. OnlyAdmissible(v) /\ TombstonesHold(v)
  BY <1>1 DEF OnlyAdmissible, TombstonesHold
<1>4. Writers(v) = {}
  BY <1>1 DEF Writers
<1>5. AdmissionsRooted(v)
  BY <1>4, FS_EmptySet, StoreAssumption DEF AdmissionsRooted
<1>6. QED
  BY <1>1, <1>2, <1>3, <1>5 DEF ViewInv, v

-----------------------------------------------------------------------------
(* What the handlers may lose, and how slots change. *)
LEMMA PutLosesNothing ==
  ASSUME NEW v, ViewInv(v), NEW e \in Id
  PROVE  v.events \subseteq ApplyPut(v, e).events
<1>1. CASE PutStores(v, e)
  BY <1>1, ApplyPutEffect
<1>2. CASE ~PutStores(v, e)
  BY <1>2 DEF ApplyPut
<1>3. QED
  BY <1>1, <1>2

LEMMA PutMovesForward ==
  ASSUME NEW v, ViewInv(v), NEW e \in Id
  PROVE  MovesForward(v, ApplyPut(v, e))
<1> DEFINE w == ApplyPut(v, e)
<1>1. CASE ~PutStores(v, e)
  BY <1>1 DEF ApplyPut, MovesForward
<1>2. CASE PutStores(v, e)
  <2> SUFFICES ASSUME NEW s \in SlotKey, v.pointer[s] \in w.events, w.pointer[s] # v.pointer[s]
               PROVE  w.pointer[s] # None /\ ShouldReplace(v.pointer[s], w.pointer[s])
    BY DEF MovesForward
  <2>1. /\ w.events = v.events \cup {e}
        /\ w.pointer[s] = IF e \in Versioned /\ s = Slot(e) THEN e
                          ELSE IF v.pointer[s] \in Previous(v, e) THEN None ELSE v.pointer[s]
    BY <1>2, ApplyPutEffect
  <2>2. \A p \in Previous(v, e) : e \in Versioned /\ p \in Versioned /\ Slot(p) = Slot(e)
    BY PreviousIsRival
  <2>3. /\ IndexesAgree(v)
        /\ e # None
        /\ v.pointer[s] # None => v.pointer[s] \in Versioned /\ Slot(v.pointer[s]) = s
    BY EventsAssumption DEF ViewInv, IndexesAgree
  <2>4. v.pointer[s] # None
    BY <2>1, EventsAssumption DEF ViewInv, View
  <2>5. CASE e \in Versioned /\ s = Slot(e)
    <3>1. v.pointer[s] \in Previous(v, e)
      BY <2>1, <2>5 DEF Previous
    <3>2. QED
      BY <1>2, <2>1, <2>3, <2>5, <3>1 DEF PutStores
  <2>6. CASE ~(e \in Versioned /\ s = Slot(e))
    BY <2>1, <2>2, <2>3, <2>4, <2>6
  <2>7. QED
    BY <2>5, <2>6
<1>3. QED
  BY <1>1, <1>2

LEMMA RemoveMovesForward ==
  ASSUME NEW v, ViewInv(v), NEW S \in SUBSET v.events
  PROVE  MovesForward(v, RemoveEvents(v, S))
<1> DEFINE w == RemoveEvents(v, S)
<1>1. v \in View /\ S \in SUBSET Id
  BY DEF ViewInv, View
<1>2. /\ w.events = v.events \ S
      /\ w.pointer = [s \in SlotKey |-> IF v.pointer[s] \in S THEN None ELSE v.pointer[s]]
  BY <1>1, RemoveEventsFields
<1>3. SUFFICES ASSUME NEW s \in SlotKey, v.pointer[s] \in w.events, w.pointer[s] # v.pointer[s]
               PROVE  FALSE
  BY Zenon DEF MovesForward
<1>4. QED
  BY <1>2, <1>3

LEMMA DeleteLosesOnlyOwn ==
  ASSUME NEW v, ViewInv(v), NEW e \in Id
  PROVE  \A t \in v.events \ ApplyDelete(v, e).events : Ev[e].valid /\ t \in Deletable(v, e)
<1>1. CASE Ev[e].valid
  <2>1. PICK u : /\ ViewInv(u)
                 /\ u.events = v.events \ Deletable(v, e)
                 /\ ApplyDelete(v, e) = ApplyPut(u, e)
    BY <1>1, DeleteSplits
  <2>2. u.events \subseteq ApplyPut(u, e).events
    BY <2>1, PutLosesNothing
  <2>3. QED
    BY <1>1, <2>1, <2>2
<1>2. CASE ~Ev[e].valid
  BY <1>2 DEF ApplyDelete
<1>3. QED
  BY <1>1, <1>2

LEMMA DeleteMovesForward ==
  ASSUME NEW v, ViewInv(v), NEW e \in Id
  PROVE  MovesForward(v, ApplyDelete(v, e))
<1> DEFINE w == ApplyDelete(v, e)
<1>1. CASE ~Ev[e].valid
  BY <1>1 DEF ApplyDelete, MovesForward
<1>2. CASE Ev[e].valid
  <2>1. PICK u : /\ ViewInv(u)
                 /\ u.events = v.events \ Deletable(v, e)
                 /\ u.pointer = [s \in SlotKey |-> IF v.pointer[s] \in Deletable(v, e)
                                                   THEN None ELSE v.pointer[s]]
                 /\ w = ApplyPut(u, e)
    BY <1>2, DeleteSplits
  <2>2. MovesForward(u, w)
    BY <2>1, PutMovesForward
  <2> SUFFICES ASSUME NEW s \in SlotKey, v.pointer[s] \in w.events, w.pointer[s] # v.pointer[s]
               PROVE  w.pointer[s] # None /\ ShouldReplace(v.pointer[s], w.pointer[s])
    BY Zenon DEF MovesForward
  <2> HIDE DEF w
  <2>3. CASE v.pointer[s] \notin Deletable(v, e)
    BY <2>1, <2>2, <2>3 DEF MovesForward
  <2>4. CASE v.pointer[s] \in Deletable(v, e)
    <3>1. v.pointer[s] \notin u.events
      BY <2>1, <2>4
    <3>2. PutStores(u, e)
      BY <2>1, <3>1 DEF ApplyPut
    <3>3. /\ w.events = u.events \cup {e}
          /\ w.pointer[s] = IF e \in Versioned /\ s = Slot(e) THEN e
                            ELSE IF u.pointer[s] \in Previous(u, e) THEN None ELSE u.pointer[s]
      BY <2>1, <3>2, ApplyPutEffect
    <3>4. v.pointer[s] = e /\ e # None
      BY <3>1, <3>3, EventsAssumption
    <3>5. e \in Versioned /\ Slot(e) = s
      BY <3>4 DEF ViewInv, IndexesAgree
    <3>6. QED
      BY <3>3, <3>4, <3>5
  <2>5. QED
    BY <2>3, <2>4
<1>3. QED
  BY <1>1, <1>2

-----------------------------------------------------------------------------
(* An op adds to the view no event but the one that it carries. *)
LEMMA PutAddsOne ==
  ASSUME NEW v, ViewInv(v), NEW e \in Id
  PROVE  /\ ApplyPut(v, e).events \subseteq v.events \cup {e}
         /\ ApplyPut(v, e).indexed \subseteq v.indexed \cup {e}
<1>1. CASE PutStores(v, e)
  BY <1>1, ApplyPutEffect
<1>2. CASE ~PutStores(v, e)
  BY <1>2 DEF ApplyPut
<1>3. QED
  BY <1>1, <1>2

LEMMA DeleteAddsOne ==
  ASSUME NEW v, ViewInv(v), NEW e \in Id
  PROVE  /\ ApplyDelete(v, e).events \subseteq v.events \cup {e}
         /\ ApplyDelete(v, e).indexed \subseteq v.indexed \cup {e}
<1>1. CASE Ev[e].valid
  <2>1. PICK u : /\ ViewInv(u)
                 /\ u.events = v.events \ Deletable(v, e)
                 /\ u.indexed = v.indexed \ Deletable(v, e)
                 /\ ApplyDelete(v, e) = ApplyPut(u, e)
    BY <1>1, DeleteSplits
  <2>2. /\ ApplyPut(u, e).events \subseteq u.events \cup {e}
        /\ ApplyPut(u, e).indexed \subseteq u.indexed \cup {e}
    BY <2>1, PutAddsOne
  <2>3. QED
    BY <2>1, <2>2
<1>2. CASE ~Ev[e].valid
  BY <1>2 DEF ApplyDelete
<1>3. QED
  BY <1>1, <1>2

=============================================================================
