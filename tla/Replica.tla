------------------------------- MODULE Replica -------------------------------
(***************************************************************************)
(* One peer's copy of a base (src/storage/store.ts): the linearised log it *)
(* knows, the views apply has built over it, the view its readers see, and *)
(* the 'event:stored' emissions.  Autobase is external: a node received    *)
(* late is inserted before nodes already applied, which truncates the view *)
(* (a Hyperbee is append-only, so every version is at hand) and re-runs    *)
(* apply on what follows; apply works on a batch that readers see at once  *)
(* ("Autobase already handles atomicity for the apply function").          *)
(***************************************************************************)
EXTENDS StoreView, Sequences, SequencesExt

CONSTANTS
  Self,      \* this peer's writer key
  Batches,   \* the id lists that reclaim ops may carry
  Remote,    \* the nodes other peers may log
  LruMax,    \* STORED_EMIT_LRU_MAX (4096 in the code)
  MaxNodes   \* bound on the length of the log

(* The op a node carries and the writer key whose core holds it;           *)
(* "optimistic" is a put on an optimistic block.                           *)
Node ==
  [type : {"put", "optimistic", "delete"}, from : Key, event : Id]
    \cup [type : {"add_writer"}, from : Key, key : Key]
    \cup [type : {"expiry_delete", "prune_delete"}, from : Key, ids : Batches]
    \cup [type : {"set_config"}, from : Key, value : BOOLEAN]

ASSUME ReplicaAssumption ==
  /\ Self \in Key
  /\ Batches \subseteq SUBSET Id
  /\ Remote \subseteq Node /\ \A n \in Remote : n.from # Self
  /\ LruMax \in Nat \ {0}
  /\ MaxNodes \in Nat

VARIABLES
  order,     \* the nodes, in the order this peer linearises them
  indexed,   \* length of the prefix the indexer has signed, never reordered
  versions,  \* the view before the log and after each node applied so far
  view,      \* the version that reads of base.view are served from
  emitted,   \* emittedStoredIds: the LRU of announced ids, oldest first
  queue,     \* announcements handed to process.nextTick
  pushed     \* history: ids announced so far

baseVars == <<order, indexed, versions, view>>
emitVars == <<emitted, queue, pushed>>
vars     == <<order, indexed, versions, view, emitted, queue, pushed>>

Init ==
  /\ order = << >>
  /\ indexed = 0
  /\ versions = <<EmptyView({})>>
  /\ view = EmptyView({})
  /\ emitted = << >>
  /\ queue = << >>
  /\ pushed = {}

-----------------------------------------------------------------------------
(* apply's dispatch on the type of an op. *)
ApplyOp(v, n) ==
  CASE n.type = "put"           -> ApplyPut(v, n.event)
    [] n.type = "optimistic"    -> ApplyOptimistic(v, n.event)
    [] n.type = "delete"        -> ApplyDelete(v, n.event)
    [] n.type = "add_writer"    -> ApplyAddWriter(v, n.from, n.key)
    [] n.type = "expiry_delete" -> ApplyExpiryDelete(v, n.from, n.ids)
    [] n.type = "prune_delete"  -> ApplyPruneDelete(v, n.from, n.ids)
    [] n.type = "set_config"    -> ApplySetConfig(v, n.from, n.value)

Tip == versions[Len(versions)]   \* the newest version apply has built
Applied == Len(versions) - 1       \* nodes of the log in it
writable == Self \in MayWrite(view)

InsertNodeKeepsOneMore(n, i) ==
  /\ Len(order) < MaxNodes
  /\ order' = InsertAt(order, i, n)
  /\ versions' = SubSeq(versions, 1, IF Applied < i THEN Applied + 1 ELSE i + 1)

(* Inserting a node at i keeps the versions of the nodes before it. *)
InsertNode(n, i) ==
  /\ Len(order) < MaxNodes
  /\ order' = InsertAt(order, i, n)
  /\ versions' = SubSeq(versions, 1, IF Applied < i THEN Applied + 1 ELSE i)

(* A node of another writer arrives, anywhere after the signed prefix and  *)
(* the nodes of that writer, whose core is append-only.                    *)
Receive(n, i) ==
  /\ i \in indexed + 1 .. Len(order) + 1
  /\ \A l \in i .. Len(order) : order[l].from # n.from
  /\ InsertNode(n, i)
  /\ UNCHANGED <<indexed, view, emitVars>>

(* base.append: a local node follows every node this peer knows. *)
AppendLocal(n) ==
  /\ InsertNode(n, Len(order) + 1)
  /\ UNCHANGED <<indexed, view, emitVars>>

(* putEvent: durable from a writer, optimistic from anyone else. *)
PutEvent(e) ==
  AppendLocal([type |-> IF writable THEN "put" ELSE "optimistic", from |-> Self, event |-> e])

(* deleteEvent: base.append rejects a node of a peer that cannot write. *)
DeleteEvent(e) ==
  /\ writable
  /\ AppendLocal([type |-> "delete", from |-> Self, event |-> e])

-----------------------------------------------------------------------------
EmitStoredEvictsEarly(e) ==
  \/ \E i \in DOMAIN emitted :
       /\ emitted[i] = e
       /\ emitted' = Append(RemoveAt(emitted, i), e)
       /\ queue' = queue
  \/ LET lru == Append(emitted, e) IN
       /\ ~Contains(emitted, e)
       /\ emitted' = IF Len(lru) >= LruMax THEN Tail(lru) ELSE lru
       /\ queue' = Append(queue, e)

(* emitStored: announce e unless the LRU holds it; either way it is newest. *)
EmitStored(e) ==
  \/ \E i \in DOMAIN emitted :
       /\ emitted[i] = e
       /\ emitted' = Append(RemoveAt(emitted, i), e)
       /\ queue' = queue
  \/ LET lru == Append(emitted, e) IN
       /\ ~Contains(emitted, e)
       /\ emitted' = IF Len(lru) > LruMax THEN Tail(lru) ELSE lru
       /\ queue' = Append(queue, e)

(* Of a peer that the view does not admit Autobase honours no block but an *)
(* optimistic one that apply acks, even if it admitted the peer before a   *)
(* reorder; what it does not honour is rolled back.                        *)
Acked(v, n) ==
  IF n.type = "optimistic" THEN OptimisticAcked(v, n.event) ELSE n.from \in MayWrite(v)

ApplyNextPutsOnly ==
  /\ Applied < Len(order)
  /\ LET n == order[Applied + 1]
         w == ApplyOp(Tip, n) IN
       /\ Acked(Tip, n)
       /\ versions' = Append(versions, w)
       /\ IF n.type \in {"put", "optimistic"} /\ n.event \in w.events \ Tip.events
          THEN EmitStored(n.event)
          ELSE UNCHANGED <<emitted, queue>>
  /\ UNCHANGED <<order, indexed, view, pushed>>

ApplyNext ==
  /\ Applied < Len(order)
  /\ LET n == order[Applied + 1]
         w == ApplyOp(Tip, n) IN
       /\ Acked(Tip, n)
       /\ versions' = Append(versions, w)
       /\ IF n.type \in {"put", "optimistic", "delete"} /\ n.event \in w.events \ Tip.events
          THEN EmitStored(n.event)
          ELSE UNCHANGED <<emitted, queue>>
  /\ UNCHANGED <<order, indexed, view, pushed>>

RollBackNever == FALSE

RollBack ==
  /\ Applied < Len(order)
  /\ ~Acked(Tip, order[Applied + 1])
  /\ order' = RemoveAt(order, Applied + 1)
  /\ UNCHANGED <<indexed, versions, view, emitVars>>

(* The drain makes what it has applied visible to readers. *)
Flush ==
  /\ view # Tip
  /\ view' = Tip
  /\ UNCHANGED <<order, indexed, versions, emitVars>>

(* The founder, the sole indexer, signs a longer prefix. *)
Checkpoint ==
  /\ indexed < Applied
  /\ indexed' \in indexed + 1 .. Applied
  /\ UNCHANGED <<order, versions, view, emitVars>>

(* The nextTick callback: emit('event:stored', event). *)
Emit(e) ==
  /\ queue # << >> /\ Head(queue) = e
  /\ queue' = Tail(queue)
  /\ pushed' = pushed \cup {e}
  /\ UNCHANGED <<order, indexed, versions, view, emitted>>

Next ==
  \/ \E n \in Remote, i \in 1 .. MaxNodes : Receive(n, i)
  \/ \E e \in Id : PutEvent(e)
  \/ \E e \in Id : DeleteEvent(e)
  \/ ApplyNext
  \/ RollBack
  \/ Flush
  \/ Checkpoint
  \/ \E e \in Id : Emit(e)

(* Node.js runs its callbacks, and Autobase drains what it has. *)
Fairness ==
  /\ WF_vars(ApplyNext)
  /\ WF_vars(RollBack)
  /\ WF_vars(Flush)
  /\ WF_vars(\E e \in Id : Emit(e))

Spec     == Init /\ [][Next]_vars
FairSpec == Spec /\ Fairness

-----------------------------------------------------------------------------
(* Every variable has its type. *)
TypeOK ==
  /\ order \in Seq(Node)
  /\ indexed \in 0 .. Len(order)
  /\ versions \in Seq(View) /\ Len(versions) \in indexed + 1 .. Len(order) + 1
  /\ view \in View
  /\ emitted \in Seq(Id) /\ Len(emitted) <= LruMax
  /\ queue \in Seq(Id)
  /\ pushed \subseteq Id

(***************************************************************************)
(* Reorgs included, every version a reader may be served satisfies the     *)
(* invariants of the store.                                                *)
(***************************************************************************)
EveryViewSound ==
  \A v \in ToSet(versions) \cup {view} :
    IndexesAgree(v) /\ OnlyAdmissible(v) /\ TombstonesHold(v) /\ AdmissionsRooted(v)

(***************************************************************************)
(* Truncation and re-application never leave a trace: the views are those  *)
(* that applying the present order from the empty view gives, so two peers *)
(* with one order have one view ("must materialize identical views").      *)
(***************************************************************************)
ViewFollowsOrder ==
  /\ versions[1] = EmptyView({})
  /\ \A i \in 1 .. Applied :
       /\ Acked(versions[i], order[i])
       /\ versions[i + 1] = ApplyOp(versions[i], order[i])

(* Whatever a reader can be served was announced or is about to be: the    *)
(* LRU, reorgs and deletions never swallow an event's only announcement.   *)
StoredIsAnnounced == (Tip.events \cup view.events) \subseteq pushed \cup ToSet(queue)

(* A second announcement of an event takes more than LRU_MAX distinct ids: *)
(* below the bound re-application announces nothing twice.                 *)
AnnouncedOnceBelowBound ==
  Len(queue') > Len(queue) =>
    \/ Last(queue') \notin pushed \cup ToSet(queue)
    \/ Cardinality(pushed \cup ToSet(queue)) > LruMax

NoDuplicatePush == [][AnnouncedOnceBelowBound]_vars

(* Unless nodes keep coming for ever, the drain catches up with the log    *)
(* and every announcement goes out; no rolled-back block holds it up.      *)
Drained   == Applied = Len(order) /\ view = Tip /\ queue = << >>
Arrival   == \/ \E e \in Id : PutEvent(e)
             \/ \E n \in Remote, i \in 1 .. MaxNodes : Receive(n, i)
CatchesUp == []<>Drained \/ []<><<Arrival>>_vars

=============================================================================
