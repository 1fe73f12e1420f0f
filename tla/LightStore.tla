----------------------------- MODULE LightStore -----------------------------
(***************************************************************************)
(* The light store (src/light/store.ts): events are put through the web of *)
(* trust, unknown authors up to a cap that is counted across awaits, and a *)
(* storage budget is kept by pruning, over the consensus view of a base.   *)
(* Other writers put what they like.                                       *)
(***************************************************************************)
EXTENDS WotGraph

CONSTANTS
  Local,        \* this node's writer key
  Cap,          \* discoveryMaxEventsPerPubkey
  MaxInFlight,  \* bound on puts and deletes called and not settled
  Budget,       \* maxStorageBytes, with every event one byte
  PruneBatch,   \* PRUNE_BATCH
  Others        \* the events that other writers put

ASSUME LightAssumption ==
  /\ Local \in Key
  /\ {Cap, MaxInFlight, Budget, PruneBatch} \subseteq Nat \ {0}
  /\ Others \subseteq Id

VARIABLES
  put,       \* per event: how far its putEvent or deleteEvent has come
  counted,   \* per event: the author's index entries its count goes through
  prune,     \* the ids of the prune under way
  unknown    \* history: events stored under the discovery cap

vars == <<view, graph, put, counted, prune, unknown, faults>>

Init ==
  /\ GraphInit
  /\ put = [e \in Id |-> "new"]
  /\ counted = [e \in Id |-> {}]
  /\ prune = {}
  /\ unknown = {}

-----------------------------------------------------------------------------
Exempt   == {e \in Id : Ev[e].kind \in {0, 3, 10000}}   \* EXEMPT_KINDS
writable == Local \in MayWrite(view)
InFlight == {e \in Id : put[e] \in {"counting", "appending"}}

(* Clients hand in the events of one author in the order of their ids. *)
Called(e, p) ==
  /\ ready /\ e \notin Others /\ put[e] = "new"
  /\ \A i \in Id \ Others : i < e /\ Ev[i].pubkey = Ev[e].pubkey => put[i] # "new"
  /\ Cardinality(InFlight) < MaxInFlight
  /\ put' = [put EXCEPT ![e] = p]

(* The entries a count of e's author would go through now. *)
AuthorEntries(e) == {i \in view.indexed : Ev[i].pubkey = Ev[e].pubkey}

(* putEvent up to its first await. *)
PutEvent(e) ==
  /\ ~IsDeletion(e)
  /\ LET verdict == IF e \in Exempt THEN "accept" ELSE Verdict(Ev[e].pubkey) IN
       /\ Called(e, CASE verdict = "reject"    -> "done"
                      [] verdict = "discovery" -> "counting"
                      [] verdict = "accept"    -> "appending")
       /\ counted' = IF verdict = "discovery" THEN [counted EXCEPT ![e] = AuthorEntries(e)]
                     ELSE counted
  /\ UNCHANGED <<view, graph, prune, unknown, faults>>

(* What the count finds: an event that goes meanwhile is met or not. *)
CountFinds(e) ==
  {found \in SUBSET (counted[e] \ Exempt) : (counted[e] \cap view.events) \ Exempt \subseteq found}

CountAuthorEventsAtCap(e) ==
  /\ put[e] = "counting"
  /\ \E found \in CountFinds(e) :
       put' = [put EXCEPT ![e] = IF Cardinality(found) > Cap THEN "done" ELSE "appending"]
  /\ unknown' = IF put'[e] = "appending" THEN unknown \cup {e} ELSE unknown
  /\ counted' = [counted EXCEPT ![e] = {}]
  /\ UNCHANGED <<view, graph, prune, faults>>

(* The count has come in: refused at the cap, or on to the store. *)
CountAuthorEvents(e) ==
  /\ put[e] = "counting"
  /\ \E found \in CountFinds(e) :
       put' = [put EXCEPT ![e] = IF Cardinality(found) >= Cap THEN "done" ELSE "appending"]
  /\ unknown' = IF put'[e] = "appending" THEN unknown \cup {e} ELSE unknown
  /\ counted' = [counted EXCEPT ![e] = {}]
  /\ UNCHANGED <<view, graph, prune, faults>>

(* deleteEvent: not for the rejected; discovery's cap is not consulted. *)
DeleteEvent(e) ==
  /\ IsDeletion(e)
  /\ Called(e, IF Verdict(Ev[e].pubkey) = "reject" THEN "done" ELSE "appending")
  /\ UNCHANGED <<view, graph, counted, prune, unknown, faults>>

(* The op is appended and applied: a writer's, or an optimistic one. *)
Applied(e) ==
  IF IsDeletion(e) THEN (IF writable THEN ApplyDelete(view, e) ELSE view)
  ELSE IF writable THEN ApplyPut(view, e) ELSE ApplyOptimistic(view, e)

Append(e) ==
  /\ put[e] = "appending"
  /\ view' = Applied(e)
  /\ put' = [put EXCEPT ![e] = "done"]
  /\ UNCHANGED <<graph, counted, prune, unknown, faults>>

(* The WebSocket handler and other writers do not pass the filter. *)
OtherPut(e) ==
  /\ e \in Others /\ put[e] = "new"
  /\ view' = ApplyPut(view, e)
  /\ put' = [put EXCEPT ![e] = "done"]
  /\ UNCHANGED <<graph, counted, prune, unknown, faults>>

-----------------------------------------------------------------------------
Total(v)   == Cardinality(v.events)
Prunable(v) == v.events \ Exempt

OlderThan(e, C) ==
  {c \in C : \/ Ev[c].created_at < Ev[e].created_at
             \/ Ev[c].created_at = Ev[e].created_at /\ c < e}

PruneScanAll ==
  /\ writable /\ prune = {} /\ Total(view) > Budget
  /\ LET C == view.events IN
       prune' = {e \in C : LET older == Cardinality(OlderThan(e, C)) IN
                             older < PruneBatch /\ 10 * (Total(view) - older) > 8 * Budget}
  /\ prune' # {}
  /\ UNCHANGED <<view, graph, put, counted, unknown, faults>>

(* prune: oldest first down to 80 % of the budget, at most a batch. *)
PruneScan ==
  /\ writable /\ prune = {} /\ Total(view) > Budget
  /\ LET C == Prunable(view) IN
       prune' = {e \in C : LET older == Cardinality(OlderThan(e, C)) IN
                             older < PruneBatch /\ 10 * (Total(view) - older) > 8 * Budget}
  /\ prune' # {}
  /\ UNCHANGED <<view, graph, put, counted, unknown, faults>>

PruneEvents ==
  /\ prune # {}
  /\ view' = ApplyPruneDelete(view, Local, prune)
  /\ prune' = {}
  /\ UNCHANGED <<graph, put, counted, unknown, faults>>

-----------------------------------------------------------------------------
(* The process ends and starts again: calls in flight are lost, and may be made again. *)
Restart ==
  /\ ready /\ faults < MaxFaults
  /\ faults' = faults + 1
  /\ RestartGraph
  /\ put' = [e \in Id |-> IF e \in InFlight THEN "new" ELSE put[e]]
  /\ counted' = [e \in Id |-> {}]
  /\ prune' = {}
  /\ unknown' = unknown \ InFlight
  /\ UNCHANGED view

RefreshGraph == \E r \in Build : Refresh(r) /\ UNCHANGED <<put, counted, prune, unknown>>

Settling(e) == CountAuthorEvents(e) \/ Append(e)

Next ==
  \/ RefreshGraph
  \/ \E r \in Build : FailRebuild(r) /\ UNCHANGED <<put, counted, prune, unknown>>
  \/ \E e \in Id : PutEvent(e) \/ DeleteEvent(e) \/ OtherPut(e) \/ Settling(e)
  \/ PruneScan \/ PruneEvents
  \/ Restart

(* The refresh and prune timers fire, scans and appends end. *)
Fairness ==
  /\ WF_vars(RefreshGraph)
  /\ WF_vars(\E e \in Id : Settling(e))
  /\ WF_vars(PruneScan \/ PruneEvents)

Spec     == Init /\ [][Next]_vars
FairSpec == Spec /\ Fairness

-----------------------------------------------------------------------------
(* Every variable has its type. *)
TypeOK ==
  /\ GraphTypeOK
  /\ put \in [Id -> {"new", "counting", "appending", "done"}]
  /\ counted \in [Id -> SUBSET Id]
  /\ prune \subseteq Id /\ unknown \subseteq Id
  /\ Cardinality(InFlight) <= MaxInFlight

(***************************************************************************)
(* The cap on an unknown author, counted across an await, is passed by no  *)
(* more than the puts that were in flight together: a caller that awaits   *)
(* each put gets exactly the cap, over restarts and rebuilds.              *)
(***************************************************************************)
DiscoveryCapped ==
  \A p \in Pubkey :
    Cardinality({e \in unknown \cap view.indexed : Ev[e].pubkey = p}) <= Cap + MaxInFlight - 1

(* The lists put so far that no newer list of their author replaces. *)
CurrentLists ==
  {e \in Id : /\ put[e] = "done" /\ Ev[e].kind \in {Contacts, Mutes} /\ Admissible(e)
              /\ \A o \in Id : put[o] = "done" /\ Rivals(e, o) /\ Admissible(o) => ~ShouldReplace(e, o)}

(***************************************************************************)
(* When the clients cease, storage is back within the budget, unless only  *)
(* exempt events are left, and the scores are what every list that was     *)
(* accepted says: pruning cost none of them, and no overlap, failure or    *)
(* restart of a rebuild left a stale or partial graph behind for good.     *)
(***************************************************************************)
TrustAndBudgetSettle ==
  <>[](/\ Total(view) <= Budget \/ Prunable(view) = {}
       /\ scores = Scores(Named(CurrentLists, Contacts), Named(CurrentLists, Mutes)))

=============================================================================
