-------------------------------- MODULE Relay --------------------------------
(***************************************************************************)
(* The WebSocket side of one peer (src/ws/handler.ts, connection.ts and    *)
(* server.ts) over its copy of the base: clients publish events, open and  *)
(* close subscriptions, and are sent stored events by a query that awaits  *)
(* the view and later ones by 'event:stored'.  The interleavings are those *)
(* of Node.js: nextTick callbacks run before the next socket callback, and *)
(* anything may happen at an await.                                        *)
(*                                                                         *)
(* A message that a gate refuses (rate limit, bad structure or signature,  *)
(* an expired or protected event, a bad filter) is answered and changes    *)
(* nothing, so it is not a step; nor are COUNT and AUTH, which only read.  *)
(***************************************************************************)
EXTENDS Replica

CONSTANTS
  Conn,      \* WebSocket connections
  SubId,     \* subscription ids a client may use
  Filters,   \* filter lists, each as the set of ids it matches
  MaxSubs,   \* maxSubscriptionsPerConn
  MaxReads   \* bound on the queries in flight

ASSUME RelayAssumption ==
  /\ Filters \subseteq SUBSET Id
  /\ None \notin Filters
  /\ MaxSubs \in Nat /\ MaxReads \in Nat

VARIABLES
  connections,  \* the server's set of connections, to which it broadcasts
  subs,         \* subscriptions: the filters of each, or None
  reading,      \* REQ queries awaiting the view
  offered,      \* EVENTs of a read-only replica awaiting acceptsOptimistic
  acked,        \* history: ids answered OK true as durable writes
  got,          \* history: ids sent on an open subscription since its REQ
  early         \* history: ids announced before its REQ and not readable
                \* throughout the query, the only ones it may never be sent

connVars  == <<connections, subs, reading, got, early>>
relayVars == <<vars, connections, subs, reading, offered, acked, got, early>>

Slots == Conn \X SubId   \* a subscription of a connection

Query ==
  [slot : Slots, filter : Filters, found : (SUBSET Id) \cup {None},
   readable : SUBSET Id,    \* history: visible from the REQ up to now
   latest : BOOLEAN]        \* history: no later REQ reused the slot

RelayInit ==
  /\ Init
  /\ connections = Conn
  /\ subs = [x \in Slots |-> None]
  /\ reading = {}
  /\ offered = {}
  /\ acked = {}
  /\ got = [x \in Slots |-> {}]
  /\ early = [x \in Slots |-> {}]

-----------------------------------------------------------------------------
SocketIdle == queue = << >>
Open(c)    == {s \in SubId : subs[<<c, s>>] # None}
Listens(x, e) == x[1] \in connections /\ subs[x] # None /\ e \in subs[x]

BroadcastToAnswered(e) ==
  /\ got' = [x \in Slots |->
               IF Listens(x, e) /\ (\A r \in reading : r.slot # x)
               THEN got[x] \cup {e} ELSE got[x]]
  /\ UNCHANGED <<connections, subs, reading, early>>

(* broadcastToSubscriptions *)
Broadcast(e) ==
  /\ got' = [x \in Slots |-> IF Listens(x, e) THEN got[x] \cup {e} ELSE got[x]]
  /\ UNCHANGED <<connections, subs, reading, early>>

StoredNotice(e) == Emit(e) /\ Broadcast(e) /\ UNCHANGED <<offered, acked>>

-----------------------------------------------------------------------------
(* The gates of handleEvent before the event is classified. *)
Acceptable(e) == Ev[e].valid /\ ~Ev[e].protected

(* An ephemeral event is broadcast and never logged. *)
HandleEphemeral(e) ==
  /\ SocketIdle /\ Acceptable(e) /\ Ephemeral(e)
  /\ Broadcast(e)
  /\ UNCHANGED <<vars, offered, acked>>

(* A writer logs a kind-5 as a delete and anything else as a put. *)
HandleEvent(e) ==
  /\ SocketIdle /\ Acceptable(e) /\ ~Ephemeral(e)
  /\ writable
  /\ IF IsDeletion(e) THEN DeleteEvent(e) ELSE PutEvent(e)
  /\ acked' = acked \cup {e}
  /\ UNCHANGED <<connVars, offered>>

(* A read-only replica awaits the base's policy before it forwards a put. *)
OfferEvent(e) ==
  /\ SocketIdle /\ Acceptable(e) /\ ~Ephemeral(e)
  /\ ~writable /\ ~IsDeletion(e)
  /\ offered' = offered \cup {e}
  /\ UNCHANGED <<vars, connVars, acked>>

ForwardEvent(e) ==
  /\ e \in offered
  /\ offered' = offered \ {e}
  /\ IF view.accept
     THEN PutEvent(e) /\ acked' = acked \cup (IF writable THEN {e} ELSE {})
     ELSE UNCHANGED <<vars, acked>>
  /\ UNCHANGED connVars

-----------------------------------------------------------------------------
MaySubscribeOneMore(x) == subs[x] # None \/ Cardinality(Open(x[1])) <= MaxSubs

(* The subscription limit; reusing an id replaces its filters. *)
MaySubscribe(x) == subs[x] # None \/ Cardinality(Open(x[1])) < MaxSubs

(* handleReq up to its await: the subscription is live before the query. *)
HandleReq(x, F) ==
  /\ SocketIdle /\ x[1] \in connections
  /\ MaySubscribe(x)
  /\ Cardinality(reading) < MaxReads
  /\ subs' = [subs EXCEPT ![x] = F]
  /\ reading' =
       {IF r.slot = x THEN [r EXCEPT !.latest = FALSE] ELSE r : r \in reading}
         \cup {[slot |-> x, filter |-> F, found |-> None,
                readable |-> view.indexed, latest |-> TRUE]}
  /\ got' = [got EXCEPT ![x] = {}]
  /\ early' = [early EXCEPT ![x] = pushed]
  /\ UNCHANGED <<vars, connections, offered, acked>>

(* queryFilters scans an index, and resolves the ids it found one by one. *)
ReadIndex(r) ==
  /\ r \in reading /\ r.found = None
  /\ reading' = (reading \ {r}) \cup {[r EXCEPT !.found = r.filter \cap view.indexed]}
  /\ UNCHANGED <<vars, connections, subs, offered, acked, got, early>>

(* The stored events and EOSE, on a subscription closed meanwhile or not. *)
Answer(r) ==
  /\ r \in reading /\ r.found # None
  /\ reading' = reading \ {r}
  /\ got' = IF r.slot[1] \in connections /\ subs[r.slot] # None
            THEN [got EXCEPT ![r.slot] = @ \cup (r.found \cap view.events)]
            ELSE got
  /\ early' = IF r.latest THEN [early EXCEPT ![r.slot] = @ \ r.readable] ELSE early
  /\ UNCHANGED <<vars, connections, subs, offered, acked>>

(* Nobody asks what a subscription without a listener was sent. *)
Forget(X) ==
  /\ got' = [x \in Slots |-> IF x \in X THEN {} ELSE got[x]]
  /\ early' = [x \in Slots |-> IF x \in X THEN {} ELSE early[x]]

HandleClose(x) ==
  /\ SocketIdle /\ x[1] \in connections
  /\ subs[x] # None
  /\ subs' = [subs EXCEPT ![x] = None]
  /\ Forget({x})
  /\ UNCHANGED <<vars, connections, reading, offered, acked>>

(* ws 'error': no more broadcasts, but the subscriptions are not cleared. *)
SocketError(c) ==
  /\ SocketIdle /\ c \in connections
  /\ connections' = connections \ {c}
  /\ Forget({c} \X SubId)
  /\ UNCHANGED <<vars, subs, reading, offered, acked>>

(* ws 'close'. *)
SocketClose(c) ==
  /\ SocketIdle
  /\ c \in connections \/ Open(c) # {}
  /\ connections' = connections \ {c}
  /\ subs' = [x \in Slots |-> IF x[1] = c THEN None ELSE subs[x]]
  /\ Forget({c} \X SubId)
  /\ UNCHANGED <<vars, reading, offered, acked>>

-----------------------------------------------------------------------------
(* A flush ends the readability of what it takes from the view. *)
FlushUnderQueries ==
  /\ Flush
  /\ reading' = {[r EXCEPT !.readable = @ \cap view'.indexed] : r \in reading}
  /\ UNCHANGED <<connections, subs, offered, acked, got, early>>

BaseStep ==
  /\ \/ \E n \in Remote, i \in 1 .. MaxNodes : Receive(n, i)
     \/ ApplyNext
     \/ RollBack
     \/ Checkpoint
  /\ UNCHANGED <<connVars, offered, acked>>

RelayNext ==
  \/ BaseStep
  \/ FlushUnderQueries
  \/ \E e \in Id : \/ StoredNotice(e) \/ HandleEphemeral(e) \/ HandleEvent(e)
                   \/ OfferEvent(e) \/ ForwardEvent(e)
  \/ \E x \in Slots : HandleClose(x) \/ \E F \in Filters : HandleReq(x, F)
  \/ \E r \in reading : ReadIndex(r) \/ Answer(r)
  \/ \E c \in Conn : SocketError(c) \/ SocketClose(c)

RelaySpec == RelayInit /\ [][RelayNext]_relayVars

-----------------------------------------------------------------------------
(* Every variable has its type, and no connection exceeds its limit. *)
RelayTypeOK ==
  /\ TypeOK
  /\ connections \subseteq Conn
  /\ subs \in [Slots -> Filters \cup {None}]
  /\ \A c \in Conn : Cardinality(Open(c)) <= MaxSubs
  /\ reading \subseteq Query /\ Cardinality(reading) <= MaxReads
  /\ offered \subseteq Id /\ acked \subseteq Id
  /\ got \in [Slots -> SUBSET Id] /\ early \in [Slots -> SUBSET Id]

(* x is open, its queries are answered, and the base has settled. *)
Quiet(x) ==
  /\ x[1] \in connections /\ subs[x] # None
  /\ \A r \in reading : r.slot # x
  /\ Drained

(***************************************************************************)
(* Registering before querying leaves one gap only: once all is quiet, an  *)
(* event a reader could query was sent on a matching subscription, unless  *)
(* it had been announced before the REQ and was not readable all through   *)
(* the query (announced before its flush, or taken away by a reorg).       *)
(***************************************************************************)
GapsOnlyInFlight ==
  \A x \in Slots : Quiet(x) =>
    (view.indexed \cap subs[x]) \subseteq got[x] \cup early[x]

(***************************************************************************)
(* "Never accept-then-drop" (handler.ts:114-116): an event that this peer  *)
(* answered with OK true as a writer is in the log as this peer's own op,  *)
(* and passes its gates: whenever that op is applied it leaves the event   *)
(* stored, or a tombstone or a better version excludes it.  Only a reorder *)
(* that undoes this peer's admission takes the op away (Unseated).         *)
(***************************************************************************)
OwnNode(e) ==
  [type |-> IF IsDeletion(e) THEN "delete" ELSE "put", from |-> Self, event |-> e]

Kept(e) ==
  \E i \in DOMAIN order :
    /\ order[i] = OwnNode(e)
    /\ i <= Applied =>
         \/ e \in versions[i + 1].events
         \/ BlockedByTombstone(versions[i], e)
         \/ \E p \in Previous(versions[i], e) : ~ShouldReplace(p, e)

(* At the op being applied other admissions have filled the cap without    *)
(* this peer, whose own the founder has not signed yet.                    *)
Unseated ==
  /\ Self \notin MayWrite(Tip) /\ Cardinality(Writers(Tip)) = MaxWriters
  /\ Self \notin MayWrite(versions[indexed + 1])

NeverAcceptThenDrop ==
  [][/\ \A e \in acked' \ acked : Kept(e)'
     /\ \A e \in acked : Kept(e) => Kept(e)' \/ Unseated]_relayVars

(* Claim of architecture.md:305 ("When a new event is committed to the     *)
(* Autobase view, the EventStore emits event:stored", which sends it to    *)
(* any matching subscription): every readable event reached it.            *)
CommittedIsPushed ==
  \A x \in Slots : Quiet(x) => (view.indexed \cap subs[x]) \subseteq got[x]

=============================================================================
