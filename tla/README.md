# A verification project for nostr-swarm

nostr-swarm is a Nostr relay whose storage is a multi-writer log: every peer
appends ops to an Autobase, Autobase orders the ops of all writers, and every
peer re-runs the same `apply` over that order to build the same indexed view.
These modules model the parts of the program whose correctness depends on order,
on concurrency or on what other peers do; TLC checks them on small instances and
TLAPS proves the main results for every instance.

Source paths below are relative to the repository root (`src/storage/store.ts`);
`PROJECT.json` prefixes them with the checkout directory `src/`.

## The system

| Component | State | Operations | Interacts with |
|---|---|---|---|
| Consensus store, `src/storage/store.ts` `apply*`, `indexes.ts`, `nostr/events.ts` | the view: twelve Hyperbee subs | one handler per op type, on optimistic blocks a narrow path | Autobase calls `apply`; everything reads the view |
| Replica, `store.ts` (`putEvent`, `deleteEvent`, `emitStored`) | the log known, the view, the LRU of announced ids | append, receive, reorder, roll back, announce | Autobase below, the relay above |
| WebSocket relay, `src/ws/` | connections, their subscriptions and rate limiters | EVENT, REQ, CLOSE, COUNT, AUTH, broadcast | awaits queries and appends; listens to `event:stored` |
| Query engine, `src/storage/query.ts`, `util/keys.ts` | none | index choice, range scans, limits | reads the view across many awaits |
| Writer admission, `src/swarm/admission.ts`, `protocol.ts`, `network.ts` | two token buckets, a counter per connection | prove, evaluate, append `add_writer` | Protomux channel between peers; the store |
| Bootstrap guard, `src/storage/bootstrap.ts`, `util/invite.ts` | `bootstrap-key`, `keys.json` | resolve, persist | read before the store opens |
| Lifecycle and founder duties, `src/relay.ts` | timers | start, stop, admit, set policy, reclaim expired events | all of the above |
| Web of Trust, `src/wot/` | follows, mutes, degrees, scores | rebuild, score, evaluate | scans the view |
| Light store, `src/light/store.ts` | a prune timer | filter, cap, prune | Web of Trust, store |
| Shim upstream client, `src/primal-shim/upstream.ts` | per socket: pending queries and counts, OK waiters, live subscriptions | fetch, count, publish, subscribe, reconnect | a WebSocket client of a relay; the verbs await it |
| Shim sessions, `src/primal-shim/server.ts`, `session.ts`, `handler.ts`, `verbs/notifications.ts` | per client: active requests, live cleanups, pending pongs | a verb per REQ, CLOSE, badge pushes, heartbeat | the upstream client, the watermarks |
| Shim persistence, `src/primal-shim/seen.ts`, `dm-read.ts` | a map and its JSON file | get, set | the sessions |
| Shim verbs, `src/primal-shim/verbs/`, `synth.ts`, `stats.ts`, `hydrate.ts` | a cache of counts | translate answers into the Primal protocol | the upstream client |
| CLI, configuration, export/import | none | parsing, I/O | |

What is hard about each, and what makes it correct:

- **Consensus store.** Any admitted writer may log any op; the log arrives in any
  order. Indexes, version pointers, tombstones and the writers sub must stay
  consistent whatever the log; removals must be authorised; reads must not go
  back in time in a replaceable slot.
- **Replica.** A late node is ordered *before* nodes already applied; the view is
  truncated and `apply` runs again. Nothing of the first run may remain, and no
  announcement may be lost or repeated.
- **Relay.** Each handler awaits the view; announcements come from inside `apply`,
  before the batch is readable. What may a subscription miss? What does OK mean?
- **Admission.** Four awaits in one evaluation, several evaluations in flight,
  several granters with views that lag. The cap, the budgets, and the binding of
  a proof to its connection must survive that.
- **Bootstrap.** A crash between creating a base and recording it.
- **Query engine and keys.** 32-bit wrap of timestamps in the index keys; five
  indexes, each with its own ranges and caps, that must give the same answer.
- **Web of Trust, light store.** State cleared or counted before an await, rebuilds
  that overlap, pruning that must not cost the lists trust is built from.
- **Upstream client.** Answers matched by id alone over connections that end;
  timers racing answers; subscriptions re-sent by two mechanisms. A call must settle
  once and truthfully, and the relay must be left with what the client wants.
- **Sessions.** Requests under reused ids that outlive their slot; a badge that
  computes across awaits; peers that vanish. Nothing may leak or go unanswered.
- **Watermarks.** Writes queued behind one another, and a crash inside any.

`PROJECT.json` lists the hazards at their lines, with the properties that would
catch each going wrong.

## Modules

| Module | Models |
|---|---|
| `Events` | an event's attributes, kind classes, version slots, `shouldReplace` |
| `StoreView` | the view as a record; every handler of `apply` as an operator from view to view; the predicates that make a view consistent |
| `EventStore` | one base as its log grows: one action per op type |
| `NostrSet` | the abstract specification: a set of visible events |
| `Replica` | one peer: order, re-application, readers' view, announcements |
| `Relay` | `Replica` composed with connections, subscriptions and queries |
| `Admission` | joiners, granters, their channel, buckets and views, over the `apply` rule of `StoreView` |
| `Startup` | one storage directory across launches and crashes: `bootstrap-key`, `keys.json`, the base opened |
| `Query` | reads of a view: index choice, ranges of wrapped timestamps, caps, merge, COUNT, the list of the expired; and what they should return |
| `Reads` | `EventStore` with requests, times and sweeps: every view is read through `Query` |
| `Calls` | the abstract specification of the upstream client: a call settles, once |
| `Upstream` | the shim's pool of sockets, its live socket and the relay behind them |
| `Watermarks` | one persisted map of marks: memory, file, temporary file, queued writes |
| `ShimSession` | clients, requests, badge counters and heartbeat, over `Watermarks` |
| `WotGraph` | rebuilds of the trust graph while verdicts are taken, over `StoreView` |
| `LightStore` | filtered puts, the discovery cap and pruning, over `WotGraph` |
| `MC*` | the instances TLC checks |
| `StoreView_proofs` | lemmas about the handlers of `apply`, for all the modules over the view |
| `EventStore_proofs`, `Relay_proofs` (of `Replica` too), `Admission_proofs`, `Startup_proofs`, `LightStore_proofs` (of `WotGraph` too), `Upstream_proofs`, `ShimSession_proofs` | theorems about the components |

`StoreView` is the point where the modules meet. `apply` is one function that all
peers run, so it is one set of operators that `EventStore`, `Replica`, `Relay`,
`Admission`, `Query` and `LightStore` all use. In the shim, `ShimSession` builds on
what `Calls` promises of a fetch, and `Upstream` implements `Calls`.

### Correspondence to the code

**Events and views.** An event is an id, and `Ev` gives the attributes that the
rules tell apart. Ids are numbers because the rule is "the lower id wins" and the
code compares hex strings. `valid` is structure plus signature. The six fields of
a `View` stand for the twelve subs: `kind`, `author`, `authorKind`, `createdAt`,
`tag` and `expiration` are one field, `indexed`, because `applyPut` and
`removeIndexes` write and delete all of them together, under keys that the event
determines; `replaceable` and `addressable` are one function, `pointer`, because
their keys are disjoint; a tombstone is the pubkey that wrote it, or `Legacy` for
the string form. Each handler is a pure operator because `apply` runs one node at
a time on one batch: no await inside it lets anything else touch the view.
`applyDelete` first removes, then overwrites tombstones, then puts the deletion
itself through `applyPut`; `ApplyDelete` is that composition.

**EventStore.** A step is one node of the log and all of `apply` for it. Autobase
hands `apply` the blocks of the founder, of admitted writers, and optimistic
blocks of anyone. `Interrupt` is `host.interrupt` on an op of a newer version.
`retracted` is a history variable.

**Replica.** `order` is the log as this peer orders it, `versions` the view after
each applied node (a Hyperbee is append-only, so truncation is a prefix),
`view` what `base.view` serves to readers. `Receive` inserts a remote node
anywhere after the signed prefix and that writer's earlier nodes; `ApplyNext` is one
node of `apply`, with `emitStored`; `RollBack` drops a block that is not honoured
(`Acked`): an optimistic one that `apply` did not ack, and any other op whose author
(`from`) the view before it does not admit, this peer's own included;
`Flush` makes the batch readable; `Emit` is the `nextTick` callback.

**Relay.** A step of the handler runs only when the `nextTick` queue is empty
(`SocketIdle`), as in Node.js. A REQ is three steps: register and start the query
(`HandleReq`), read the index (`ReadIndex`), resolve the events and answer
(`Answer`). `SocketError` removes the connection from the broadcast set without
clearing its subscriptions; `SocketClose` does both. `got`, `early`, `acked` and
the fields `readable` and `latest` of a query are history. `acked` holds what was
answered OK true while the append was that of a writer, whichever of the two reads
of `writable` in `handleEvent` and `putEvent` found it so. Refused messages change
nothing and are not steps.

**Admission.** `base` is the settled view, `log` the `add_writer` ops appended and
not settled, `known[n]` the writers sub that node `n` reads: at least the settled
one, plus any pending ops in an order of the node's own. `OnRequest` is the
channel's `onmessage` and the evaluation up to its first await; `Dedup`, `Get`
and `Count` are the continuations after `isAdmittedWriter`, `writers.get` and
`countWriters`; `AppendFails` is any of them throwing. A proof is the triple its
HMAC binds: the invite, the handshake, the key. `Stray` lets any peer send the
requests of the constant `Strays`. Each bucket of a
granter refills by itself, a token at a time, at no particular rate.

**Startup.** `Launch` is the constructor of `NostrSwarm` with `resolveBootstrap`; each
`writeFileSync` is two steps, because it truncates the file and then writes it, and
`Exit` (a stop, an exception, a crash) is possible between any two. `held` is what
the corestore keeps, `served` a history of the bases that `start` came up on. A
launch that the guard refuses leaves everything as it was and is not a step: once a
crash has cut `bootstrap-key` short, every launch is refused until an operator
repairs the file. The guard fails safe (`OneBaseServed`) but a crash in the rewrite
that every start does can stop a directory that was healthy.

**Query.** A query of a quiet view is a pure function of the view, so it is an
operator, and `Reads` compares it with "the newest matches" (`Matching`, `Newest`) in
every view of a growing log; a query with steps of others in between is `Relay`'s. `Width`
is 2^32 in the code. An index value is the set of its entries; its keys are ordered
by the wrapped inverted timestamp and then the id, while `compareNewestFirst` and
`finalize` order by the time itself. Authors are whole pubkeys.

**Upstream.** `link` is the socket's state and its reconnect timer; `up` and `down`
are what is on the wire, in order. `pending` stands for `pendingQueries` and
`pendingCounts`, `waiters` for `okWaiters`, `resub` for the timers of
`scheduleLiveResubscribe`, of which an id may have several. A timer that is armed may
fire at any later moment, so delays are left out. `outcome` is how a call's promise
was settled, and `got` what a fetch has collected. A settled promise ignores a second
outcome, as in JavaScript. `Lost` is `close`, preceded by `error` or not; before the
first open it ends the socket for good, and the shim never serves. The relay
(`RelayTakes` and below) reads a connection's messages in order; it answers a
subscription later and on the connection that holds it.

**ShimSession and Watermarks.** A request is a REQ that began; its number is its
abort signal. `phase` says where its handler is: `running` inside the verb,
`waiting` for the file or to send EOSE, `answered`, or `ended` without an answer.
`active` and `liveReg` are the session's two maps; `subscribed` and `timers` are what
the badge counter holds outside it, and `push` what a computing push has read.
`FinishPush` sends whatever became of its request, as the code does: it does not look
at the signal. Only `closed` sockets can send nothing. `dead` is a half-open peer,
`gone` a socket whose `close` event has not come. `dm-read.ts` is the same store under
other keys. A failed or cut-off write resumes its caller all the same.

**WotGraph and LightStore.** A pubkey without an entry in a map has the empty set.
`build` has a phase, the list events its scan has left and those it has read, per
rebuild under way; the first rebuild runs alone because `ready` awaits it. `scores`
replaces both `degrees` and `scores`, which change together without an await. The
code keeps at most one list per author and kind in the indexes, so the scan's
`seenAuthors` never decides. `put` is how far a call of `putEvent` or `deleteEvent`
has come. The relay's WebSocket handler holds the store and not the light store
(`relay.ts:43-44`), so puts of others, and of the relay itself, do not pass the
filter: `OtherPut`.

**External.** Autobase, Hyperbee, Hyperswarm, Protomux and `ws` are not under
`src/`; they are modelled from how the code uses them. The assumptions are: nodes
of the signed prefix are never reordered, nor are those of one writer among
themselves; a local append follows everything the peer knows; the block of a key that
the view before it does not admit is applied only as an optimistic block and kept only
when acked, although its author may have been admitted when it appended it; a block
that was dropped is not taken up again; re-application starts from the view before the
first reordered node;
without a bootstrap key a corestore's own base is reopened, or founded if there is none
(`docs/design/multiwriter-sync.md`: "a node keeps reopening its own founded base").

## Runs

| Run | Question | Answer |
|---|---|---|
| `store_core` | Does any log break the store's invariants or `NostrSet`? Is any request answered inexactly from any of its views? | no |
| `replica` | Do reorgs leave traces, lose or repeat announcements, or stop the drain? | no |
| `relay_sessions` | What can a quiet subscription have missed? Is what a writer answered with OK true kept, and does it pass the gates of `apply`? | only events announced before the REQ and not readable all through its query; yes, unless a reorder gives this peer's place under the cap to others before the founder has signed it |
| `admission` | Do racing granters break the cap, the budgets or the binding of proofs? | no |
| `storage_identity` | Can a directory serve two bases, found one after joining, or hand out a wrong invite? | no, wherever a start is cut off |
| `shim_upstream` | Does a call settle, once and truthfully; do the relay's subscriptions stay what the client wants? | yes, through cuts, refusals, rate limits and timeouts |
| `shim_sessions` | Can a request leak, block its successor or go unanswered; can a mark be lost, or a badge stay wrong? | no; a torn-down badge may send one push more |
| `light_wot` | Do mutes, the discovery cap and the budget hold while rebuilds, puts and pruning interleave? | mutes of the graph do; the cap is passed by at most the puts in flight; trust and budget settle |
| `deleted_stays_out` | Does an event its author deleted stay out? | **no**: another pubkey's delete overwrites the tombstone |
| `newest_is_visible` | Is the visible version the newest one stored? | **no**: after a delete of the current version |
| `committed_is_pushed` | Does every readable event reach a matching subscription? | **no**: a REQ between announcement and flush |
| `only_real_admissions_charged` | Is a token spent only for an op that admits? | **no**: two evaluations in flight |

The four violation runs state what a comment or a document says; the findings in
`PROJECT.json` quote the lines.

### Bounds

- `store_core`: eight events chosen so that every rule is at stake (the comment of
  `MCEventStore` lists them), a founder and two joiners with room for one, two
  reclaim lists, an optional legacy tombstone. The log is unbounded: the views
  are finite. The joiners are symmetric. Every view is read with ten requests, at a
  time before and one after the expiration, with keys of eight times (`Width = 8`).
- `replica`: `MaxNodes = 3` nodes over three events, `LruMax = 2`. Three nodes give
  every reordering of a pair around a third, and three ids overflow an LRU of two.
  `MaxWriters = 1`, so that this peer and another race for the one place, and what
  either wrote is dropped where the other won; the other logs an `add_writer` of itself
  and a delete, honoured or not.
- `relay_sessions`: one connection, two interchangeable subscription ids of which one
  fits (`MaxSubs = 1`), two queries in flight (`MaxReads = 2`) over a log of two nodes,
  none of a third writer:
  enough for a reuse of an id under a running query, a REQ between announcement and
  flush, and a delete that overtakes its target. While there is neither a subscription
  nor a query the log has four nodes (the constraint `Bounds` of `MCRelay`) and
  `MaxWriters = 2`: the founder admits this peer and another, which admits a third. Four
  nodes are a race for the last place with an op of this peer's own behind it. Reached
  are: the drop of an op answered OK true, one that is already readable and one behind a
  signed prefix included; an accepted and announced event that a delete ordered before it
  later keeps out, and one that a better version does; and an op offered by a read-only
  replica that the second read of `writable` makes durable.
- `admission`: a founder and a joiner that both grant, a second joiner, two
  connections, `MaxWriters = 1`, two tokens per bucket, one refill of either bucket of
  either granter, two requests per connection, and a stray request that replays a proof
  of another connection.
  `only_real_admissions_charged` uses `MaxWriters = 2`, so that the lost race is
  one of duplicates and not of the cap.

- `storage_identity`: the directory's own base and two others, every configured value
  at every launch; launches are unbounded.

- `store_core`'s requests: one by every index, by ids whole or not, with two filters,
  with limits of one and two below the number of matches, and with bounds outside
  `Width = 8`; the clock before and after the one expiration.
- `shim_upstream`: one query socket and the live socket; any two (`MaxCalls`) of a
  fetch, a count, two publishes of one event and a live subscription, since answers
  are confused between two callers of one id or not at all; one retry of a rate limit;
  two faults (a lost connection, a refusal or a rate limit), so that a reconnect can
  meet an older resubscription timer; one later event.
- `shim_sessions`: one client, two ids, two REQs, room for one badge counter
  (`MaxLive = 1`), one user, marks up to time 2, one interaction, two faults. Two
  requests give every supersession of one by another, on one id or two.
- `light_wot`: the owner follows a friend, the friend mutes the owner and a newcomer,
  which is half of those the owner follows; the newcomer has three notes and a
  delete. One step of trust (`MaxDepth = 1`), two
  rebuilds together, one fault, a cap of one with two puts in flight, a budget of three
  events of one byte each, pruned two at a time. Events of one author are handed in in
  the order of their ids, no list is deleted and one prune runs at a time. The
  owner has no mute list of their own in this instance.

`CHECK_DEADLOCK FALSE` is set everywhere: a log may end, a base may halt on a newer
version, clients may fall silent, a directory may refuse every launch, and the bounds
on calls and faults are reached.

### Fairness

Each `FairSpec` assumes only that the program's own machinery runs on; nothing is
assumed of peers, clients or users, and no fault need happen or stop.

- `replica`: `ApplyNext`, `RollBack` and `Flush` are weakly fair because Autobase
  drains whatever it holds; `Emit` because Node.js runs every `nextTick` callback.
  `CatchesUp` allows for nodes that keep coming for ever, from clients or from peers.
- `shim_upstream`: armed timers fire; Node.js delivers what a socket receives; a
  connection attempt that is not cut succeeds; and the relay works through its input,
  which is the only assumption on another program. Without it a call still settles, by
  its timer. `Calls` states its liveness as `Settles`, in `FairSpec`.
- `shim_sessions`: timers fire, awaited fetches and file operations end (`Calls`;
  operating system), terminated sockets report `close`.
- `light_wot`: the refresh and prune intervals fire, scans and appends end.

## Proofs

All the theorems hold for every set of events, authors, keys, connections, calls,
every cap and every budget, under the assumptions named in the modules: ids are natural
numbers, `None` and `Legacy` are no event, key, author or connection, the set of
keys is finite. `HashAssumption` says that no valid event names its own id in an "e"
tag, since the id is a hash over the tags. `UpstreamAssumption` says that the
subscription ids of fetches, counts and live subscriptions are distinct (`nextSubId`
never repeats), and `ReadsAssumption` that requests are filters and that the relay's
clock fits the keys, as it does until 2106.

**The store** (`EventStore_proofs`). The invariant `ViewInv` is
`v \in View /\ IndexesAgree(v) /\ OnlyAdmissible(v) /\ TombstonesHold(v) /\
AdmissionsRooted(v)`, and `IInv` adds the types of the other variables. None of
its parts is inductive alone: that a put replaces the right version needs the
pointers to agree with the indexes (`PreviousIsRival`), and that a delete may
overwrite tombstones needs the removal of the author's targets first
(`DeleteSplits`). `StoreView_proofs` has one lemma per handler
(`ApplyPutKeepsInv`, `ApplyDeleteKeepsInv`, `AddWriterKeepsInv`, ...), each from a
lemma that states the fields of the resulting view; `EventStore_proofs` has one
step per action over them. From `IInv` follow

- `TypeCorrect`, `IndexesStayConsistent`, `TombstonesExclude`,
  `AdmissionsStayRooted`: the invariants that `store_core` checks;
- `ReadsMoveForward` and `RemovalsAreAuthorised`: the action properties;
- `StoreImplementsNostrSet`: the refinement, with `visible <- view.indexed`.

That admissions are rooted is well-foundedness stated without recursion: every
non-empty set of writers has one whose admitter is outside the set.

The second half of `EventStore_proofs` is about what is read of such a view, and ends
in `ReadsStayExact`: `ReadsAreExact` for any requests, limits, width of the keys and
times within it. It uses of the view that it is typed, that what is indexed is stored,
and that it is finite (`StepAddsOne`: a node of the log adds at most one event).

- `queryFilter` folds `ScanIndex` over the values of an index. `ScanFold` unfolds the
  library's `FoldSet` over any finite set. There is no induction over data to be had
  here, so the statements about a fold argue by a smallest set of values for which
  they fail (`SmallestSet`, from the well-foundedness of strict inclusion).
- `ScanSound`: no scan finds what does not match, whatever wraps. `ScanKeepsNewest`:
  of the events that match, one with fewer than `limit` newer ones is found by the
  scan of any value that holds it, and `ValuesCover` says that some value does.
  `KeysAreNewest` and `RangeHoldsSought` need the times to fit the keys.
- `First` takes the first `n` of a finite set in a total order (`Orders`).
  `FirstOfMore` is why the merge may cut what the scans found, `FirstAll` why COUNT
  counts everything below its limit, and `FirstCount` why a sweep that lists fewer
  than is due lists a full batch, the soonest first.

**Admission** (`Admission_proofs`). `AdmissionTypeCorrect`, `CapSurvivesRaces`,
`BudgetsStayConserved` and `AdmissionsAreProven`: the four invariants that the run
`admission` checks. The inductive invariant adds three parts to them.

- `ViewInv(base)`: `Linearise` is the only action that changes `base`, from an op
  whose author may write it, so `AddWriterKeepsInv` applies. The cap needs no
  assumption on what the granters read: `apply` checks again.
- `Wired`: a request on a channel is the joiner's own, proved for that
  connection, or one of `Strays`. From it and `ProofMatches` an evaluation only
  starts for a proven key, and it keeps its connection and key to the end.
- `Evaluating`: the evaluations are finitely many, at nodes that opted in.

For the budgets, an evaluation past its token is *charged*; tokens, charged
evaluations and appended ops of a granter together never exceed what it was given.
`ChargedEnds` and `ChargedMoves` say how the number of charged evaluations changes
when one ends or moves on; every action then balances: the token is spent as the
charge begins, and refunded or turned into an op as it ends.

**Startup** (`Startup_proofs`). `DirectoryKeepsItsBase`, `KeysFileIsTrue` and
`NeverRefounds`, for any set of invites. `RecordSound` says what the content of
`bootstrap-key` implies about the bases held and served; `ProcessSound` says, for
each point of a start, how the record, the resolved key and the opened base relate:
without it a step from `recording` could write a key that is not the one served
before. `NeverRefounds` follows because a process without a key has found no record,
and a directory without a record holds no base but its own.

**The shim's sessions** (`ShimSession_proofs`). `ShimTypeCorrect`,
`SessionsOwnTheirWork`, `OneLatePush` and `KeptMarksSurvive`, for any clients, ids,
users and bounds. The properties are not inductive alone; `IInv` adds

- `MarkSound`: kept marks are in the file, the file is below the temporary file and
  that below the map, and the write whose turn it is carries its caller's mark, so
  that a rename makes true what it reports;
- `CallersWait`: the queued writes are those of distinct requests that wait for them,
  without which the end of a write could resume a request that had already left;
- `SlotsSound`: what a slot holds is its own, so that no counter is registered twice
  and a cleanup takes the timer of its own slot only;
- `LateSound`: a request that sent its late push computes nothing and is not
  registered; no action registers a request made before.

`NewRequestTakesSlot`, `StopKeeps` and `MovesOnKeeps` do the work that the handlers
share: a request that takes over a slot, slots that stop, a request that moves on.

**Replica and Relay** (`Relay_proofs`). For every log that other peers may write,
inserted in any order, every LRU bound and every number of clients. `ReplicaInv` is
the type invariant, `ViewFollowsOrder`, and two statements over *every* version of the
view, since an insertion makes an older one the newest again:

- each version satisfies `ViewInv`, by the lemmas of `StoreView_proofs`, one per op;
- each version holds announced events only, because the LRU is a suffix of what was
  announced (`LruFollows`): it forgets an id only after more than `LruMax` others.

From it follow `ReplicaTypeCorrect`, `EveryVersionIsSound`, `OrderDecidesViews`,
`NothingStoredSilently` and, for a step, `AnnouncedOnce`. Every step of `Relay` is a
step of `Replica` or leaves it alone (`RelayImplementsReplica`), so `RelayInv` adds
what the clients see: `QueriesFollowView` (a query has found all that was readable
throughout), `SentSoFar` (what was announced since its REQ was sent on a
subscription) and `AckedIsGated` (what was answered OK true passes the gates).
`RelayTypeCorrect` and `OnlyInFlightGaps` follow.

`AcceptedIsKept` is about the one way an accepted op can be lost. `RollBack` takes a node
of this peer only where the view does not admit it, so the proof must show that nothing
but a full cap makes a writer stop being one. The views say too little for that: a
reorder takes them back to where the admissions still wait to be applied. `SeatInv`
follows a chain of admissions over the whole log instead: a set of keys for every place,
growing only by `add_writer` ops whose author was in it before.

- `Tracks`: whoever apply has admitted is in the chain, and the chain is ahead of a view
  only where that view is full.
- `OwnSeated`, `ViewSeated`: where a durable op of this peer stands, the chain holds this
  peer or as many keys as the cap; the view that readers and `writable` see is in the chain.
- `WritersGrow`: along the versions writers are only added, so that a signed admission
  of this peer is an admission in every later view.

An arrival shifts the chain and a rollback cuts it where the cap is full
(`SeatsAfterInsert`, `SeatsAfterRollBack`), which keeps the argument free of induction
over the log. `DroppedIsUnseated` draws the conclusion. That an op which is not lost is
decided by tombstones and versions alone is `PutIsDecided` and `DeleteIsDecided`:
`apply` refuses a put or a delete for one of the reasons named and no other.

**The light store and the web of trust** (`LightStore_proofs`). `LightTypeCorrect`,
`VerdictsFollowLists` and `CapHolds`. The mutes hold because a rebuild that nothing
overlapped has in its maps exactly what it has read (`RebuildsRead`) and what a
complete one left stays until the next begins (`BasisHolds`), which needs that the
view has one list per author and kind (`ViewInv`). The cap is subtle: a put counts,
awaits, and appends, while others are deleted. `RoomLeft` says, for every set of
entries that may be gone by then, that an author's kept events and the puts whose
count could still pass are together below the cap and the puts in flight; no smaller
statement survives a deletion. The degrees are found by a search for the least number
of steps, whose existence is proved from the well-foundedness of the naturals.

**The upstream client** (`Upstream_proofs`). `UpstreamTypeCorrect`,
`NoSubscriptionLeaks`, `OnlyRetriesLeaveWaiters` and `CallsImplemented`, the safety
part of the refinement of `Calls`, for any sockets, calls, retries, faults and lengths
of queue. `UpstreamInv` adds to the types

- `CallInv`: a fetch or count is pending exactly as long as it is not settled, and a
  publish that waits out a rate limit is not settled;
- `WaitInv`: a publish waits in one place only, its backoff or one place of one queue,
  so that an OK taken from the head of a queue settles a publish of its event;
- `WireInv`: nothing is in flight on a socket that is not open, what is in flight
  about a subscription is on its own socket, a fetch asks once and a refused one is
  not held. `WillHold` reads the queue of requests to its end; `HeldAppend` and
  `HeldTail` say how it changes when a request is sent or read;
- `AnswerInv`: the stored answer of a pending fetch has been collected, or comes
  before its EOSE in the queue (`EventBeforeEose`), and every OK in flight that says
  so is of a stored event. From it answers are truthful, so the status of a call
  that `Calls` sees is just how it was settled.

**Only model-checked.** Liveness under fairness and `ENABLED` are out of the proof
system's reach here: `CatchesUp`, `LiveSubsRecover`, the `Settles` part of
`ImplementsCalls`, `EveryRequestAnswered`, `BadgeConverges` and
`TrustAndBudgetSettle`. Every safety property of a run that passes has a theorem.

## Not modelled

Listed with reasons under "components" in `PROJECT.json`. In short:

- pure I/O and parsing: CLI, configuration, export/import, HTTP pages;
- stateless formatting: the shim's verbs and synthesis, and its cache of counts;
- the relay's COUNT and AUTH, which change nothing that is read later; connection
  acceptance, rate limiters and server stop;
- the token bucket's clock, a joiner's reconnections, the founder's timers;
- fast-forward and closing of a replica;
- prefixes of authors, tag filters beyond the first and the search of NIP-50 in a query.

Where the code and its documents part without a run of their own, met while modelling:

- `docs/web-of-trust.md:54` and `:71` say that muted pubkeys are always rejected. A
  pubkey outside the graph is judged by the maps that a rebuild has just cleared
  (`graph.ts:41-42`, `:97`), and everyone by partial ones after rebuilds that overlap
  or fail. `MutesHold` states the rest.
- `graph.ts:123` mutes at half of the owner's follows, rounded down and at least one;
  the document speaks of more than half.
- The discovery tier's two hours are never enforced: `isExpiredByPolicy` has no caller.
- `deleteEvent` of the light store does not consult the discovery cap, and a stored
  deletion counts towards it.
- `prune` asks for a writable store, not for the founder's: an admitted writer appends
  a `prune_delete` that every peer ignores, at every cycle.
- A retry whose socket is down leaves its OK waiter until its timer
  (`upstream.ts:335-339`); a publish of the same event meanwhile loses its OK to it.
- `handler.ts:116` and `README.md:421` promise "never accept-then-drop" of protected
  events, and the gates keep it. An OK true is no promise beyond them: a writer whose
  admission loses its place under the cap to a reorder loses what it had appended
  (`Unseated`), and its client is not told.
- A badge counter that a CLOSE or a reuse of its id tore down may send the push it was
  computing, on an id that is closed or another request's (`notifications.ts:260-264`).

## Plan

1. `Founder`: admissions, policy and reclamation across restarts, over `EventStore`;
   the token bucket with its clock.
