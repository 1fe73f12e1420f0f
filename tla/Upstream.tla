------------------------------- MODULE Upstream -------------------------------
(***************************************************************************)
(* The shim's client of its relay (src/primal-shim/upstream.ts): a pool of *)
(* sockets for one-shot calls and one for long-lived subscriptions, each   *)
(* reconnecting by itself, over connections that may end at any time.  A   *)
(* call is a fetch (REQ, collect to EOSE, CLOSE), a count, or a publish    *)
(* (EVENT, await OK) retried on a rate limit.  The relay is external: it   *)
(* takes a connection's messages in order and answers in its own time.     *)
(*                                                                         *)
(* Timers are actions that may fire as soon as they are armed.  Labels,    *)
(* delays and payloads are left out; AUTH and NOTICE are ignored.          *)
(***************************************************************************)
EXTENDS Integers, FiniteSets, Sequences, SequencesExt

CONSTANTS
  Pool,         \* the query sockets
  Live,         \* the live socket
  Fetch,        \* fetch calls, each with its fresh subscription id
  Count,        \* count calls
  Publish,      \* publish calls
  LiveSub,      \* live subscriptions, each with its fresh id
  EventOf,      \* the event each publish carries
  MaxRetries,   \* MAX_RATE_LIMIT_RETRIES
  MaxCalls,     \* bound on the calls and live subscriptions made
  MaxFaults,    \* bound on lost connections, refusals and rate limits
  MaxNews       \* bound on the live events the relay sends

Socket == Pool \cup {Live}
Call   == Fetch \cup Count \cup Publish
SubId  == Fetch \cup LiveSub
Event  == {EventOf[p] : p \in Publish}
Waiter == Publish \X (0 .. MaxRetries)

ASSUME UpstreamAssumption ==
  /\ Live \notin Pool /\ Pool # {}
  /\ Fetch \cap Count = {} /\ Publish \cap (Fetch \cup Count) = {}
  /\ LiveSub \cap Call = {}
  /\ EventOf \in [Publish -> Event]
  /\ {MaxRetries, MaxCalls, MaxFaults, MaxNews} \subseteq Nat

VARIABLES
  link,      \* per socket: connecting, open, waiting to reconnect, or closed
  first,     \* the sockets whose first connection is still awaited
  up, down,  \* messages in flight to and from the relay, per socket
  relaySub,  \* what the relay holds for a subscription id
  pending,   \* pendingQueries and pendingCounts of all sockets
  sock,      \* the socket that serves a call
  got,       \* what a fetch has collected: the stored answer, later events
  outcome,   \* how a call's promise was settled
  attempt,   \* attempts a publish has made after its first
  backoff,   \* publishes waiting out a rate limit
  waiters,   \* okWaiters: per socket and event, in the order they wait
  liveSubs,  \* the live subscriptions wanted
  resub,     \* live resubscription timers armed, per subscription
  made,      \* the calls and live subscriptions made so far
  stored,    \* history: events the relay accepted
  faults, news

callVars == <<pending, sock, got, outcome>>
pubVars  == <<attempt, backoff, waiters>>
liveVars == <<liveSubs, resub>>
wire     == <<up, down, relaySub, stored, faults, news>>
vars     == <<link, first, wire, callVars, pubVars, liveVars, made>>

Init ==
  /\ link = [s \in Socket |-> "connecting"]
  /\ first = Socket
  /\ up = [s \in Socket |-> << >>] /\ down = [s \in Socket |-> << >>]
  /\ relaySub = [i \in SubId |-> "none"]
  /\ pending = {}
  /\ sock = [c \in Call |-> Live]
  /\ got = [c \in Fetch |-> {}]
  /\ outcome = [c \in Call |-> "none"]
  /\ attempt = [p \in Publish |-> 0]
  /\ backoff = {}
  /\ waiters = [s \in Socket |-> [e \in Event |-> << >>]]
  /\ liveSubs = {}
  /\ resub = [l \in LiveSub |-> 0]
  /\ made = {}
  /\ stored = {}
  /\ faults = 0 /\ news = 0

-----------------------------------------------------------------------------
Msg(type, id) == [type |-> type, id |-> id]
Connected(s)  == link[s] = "open"
Send(s, m)    == up' = [up EXCEPT ![s] = Append(@, m)]

(* Settle the calls C with r; a settled promise ignores a second outcome. *)
Settle(C, r) ==
  outcome' = [c \in Call |-> IF c \in C /\ outcome[c] = "none" THEN r ELSE outcome[c]]

(* inflight and pick: a connected socket with the fewest calls pending. *)
Inflight(s) == Cardinality({c \in pending : sock[c] = s})
Pick ==
  {s \in Pool : Connected(s) /\ \A t \in Pool : Connected(t) => Inflight(s) <= Inflight(t)}

(* PrimalShim.start serves clients once every socket has been open. *)
MayCall(c) == first = {} /\ c \notin made /\ Cardinality(made) < MaxCalls

(* fetch and count: query() and count() on a picked socket. *)
Ask(c) ==
  /\ c \in Fetch \cup Count /\ MayCall(c)
  /\ made' = made \cup {c}
  /\ IF Pick = {}
     THEN Settle({c}, "failed") /\ UNCHANGED <<up, pending, sock>>
     ELSE \E s \in Pick :
            /\ pending' = pending \cup {c}
            /\ sock' = [sock EXCEPT ![c] = s]
            /\ Send(s, Msg(IF c \in Fetch THEN "REQ" ELSE "COUNT", c))
            /\ UNCHANGED outcome
  /\ UNCHANGED <<link, first, down, relaySub, stored, faults, news, got, pubVars, liveVars>>

(* The query timer: forget the query, free the relay's slot, reject. *)
AskTimeout(c) ==
  /\ c \in pending
  /\ pending' = pending \ {c}
  /\ IF c \in Fetch /\ Connected(sock[c]) THEN Send(sock[c], Msg("CLOSE", c)) ELSE UNCHANGED up
  /\ Settle({c}, "failed")
  /\ UNCHANGED <<link, first, down, relaySub, stored, faults, news, sock, got, pubVars,
                 liveVars, made>>

-----------------------------------------------------------------------------
PushWaiter(s, p, n) == [waiters EXCEPT ![s][EventOf[p]] = Append(@, <<p, n>>)]

PublishEvent(p) ==
  /\ MayCall(p)
  /\ made' = made \cup {p}
  /\ IF Pick = {}
     THEN Settle({p}, "failed") /\ UNCHANGED <<up, sock, waiters>>
     ELSE \E s \in Pick :
            /\ waiters' = PushWaiter(s, p, 0)
            /\ sock' = [sock EXCEPT ![p] = s]
            /\ Send(s, Msg("EVENT", EventOf[p]))
            /\ UNCHANGED outcome
  /\ UNCHANGED <<link, first, down, relaySub, stored, faults, news, pending, got, attempt,
                 backoff, liveVars>>

(* The backoff is over: a new waiter, then the send, which may find the    *)
(* socket down; the waiter then stays until its own timer.                 *)
Retry(p) ==
  /\ p \in backoff
  /\ backoff' = backoff \ {p}
  /\ attempt' = [attempt EXCEPT ![p] = @ + 1]
  /\ waiters' = PushWaiter(sock[p], p, attempt[p] + 1)
  /\ IF Connected(sock[p])
     THEN Send(sock[p], Msg("EVENT", EventOf[p])) /\ UNCHANGED outcome
     ELSE Settle({p}, "failed") /\ UNCHANGED up
  /\ UNCHANGED <<link, first, down, relaySub, stored, faults, news, pending, sock, got,
                 liveVars, made>>

OkTimeoutKeepsWaiter(s, w) ==
  /\ LET e == EventOf[w[1]] IN
       /\ Contains(waiters[s][e], w)
       /\ UNCHANGED waiters
  /\ Settle({w[1]}, "failed")
  /\ UNCHANGED <<link, first, wire, pending, sock, got, attempt, backoff, liveVars, made>>

(* The OK timer of one waiter. *)
OkTimeout(s, w) ==
  /\ LET e == EventOf[w[1]] IN
       \E k \in DOMAIN waiters[s][e] :
         /\ waiters[s][e][k] = w
         /\ waiters' = [waiters EXCEPT ![s][e] = RemoveAt(@, k)]
  /\ Settle({w[1]}, "failed")
  /\ UNCHANGED <<link, first, wire, pending, sock, got, attempt, backoff, liveVars, made>>

-----------------------------------------------------------------------------
(* subscribeLive: wanted from now on, asked for now or at the next open. *)
SubscribeLive(l) ==
  /\ MayCall(l)
  /\ made' = made \cup {l}
  /\ liveSubs' = liveSubs \cup {l}
  /\ IF Connected(Live) THEN Send(Live, Msg("REQ", l)) ELSE UNCHANGED up
  /\ UNCHANGED <<link, first, down, relaySub, stored, faults, news, callVars, pubVars, resub>>

UnsubscribeLive(l) ==
  /\ l \in liveSubs
  /\ liveSubs' = liveSubs \ {l}
  /\ IF Connected(Live) THEN Send(Live, Msg("CLOSE", l)) ELSE UNCHANGED up
  /\ UNCHANGED <<link, first, down, relaySub, stored, faults, news, callVars, pubVars, resub,
                 made>>

(* The timer of scheduleLiveResubscribe. *)
Resubscribe(l) ==
  /\ resub[l] > 0
  /\ resub' = [resub EXCEPT ![l] = @ - 1]
  /\ IF l \in liveSubs /\ Connected(Live)
     THEN Send(Live, Msg("REQ", l))
     ELSE UNCHANGED up
  /\ UNCHANGED <<link, first, down, relaySub, stored, faults, news, callVars, pubVars,
                 liveSubs, made>>

-----------------------------------------------------------------------------
(* route: what a message from the relay does, by its type. *)
Receives(s, type) ==
  /\ Connected(s) /\ down[s] # << >> /\ Head(down[s]).type = type
  /\ down' = [down EXCEPT ![s] = Tail(@)]

RouteEvent(s) ==
  /\ Receives(s, "EVENT")
  /\ LET i == Head(down[s]).id IN
       got' = IF i \in pending THEN [got EXCEPT ![i] = @ \cup {Head(down[s]).says}] ELSE got
  /\ UNCHANGED <<link, first, up, relaySub, stored, faults, news, pending, sock, outcome,
                 pubVars, liveVars, made>>

RouteEose(s) ==
  /\ Receives(s, "EOSE")
  /\ LET i == Head(down[s]).id IN
       IF i \in pending
       THEN pending' = pending \ {i} /\ Send(s, Msg("CLOSE", i)) /\ Settle({i}, "answered")
       ELSE UNCHANGED <<pending, up, outcome>>
  /\ UNCHANGED <<link, first, relaySub, stored, faults, news, sock, got, pubVars, liveVars, made>>

RouteClosedGivesUp(s) ==
  /\ Receives(s, "CLOSED")
  /\ LET i == Head(down[s]).id IN
       /\ pending' = pending \ {i}
       /\ IF i \in pending THEN Settle({i}, "failed") ELSE UNCHANGED outcome
       /\ UNCHANGED resub
  /\ UNCHANGED <<link, first, up, relaySub, stored, faults, news, sock, got, pubVars,
                 liveSubs, made>>

RouteClosed(s) ==
  /\ Receives(s, "CLOSED")
  /\ LET i == Head(down[s]).id IN
       /\ pending' = pending \ {i}
       /\ IF i \in pending THEN Settle({i}, "failed") ELSE UNCHANGED outcome
       /\ resub' = IF i \in liveSubs THEN [resub EXCEPT ![i] = @ + 1] ELSE resub
  /\ UNCHANGED <<link, first, up, relaySub, stored, faults, news, sock, got, pubVars,
                 liveSubs, made>>

RouteCount(s) ==
  /\ Receives(s, "COUNT")
  /\ LET i == Head(down[s]).id IN
       /\ pending' = pending \ {i}
       /\ IF i \in pending THEN Settle({i}, "answered") ELSE UNCHANGED outcome
  /\ UNCHANGED <<link, first, up, relaySub, stored, faults, news, sock, got, pubVars,
                 liveVars, made>>

RouteOkOneMore(s) ==
  /\ Receives(s, "OK")
  /\ LET m == Head(down[s])
         q == waiters[s][m.id]
         p == Head(q)[1]
     IN IF q = << >>
        THEN UNCHANGED <<waiters, backoff, outcome>>
        ELSE /\ waiters' = [waiters EXCEPT ![s][m.id] = Tail(@)]
             /\ IF outcome[p] = "none" /\ m.says = "rate" /\ attempt[p] <= MaxRetries
                THEN backoff' = backoff \cup {p} /\ UNCHANGED outcome
                ELSE /\ Settle({p}, IF m.says = "ok" THEN "answered" ELSE "failed")
                     /\ UNCHANGED backoff
  /\ UNCHANGED <<link, first, up, relaySub, stored, faults, news, pending, sock, got, attempt,
                 liveVars, made>>

(* OK goes to the first waiter of its event; a rate limit is retried. *)
RouteOk(s) ==
  /\ Receives(s, "OK")
  /\ LET m == Head(down[s])
         q == waiters[s][m.id]
         p == Head(q)[1]
     IN IF q = << >>
        THEN UNCHANGED <<waiters, backoff, outcome>>
        ELSE /\ waiters' = [waiters EXCEPT ![s][m.id] = Tail(@)]
             /\ IF outcome[p] = "none" /\ m.says = "rate" /\ attempt[p] < MaxRetries
                THEN backoff' = backoff \cup {p} /\ UNCHANGED outcome
                ELSE /\ Settle({p}, IF m.says = "ok" THEN "answered" ELSE "failed")
                     /\ UNCHANGED backoff
  /\ UNCHANGED <<link, first, up, relaySub, stored, faults, news, pending, sock, got, attempt,
                 liveVars, made>>

-----------------------------------------------------------------------------
(* Connections.  A connection that ends takes the messages in flight and   *)
(* the relay's subscriptions with it.                                      *)
Cut(s) ==
  /\ up' = [up EXCEPT ![s] = << >>] /\ down' = [down EXCEPT ![s] = << >>]
  /\ relaySub' = [i \in SubId |-> IF s = (IF i \in LiveSub THEN Live ELSE sock[i])
                                  THEN "none" ELSE relaySub[i]]

WaitingOn(s) == {p \in Publish : \E n \in 0 .. MaxRetries :
                                   Contains(waiters[s][EventOf[p]], <<p, n>>)}

FailAllPendingSilently(S) ==
  LET lost == {c \in pending : sock[c] \in S} IN
  /\ pending' = pending \ lost
  /\ UNCHANGED outcome
  /\ waiters' = [s \in Socket |-> IF s \in S THEN [e \in Event |-> << >>] ELSE waiters[s]]

(* failAllPending, for the sockets S. *)
FailAllPending(S) ==
  LET lost == {c \in pending : sock[c] \in S} IN
  /\ pending' = pending \ lost
  /\ Settle(lost \cup UNION {WaitingOn(s) : s \in S}, "failed")
  /\ waiters' = [s \in Socket |-> IF s \in S THEN [e \in Event |-> << >>] ELSE waiters[s]]

OpenedOnly(s) ==
  /\ link[s] = "connecting"
  /\ link' = [link EXCEPT ![s] = "open"]
  /\ first' = first \ {s}
  /\ UNCHANGED <<up, down, relaySub, stored, faults, news, callVars, pubVars, liveVars, made>>

(* ws 'open': live subscriptions are asked for again. *)
Opened(s) ==
  /\ link[s] = "connecting"
  /\ link' = [link EXCEPT ![s] = "open"]
  /\ first' = first \ {s}
  /\ \E order \in SetToSeqs(liveSubs) :
       up' = IF s = Live THEN [up EXCEPT ![s] = [k \in DOMAIN order |-> Msg("REQ", order[k])]]
             ELSE up
  /\ UNCHANGED <<down, relaySub, stored, faults, news, callVars, pubVars, liveVars, made>>

(* ws 'close', or 'error' and then 'close': before the first open for good. *)
Lost(s) ==
  /\ link[s] \in {"connecting", "open"}
  /\ faults < MaxFaults
  /\ faults' = faults + 1
  /\ link' = [link EXCEPT ![s] = IF s \in first THEN "closed" ELSE "waiting"]
  /\ Cut(s)
  /\ FailAllPending({s})
  /\ UNCHANGED <<first, stored, news, sock, got, attempt, backoff, liveVars, made>>

(* The reconnect timer. *)
Reconnect(s) ==
  /\ link[s] = "waiting"
  /\ link' = [link EXCEPT ![s] = "connecting"]
  /\ UNCHANGED <<first, wire, callVars, pubVars, liveVars, made>>

(* RelayClient.close closes every socket for good. *)
Close ==
  /\ first = {} /\ \E s \in Socket : link[s] # "closed"
  /\ link' = [s \in Socket |-> "closed"]
  /\ up' = [s \in Socket |-> << >>] /\ down' = [s \in Socket |-> << >>]
  /\ relaySub' = [i \in SubId |-> "none"]
  /\ FailAllPending(Socket)
  /\ UNCHANGED <<first, stored, faults, news, sock, got, attempt, backoff, liveVars, made>>

-----------------------------------------------------------------------------
(* The relay: takes messages in order, answers a subscription later. *)
RelayTakes(s, type) ==
  /\ Connected(s) /\ up[s] # << >> /\ Head(up[s]).type = type
  /\ up' = [up EXCEPT ![s] = Tail(@)]

Reply(s, m) == down' = [down EXCEPT ![s] = Append(@, m)]
RelayRest   == UNCHANGED <<link, first, callVars, pubVars, liveVars, made>>

RelayReq(s) ==
  /\ RelayTakes(s, "REQ")
  /\ relaySub' = [relaySub EXCEPT ![Head(up[s]).id] = "asked"]
  /\ UNCHANGED <<down, stored, faults, news>> /\ RelayRest

(* Over a limit: CLOSED, and what was held before is kept. *)
RelayRefuses(s) ==
  /\ faults < MaxFaults
  /\ RelayTakes(s, "REQ")
  /\ Reply(s, Msg("CLOSED", Head(up[s]).id))
  /\ faults' = faults + 1
  /\ UNCHANGED <<relaySub, stored, news>> /\ RelayRest

RelayClose(s) ==
  /\ RelayTakes(s, "CLOSE")
  /\ relaySub' = [relaySub EXCEPT ![Head(up[s]).id] = "none"]
  /\ UNCHANGED <<down, stored, faults, news>> /\ RelayRest

RelayCount(s) ==
  /\ RelayTakes(s, "COUNT")
  /\ Reply(s, Msg("COUNT", Head(up[s]).id))
  /\ UNCHANGED <<relaySub, stored, faults, news>> /\ RelayRest

RelayPublish(s, v) ==
  /\ RelayTakes(s, "EVENT")
  /\ v = "rate" => faults < MaxFaults
  /\ LET e == Head(up[s]).id IN
       /\ Reply(s, [type |-> "OK", id |-> e, says |-> v])
       /\ stored' = IF v = "ok" THEN stored \cup {e} ELSE stored
  /\ faults' = faults + (IF v = "rate" THEN 1 ELSE 0)
  /\ UNCHANGED <<relaySub, news>> /\ RelayRest

Home(i) == IF i \in LiveSub THEN Live ELSE sock[i]

(* The stored answer, an event and then EOSE, on a subscription still held. *)
RelayStored(i) ==
  /\ relaySub[i] = "asked"
  /\ relaySub' = [relaySub EXCEPT ![i] = "sent"]
  /\ Reply(Home(i), [type |-> "EVENT", id |-> i, says |-> "stored"])
  /\ UNCHANGED <<up, stored, faults, news>> /\ RelayRest

RelayEose(i) ==
  /\ relaySub[i] = "sent"
  /\ relaySub' = [relaySub EXCEPT ![i] = "live"]
  /\ Reply(Home(i), Msg("EOSE", i))
  /\ UNCHANGED <<up, stored, faults, news>> /\ RelayRest

RelayNews(i) ==
  /\ relaySub[i] # "none" /\ news < MaxNews
  /\ Reply(Home(i), [type |-> "EVENT", id |-> i, says |-> "new"])
  /\ news' = news + 1
  /\ UNCHANGED <<up, relaySub, stored, faults>> /\ RelayRest

-----------------------------------------------------------------------------
Timers ==
  \/ \E c \in Fetch \cup Count : AskTimeout(c)
  \/ \E p \in Publish : Retry(p)
  \/ \E s \in Socket, w \in Waiter : OkTimeout(s, w)
  \/ \E l \in LiveSub : Resubscribe(l)
  \/ \E s \in Socket : Reconnect(s)

Route(s) == RouteEvent(s) \/ RouteEose(s) \/ RouteClosed(s) \/ RouteCount(s) \/ RouteOk(s)

Relay ==
  \/ \E s \in Socket : \/ RelayReq(s) \/ RelayClose(s) \/ RelayCount(s)
                       \/ \E v \in {"ok", "refused"} : RelayPublish(s, v)
  \/ \E i \in SubId : RelayStored(i) \/ RelayEose(i)

Next ==
  \/ \E c \in Fetch \cup Count : Ask(c)
  \/ \E p \in Publish : PublishEvent(p)
  \/ \E l \in LiveSub : SubscribeLive(l) \/ UnsubscribeLive(l)
  \/ Timers
  \/ \E s \in Socket : Route(s) \/ Opened(s) \/ Lost(s)
  \/ Close
  \/ Relay
  \/ \E s \in Socket : RelayRefuses(s) \/ RelayPublish(s, "rate")
  \/ \E i \in SubId : RelayNews(i)

(* Timers fire, the relay works through its input, Node.js delivers what   *)
(* arrives, and a connection attempt that is not cut succeeds.             *)
Fairness ==
  /\ WF_vars(Timers) /\ WF_vars(Relay)
  /\ WF_vars(\E s \in Socket : Route(s))
  /\ WF_vars(\E s \in Socket : Opened(s))

Spec     == Init /\ [][Next]_vars
FairSpec == Spec /\ Fairness

-----------------------------------------------------------------------------
Request ==
  [type : {"REQ", "CLOSE"}, id : SubId]
    \cup [type : {"COUNT"}, id : Count]
    \cup [type : {"EVENT"}, id : Event]

Answer ==
  [type : {"EOSE", "CLOSED"}, id : SubId]
    \cup [type : {"COUNT"}, id : Count]
    \cup [type : {"EVENT"}, id : SubId, says : {"stored", "new"}]
    \cup [type : {"OK"}, id : Event, says : {"ok", "rate", "refused"}]

(* Every variable has its type. *)
TypeOK ==
  /\ link \in [Socket -> {"connecting", "open", "waiting", "closed"}]
  /\ first \subseteq Socket
  /\ up \in [Socket -> Seq(Request)] /\ down \in [Socket -> Seq(Answer)]
  /\ relaySub \in [SubId -> {"none", "asked", "sent", "live"}]
  /\ pending \subseteq Fetch \cup Count
  /\ sock \in [Call -> Socket]
  /\ got \in [Fetch -> SUBSET {"stored", "new"}]
  /\ outcome \in [Call -> {"none", "answered", "failed"}]
  /\ attempt \in [Publish -> 0 .. MaxRetries]
  /\ backoff \subseteq Publish
  /\ waiters \in [Socket -> [Event -> Seq(Waiter)]]
  /\ liveSubs \subseteq LiveSub /\ resub \in [LiveSub -> Nat]
  /\ made \subseteq Call \cup LiveSub
  /\ stored \subseteq Event
  /\ faults \in 0 .. MaxFaults /\ news \in 0 .. MaxNews

(* Whether the relay will hold i once it has read the requests q.          *)
About(q, i) == {k \in DOMAIN q : q[k].id = i /\ q[k].type \in {"REQ", "CLOSE"}}

Held(q, i, holds) ==
  IF About(q, i) = {} THEN holds
  ELSE \E k \in About(q, i) : q[k].type = "REQ" /\ \A j \in About(q, i) : j <= k

WillHold(i) == Held(up[Home(i)], i, relaySub[i] # "none")

(***************************************************************************)
(* Whatever the order of answers, refusals, timeouts, reconnections and    *)
(* resubscription timers, the relay is left with no subscription that      *)
(* nobody here waits for ("free the relay-side subscription slot"), and a  *)
(* live subscription never goes dark: over an open socket the relay has it *)
(* or will, or a refusal is on its way, or a timer will ask again.         *)
(***************************************************************************)
SubscriptionsAgree ==
  /\ \A i \in SubId : WillHold(i) => i \in pending \cup liveSubs
  /\ \A l \in liveSubs : Connected(Live) =>
       WillHold(l) \/ resub[l] > 0 \/ Contains(down[Live], Msg("CLOSED", l))

(***************************************************************************)
(* OKs are matched to waiters in order, so a waiter nobody awaits would    *)
(* swallow the answer of a later publish of its event.  Only one hole is   *)
(* left: the waiter of a retry that found its socket down.                 *)
(***************************************************************************)
OrphansOnlyFromRetries ==
  \A s \in Socket : \A p \in WaitingOn(s) :
    outcome[p] # "none" => attempt[p] > 0 /\ outcome[p] = "failed"

(* An answered fetch has the whole stored answer, not what had arrived     *)
(* when its connection ended; an accepted publish is stored at the relay.  *)
Truthful(c) ==
  /\ c \in Fetch => "stored" \in got[c]
  /\ c \in Publish => EventOf[c] \in stored

(***************************************************************************)
(* What the verbs build on (Calls): a call settles, once and for good, and *)
(* an answer is truthful, although answers are matched by id alone, an OK  *)
(* by its event, and connections come and go.  An untruthful answer maps   *)
(* to no state of Calls.                                                   *)
(***************************************************************************)
CallStatus ==
  [c \in Call |-> IF c \notin made THEN "idle"
                  ELSE IF outcome[c] = "none" THEN "pending"
                  ELSE IF outcome[c] = "answered" /\ ~Truthful(c) THEN "untruthful"
                  ELSE outcome[c]]
C == INSTANCE Calls WITH status <- CallStatus
ImplementsCalls == C!FairSpec

(* A live subscription that stays wanted is at the relay in the end. *)
LiveSubsRecover ==
  \A l \in LiveSub :
    (l \in liveSubs) ~> (l \notin liveSubs \/ relaySub[l] # "none" \/ link[Live] = "closed")

=============================================================================
