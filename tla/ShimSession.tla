------------------------------ MODULE ShimSession ------------------------------
(***************************************************************************)
(* The shim's clients (src/primal-shim/server.ts, session.ts, handler.ts   *)
(* and verbs/notifications.ts): requests under ids the client chooses and  *)
(* uses again, each running across awaits; the long-lived badge counter,   *)
(* with its timer, its relay subscription and pushes that compute while    *)
(* anything may happen; the heartbeat that reaps dead sockets; and the     *)
(* seen-until marks the counter reads (Watermarks).                        *)
(*                                                                         *)
(* A fetch from the relay is what Calls promises: it ends once, answered   *)
(* or failed.  Frames that are refused, unknown verbs and REQs without a   *)
(* cache payload are answered at once and change nothing.                  *)
(***************************************************************************)
EXTENDS Watermarks, FiniteSets

CONSTANTS
  Client,      \* client connections
  SubId,       \* the subscription ids a client uses
  MaxLive,     \* MAX_LIVE_SUBS_PER_SESSION
  MaxRequests, \* bound on the REQs
  MaxNotes,    \* bound on the notifications of a user
  MaxFaults    \* bound on failed fetches, failed writes, dead peers and crashes

User == Key
Slot == Client \X SubId
Request == 1 .. MaxRequests
NoRequest == 0

ASSUME ShimAssumption ==
  /\ {MaxLive, MaxRequests, MaxNotes, MaxFaults} \subseteq Nat
  /\ MaxNotes <= MaxTime

VARIABLES
  socket,     \* per client: open, dead (half-open), gone (close pending) or closed
  awaiting,   \* awaitingPong: the sockets pinged and not heard since
  req,        \* the REQs handled so far
  active,     \* per slot: the request that a CLOSE or a reuse aborts
  liveReg,    \* per slot: the live request whose cleanup is registered
  subscribed, \* live requests with a subscription at the relay
  timers,     \* live requests with a running interval
  push,       \* per request: what its computing push has read, or None
  lastPushed, \* per request: the counts its last push sent, or None
  notes,      \* per user: notifications at the relay, at times 1, 2, ...
  late,       \* history: pushes sent after their request was torn down
  faults

sessionVars == <<socket, awaiting, req, active, liveReg, subscribed, timers, push, lastPushed, late>>
vars == <<markVars, sessionVars, notes, faults>>

Phases == {"running", "waiting", "answered", "ended"}
Requests ==
  UNION {[1 .. n ->
           [slot : Slot, verb : {"fetch", "seen", "badge"}, user : User, phase : Phases,
            aborted : BOOLEAN]] : n \in 0 .. MaxRequests}

Init ==
  /\ MarkInit
  /\ socket = [c \in Client |-> "closed"]
  /\ awaiting = {}
  /\ req = << >>
  /\ active = [x \in Slot |-> NoRequest]
  /\ liveReg = [x \in Slot |-> NoRequest]
  /\ subscribed = {} /\ timers = {}
  /\ push = [r \in Request |-> None]
  /\ lastPushed = [r \in Request |-> None]
  /\ notes = [u \in User |-> 0]
  /\ late = [r \in Request |-> 0]
  /\ faults = 0

-----------------------------------------------------------------------------
Made       == DOMAIN req
Writable(c) == socket[c] \in {"open", "dead"}   \* readyState OPEN
Fault      == faults < MaxFaults /\ faults' = faults + 1

(* Abort the requests R: their signals stay aborted. *)
Aborted(R) == [r \in Made |-> IF r \in R THEN [req[r] EXCEPT !.aborted = TRUE] ELSE req[r]]

ClearLiveKeepsTimer(X) ==
  LET gone == {liveReg[x] : x \in X} IN
  /\ liveReg' = [x \in Slot |-> IF x \in X THEN NoRequest ELSE liveReg[x]]
  /\ subscribed' = subscribed \ gone
  /\ UNCHANGED timers

(* Run and drop the cleanups registered in the slots X. *)
ClearLive(X) ==
  LET gone == {liveReg[x] : x \in X} IN
  /\ liveReg' = [x \in Slot |-> IF x \in X THEN NoRequest ELSE liveReg[x]]
  /\ subscribed' = subscribed \ gone
  /\ timers' = timers \ gone

(* beginRequest: supersede whatever the slot was doing. *)
NewRequest(x, verb, u, phase) ==
  Append(Aborted({active[x]}),
         [slot |-> x, verb |-> verb, user |-> u, phase |-> phase, aborted |-> FALSE])

MayHandle(x) == socket[x[1]] = "open" /\ Len(req) < MaxRequests

EndRequestOfSlot(r) ==
  active' = [x \in Slot |-> IF x = req[r].slot THEN NoRequest ELSE active[x]]

(* endRequest: only the request that is still its slot's active one leaves. *)
EndRequest(r) ==
  active' = [x \in Slot |-> IF active[x] = r THEN NoRequest ELSE active[x]]

-----------------------------------------------------------------------------
(* A one-shot verb that awaits the relay. *)
HandleFetch(x, u) ==
  /\ MayHandle(x)
  /\ req' = NewRequest(x, "fetch", u, "running")
  /\ active' = [active EXCEPT ![x] = Len(req) + 1]
  /\ ClearLive({x})
  /\ awaiting' = awaiting \ {x[1]}
  /\ UNCHANGED <<markVars, socket, push, lastPushed, notes, late, faults>>

(* setNotificationsSeen: awaits the write, when there is one. *)
HandleSeen(x, u, ts) ==
  /\ MayHandle(x)
  /\ req' = NewRequest(x, "seen", u, IF Advances(u, ts) THEN "waiting" ELSE "running")
  /\ IF Advances(u, ts)
     THEN Advance(u, ts, [key |-> u, ts |-> ts, caller |-> Len(req) + 1])
     ELSE UNCHANGED markVars
  /\ active' = [active EXCEPT ![x] = Len(req) + 1]
  /\ ClearLive({x})
  /\ awaiting' = awaiting \ {x[1]}
  /\ UNCHANGED <<socket, push, lastPushed, notes, late, faults>>

LiveOf(c) == {x \in Slot : x[1] = c /\ liveReg[x] # NoRequest}

HandleBadgeOneMore(x, u) ==
  /\ MayHandle(x)
  /\ LET r == Len(req) + 1
         room == Cardinality(LiveOf(x[1]) \ {x}) <= MaxLive
     IN /\ req' = NewRequest(x, "badge", u, "answered")
        /\ active' = [active EXCEPT ![x] = NoRequest]
        /\ liveReg' = [liveReg EXCEPT ![x] = IF room THEN r ELSE NoRequest]
        /\ subscribed' = (subscribed \ {liveReg[x]}) \cup (IF room THEN {r} ELSE {})
        /\ timers' = (timers \ {liveReg[x]}) \cup (IF room THEN {r} ELSE {})
        /\ push' = IF room
                   THEN [push EXCEPT ![r] = [since |-> mark[u], notes |-> notes[u]]]
                   ELSE push
  /\ awaiting' = awaiting \ {x[1]}
  /\ UNCHANGED <<markVars, socket, lastPushed, notes, late, faults>>

(* notificationCounts runs without an await up to its first push: EOSE,    *)
(* subscription and timer, registered unless the session is at its cap.    *)
HandleBadge(x, u) ==
  /\ MayHandle(x)
  /\ LET r == Len(req) + 1
         room == Cardinality(LiveOf(x[1]) \ {x}) < MaxLive
     IN /\ req' = NewRequest(x, "badge", u, "answered")
        /\ active' = [active EXCEPT ![x] = NoRequest]
        /\ liveReg' = [liveReg EXCEPT ![x] = IF room THEN r ELSE NoRequest]
        /\ subscribed' = (subscribed \ {liveReg[x]}) \cup (IF room THEN {r} ELSE {})
        /\ timers' = (timers \ {liveReg[x]}) \cup (IF room THEN {r} ELSE {})
        /\ push' = IF room
                   THEN [push EXCEPT ![r] = [since |-> mark[u], notes |-> notes[u]]]
                   ELSE push
  /\ awaiting' = awaiting \ {x[1]}
  /\ UNCHANGED <<markVars, socket, lastPushed, notes, late, faults>>

-----------------------------------------------------------------------------
Progress(r, phase) == [req EXCEPT ![r].phase = phase]

(* The verb yields: sent, unless the signal was aborted meanwhile. *)
Yield(r) ==
  /\ r \in Made /\ req[r].phase = "running" /\ req[r].verb = "fetch"
  /\ IF req[r].aborted
     THEN req' = Progress(r, "ended") /\ EndRequest(r)
     ELSE req' = Progress(r, "waiting") /\ UNCHANGED active
  /\ UNCHANGED <<markVars, socket, awaiting, liveReg, subscribed, timers, push, lastPushed,
                 notes, late, faults>>

(* The verb returns or throws: EOSE, unless aborted; then endRequest. *)
Finish(r) ==
  /\ r \in Made
  /\ \/ req[r].phase = "running" /\ req[r].verb = "seen"
     \/ req[r].phase = "waiting" /\ req[r].verb = "fetch"
  /\ req' = Progress(r, IF req[r].aborted THEN "ended" ELSE "answered")
  /\ EndRequest(r)
  /\ UNCHANGED <<markVars, socket, awaiting, liveReg, subscribed, timers, push, lastPushed,
                 notes, late, faults>>

(* A write of the seen-until file ends and resumes its caller. *)
Write ==
  /\ WriteTmp
  /\ UNCHANGED <<sessionVars, notes, faults>>

WriteEndsIfKept ==
  /\ \/ Rename /\ UNCHANGED faults
     \/ WriteFails /\ Fault
  /\ req' = IF tmp = None THEN req ELSE Progress(Head(writes).caller, "running")
  /\ UNCHANGED <<socket, awaiting, active, liveReg, subscribed, timers, push, lastPushed,
                 notes, late>>

WriteEnds ==
  /\ \/ Rename /\ UNCHANGED faults
     \/ WriteFails /\ Fault
  /\ req' = Progress(Head(writes).caller, "running")
  /\ UNCHANGED <<socket, awaiting, active, liveReg, subscribed, timers, push, lastPushed,
                 notes, late>>

-----------------------------------------------------------------------------
StartPushTornDown(r) ==
  /\ r \in Made /\ req[r].verb = "badge" /\ socket[req[r].slot[1]] # "closed"
  /\ push[r] = None
  /\ LET u == req[r].user IN
       push' = [push EXCEPT ![r] = [since |-> mark[u], notes |-> notes[u]]]
  /\ UNCHANGED <<markVars, socket, awaiting, req, active, liveReg, subscribed, timers,
                 lastPushed, notes, late, faults>>

(* push, unless one is computing: by the timer, which may fire at any time *)
(* and so also when an event of the relay triggers the same push.          *)
StartPush(r) ==
  /\ r \in timers
  /\ push[r] = None
  /\ LET u == req[r].user IN
       push' = [push EXCEPT ![r] = [since |-> mark[u], notes |-> notes[u]]]
  /\ UNCHANGED <<markVars, socket, awaiting, req, active, liveReg, subscribed, timers,
                 lastPushed, notes, late, faults>>

CountSince(n, since) == IF n > since THEN n - since ELSE 0

Registered(r) == \E x \in Slot : liveReg[x] = r

FinishPushOnlyMore(r) ==
  /\ push[r] # None
  /\ push' = [push EXCEPT ![r] = None]
  /\ \E n \in push[r].notes .. notes[req[r].user] :
       LET count == CountSince(n, push[r].since)
           more  == lastPushed[r] = None \/ count > lastPushed[r]
           news  == more /\ Writable(req[r].slot[1])
       IN /\ lastPushed' = [lastPushed EXCEPT ![r] = IF more THEN count ELSE @]
          /\ late' = IF news /\ ~Registered(r) THEN [late EXCEPT ![r] = @ + 1] ELSE late
  /\ UNCHANGED <<markVars, socket, awaiting, req, active, liveReg, subscribed, timers,
                 notes, faults>>

(* The counts arrive, of the notifications the relay had meanwhile; they   *)
(* are sent if they differ from the last, whatever became of the request.  *)
FinishPush(r) ==
  /\ push[r] # None
  /\ push' = [push EXCEPT ![r] = None]
  /\ \E n \in push[r].notes .. notes[req[r].user] :
       LET count == CountSince(n, push[r].since)
           news  == count # lastPushed[r] /\ Writable(req[r].slot[1])
       IN /\ lastPushed' = [lastPushed EXCEPT ![r] = count]
          /\ late' = IF news /\ ~Registered(r) THEN [late EXCEPT ![r] = @ + 1] ELSE late
  /\ UNCHANGED <<markVars, socket, awaiting, req, active, liveReg, subscribed, timers,
                 notes, faults>>

(* A fetch of the push fails: the next trigger retries. *)
FailPush(r) ==
  /\ push[r] # None /\ Fault
  /\ push' = [push EXCEPT ![r] = None]
  /\ UNCHANGED <<markVars, socket, awaiting, req, active, liveReg, subscribed, timers,
                 lastPushed, notes, late>>

(* Someone replies to, likes, reposts or zaps a note of u. *)
Interaction(u) ==
  /\ notes[u] < MaxNotes
  /\ notes' = [notes EXCEPT ![u] = @ + 1]
  /\ UNCHANGED <<markVars, sessionVars, faults>>

-----------------------------------------------------------------------------
(* A client connects, or comes back with a new session. *)
Connect(c) ==
  /\ socket[c] = "closed"
  /\ socket' = [socket EXCEPT ![c] = "open"]
  /\ UNCHANGED <<markVars, awaiting, req, active, liveReg, subscribed, timers, push,
                 lastPushed, notes, late, faults>>

(* CLOSE: cancel, whatever its slot was doing. *)
HandleClose(x) ==
  /\ socket[x[1]] = "open"
  /\ active[x] # NoRequest \/ liveReg[x] # NoRequest
  /\ req' = Aborted({active[x]})
  /\ active' = [active EXCEPT ![x] = NoRequest]
  /\ ClearLive({x})
  /\ awaiting' = awaiting \ {x[1]}
  /\ UNCHANGED <<markVars, socket, push, lastPushed, notes, late, faults>>

(* The peer is gone and no packet says so. *)
Die(c) ==
  /\ socket[c] = "open" /\ Fault
  /\ socket' = [socket EXCEPT ![c] = "dead"]
  /\ UNCHANGED <<markVars, awaiting, req, active, liveReg, subscribed, timers, push,
                 lastPushed, notes, late>>

(* The client hangs up. *)
HangUp(c) ==
  /\ socket[c] = "open"
  /\ socket' = [socket EXCEPT ![c] = "gone"]
  /\ UNCHANGED <<markVars, awaiting, req, active, liveReg, subscribed, timers, push,
                 lastPushed, notes, late, faults>>

Pong(c) ==
  /\ socket[c] = "open" /\ c \in awaiting
  /\ awaiting' = awaiting \ {c}
  /\ UNCHANGED <<markVars, socket, req, active, liveReg, subscribed, timers, push,
                 lastPushed, notes, late, faults>>

(* sweepIdle: terminate who did not answer the last ping, ping the others. *)
Sweep ==
  /\ LET up == {c \in Client : socket[c] \in {"open", "dead"}} IN
       /\ up # {}
       /\ socket' = [c \in Client |-> IF c \in up \cap awaiting THEN "gone" ELSE socket[c]]
       /\ awaiting' = up \ awaiting
  /\ UNCHANGED <<markVars, req, active, liveReg, subscribed, timers, push, lastPushed,
                 notes, late, faults>>

(* ws 'close' or 'error': session.close aborts and cleans up everything.   *)
(* A push of the session still computes, but can send nothing any more.    *)
SocketClosed(c) ==
  /\ socket[c] = "gone"
  /\ socket' = [socket EXCEPT ![c] = "closed"]
  /\ LET X == {c} \X SubId IN
       /\ req' = Aborted({active[x] : x \in X})
       /\ active' = [x \in Slot |-> IF x \in X THEN NoRequest ELSE active[x]]
       /\ ClearLive(X)
       /\ push' = [r \in Request |-> IF r \in Made /\ req[r].slot \in X THEN None ELSE push[r]]
  /\ UNCHANGED <<markVars, awaiting, lastPushed, notes, late, faults>>

(* The process ends, by stop or by a crash, and starts again. *)
RestartShim ==
  /\ Fault
  /\ Restart
  /\ socket' = [c \in Client |-> "closed"]
  /\ awaiting' = {}
  /\ req' = [r \in Made |-> [req[r] EXCEPT !.phase = IF @ = "answered" THEN @ ELSE "ended",
                                           !.aborted = TRUE]]
  /\ active' = [x \in Slot |-> NoRequest]
  /\ liveReg' = [x \in Slot |-> NoRequest]
  /\ subscribed' = {} /\ timers' = {}
  /\ push' = [r \in Request |-> None]
  /\ UNCHANGED <<lastPushed, notes, late>>

Next ==
  \/ \E x \in Slot, u \in User :
       \/ HandleFetch(x, u) \/ HandleBadge(x, u)
       \/ \E ts \in 1 .. MaxTime : HandleSeen(x, u, ts)
  \/ \E x \in Slot : HandleClose(x)
  \/ \E r \in Made : Yield(r) \/ Finish(r) \/ StartPush(r) \/ FinishPush(r) \/ FailPush(r)
  \/ Write \/ WriteEnds
  \/ \E u \in User : Interaction(u)
  \/ \E c \in Client : Connect(c) \/ Die(c) \/ HangUp(c) \/ Pong(c) \/ SocketClosed(c)
  \/ Sweep
  \/ RestartShim

(* Timers fire, fetches and file operations end (Calls), sockets close. *)
Fairness ==
  /\ \A r \in Request : /\ WF_vars(r \in Made /\ (Yield(r) \/ Finish(r)))
                        /\ WF_vars(r \in Made /\ StartPush(r))
                        /\ WF_vars(r \in Made /\ FinishPush(r))
  /\ WF_vars(Write) /\ WF_vars(WriteEnds)
  /\ WF_vars(Sweep)
  /\ \A c \in Client : WF_vars(SocketClosed(c))

Spec     == Init /\ [][Next]_vars
FairSpec == Spec /\ Fairness

-----------------------------------------------------------------------------
(* Every variable has its type, and no session exceeds its cap. *)
TypeOK ==
  /\ MarkTypeOK
  /\ socket \in [Client -> {"open", "dead", "gone", "closed"}]
  /\ awaiting \subseteq Client
  /\ req \in Requests
  /\ active \in [Slot -> Made \cup {NoRequest}]
  /\ liveReg \in [Slot -> Made \cup {NoRequest}]
  /\ \A c \in Client : Cardinality(LiveOf(c)) <= MaxLive
  /\ subscribed \subseteq Made /\ timers \subseteq Made
  /\ push \in [Request -> {None} \cup [since : 0 .. MaxTime, notes : 0 .. MaxNotes]]
  /\ lastPushed \in [Request -> {None} \cup 0 .. MaxNotes]
  /\ notes \in [User -> 0 .. MaxNotes]
  /\ late \in [Request -> Nat]
  /\ faults \in 0 .. MaxFaults

(***************************************************************************)
(* Whatever runs for a client can be stopped by it: reuse of an id, CLOSE, *)
(* the cap and every way a socket ends leave no timer and no relay         *)
(* subscription behind ("would otherwise leak"), and a request that runs   *)
(* on, not aborted, is the one its slot would abort: no predecessor on the *)
(* id, by ending late, has put it out of reach.                            *)
(***************************************************************************)
OwnedBySession ==
  /\ subscribed = timers
  /\ timers = {liveReg[x] : x \in Slot} \ {NoRequest}
  /\ \A r \in timers : socket[req[r].slot[1]] # "closed"
  /\ \A r \in Made :
       req[r].phase \in {"running", "waiting"} /\ ~req[r].aborted => active[req[r].slot] = r

(* A badge counter that was torn down sends at most the push that was      *)
(* computing (the code does not look at the signal after its await).       *)
AtMostOneLatePush == \A r \in Request : late[r] <= 1

(* A request that is not superseded, cancelled or cut off is answered. *)
EveryRequestAnswered ==
  \A r \in Request :
    (r \in Made /\ req[r].phase \in {"running", "waiting"})
      ~> (r \in Made /\ (req[r].phase = "answered" \/ req[r].aborted))

(* When interactions and seen-marks cease, every open badge shows the      *)
(* truth: a push skipped, failed or overtaken by a mark is made up for.    *)
BadgeConverges ==
  \A r \in Request :
    <>[](r \in Made /\ Registered(r) =>
           lastPushed[r] = CountSince(notes[req[r].user], mark[req[r].user]))

=============================================================================
