-------------------------- MODULE ShimSession_proofs --------------------------
(***************************************************************************)
(* The shim's sessions keep their requests, badge counters and watermarks  *)
(* sound, for any clients, ids, users and bounds.                          *)
(***************************************************************************)
EXTENDS ShimSession, FiniteSetTheorems, TLAPS

Record ==
  [slot : Slot, verb : {"fetch", "seen", "badge"}, user : User, phase : Phases,
   aborted : BOOLEAN]

Caller == [key : Key, ts : 0 .. MaxTime, caller : Nat]

(* The marks: what was reported kept is in the file, what is in the file   *)
(* is in every later write, and every write carries its caller's mark.     *)
MarkSound ==
  /\ \A k \in Key :
       /\ kept[k] <= file[k] /\ file[k] <= mark[k]
       /\ tmp # None => file[k] <= tmp[k] /\ tmp[k] <= mark[k]
  /\ \A i \in 1 .. Len(writes) : writes[i].ts <= mark[writes[i].key]
  /\ tmp # None => writes # << >> /\ writes[1].ts <= tmp[writes[1].key]

MarkInv == MarkTypeOK /\ MarkSound

(* The queued writes are those of the requests that wait for the file. *)
CallersWait ==
  /\ \A i \in 1 .. Len(writes) :
       /\ writes[i].caller \in Made
       /\ req[writes[i].caller].phase = "waiting" /\ req[writes[i].caller].verb = "seen"
  /\ \A i, j \in 1 .. Len(writes) : writes[i].caller = writes[j].caller => i = j

(* A slot holds requests of its own, and none once its socket is closed. *)
SlotsSound ==
  /\ \A x \in Slot : active[x] # NoRequest =>
       req[active[x]].slot = x /\ socket[x[1]] # "closed"
  /\ \A x \in Slot : liveReg[x] # NoRequest =>
       req[liveReg[x]].slot = x /\ socket[x[1]] # "closed"

(* A request that sent a late push computes nothing and is not registered. *)
LateSound ==
  /\ \A r \in Request : late[r] # 0 => late[r] = 1 /\ push[r] = None /\ ~Registered(r)
  /\ \A r \in Request \ Made : late[r] = 0

Typed ==
  /\ socket \in [Client -> {"open", "dead", "gone", "closed"}]
  /\ awaiting \subseteq Client
  /\ req \in Seq(Record) /\ Len(req) <= MaxRequests
  /\ active \in [Slot -> Made \cup {NoRequest}]
  /\ liveReg \in [Slot -> Made \cup {NoRequest}]
  /\ subscribed \subseteq Made /\ timers \subseteq Made
  /\ push \in [Request -> {None} \cup [since : 0 .. MaxTime, notes : 0 .. MaxNotes]]
  /\ lastPushed \in [Request -> {None} \cup 0 .. MaxNotes]
  /\ notes \in [User -> 0 .. MaxNotes]
  /\ late \in [Request -> Nat]
  /\ faults \in 0 .. MaxFaults

(* No session exceeds its cap. *)
Capped == \A c \in Client : IsFiniteSet(LiveOf(c)) /\ Cardinality(LiveOf(c)) <= MaxLive

IInv == MarkInv /\ Typed /\ Capped /\ CallersWait /\ SlotsSound /\ OwnedBySession /\ LateSound

-----------------------------------------------------------------------------
LEMMA RequestsAreRecords ==
  ASSUME NEW q
  PROVE  q \in Requests <=> q \in Seq(Record) /\ Len(q) <= MaxRequests
<1> USE ShimAssumption
<1>1. ASSUME NEW n \in 0 .. MaxRequests, q \in [1 .. n -> Record]
      PROVE  q \in Seq(Record) /\ Len(q) <= MaxRequests
  BY <1>1
<1>2. ASSUME q \in Seq(Record), Len(q) <= MaxRequests
      PROVE  q \in [1 .. Len(q) -> Record] /\ Len(q) \in 0 .. MaxRequests
  BY <1>2
<1>3. QED
  BY <1>1, <1>2 DEF Requests, Record

LEMMA AbortedIs ==
  ASSUME req \in Seq(Record), NEW R
  PROVE  /\ Aborted(R) \in Seq(Record) /\ Len(Aborted(R)) = Len(req)
         /\ \A r \in Made : Aborted(R)[r] = IF r \in R THEN [req[r] EXCEPT !.aborted = TRUE]
                                            ELSE req[r]
<1>1. \A r \in Made : [req[r] EXCEPT !.aborted = TRUE] \in Record
  <2> TAKE r \in Made
  <2>1. req[r] \in Record
    BY DEF Made
  <2>2. QED
    BY <2>1 DEF Record
<1>2. Aborted(R) \in [1 .. Len(req) -> Record]
  BY <1>1 DEF Aborted, Made
<1>3. QED
  BY <1>2 DEF Aborted, Made

(* beginRequest: the records before, one of them aborted, and the new one. *)
Fresh(x, verb, u, phase) ==
  [slot |-> x, verb |-> verb, user |-> u, phase |-> phase, aborted |-> FALSE]

IsNewRequest(q, x, verb, u, phase) ==
  /\ q \in Seq(Record) /\ Len(q) = Len(req) + 1 /\ DOMAIN q = Made \cup {Len(req) + 1}
  /\ q[Len(req) + 1] = Fresh(x, verb, u, phase)
  /\ \A r \in Made : IF r = active[x] THEN q[r] = [req[r] EXCEPT !.aborted = TRUE]
                     ELSE q[r] = req[r]

LEMMA NewRequestIs ==
  ASSUME req \in Seq(Record), NEW x \in Slot, NEW u \in User,
         NEW verb \in {"fetch", "seen", "badge"}, NEW phase \in Phases
  PROVE  IsNewRequest(NewRequest(x, verb, u, phase), x, verb, u, phase)
<1> DEFINE a == Aborted({active[x]})
           new == Fresh(x, verb, u, phase)
<1>1. a \in Seq(Record) /\ Len(a) = Len(req)
  BY AbortedIs
<1>2. \A r \in Made : a[r] = IF r = active[x] THEN [req[r] EXCEPT !.aborted = TRUE] ELSE req[r]
  BY AbortedIs
<1>3. new \in Record
  BY DEF Record, Fresh
<1>4. Made = 1 .. Len(req)
  BY DEF Made
<1> HIDE DEF a, new
<1>5. /\ Append(a, new) \in Seq(Record) /\ Len(Append(a, new)) = Len(req) + 1
      /\ Append(a, new)[Len(req) + 1] = new
      /\ \A r \in 1 .. Len(req) : Append(a, new)[r] = a[r]
      /\ DOMAIN Append(a, new) = 1 .. (Len(req) + 1)
  BY <1>1, <1>3
<1>6. NewRequest(x, verb, u, phase) = Append(a, new)
  BY DEF NewRequest, a, new, Fresh
<1>7. DOMAIN Append(a, new) = Made \cup {Len(req) + 1}
  BY <1>4, <1>5
<1>8. \A r \in Made : IF r = active[x] THEN Append(a, new)[r] = [req[r] EXCEPT !.aborted = TRUE]
                      ELSE Append(a, new)[r] = req[r]
  BY <1>2, <1>4, <1>5
<1>9. QED
  BY <1>5, <1>6, <1>7, <1>8 DEF new, IsNewRequest
-----------------------------------------------------------------------------
(* Each step of the watermarks keeps them sound. *)
LEMMA AdvanceKeepsMarks ==
  ASSUME MarkInv, NEW k \in Key, NEW ts \in 1 .. MaxTime, NEW n \in Nat,
         Advance(k, ts, [key |-> k, ts |-> ts, caller |-> n])
  PROVE  MarkInv'
<1> USE WatermarksAssumption
<1> DEFINE c == [key |-> k, ts |-> ts, caller |-> n]
<1>1. c \in Caller /\ c.key = k /\ c.ts = ts
  BY DEF Caller
<1>2. writes \in Seq(Caller) /\ mark \in [Key -> 0 .. MaxTime] /\ file \in [Key -> 0 .. MaxTime]
      /\ kept \in [Key -> 0 .. MaxTime] /\ tmp \in [Key -> 0 .. MaxTime] \cup {None}
  BY DEF MarkInv, MarkTypeOK, Caller, Maps
<1>3. mark' = [mark EXCEPT ![k] = ts] /\ writes' = Append(writes, c) /\ ts > mark[k]
      /\ UNCHANGED <<file, tmp, kept>>
  BY DEF Advance, Advances
<1> HIDE DEF c
<1>4. MarkTypeOK'
  BY <1>1, <1>2, <1>3 DEF MarkTypeOK, Caller, Maps
<1>5. \A j \in Key : mark[j] <= mark'[j]
  BY <1>2, <1>3
<1>6. /\ \A i \in 1 .. Len(writes') : writes'[i] = IF i = Len(writes) + 1 THEN c ELSE writes[i]
      /\ Len(writes') = Len(writes) + 1
      /\ Len(writes) \in Nat
  BY <1>1, <1>2, <1>3
<1>7. \A i \in 1 .. Len(writes) : writes[i] \in Caller
  BY <1>2
<1>8. MarkSound'
  <2>1. \A j \in Key : /\ kept'[j] <= file'[j] /\ file'[j] <= mark'[j]
                       /\ tmp' # None => file'[j] <= tmp'[j] /\ tmp'[j] <= mark'[j]
    BY <1>2, <1>3, <1>5 DEF MarkInv, MarkSound
  <2>2. \A i \in 1 .. Len(writes') : writes'[i].ts <= mark'[writes'[i].key]
    <3> SUFFICES ASSUME NEW i \in 1 .. Len(writes') PROVE writes'[i].ts <= mark'[writes'[i].key]
      OBVIOUS
    <3>1. CASE i = Len(writes) + 1
      BY <1>1, <1>2, <1>3, <1>6, <3>1
    <3>2. CASE i # Len(writes) + 1
      <4>1. i \in 1 .. Len(writes) /\ writes'[i] = writes[i]
        BY <1>6, <3>2
      <4>2. writes[i].key \in Key /\ writes[i].ts \in 0 .. MaxTime
        BY <1>7, <4>1 DEF Caller
      <4>3. writes[i].ts <= mark[writes[i].key]
        BY <4>1 DEF MarkInv, MarkSound
      <4>4. mark[writes[i].key] <= mark'[writes[i].key]
        BY <1>5, <4>2
      <4>5. mark[writes[i].key] \in 0 .. MaxTime /\ mark'[writes[i].key] \in 0 .. MaxTime
        BY <1>2, <1>3, <4>2
      <4>6. QED
        BY <4>1, <4>2, <4>3, <4>4, <4>5
    <3>3. QED
      BY <3>1, <3>2
  <2>3. tmp' # None => writes' # << >> /\ writes'[1].ts <= tmp'[writes'[1].key]
    <3> SUFFICES ASSUME tmp # None PROVE writes' # << >> /\ writes'[1].ts <= tmp'[writes'[1].key]
      BY <1>3
    <3>1. writes # << >> /\ writes[1].ts <= tmp[writes[1].key]
      BY DEF MarkInv, MarkSound
    <3>2. Len(writes) # 0
      BY <1>2, <3>1
    <3>3. 1 \in 1 .. Len(writes) /\ Len(writes') # 0 /\ 1 \in 1 .. Len(writes') /\ 1 # Len(writes) + 1
      BY <1>6, <3>2
    <3>4. writes'[1] = writes[1]
      BY <1>6, <3>3
    <3>5. writes' # << >>
      BY <3>3
    <3>6. QED
      BY <1>3, <3>1, <3>4, <3>5
  <2>4. QED
    BY <2>1, <2>2, <2>3 DEF MarkSound
<1>9. QED
  BY <1>4, <1>8 DEF MarkInv

LEMMA WriteTmpKeepsMarks == MarkInv /\ WriteTmp => MarkInv'
<1> USE WatermarksAssumption
<1> SUFFICES ASSUME MarkInv, WriteTmp PROVE MarkInv'
  OBVIOUS
<1>1. /\ writes \in Seq(Caller) /\ mark \in [Key -> 0 .. MaxTime]
      /\ file \in [Key -> 0 .. MaxTime]
  BY DEF MarkInv, MarkTypeOK, Caller, Maps
<1>2. 1 \in 1 .. Len(writes)
  BY <1>1 DEF WriteTmp
<1>3. MarkTypeOK'
  BY <1>1 DEF MarkInv, MarkTypeOK, WriteTmp, Maps
<1>4. \A k \in Key : /\ kept'[k] <= file'[k] /\ file'[k] <= mark'[k]
                     /\ tmp' # None => file'[k] <= tmp'[k] /\ tmp'[k] <= mark'[k]
  BY <1>1 DEF MarkInv, MarkSound, WriteTmp
<1>5. \A i \in 1 .. Len(writes') : writes'[i].ts <= mark'[writes'[i].key]
  BY DEF MarkInv, MarkSound, WriteTmp
<1>6. writes' # << >> /\ writes'[1].ts <= tmp'[writes'[1].key]
  BY <1>2 DEF MarkInv, MarkSound, WriteTmp
<1>7. QED
  BY <1>3, <1>4, <1>5, <1>6 DEF MarkInv, MarkSound

(* The writes but the first. *)
LEMMA TailOfWrites ==
  ASSUME writes \in Seq(Caller), writes # << >>
  PROVE  /\ Tail(writes) \in Seq(Caller) /\ Len(Tail(writes)) = Len(writes) - 1
         /\ \A i \in 1 .. Len(Tail(writes)) : Tail(writes)[i] = writes[i + 1] /\ i + 1 \in 1 .. Len(writes)
         /\ 1 \in 1 .. Len(writes) /\ Head(writes) = writes[1] /\ Head(writes) \in Caller
  OBVIOUS

LEMMA RenameKeepsMarks == MarkInv /\ Rename => MarkInv'
<1> USE WatermarksAssumption
<1> SUFFICES ASSUME MarkInv, Rename PROVE MarkInv'
  OBVIOUS
<1> DEFINE c == Head(writes)
<1>1. /\ writes \in Seq(Caller) /\ mark \in [Key -> 0 .. MaxTime]
      /\ file \in [Key -> 0 .. MaxTime] /\ kept \in [Key -> 0 .. MaxTime]
      /\ tmp \in [Key -> 0 .. MaxTime] /\ writes # << >>
  BY DEF MarkInv, MarkTypeOK, MarkSound, Caller, Maps, Rename
<1>2. /\ writes' = Tail(writes) /\ tmp' = None /\ file' = tmp /\ mark' = mark
      /\ kept' = [kept EXCEPT ![c.key] = IF c.ts > @ THEN c.ts ELSE @]
  BY DEF Rename, WriteDone
<1>3. c \in Caller /\ c = writes[1]
  BY <1>1, TailOfWrites
<1>4. c.key \in Key /\ c.ts \in 0 .. MaxTime
  BY <1>3 DEF Caller
<1>5. c.ts <= tmp[c.key]
  BY <1>1, <1>3 DEF MarkInv, MarkSound, Rename
<1> HIDE DEF c
<1>6. MarkTypeOK'
  BY <1>1, <1>2, <1>4, TailOfWrites DEF MarkTypeOK, Caller, Maps
<1>7. \A k \in Key : kept'[k] <= file'[k] /\ file'[k] <= mark'[k]
  <2> TAKE k \in Key
  <2>1. kept[k] <= file[k] /\ file[k] <= tmp[k] /\ tmp[k] <= mark[k]
    BY DEF MarkInv, MarkSound, Rename
  <2>2. {kept[k], file[k], tmp[k], mark[k]} \subseteq Int
    BY <1>1
  <2>3. kept'[k] = IF k = c.key /\ c.ts > kept[k] THEN c.ts ELSE kept[k]
    BY <1>1, <1>2, <1>4
  <2>4. kept'[k] <= tmp[k]
    BY <1>4, <1>5, <2>1, <2>2, <2>3
  <2>5. QED
    BY <1>2, <2>1, <2>4
<1>8. \A i \in 1 .. Len(writes') : writes'[i].ts <= mark'[writes'[i].key]
  BY <1>1, <1>2, TailOfWrites DEF MarkInv, MarkSound
<1>9. QED
  BY <1>2, <1>6, <1>7, <1>8 DEF MarkInv, MarkSound

LEMMA WriteFailsKeepsMarks == MarkInv /\ WriteFails => MarkInv'
<1> USE WatermarksAssumption
<1> SUFFICES ASSUME MarkInv, WriteFails PROVE MarkInv'
  OBVIOUS
<1>1. writes \in Seq(Caller) /\ writes # << >>
  BY DEF MarkInv, MarkTypeOK, Caller, WriteFails
<1>2. \A i \in 1 .. Len(writes') : writes'[i].ts <= mark'[writes'[i].key]
  BY <1>1, TailOfWrites DEF MarkInv, MarkSound, WriteFails
<1>3. QED
  BY <1>1, <1>2, TailOfWrites DEF MarkInv, MarkTypeOK, MarkSound, WriteFails, Maps, Caller

LEMMA RestartKeepsMarks == MarkInv /\ Restart => MarkInv'
<1> SUFFICES ASSUME MarkInv, Restart PROVE MarkInv'
  OBVIOUS
<1>1. mark' = file /\ file' = file /\ kept' = kept /\ tmp' = None /\ writes' = << >>
  BY DEF Restart
<1>2. MarkTypeOK'
  BY <1>1 DEF MarkInv, MarkTypeOK
<1>3. \A k \in Key : file[k] \in Int
  BY DEF MarkInv, MarkTypeOK, Maps
<1>4. MarkSound'
  BY <1>1, <1>3 DEF MarkInv, MarkSound
<1>5. QED
  BY <1>2, <1>4 DEF MarkInv

LEMMA MarksUnchanged == MarkInv /\ UNCHANGED markVars => MarkInv'
  BY DEF MarkInv, MarkTypeOK, MarkSound, markVars, Maps
-----------------------------------------------------------------------------
LEMMA MadeAre ==
  ASSUME Typed
  PROVE  /\ Made = 1 .. Len(req) /\ Len(req) \in Nat
         /\ \A r \in Made :
              /\ r \in Request /\ r \in Nat \ {0} /\ req[r] \in Record
              /\ req[r].slot \in Slot /\ req[r].slot[1] \in Client /\ req[r].user \in User
              /\ req[r].phase \in Phases /\ req[r].aborted \in BOOLEAN
<1> USE ShimAssumption
<1>1. req \in Seq(Record) /\ Len(req) <= MaxRequests
  BY DEF Typed
<1>2. Made = 1 .. Len(req) /\ Len(req) \in Nat
  BY <1>1 DEF Made
<1>3. \A r \in Made : r \in 1 .. MaxRequests /\ req[r] \in Record
  BY <1>1, <1>2
<1>4. QED
  BY <1>2, <1>3 DEF Record, Request, Slot

(* Steps that leave the requests, the slots and the queued writes alone. *)
Slots == <<req, active, liveReg, subscribed, timers>>

LEMMA SlotsUnchanged ==
  ASSUME IInv, UNCHANGED Slots, UNCHANGED writes,
         \A c \in Client : socket'[c] = "closed" => socket[c] = "closed"
  PROVE  /\ Capped' /\ CallersWait' /\ SlotsSound' /\ OwnedBySession'
<1>1. \A x \in Slot : x[1] \in Client
  BY DEF Slot
<1>2. \A r \in timers : req[r].slot \in Slot
  BY MadeAre DEF IInv, Typed
<1>3. Capped'
  BY DEF IInv, Slots, Capped, LiveOf
<1>4. CallersWait'
  BY DEF IInv, Slots, CallersWait, Made
<1>5. SlotsSound'
  BY <1>1 DEF IInv, Slots, SlotsSound
<1>6. OwnedBySession'
  BY <1>1, <1>2 DEF IInv, Slots, OwnedBySession, Made
<1>7. QED
  BY <1>3, <1>4, <1>5, <1>6

LEMMA WriteKeeps == IInv /\ Write => IInv'
<1> SUFFICES ASSUME IInv, Write PROVE IInv'
  OBVIOUS
<1>1. UNCHANGED <<Slots, socket, writes, awaiting, push, lastPushed, late, notes, faults>>
  BY DEF Write, WriteTmp, sessionVars, Slots
<1>2. MarkInv'
  BY WriteTmpKeepsMarks DEF IInv, Write
<1>3. Typed' /\ LateSound'
  BY <1>1 DEF IInv, Typed, LateSound, Slots, Made, Registered
<1>4. QED
  BY <1>1, <1>2, <1>3, SlotsUnchanged DEF IInv

LEMMA StartPushKeeps == ASSUME IInv, NEW r \in Made, StartPush(r) PROVE IInv'
<1> USE ShimAssumption, WatermarksAssumption
<1>1. UNCHANGED <<markVars, Slots, socket, awaiting, lastPushed, late, notes, faults>> /\ r \in timers
  BY DEF StartPush, Slots
<1>2. MarkInv' /\ UNCHANGED writes
  BY <1>1, MarksUnchanged DEF IInv, markVars
<1>3. r \in Request /\ req[r].user \in User
  BY MadeAre DEF IInv
<1>4. [since |-> mark[req[r].user], notes |-> notes[req[r].user]]
        \in [since : 0 .. MaxTime, notes : 0 .. MaxNotes]
  BY <1>3 DEF IInv, Typed, MarkInv, MarkTypeOK, Maps, User
<1>5. push' \in [Request -> {None} \cup [since : 0 .. MaxTime, notes : 0 .. MaxNotes]]
      /\ \A q \in Request : q # r => push'[q] = push[q]
  BY <1>3, <1>4 DEF IInv, Typed, StartPush
<1>6. Typed'
  BY <1>1, <1>5 DEF IInv, Typed, Slots, Made
<1>7. Registered(r)
  BY <1>1 DEF IInv, OwnedBySession, Registered
<1>8. LateSound'
  BY <1>1, <1>3, <1>5, <1>7 DEF IInv, LateSound, Slots, Made, Registered
<1>9. QED
  BY <1>1, <1>2, <1>6, <1>8, SlotsUnchanged DEF IInv

LEMMA FinishPushKeeps == ASSUME IInv, NEW r \in Made, FinishPush(r) PROVE IInv'
<1> USE ShimAssumption, WatermarksAssumption
<1>1. UNCHANGED <<markVars, Slots, socket, awaiting, notes, faults>>
  BY DEF FinishPush, Slots
<1>2. MarkInv' /\ UNCHANGED writes
  BY <1>1, MarksUnchanged DEF IInv, markVars
<1>3. r \in Request /\ req[r].user \in User
  BY MadeAre DEF IInv
<1>4. push[r] \in [since : 0 .. MaxTime, notes : 0 .. MaxNotes] /\ late[r] = 0
  BY <1>3 DEF IInv, Typed, LateSound, FinishPush
<1>5. /\ push' = [push EXCEPT ![r] = None]
      /\ late' = late \/ (late' = [late EXCEPT ![r] = @ + 1] /\ ~Registered(r))
  BY DEF FinishPush
<1>6. \E n \in 0 .. MaxNotes : lastPushed' = [lastPushed EXCEPT ![r] = CountSince(n, push[r].since)]
  <2>1. PICK n \in push[r].notes .. notes[req[r].user] :
               lastPushed' = [lastPushed EXCEPT ![r] = CountSince(n, push[r].since)]
    BY DEF FinishPush
  <2>2. push[r].notes \in 0 .. MaxNotes /\ notes[req[r].user] \in 0 .. MaxNotes
    BY <1>3, <1>4 DEF IInv, Typed
  <2>3. n \in 0 .. MaxNotes
    BY <2>1, <2>2
  <2>4. QED
    BY <2>1, <2>3
<1>7. lastPushed' \in [Request -> {None} \cup 0 .. MaxNotes]
  <2>1. PICK n \in 0 .. MaxNotes : lastPushed' = [lastPushed EXCEPT ![r] = CountSince(n, push[r].since)]
    BY <1>6
  <2>2. push[r].since \in 0 .. MaxTime
    BY <1>4
  <2>3. CountSince(n, push[r].since) \in 0 .. MaxNotes
    BY <2>2 DEF CountSince
  <2>4. QED
    BY <1>3, <2>1, <2>3 DEF IInv, Typed
<1>8. push' \in [Request -> {None} \cup [since : 0 .. MaxTime, notes : 0 .. MaxNotes]]
      /\ push'[r] = None /\ \A q \in Request : q # r => push'[q] = push[q]
  BY <1>3, <1>5 DEF IInv, Typed
<1>9. late' \in [Request -> Nat] /\ (late'[r] = 0 \/ (late'[r] = 1 /\ ~Registered(r)))
      /\ \A q \in Request : q # r => late'[q] = late[q]
  BY <1>3, <1>4, <1>5 DEF IInv, Typed
<1>10. Typed'
  BY <1>1, <1>7, <1>8, <1>9 DEF IInv, Typed, Slots, Made
<1>11. LateSound'
  BY <1>1, <1>3, <1>8, <1>9 DEF IInv, LateSound, Slots, Made, Registered
<1>12. QED
  BY <1>1, <1>2, <1>10, <1>11, SlotsUnchanged DEF IInv

LEMMA FailPushKeeps == ASSUME IInv, NEW r \in Made, FailPush(r) PROVE IInv'
<1> USE ShimAssumption, WatermarksAssumption
<1>1. UNCHANGED <<markVars, Slots, socket, awaiting, lastPushed, late, notes>>
  BY DEF FailPush, Slots
<1>2. MarkInv' /\ UNCHANGED writes
  BY <1>1, MarksUnchanged DEF IInv, markVars
<1>3. r \in Request
  BY MadeAre DEF IInv
<1>4. push' \in [Request -> {None} \cup [since : 0 .. MaxTime, notes : 0 .. MaxNotes]]
      /\ push'[r] = None /\ \A q \in Request : q # r => push'[q] = push[q]
  BY <1>3 DEF IInv, Typed, FailPush
<1>5. Typed'
  <2>1. faults \in 0 .. MaxFaults /\ faults < MaxFaults /\ faults' = faults + 1
    BY DEF IInv, Typed, FailPush, Fault
  <2>2. faults' \in 0 .. MaxFaults
    BY <2>1
  <2>3. QED
    BY <1>1, <1>4, <2>2 DEF IInv, Typed, Slots, Made
<1>6. LateSound'
  BY <1>1, <1>4 DEF IInv, LateSound, Slots, Made, Registered
<1>7. QED
  BY <1>1, <1>2, <1>5, <1>6, SlotsUnchanged DEF IInv

(* Interactions, and what becomes of a socket before it is closed. *)
LEMMA EnvironmentKeeps ==
  ASSUME IInv,
         \/ \E u \in User : Interaction(u)
         \/ \E c \in Client : Connect(c) \/ Die(c) \/ HangUp(c) \/ Pong(c)
         \/ Sweep
  PROVE  IInv'
<1> USE ShimAssumption, WatermarksAssumption
<1>1. UNCHANGED <<markVars, Slots, push, lastPushed, late>>
  BY DEF Interaction, Connect, Die, HangUp, Pong, Sweep, sessionVars, Slots
<1>2. MarkInv' /\ UNCHANGED writes
  BY <1>1, MarksUnchanged DEF IInv, markVars
<1>3. /\ socket' \in [Client -> {"open", "dead", "gone", "closed"}]
      /\ \A c \in Client : socket'[c] = "closed" => socket[c] = "closed"
  BY DEF IInv, Typed, Interaction, Connect, Die, HangUp, Pong, Sweep, sessionVars
<1>4. awaiting' \subseteq Client
  BY DEF IInv, Typed, Interaction, Connect, Die, HangUp, Pong, Sweep, sessionVars
<1>5. notes' \in [User -> 0 .. MaxNotes] /\ faults' \in 0 .. MaxFaults
  <2>1. ASSUME NEW u \in User, Interaction(u) PROVE notes' \in [User -> 0 .. MaxNotes]
    <3>1. notes[u] \in 0 .. MaxNotes /\ notes[u] + 1 \in 0 .. MaxNotes
      BY <2>1 DEF IInv, Typed, Interaction
    <3>2. QED
      BY <2>1, <3>1 DEF IInv, Typed, Interaction
  <2>2. faults' = faults \/ Fault
    BY DEF Interaction, Connect, Die, HangUp, Pong, Sweep, sessionVars
  <2>3. faults' \in 0 .. MaxFaults
    BY <2>2 DEF IInv, Typed, Fault
  <2>4. (\E u \in User : Interaction(u)) \/ UNCHANGED notes
    BY DEF Connect, Die, HangUp, Pong, Sweep
  <2>5. QED
    BY <2>1, <2>3, <2>4 DEF IInv, Typed
<1>6. Typed' /\ LateSound'
  BY <1>1, <1>3, <1>4, <1>5 DEF IInv, Typed, LateSound, Slots, Made, Registered
<1>7. QED
  BY <1>1, <1>2, <1>3, <1>6, SlotsUnchanged DEF IInv
-----------------------------------------------------------------------------
(* One request moves on; the others, and what it is, stay. *)
LEMMA ProgressIs ==
  ASSUME Typed, NEW r \in Made, NEW p \in Phases, req' = Progress(r, p)
  PROVE  /\ req' \in Seq(Record) /\ Len(req') = Len(req) /\ Made' = Made
         /\ req'[r] = [req[r] EXCEPT !.phase = p]
         /\ \A q \in Made : q # r => req'[q] = req[q]
         /\ \A q \in Made : /\ req'[q].slot = req[q].slot /\ req'[q].verb = req[q].verb
                            /\ req'[q].aborted = req[q].aborted
<1>1. req \in Seq(Record) /\ req[r] \in Record
  BY MadeAre DEF Typed
<1>2. [req[r] EXCEPT !.phase = p] \in Record
  BY <1>1 DEF Record
<1>3. req' = [req EXCEPT ![r] = [req[r] EXCEPT !.phase = p]]
  BY DEF Progress
<1>4. r \in 1 .. Len(req)
  BY <1>1 DEF Made
<1>5. req' \in Seq(Record) /\ Len(req') = Len(req) /\ Made' = Made
  BY <1>1, <1>2, <1>3, <1>4 DEF Made
<1>6. /\ req'[r] = [req[r] EXCEPT !.phase = p]
      /\ \A q \in Made : q # r => req'[q] = req[q]
  BY <1>1, <1>3, <1>4 DEF Made
<1>7. \A q \in Made : /\ req'[q].slot = req[q].slot /\ req'[q].verb = req[q].verb
                      /\ req'[q].aborted = req[q].aborted
  <2> TAKE q \in Made
  <2>1. CASE q = r
    BY <1>1, <1>6, <2>1 DEF Record
  <2>2. CASE q # r
    BY <1>6, <2>2
  <2>3. QED
    BY <2>1, <2>2
<1>8. QED
  BY <1>5, <1>6, <1>7

(* The cleanups of some slots run: the others stay registered. *)
LEMMA ClearLiveIs ==
  ASSUME IInv, NEW X \in SUBSET Slot, ClearLive(X)
  PROVE  /\ liveReg' \in [Slot -> Made \cup {NoRequest}]
         /\ \A x \in Slot : liveReg'[x] # NoRequest => x \notin X /\ liveReg'[x] = liveReg[x]
         /\ subscribed' = timers' /\ timers' \subseteq timers
         /\ timers' = {liveReg'[x] : x \in Slot} \ {NoRequest}
<1>1. liveReg \in [Slot -> Made \cup {NoRequest}]
  BY DEF IInv, Typed
<1>2. liveReg' = [x \in Slot |-> IF x \in X THEN NoRequest ELSE liveReg[x]]
      /\ subscribed' = subscribed \ {liveReg[x] : x \in X}
      /\ timers' = timers \ {liveReg[x] : x \in X}
  BY DEF ClearLive
<1>3. /\ liveReg' \in [Slot -> Made \cup {NoRequest}]
      /\ \A x \in Slot : liveReg'[x] # NoRequest => x \notin X /\ liveReg'[x] = liveReg[x]
  BY <1>1, <1>2
<1>4. subscribed = timers /\ timers = {liveReg[x] : x \in Slot} \ {NoRequest}
  BY DEF IInv, OwnedBySession
<1>5. \A x, y \in Slot : liveReg[x] # NoRequest /\ liveReg[x] = liveReg[y] => x = y
  BY DEF IInv, SlotsSound
<1>6. timers' = {liveReg'[x] : x \in Slot} \ {NoRequest}
  <2>1. ASSUME NEW t \in timers' PROVE \E x \in Slot : t = liveReg'[x] /\ t # NoRequest
    BY <1>2, <1>4, <2>1
  <2>2. ASSUME NEW x \in Slot, liveReg'[x] # NoRequest PROVE liveReg'[x] \in timers'
    BY <1>2, <1>3, <1>4, <1>5, <2>2
  <2>3. QED
    BY <2>1, <2>2
<1>7. QED
  BY <1>2, <1>3, <1>4, <1>6

LEMMA CapKept ==
  ASSUME Capped, MaxLive \in Nat, \A x \in Slot : liveReg'[x] # NoRequest => liveReg[x] # NoRequest
  PROVE  Capped'
<1> SUFFICES ASSUME NEW c \in Client
             PROVE  IsFiniteSet(LiveOf(c)') /\ Cardinality(LiveOf(c)') <= MaxLive
  BY DEF Capped
<1>1. LiveOf(c)' \subseteq LiveOf(c)
  BY DEF LiveOf
<1>2. IsFiniteSet(LiveOf(c)) /\ Cardinality(LiveOf(c)) <= MaxLive
  BY DEF Capped
<1>3. IsFiniteSet(LiveOf(c)') /\ Cardinality(LiveOf(c)') <= Cardinality(LiveOf(c))
  BY <1>1, <1>2, FS_Subset
<1>4. Cardinality(LiveOf(c)) \in Nat /\ Cardinality(LiveOf(c)') \in Nat
  BY <1>2, <1>3, FS_CardinalityType
<1>5. QED
  BY <1>2, <1>3, <1>4

LEMMA LateKept ==
  ASSUME IInv, late' = late, Made \subseteq Made',
         \A r \in Made : push'[r] = push[r] \/ push'[r] = None,
         \A x \in Slot : liveReg'[x] \in Made => liveReg'[x] = liveReg[x]
  PROVE  LateSound'
<1> SUFFICES ASSUME NEW r \in Request, late[r] # 0
             PROVE  late[r] = 1 /\ push'[r] = None /\ ~Registered(r)'
  BY DEF IInv, LateSound
<1>1. r \in Made /\ late[r] = 1 /\ push[r] = None /\ ~Registered(r)
  BY DEF IInv, LateSound
<1>2. ~Registered(r)'
  BY <1>1 DEF Registered
<1>3. QED
  BY <1>1, <1>2
-----------------------------------------------------------------------------
(* A write ends: the request that waited for it runs on. *)
LEMMA WriteEndsKeeps == IInv /\ WriteEnds => IInv'
<1> USE ShimAssumption, WatermarksAssumption
<1> SUFFICES ASSUME IInv, WriteEnds PROVE IInv'
  OBVIOUS
<1> DEFINE r == Head(writes).caller
<1>1. UNCHANGED <<socket, awaiting, active, liveReg, subscribed, timers, push, lastPushed, notes, late>>
  BY DEF WriteEnds
<1>2. MarkInv'
  BY RenameKeepsMarks, WriteFailsKeepsMarks DEF IInv, WriteEnds
<1>3. writes \in Seq(Caller) /\ writes # << >> /\ writes' = Tail(writes)
  BY DEF IInv, MarkInv, MarkTypeOK, MarkSound, Caller, WriteEnds, Rename, WriteDone, WriteFails
<1>4. /\ Len(writes') = Len(writes) - 1
      /\ \A i \in 1 .. Len(writes') : writes'[i] = writes[i + 1] /\ i + 1 \in 1 .. Len(writes)
      /\ 1 \in 1 .. Len(writes) /\ Head(writes) = writes[1]
  BY <1>3, TailOfWrites
<1>5. r \in Made /\ req[r].phase = "waiting" /\ req[r].verb = "seen"
  BY <1>4 DEF IInv, CallersWait
<1>6. req' = Progress(r, "running")
  BY DEF WriteEnds
<1> HIDE DEF r
<1>7. "running" \in Phases
  BY DEF Phases
<1>8. /\ req' \in Seq(Record) /\ Len(req') = Len(req) /\ Made' = Made
      /\ \A q \in Made : q # r => req'[q] = req[q]
      /\ \A q \in Made : /\ req'[q].slot = req[q].slot /\ req'[q].verb = req[q].verb
                         /\ req'[q].aborted = req[q].aborted
  BY <1>5, <1>6, <1>7, ProgressIs DEF IInv
<1>9. Typed'
  <2>1. faults' \in 0 .. MaxFaults
    BY DEF IInv, Typed, WriteEnds, Fault
  <2>2. QED
    BY <1>1, <1>8, <2>1 DEF IInv, Typed
<1>10. CallersWait'
  <2>1. \A i, j \in 1 .. Len(writes) : writes[i].caller = writes[j].caller => i = j
    BY DEF IInv, CallersWait
  <2>2. \A i \in 1 .. Len(writes') : i + 1 \in 1 .. Len(writes) /\ i + 1 # 1
    BY <1>4
  <2>3. \A i \in 1 .. Len(writes') : writes'[i].caller # r
    BY <1>4, <2>1, <2>2 DEF r
  <2>4. \A i \in 1 .. Len(writes') :
          /\ writes'[i].caller \in Made
          /\ req[writes'[i].caller].phase = "waiting" /\ req[writes'[i].caller].verb = "seen"
    <3>1. \A i \in 1 .. Len(writes) :
            /\ writes[i].caller \in Made
            /\ req[writes[i].caller].phase = "waiting" /\ req[writes[i].caller].verb = "seen"
      BY DEF IInv, CallersWait
    <3>2. TAKE i \in 1 .. Len(writes')
    <3>3. writes'[i] = writes[i + 1] /\ i + 1 \in 1 .. Len(writes)
      BY <1>4
    <3>4. QED
      BY <3>1, <3>3
  <2>5. \A i \in 1 .. Len(writes') :
          /\ writes'[i].caller \in Made'
          /\ req'[writes'[i].caller].phase = "waiting" /\ req'[writes'[i].caller].verb = "seen"
    BY <1>8, <2>3, <2>4
  <2>6. \A i, j \in 1 .. Len(writes') : writes'[i].caller = writes'[j].caller => i + 1 = j + 1
    <3> TAKE i, j \in 1 .. Len(writes')
    <3>1. /\ writes'[i] = writes[i + 1] /\ i + 1 \in 1 .. Len(writes)
          /\ writes'[j] = writes[j + 1] /\ j + 1 \in 1 .. Len(writes)
      BY <1>4
    <3>2. QED
      BY <2>1, <3>1
  <2>7. \A i, j \in 1 .. Len(writes') : i + 1 = j + 1 => i = j
    OBVIOUS
  <2>8. QED
    BY <2>5, <2>6, <2>7 DEF CallersWait
<1>11. SlotsSound'
  <2>1. \A x \in Slot : /\ active[x] # NoRequest => active[x] \in Made
                        /\ liveReg[x] # NoRequest => liveReg[x] \in Made
    BY DEF IInv, Typed
  <2>2. QED
    BY <1>1, <1>8, <2>1 DEF IInv, SlotsSound
<1>12. OwnedBySession'
  <2>1. \A q \in timers : q \in Made
    BY DEF IInv, Typed
  <2>2. \A q \in timers' : socket'[req'[q].slot[1]] # "closed"
    BY <1>1, <1>8, <2>1 DEF IInv, OwnedBySession
  <2>3. \A q \in Made' : req'[q].phase \in {"running", "waiting"} => req[q].phase \in {"running", "waiting"}
    BY <1>5, <1>8
  <2>4. \A q \in Made' :
          req'[q].phase \in {"running", "waiting"} /\ ~req'[q].aborted => active'[req'[q].slot] = q
    BY <1>1, <1>8, <2>3 DEF IInv, OwnedBySession
  <2>5. QED
    BY <1>1, <2>2, <2>4 DEF IInv, OwnedBySession
<1>13. Capped' /\ LateSound'
  BY <1>1, <1>8, CapKept, LateKept DEF IInv
<1>14. QED
  BY <1>2, <1>9, <1>10, <1>11, <1>12, <1>13 DEF IInv

(* A request yields or ends, and leaves its slot if it is there. *)
LEMMA MovesOnKeeps ==
  ASSUME IInv, NEW r \in Made, NEW p \in Phases, req' = Progress(r, p),
         ~(req[r].phase = "waiting" /\ req[r].verb = "seen"),
         \/ EndRequest(r) /\ p \in {"answered", "ended"}
         \/ UNCHANGED active /\ req[r].phase = "running",
         UNCHANGED <<markVars, socket, awaiting, liveReg, subscribed, timers, push, lastPushed,
                     notes, late, faults>>
  PROVE  IInv'
<1> USE ShimAssumption, WatermarksAssumption
<1>1. MarkInv'
  BY MarksUnchanged DEF IInv
<1>2. /\ req' \in Seq(Record) /\ Len(req') = Len(req) /\ Made' = Made
      /\ req'[r] = [req[r] EXCEPT !.phase = p]
      /\ \A q \in Made : q # r => req'[q] = req[q]
      /\ \A q \in Made : /\ req'[q].slot = req[q].slot /\ req'[q].verb = req[q].verb
                         /\ req'[q].aborted = req[q].aborted
  BY ProgressIs DEF IInv
<1>3. req'[r].phase = p
  BY <1>2, MadeAre DEF IInv, Record
<1>4. active \in [Slot -> Made \cup {NoRequest}] /\ liveReg \in [Slot -> Made \cup {NoRequest}]
  BY DEF IInv, Typed
<1>5. /\ active' \in [Slot -> Made \cup {NoRequest}]
      /\ \A x \in Slot : active'[x] # NoRequest => active'[x] = active[x]
      /\ \A x \in Slot : active'[x] # active[x] => active[x] = r /\ p \in {"answered", "ended"}
  BY <1>4 DEF EndRequest
<1>6. Typed'
  BY <1>2, <1>5 DEF IInv, Typed
<1>7. CallersWait'
  <2>1. \A i \in 1 .. Len(writes) :
          /\ writes[i].caller \in Made /\ writes[i].caller # r
          /\ req[writes[i].caller].phase = "waiting" /\ req[writes[i].caller].verb = "seen"
    BY DEF IInv, CallersWait
  <2>2. \A i \in 1 .. Len(writes) :
          /\ writes[i].caller \in Made'
          /\ req'[writes[i].caller].phase = "waiting" /\ req'[writes[i].caller].verb = "seen"
    <3> TAKE i \in 1 .. Len(writes)
    <3>1. /\ writes[i].caller \in Made /\ writes[i].caller # r
          /\ req[writes[i].caller].phase = "waiting" /\ req[writes[i].caller].verb = "seen"
      BY <2>1
    <3>2. writes[i].caller \in Made' /\ req'[writes[i].caller] = req[writes[i].caller]
      BY <1>2, <3>1
    <3>3. QED
      BY <3>1, <3>2
  <2>3. writes' = writes
    BY DEF markVars
  <2>4. QED
    BY <2>2, <2>3 DEF IInv, CallersWait
<1>8. SlotsSound'
  <2>1. \A x \in Slot : active'[x] # NoRequest =>
          req'[active'[x]].slot = x /\ socket'[x[1]] # "closed"
    <3> SUFFICES ASSUME NEW x \in Slot, active'[x] # NoRequest
                 PROVE  req'[active'[x]].slot = x /\ socket'[x[1]] # "closed"
      OBVIOUS
    <3>1. active'[x] = active[x] /\ active[x] \in Made
      BY <1>4, <1>5
    <3>2. req[active[x]].slot = x /\ socket[x[1]] # "closed"
      BY <3>1 DEF IInv, SlotsSound
    <3>3. QED
      BY <1>2, <3>1, <3>2
  <2>2. \A x \in Slot : liveReg'[x] # NoRequest =>
          req'[liveReg'[x]].slot = x /\ socket'[x[1]] # "closed"
    <3> SUFFICES ASSUME NEW x \in Slot, liveReg[x] # NoRequest
                 PROVE  req'[liveReg[x]].slot = x /\ socket[x[1]] # "closed"
      OBVIOUS
    <3>1. liveReg[x] \in Made
      BY <1>4
    <3>2. req[liveReg[x]].slot = x /\ socket[x[1]] # "closed"
      BY DEF IInv, SlotsSound
    <3>3. QED
      BY <1>2, <3>1, <3>2
  <2>3. QED
    BY <2>1, <2>2 DEF SlotsSound
<1>9. OwnedBySession'
  <2>1. \A q \in timers : q \in Made
    BY DEF IInv, Typed
  <2>2. \A q \in timers' : socket'[req'[q].slot[1]] # "closed"
    BY <1>2, <2>1 DEF IInv, OwnedBySession
  <2>3. ASSUME NEW q \in Made, req'[q].phase \in {"running", "waiting"}, ~req'[q].aborted
        PROVE  active'[req'[q].slot] = q
    <3>1. req[q].phase \in {"running", "waiting"} /\ ~req[q].aborted
      BY <1>2, <1>3, <1>5, <2>3
    <3>2. active[req[q].slot] = q /\ req[q].slot \in Slot
      BY <3>1, MadeAre DEF IInv, OwnedBySession
    <3>3. CASE q = r
      <4>1. p \notin {"answered", "ended"}
        BY <1>3, <2>3, <3>3
      <4>2. QED
        BY <1>2, <1>5, <3>2, <4>1
    <3>4. CASE q # r
      BY <1>2, <1>5, <3>2, <3>4
    <3>5. QED
      BY <3>3, <3>4
  <2>4. QED
    BY <1>2, <2>2, <2>3 DEF IInv, OwnedBySession
<1>10. Capped' /\ LateSound'
  BY <1>2, CapKept, LateKept DEF IInv
<1>11. QED
  BY <1>1, <1>6, <1>7, <1>8, <1>9, <1>10 DEF IInv

LEMMA YieldKeeps == ASSUME IInv, NEW r \in Made, Yield(r) PROVE IInv'
<1>1. /\ req[r].phase = "running" /\ req[r].verb = "fetch"
      /\ UNCHANGED <<markVars, socket, awaiting, liveReg, subscribed, timers, push, lastPushed,
                     notes, late, faults>>
  BY DEF Yield
<1>2. CASE req' = Progress(r, "ended") /\ EndRequest(r)
  BY <1>1, <1>2, MovesOnKeeps DEF Phases
<1>3. CASE req' = Progress(r, "waiting") /\ UNCHANGED active
  BY <1>1, <1>3, MovesOnKeeps DEF Phases
<1>4. QED
  BY <1>2, <1>3 DEF Yield

LEMMA FinishKeeps == ASSUME IInv, NEW r \in Made, Finish(r) PROVE IInv'
<1>1. /\ ~(req[r].phase = "waiting" /\ req[r].verb = "seen") /\ EndRequest(r)
      /\ UNCHANGED <<markVars, socket, awaiting, liveReg, subscribed, timers, push, lastPushed,
                     notes, late, faults>>
  BY DEF Finish
<1>2. \E p \in {"answered", "ended"} : req' = Progress(r, p)
  BY DEF Finish
<1>3. QED
  BY <1>1, <1>2, MovesOnKeeps DEF Phases
-----------------------------------------------------------------------------
(* A CLOSE, or the end of a socket: the slots X stop. *)
LEMMA StopKeeps ==
  ASSUME IInv, NEW X \in SUBSET Slot,
         req' = Aborted({active[x] : x \in X}),
         active' = [x \in Slot |-> IF x \in X THEN NoRequest ELSE active[x]],
         ClearLive(X),
         socket' \in [Client -> {"open", "dead", "gone", "closed"}],
         \A x \in Slot : socket'[x[1]] = "closed" => socket[x[1]] = "closed" \/ x \in X,
         push' \in [Request -> {None} \cup [since : 0 .. MaxTime, notes : 0 .. MaxNotes]],
         \A r \in Request : push'[r] = push[r] \/ push'[r] = None,
         awaiting' \subseteq Client,
         UNCHANGED <<markVars, lastPushed, notes, late, faults>>
  PROVE  IInv'
<1> USE ShimAssumption, WatermarksAssumption
<1> DEFINE R == {active[x] : x \in X}
<1>1. MarkInv' /\ writes' = writes
  BY MarksUnchanged DEF IInv, markVars
<1>2. /\ req' \in Seq(Record) /\ Len(req') = Len(req) /\ Made' = Made
      /\ \A r \in Made : req'[r] = IF r \in R THEN [req[r] EXCEPT !.aborted = TRUE] ELSE req[r]
  <2>1. req \in Seq(Record)
    BY DEF IInv, Typed
  <2>2. /\ Aborted(R) \in Seq(Record) /\ Len(Aborted(R)) = Len(req)
        /\ \A r \in Made : Aborted(R)[r] = IF r \in R THEN [req[r] EXCEPT !.aborted = TRUE]
                                           ELSE req[r]
    BY <2>1, AbortedIs
  <2>3. req' = Aborted(R)
    OBVIOUS
  <2>4. Made' = Made
    BY <2>1, <2>2, <2>3 DEF Made
  <2>5. QED
    BY <2>2, <2>3, <2>4
<1>3. \A r \in Made : /\ req'[r].slot = req[r].slot /\ req'[r].verb = req[r].verb
                      /\ req'[r].phase = req[r].phase
                      /\ ~req'[r].aborted => ~req[r].aborted /\ r \notin R
  <2> HIDE DEF R
  <2> TAKE r \in Made
  <2>1. req[r] \in Record
    BY MadeAre DEF IInv
  <2>2. CASE r \in R
    <3>1. req'[r] = [req[r] EXCEPT !.aborted = TRUE]
      BY <1>2, <2>2
    <3>2. QED
      BY <2>1, <3>1 DEF Record
  <2>3. CASE r \notin R
    BY <1>2, <2>3
  <2>4. QED
    BY <2>2, <2>3
<1>4. active \in [Slot -> Made \cup {NoRequest}] /\ liveReg \in [Slot -> Made \cup {NoRequest}]
  BY DEF IInv, Typed
<1>5. /\ active' \in [Slot -> Made \cup {NoRequest}]
      /\ \A x \in Slot : active'[x] # NoRequest => x \notin X /\ active'[x] = active[x]
      /\ \A x \in Slot : active'[x] # active[x] => active[x] \in R
  BY <1>4
<1> HIDE DEF R
<1>6. /\ liveReg' \in [Slot -> Made \cup {NoRequest}]
      /\ \A x \in Slot : liveReg'[x] # NoRequest => x \notin X /\ liveReg'[x] = liveReg[x]
      /\ subscribed' = timers' /\ timers' \subseteq timers
      /\ timers' = {liveReg'[x] : x \in Slot} \ {NoRequest}
  BY ClearLiveIs
<1>7. Typed'
  <2>1. timers \subseteq Made
    BY DEF IInv, Typed
  <2>2. QED
    BY <1>2, <1>5, <1>6, <2>1 DEF IInv, Typed
<1>8. CallersWait'
  <2>1. \A i \in 1 .. Len(writes) :
          /\ writes[i].caller \in Made
          /\ req[writes[i].caller].phase = "waiting" /\ req[writes[i].caller].verb = "seen"
    BY DEF IInv, CallersWait
  <2>2. \A i \in 1 .. Len(writes) :
          /\ writes[i].caller \in Made'
          /\ req'[writes[i].caller].phase = "waiting" /\ req'[writes[i].caller].verb = "seen"
    BY <1>2, <1>3, <2>1
  <2>3. QED
    BY <1>1, <2>2 DEF IInv, CallersWait
<1>9. SlotsSound'
  <2>1. \A x \in Slot : active'[x] # NoRequest =>
          req'[active'[x]].slot = x /\ socket'[x[1]] # "closed"
    <3> SUFFICES ASSUME NEW x \in Slot, active'[x] # NoRequest
                 PROVE  req'[active'[x]].slot = x /\ socket'[x[1]] # "closed"
      OBVIOUS
    <3>1. x \notin X /\ active'[x] = active[x] /\ active[x] \in Made
      BY <1>4, <1>5
    <3>2. req[active[x]].slot = x /\ socket[x[1]] # "closed"
      BY <3>1 DEF IInv, SlotsSound
    <3>3. QED
      BY <1>3, <3>1, <3>2
  <2>2. \A x \in Slot : liveReg'[x] # NoRequest =>
          req'[liveReg'[x]].slot = x /\ socket'[x[1]] # "closed"
    <3> SUFFICES ASSUME NEW x \in Slot, liveReg'[x] # NoRequest
                 PROVE  req'[liveReg'[x]].slot = x /\ socket'[x[1]] # "closed"
      OBVIOUS
    <3>1. x \notin X /\ liveReg'[x] = liveReg[x] /\ liveReg[x] \in Made
      BY <1>4, <1>6
    <3>2. req[liveReg[x]].slot = x /\ socket[x[1]] # "closed"
      BY <3>1 DEF IInv, SlotsSound
    <3>3. QED
      BY <1>3, <3>1, <3>2
  <2>3. QED
    BY <2>1, <2>2 DEF SlotsSound
<1>10. OwnedBySession'
  <2>1. ASSUME NEW r \in timers' PROVE socket'[req'[r].slot[1]] # "closed"
    <3>1. PICK x \in Slot : r = liveReg'[x] /\ liveReg'[x] # NoRequest
      BY <1>6
    <3>2. QED
      BY <1>9, <3>1 DEF SlotsSound
  <2>2. ASSUME NEW r \in Made, req'[r].phase \in {"running", "waiting"}, ~req'[r].aborted
        PROVE  active'[req'[r].slot] = r
    <3>1. req[r].phase \in {"running", "waiting"} /\ ~req[r].aborted /\ r \notin R
      BY <1>3, <2>2
    <3>2. active[req[r].slot] = r /\ req[r].slot \in Slot
      BY <3>1, MadeAre DEF IInv, OwnedBySession
    <3>3. QED
      BY <1>3, <1>5, <3>1, <3>2
  <2>3. QED
    BY <1>2, <1>6, <2>1, <2>2 DEF OwnedBySession
<1>11. Capped'
  BY <1>6, CapKept DEF IInv
<1>12. LateSound'
  <2>1. \A x \in Slot : liveReg'[x] \in Made => liveReg'[x] = liveReg[x]
    BY <1>6, MadeAre DEF IInv, NoRequest
  <2>2. \A r \in Made : push'[r] = push[r] \/ push'[r] = None
    BY MadeAre DEF IInv
  <2>3. QED
    BY <1>2, <2>1, <2>2, LateKept
<1>13. QED
  BY <1>1, <1>7, <1>8, <1>9, <1>10, <1>11, <1>12 DEF IInv

LEMMA HandleCloseKeeps == ASSUME IInv, NEW x \in Slot, HandleClose(x) PROVE IInv'
<1>1. active' = [y \in Slot |-> IF y \in {x} THEN NoRequest ELSE active[y]]
  BY DEF IInv, Typed, HandleClose
<1>2. {active[y] : y \in {x}} = {active[x]}
  OBVIOUS
<1>3. /\ req' = Aborted({active[y] : y \in {x}}) /\ ClearLive({x}) /\ awaiting' = awaiting \ {x[1]}
      /\ UNCHANGED <<markVars, socket, push, lastPushed, notes, late, faults>>
  BY <1>2 DEF HandleClose
<1>4. /\ socket' \in [Client -> {"open", "dead", "gone", "closed"}]
      /\ push' \in [Request -> {None} \cup [since : 0 .. MaxTime, notes : 0 .. MaxNotes]]
      /\ awaiting' \subseteq Client
  BY <1>3 DEF IInv, Typed
<1>5. QED
  BY <1>1, <1>3, <1>4, StopKeeps

LEMMA SocketClosedKeeps == ASSUME IInv, NEW c \in Client, SocketClosed(c) PROVE IInv'
<1> DEFINE X == {c} \X SubId
<1>1. X \in SUBSET Slot /\ \A x \in Slot : x[1] = c => x \in X
  BY DEF Slot
<1>2. /\ req' = Aborted({active[x] : x \in X})
      /\ active' = [x \in Slot |-> IF x \in X THEN NoRequest ELSE active[x]]
      /\ ClearLive(X)
      /\ push' = [r \in Request |-> IF r \in Made /\ req[r].slot \in X THEN None ELSE push[r]]
      /\ socket' = [socket EXCEPT ![c] = "closed"]
      /\ UNCHANGED <<markVars, awaiting, lastPushed, notes, late, faults>>
  BY DEF SocketClosed
<1> HIDE DEF X
<1>3. /\ socket' \in [Client -> {"open", "dead", "gone", "closed"}]
      /\ \A d \in Client : d # c => socket'[d] = socket[d]
  BY <1>2 DEF IInv, Typed
<1>4. \A x \in Slot : socket'[x[1]] = "closed" => socket[x[1]] = "closed" \/ x \in X
  BY <1>1, <1>3 DEF Slot
<1>5. /\ push' \in [Request -> {None} \cup [since : 0 .. MaxTime, notes : 0 .. MaxNotes]]
      /\ \A r \in Request : push'[r] = push[r] \/ push'[r] = None
  BY <1>2 DEF IInv, Typed
<1>6. awaiting' \subseteq Client
  BY <1>2 DEF IInv, Typed
<1>7. QED
  BY <1>1, <1>2, <1>3, <1>4, <1>5, <1>6, StopKeeps

LEMMA RestartShimKeeps == IInv /\ RestartShim => IInv'
<1> USE ShimAssumption, WatermarksAssumption
<1> SUFFICES ASSUME IInv, RestartShim PROVE IInv'
  OBVIOUS
<1>1. MarkInv' /\ writes' = << >>
  BY RestartKeepsMarks DEF IInv, RestartShim, Restart
<1>2. req \in Seq(Record) /\ Made = 1 .. Len(req) /\ Len(req) \in Nat
  BY MadeAre DEF IInv, Typed
<1>3. \A r \in Made : [req[r] EXCEPT !.phase = IF @ = "answered" THEN @ ELSE "ended", !.aborted = TRUE]
                        \in Record
  <2> TAKE r \in Made
  <2>1. req[r] \in Record
    BY MadeAre DEF IInv
  <2>2. QED
    BY <2>1 DEF Record, Phases
<1>4. req' \in [1 .. Len(req) -> Record]
  BY <1>2, <1>3 DEF RestartShim
<1>5. req' \in Seq(Record) /\ Len(req') = Len(req) /\ Made' = Made
  BY <1>2, <1>4 DEF Made
<1>6. \A r \in Made : req'[r].aborted
  <2> TAKE r \in Made
  <2>1. req[r] \in Record
    BY MadeAre DEF IInv
  <2>2. req'[r] = [req[r] EXCEPT !.phase = IF @ = "answered" THEN @ ELSE "ended", !.aborted = TRUE]
    BY DEF RestartShim
  <2>3. QED
    BY <2>1, <2>2 DEF Record
<1>7. /\ active' = [x \in Slot |-> NoRequest] /\ liveReg' = [x \in Slot |-> NoRequest]
      /\ subscribed' = {} /\ timers' = {} /\ awaiting' = {}
      /\ socket' = [c \in Client |-> "closed"] /\ push' = [r \in Request |-> None]
      /\ UNCHANGED <<lastPushed, notes, late>>
  BY DEF RestartShim
<1>8. faults' \in 0 .. MaxFaults
  <2>1. faults \in 0 .. MaxFaults /\ faults < MaxFaults /\ faults' = faults + 1
    BY DEF IInv, Typed, RestartShim, Fault
  <2>2. QED
    BY <2>1
<1>9. Typed'
  BY <1>5, <1>7, <1>8 DEF IInv, Typed
<1>10. CallersWait'
  BY <1>1 DEF CallersWait
<1>11. SlotsSound'
  BY <1>7 DEF SlotsSound
<1>12. OwnedBySession'
  <2>1. {liveReg'[x] : x \in Slot} \ {NoRequest} = {}
    BY <1>7
  <2>2. QED
    BY <1>5, <1>6, <1>7, <2>1 DEF OwnedBySession
<1>13. Capped' /\ LateSound'
  <2>1. \A x \in Slot : liveReg'[x] = NoRequest
    BY <1>7
  <2>2. Capped'
    BY <2>1, CapKept DEF IInv
  <2>3. \A x \in Slot : liveReg'[x] \in Made => liveReg'[x] = liveReg[x]
    BY <2>1, MadeAre DEF IInv, NoRequest
  <2>4. \A r \in Made : push'[r] = None
    BY <1>7, MadeAre DEF IInv
  <2>5. LateSound'
    BY <1>5, <1>7, <2>3, <2>4, LateKept
  <2>6. QED
    BY <2>2, <2>5
<1>14. QED
  BY <1>1, <1>9, <1>10, <1>11, <1>12, <1>13 DEF IInv
-----------------------------------------------------------------------------
(* A new request takes over its slot, or is answered at once. *)
TakesSlot(x, verb, u, phase) ==
  LET n == Len(req) + 1 IN
  /\ Made' = Made \cup {n} /\ n \notin Made /\ n \in Request /\ n \in Nat \ {0}
  /\ req' \in Seq(Record) /\ Len(req') <= MaxRequests
  /\ \A r \in Made : /\ req'[r].slot = req[r].slot /\ req'[r].verb = req[r].verb
                     /\ req'[r].phase = req[r].phase
  /\ req'[n] = Fresh(x, verb, u, phase)
  /\ active' \in [Slot -> Made' \cup {NoRequest}]
  /\ \A y \in Slot : active'[y] # NoRequest =>
       req'[active'[y]].slot = y /\ socket'[y[1]] # "closed"
  /\ \A r \in Made' :
       req'[r].phase \in {"running", "waiting"} /\ ~req'[r].aborted => active'[req'[r].slot] = r

LEMMA NewRequestTakesSlot ==
  ASSUME IInv, NEW x \in Slot, NEW u \in User, NEW verb \in {"fetch", "seen", "badge"},
         NEW phase \in {"running", "waiting", "answered"},
         MayHandle(x), req' = NewRequest(x, verb, u, phase), UNCHANGED socket,
         active' = [active EXCEPT ![x] = IF phase = "answered" THEN NoRequest ELSE Len(req) + 1]
  PROVE  TakesSlot(x, verb, u, phase)
<1> USE ShimAssumption
<1> DEFINE n == Len(req) + 1
<1>1. req \in Seq(Record) /\ phase \in Phases
  BY DEF IInv, Typed, Phases
<1>2. /\ req' \in Seq(Record) /\ Len(req') = n /\ Made' = Made \cup {n}
      /\ req'[n] = Fresh(x, verb, u, phase)
      /\ \A r \in Made : IF r = active[x] THEN req'[r] = [req[r] EXCEPT !.aborted = TRUE]
                         ELSE req'[r] = req[r]
  <2>1. IsNewRequest(req', x, verb, u, phase)
    BY <1>1, NewRequestIs
  <2>2. Made' = DOMAIN req'
    BY DEF Made
  <2>3. QED
    BY <2>1, <2>2 DEF IsNewRequest
<1>3. Made = 1 .. Len(req) /\ Len(req) \in Nat /\ Len(req) < MaxRequests /\ socket[x[1]] = "open"
  BY MadeAre DEF IInv, MayHandle
<1>4. n \notin Made /\ n \in Request /\ n \in Nat \ {0} /\ n <= MaxRequests
  BY <1>3 DEF Request
<1>5. active \in [Slot -> Made \cup {NoRequest}]
  BY DEF IInv, Typed
<1> HIDE DEF n
<1>6. \A r \in Made : /\ req'[r].slot = req[r].slot /\ req'[r].verb = req[r].verb
                      /\ req'[r].phase = req[r].phase
                      /\ ~req'[r].aborted => ~req[r].aborted /\ r # active[x]
  <2> TAKE r \in Made
  <2>1. req[r] \in Record
    BY MadeAre DEF IInv
  <2>2. CASE r = active[x]
    <3>1. req'[r] = [req[r] EXCEPT !.aborted = TRUE]
      BY <1>2, <2>2
    <3>2. QED
      BY <2>1, <3>1 DEF Record
  <2>3. CASE r # active[x]
    BY <1>2, <2>3
  <2>4. QED
    BY <2>2, <2>3
<1>7. /\ active' \in [Slot -> Made' \cup {NoRequest}]
      /\ active'[x] = IF phase = "answered" THEN NoRequest ELSE n
      /\ \A y \in Slot : y # x => active'[y] = active[y]
  BY <1>2, <1>5 DEF n
<1>8. req'[n].slot = x /\ req'[n].phase = phase
  BY <1>2 DEF Fresh
<1>9. ASSUME NEW y \in Slot, active'[y] # NoRequest
      PROVE  req'[active'[y]].slot = y /\ socket'[y[1]] # "closed"
  <2>1. CASE y = x
    BY <1>3, <1>7, <1>8, <1>9, <2>1
  <2>2. CASE y # x
    <3>1. active'[y] = active[y] /\ active[y] \in Made
      BY <1>5, <1>7, <1>9, <2>2
    <3>2. req[active[y]].slot = y /\ socket[y[1]] # "closed"
      BY <1>9, <3>1 DEF IInv, SlotsSound
    <3>3. QED
      BY <1>6, <3>1, <3>2
  <2>3. QED
    BY <2>1, <2>2
<1>10. ASSUME NEW r \in Made', req'[r].phase \in {"running", "waiting"}, ~req'[r].aborted
       PROVE  active'[req'[r].slot] = r
  <2>1. CASE r = n
    BY <1>7, <1>8, <1>10, <2>1
  <2>2. CASE r \in Made
    <3>1. req[r].phase \in {"running", "waiting"} /\ ~req[r].aborted /\ r # active[x]
      BY <1>6, <1>10, <2>2
    <3>2. active[req[r].slot] = r /\ req[r].slot \in Slot
      BY <2>2, <3>1, MadeAre DEF IInv, OwnedBySession
    <3>3. req[r].slot # x
      BY <3>1, <3>2
    <3>4. QED
      BY <1>6, <1>7, <2>2, <3>2, <3>3
  <2>3. QED
    BY <1>2, <2>1, <2>2
<1>11. QED
  BY <1>2, <1>4, <1>6, <1>7, <1>9, <1>10 DEF n, TakesSlot

(* The live part of a handled request: its slot may hold a new counter. *)
LEMMA NewRequestKeeps ==
  ASSUME IInv, NEW x \in Slot, NEW u \in User, NEW verb \in {"fetch", "seen", "badge"},
         NEW phase \in {"running", "waiting", "answered"},
         MayHandle(x), req' = NewRequest(x, verb, u, phase), UNCHANGED socket,
         active' = [active EXCEPT ![x] = IF phase = "answered" THEN NoRequest ELSE Len(req) + 1],
         MarkInv', CallersWait',
         awaiting' = awaiting \ {x[1]}, UNCHANGED <<lastPushed, notes, late, faults>>,
         subscribed' = timers', timers' = {liveReg'[y] : y \in Slot} \ {NoRequest},
         liveReg' \in [Slot -> Made' \cup {NoRequest}],
         \A y \in Slot : \/ liveReg'[y] = liveReg[y] \/ liveReg'[y] = NoRequest
                         \/ y = x /\ liveReg'[y] = Len(req) + 1,
         push' \in [Request -> {None} \cup [since : 0 .. MaxTime, notes : 0 .. MaxNotes]],
         \A r \in Made : push'[r] = push[r],
         Capped'
  PROVE  IInv'
<1> USE ShimAssumption
<1> DEFINE n == Len(req) + 1
<1>1. /\ Made' = Made \cup {n} /\ n \notin Made /\ n \in Request /\ n \in Nat \ {0}
      /\ req' \in Seq(Record) /\ Len(req') <= MaxRequests
      /\ \A r \in Made : /\ req'[r].slot = req[r].slot /\ req'[r].verb = req[r].verb
                         /\ req'[r].phase = req[r].phase
      /\ req'[n] = Fresh(x, verb, u, phase)
      /\ active' \in [Slot -> Made' \cup {NoRequest}]
      /\ \A y \in Slot : active'[y] # NoRequest =>
           req'[active'[y]].slot = y /\ socket'[y[1]] # "closed"
      /\ \A r \in Made' :
           req'[r].phase \in {"running", "waiting"} /\ ~req'[r].aborted => active'[req'[r].slot] = r
  <2>1. TakesSlot(x, verb, u, phase)
    BY NewRequestTakesSlot
  <2>2. QED
    BY <2>1 DEF TakesSlot
<1>2. \A y \in Slot : \/ liveReg'[y] = liveReg[y] \/ liveReg'[y] = NoRequest
                      \/ y = x /\ liveReg'[y] = n
  OBVIOUS
<1>3. socket[x[1]] = "open"
  BY DEF MayHandle
<1> HIDE DEF n
<1>4. liveReg \in [Slot -> Made \cup {NoRequest}]
  BY DEF IInv, Typed
<1>5. ASSUME NEW y \in Slot, liveReg'[y] # NoRequest
      PROVE  req'[liveReg'[y]].slot = y /\ socket'[y[1]] # "closed"
  <2>1. CASE y = x /\ liveReg'[y] = n
    BY <1>1, <1>3, <2>1 DEF Fresh
  <2>2. CASE liveReg'[y] = liveReg[y]
    <3>1. liveReg[y] \in Made
      BY <1>4, <1>5, <2>2
    <3>2. req[liveReg[y]].slot = y /\ socket[y[1]] # "closed"
      BY <1>5, <2>2 DEF IInv, SlotsSound
    <3>3. QED
      BY <1>1, <2>2, <3>1, <3>2
  <2>3. QED
    BY <1>2, <1>5, <2>1, <2>2
<1>6. SlotsSound'
  BY <1>1, <1>5 DEF SlotsSound
<1>7. OwnedBySession'
  <2>1. ASSUME NEW r \in timers' PROVE socket'[req'[r].slot[1]] # "closed"
    <3>1. PICK y \in Slot : r = liveReg'[y] /\ liveReg'[y] # NoRequest
      OBVIOUS
    <3>2. QED
      BY <1>5, <3>1
  <2>2. QED
    BY <1>1, <2>1 DEF OwnedBySession
<1>8. Typed'
  <2>1. subscribed' \subseteq Made' /\ timers' \subseteq Made'
    OBVIOUS
  <2>2. socket' \in [Client -> {"open", "dead", "gone", "closed"}] /\ awaiting' \subseteq Client
    BY DEF IInv, Typed
  <2>3. /\ lastPushed' \in [Request -> {None} \cup 0 .. MaxNotes]
        /\ notes' \in [User -> 0 .. MaxNotes] /\ late' \in [Request -> Nat] /\ faults' \in 0 .. MaxFaults
    BY DEF IInv, Typed
  <2>4. QED
    BY <1>1, <2>1, <2>2, <2>3 DEF Typed
<1>9. LateSound'
  <2>1. \A y \in Slot : liveReg'[y] \in Made => liveReg'[y] = liveReg[y]
    BY <1>1, <1>2, MadeAre DEF IInv, NoRequest
  <2>2. QED
    BY <1>1, <2>1, LateKept
<1>10. QED
  BY <1>6, <1>7, <1>8, <1>9 DEF IInv

LEMMA OldCallersWait ==
  ASSUME IInv, NEW x, NEW verb, NEW u, NEW phase, TakesSlot(x, verb, u, phase)
  PROVE  \A i \in 1 .. Len(writes) :
           /\ writes[i].caller \in Made /\ writes[i].caller \in Made'
           /\ req'[writes[i].caller].phase = "waiting" /\ req'[writes[i].caller].verb = "seen"
<1>1. \A i \in 1 .. Len(writes) :
        /\ writes[i].caller \in Made
        /\ req[writes[i].caller].phase = "waiting" /\ req[writes[i].caller].verb = "seen"
  BY DEF IInv, CallersWait
<1>2. Made \subseteq Made' /\ \A r \in Made : req'[r].verb = req[r].verb /\ req'[r].phase = req[r].phase
  BY DEF TakesSlot
<1>3. QED
  BY <1>1, <1>2

LEMMA HandleFetchKeeps == ASSUME IInv, NEW x \in Slot, NEW u \in User, HandleFetch(x, u) PROVE IInv'
<1> USE ShimAssumption
<1>1. /\ MayHandle(x) /\ req' = NewRequest(x, "fetch", u, "running") /\ UNCHANGED socket
      /\ active' = [active EXCEPT ![x] = IF "running" = "answered" THEN NoRequest ELSE Len(req) + 1]
      /\ ClearLive({x}) /\ awaiting' = awaiting \ {x[1]}
      /\ UNCHANGED <<markVars, push, lastPushed, notes, late, faults>>
  BY DEF HandleFetch
<1>2. TakesSlot(x, "fetch", u, "running")
  BY <1>1, NewRequestTakesSlot
<1>3. MarkInv' /\ writes' = writes
  BY <1>1, MarksUnchanged DEF IInv, markVars
<1>4. CallersWait'
  BY <1>2, <1>3, OldCallersWait DEF IInv, CallersWait
<1>5. /\ liveReg' \in [Slot -> Made \cup {NoRequest}]
      /\ \A y \in Slot : liveReg'[y] # NoRequest => y \notin {x} /\ liveReg'[y] = liveReg[y]
      /\ subscribed' = timers'
      /\ timers' = {liveReg'[y] : y \in Slot} \ {NoRequest}
  BY <1>1, ClearLiveIs
<1>6. Capped'
  BY <1>5, CapKept DEF IInv
<1>7. liveReg' \in [Slot -> Made' \cup {NoRequest}]
  BY <1>2, <1>5 DEF TakesSlot
<1>8. push' \in [Request -> {None} \cup [since : 0 .. MaxTime, notes : 0 .. MaxNotes]]
  BY <1>1 DEF IInv, Typed
<1>9. QED
  BY <1>1, <1>3, <1>4, <1>5, <1>6, <1>7, <1>8, NewRequestKeeps

LEMMA HandleSeenKeeps ==
  ASSUME IInv, NEW x \in Slot, NEW u \in User, NEW ts \in 1 .. MaxTime, HandleSeen(x, u, ts)
  PROVE  IInv'
<1> USE ShimAssumption
<1> DEFINE phase == IF Advances(u, ts) THEN "waiting" ELSE "running"
           n     == Len(req) + 1
           c     == [key |-> u, ts |-> ts, caller |-> n]
<1>1. /\ MayHandle(x) /\ req' = NewRequest(x, "seen", u, phase) /\ UNCHANGED socket
      /\ active' = [active EXCEPT ![x] = IF phase = "answered" THEN NoRequest ELSE Len(req) + 1]
      /\ ClearLive({x}) /\ awaiting' = awaiting \ {x[1]}
      /\ UNCHANGED <<push, lastPushed, notes, late, faults>>
  BY DEF HandleSeen
<1>2. /\ Advances(u, ts) => Advance(u, ts, c)
      /\ ~Advances(u, ts) => UNCHANGED markVars
  BY DEF HandleSeen
<1>3. phase \in {"running", "waiting", "answered"} /\ (Advances(u, ts) => phase = "waiting")
  OBVIOUS
<1> HIDE DEF phase
<1>4. TakesSlot(x, "seen", u, phase)
  BY <1>1, <1>3, NewRequestTakesSlot
<1>5. \A i \in 1 .. Len(writes) :
        /\ writes[i].caller \in Made /\ writes[i].caller \in Made'
        /\ req'[writes[i].caller].phase = "waiting" /\ req'[writes[i].caller].verb = "seen"
  BY <1>4, OldCallersWait
<1>6. n \in Nat /\ n \notin Made /\ n \in Made' /\ req'[n].verb = "seen" /\ req'[n].phase = phase
  BY <1>4 DEF TakesSlot, Fresh
<1>7. MarkInv'
  BY <1>2, <1>6, AdvanceKeepsMarks, MarksUnchanged DEF IInv, User
<1>8. CallersWait'
  <2>1. CASE ~Advances(u, ts)
    <3>1. writes' = writes
      BY <1>2, <2>1 DEF markVars
    <3>2. QED
      BY <1>5, <3>1 DEF IInv, CallersWait
  <2>2. CASE Advances(u, ts)
    <3>1. writes' = Append(writes, c) /\ phase = "waiting"
      BY <1>2, <1>3, <2>2 DEF Advance
    <3>2. c \in Caller /\ c.caller = n
      BY <1>6 DEF Caller, User
    <3>3. writes \in Seq(Caller) /\ Len(writes) \in Nat
      BY DEF IInv, MarkInv, MarkTypeOK, Caller
    <3> HIDE DEF c, n
    <3>4. /\ Len(writes') = Len(writes) + 1
          /\ \A i \in 1 .. Len(writes') : \/ i \in 1 .. Len(writes) /\ writes'[i] = writes[i]
                                          \/ i = Len(writes) + 1 /\ writes'[i] = c
      BY <3>1, <3>2, <3>3
    <3>5. \A i \in 1 .. Len(writes') :
            /\ writes'[i].caller \in Made'
            /\ req'[writes'[i].caller].phase = "waiting" /\ req'[writes'[i].caller].verb = "seen"
      BY <1>5, <1>6, <3>1, <3>2, <3>4
    <3>6. ASSUME NEW i \in 1 .. Len(writes'), NEW j \in 1 .. Len(writes'),
                 writes'[i].caller = writes'[j].caller
          PROVE  i = j
      <4>1. \A a, b \in 1 .. Len(writes) : writes[a].caller = writes[b].caller => a = b
        BY DEF IInv, CallersWait
      <4>2. \A a \in 1 .. Len(writes) : writes[a].caller # n
        BY <1>5, <1>6
      <4>3. QED
        BY <3>2, <3>4, <3>6, <4>1, <4>2
    <3>7. QED
      BY <3>5, <3>6 DEF CallersWait
  <2>3. QED
    BY <2>1, <2>2
<1>9. /\ liveReg' \in [Slot -> Made \cup {NoRequest}]
      /\ \A y \in Slot : liveReg'[y] # NoRequest => y \notin {x} /\ liveReg'[y] = liveReg[y]
      /\ subscribed' = timers'
      /\ timers' = {liveReg'[y] : y \in Slot} \ {NoRequest}
  BY <1>1, ClearLiveIs
<1>10. Capped'
  BY <1>9, CapKept DEF IInv
<1>11. liveReg' \in [Slot -> Made' \cup {NoRequest}]
  BY <1>4, <1>9 DEF TakesSlot
<1>12. push' \in [Request -> {None} \cup [since : 0 .. MaxTime, notes : 0 .. MaxNotes]]
  BY <1>1 DEF IInv, Typed
<1>13. QED
  BY <1>1, <1>3, <1>7, <1>8, <1>9, <1>10, <1>11, <1>12, NewRequestKeeps

(* The cap: a slot registers a counter only if its session has room. *)
LEMMA RegisterKeepsCap ==
  ASSUME IInv, NEW x \in Slot, NEW r, NEW room \in BOOLEAN,
         room = (Cardinality(LiveOf(x[1]) \ {x}) < MaxLive),
         liveReg' = [liveReg EXCEPT ![x] = IF room THEN r ELSE NoRequest]
  PROVE  Capped'
<1> USE ShimAssumption
<1> SUFFICES ASSUME NEW c \in Client
             PROVE  IsFiniteSet(LiveOf(c)') /\ Cardinality(LiveOf(c)') <= MaxLive
  BY DEF Capped
<1>1. IsFiniteSet(LiveOf(c)) /\ Cardinality(LiveOf(c)) <= MaxLive /\ MaxLive \in Nat
  BY DEF IInv, Capped
<1>2. \A y \in Slot : y # x => liveReg'[y] = liveReg[y]
  BY DEF IInv, Typed
<1>3. liveReg'[x] = IF room THEN r ELSE NoRequest
  BY DEF IInv, Typed
<1>4. CASE x[1] = c /\ room
  <2>1. IsFiniteSet(LiveOf(c) \ {x}) /\ Cardinality(LiveOf(c) \ {x}) < MaxLive
    BY <1>1, <1>4, FS_RemoveElement
  <2>2. x \notin LiveOf(c) \ {x}
    OBVIOUS
  <2>3. /\ IsFiniteSet((LiveOf(c) \ {x}) \cup {x})
        /\ Cardinality((LiveOf(c) \ {x}) \cup {x}) = Cardinality(LiveOf(c) \ {x}) + 1
    BY <2>1, <2>2, FS_AddElement
  <2>4. LiveOf(c)' \subseteq (LiveOf(c) \ {x}) \cup {x}
    BY <1>2 DEF LiveOf
  <2>5. /\ IsFiniteSet(LiveOf(c)')
        /\ Cardinality(LiveOf(c)') <= Cardinality((LiveOf(c) \ {x}) \cup {x})
    BY <2>3, <2>4, FS_Subset
  <2>6. /\ Cardinality(LiveOf(c) \ {x}) \in Nat /\ Cardinality(LiveOf(c)') \in Nat
    BY <2>1, <2>5, FS_CardinalityType
  <2>7. QED
    BY <1>1, <2>1, <2>3, <2>5, <2>6
<1>5. CASE ~(x[1] = c /\ room)
  <2>1. LiveOf(c)' \subseteq LiveOf(c)
    BY <1>2, <1>3, <1>5 DEF LiveOf
  <2>2. IsFiniteSet(LiveOf(c)') /\ Cardinality(LiveOf(c)') <= Cardinality(LiveOf(c))
    BY <1>1, <2>1, FS_Subset
  <2>3. Cardinality(LiveOf(c)) \in Nat /\ Cardinality(LiveOf(c)') \in Nat
    BY <1>1, <2>2, FS_CardinalityType
  <2>4. QED
    BY <1>1, <2>2, <2>3
<1>6. QED
  BY <1>4, <1>5

LEMMA HandleBadgeKeeps == ASSUME IInv, NEW x \in Slot, NEW u \in User, HandleBadge(x, u) PROVE IInv'
<1> USE ShimAssumption, WatermarksAssumption
<1> DEFINE n == Len(req) + 1
           room == Cardinality(LiveOf(x[1]) \ {x}) < MaxLive
           counts == [since |-> mark[u], notes |-> notes[u]]
<1>1. /\ MayHandle(x) /\ req' = NewRequest(x, "badge", u, "answered") /\ UNCHANGED socket
      /\ active' = [active EXCEPT ![x] = IF "answered" = "answered" THEN NoRequest ELSE Len(req) + 1]
      /\ awaiting' = awaiting \ {x[1]}
      /\ UNCHANGED <<markVars, lastPushed, notes, late, faults>>
  BY DEF HandleBadge
<1>2. /\ liveReg' = [liveReg EXCEPT ![x] = IF room THEN n ELSE NoRequest]
      /\ subscribed' = (subscribed \ {liveReg[x]}) \cup (IF room THEN {n} ELSE {})
      /\ timers' = (timers \ {liveReg[x]}) \cup (IF room THEN {n} ELSE {})
      /\ push' = IF room THEN [push EXCEPT ![n] = counts] ELSE push
  BY DEF HandleBadge
<1>3. room \in BOOLEAN
  OBVIOUS
<1>4. Capped'
  <2>1. room = (Cardinality(LiveOf(x[1]) \ {x}) < MaxLive)
    OBVIOUS
  <2> HIDE DEF room, n
  <2>2. QED
    BY <1>2, <1>3, <2>1, RegisterKeepsCap
<1> HIDE DEF room
<1>5. TakesSlot(x, "badge", u, "answered")
  BY <1>1, NewRequestTakesSlot
<1>6. Made' = Made \cup {n} /\ n \notin Made /\ n \in Request /\ n \in Nat \ {0}
  BY <1>5 DEF TakesSlot
<1>7. MarkInv' /\ writes' = writes
  BY <1>1, MarksUnchanged DEF IInv, markVars
<1>8. CallersWait'
  BY <1>5, <1>7, OldCallersWait DEF IInv, CallersWait
<1>9. counts \in [since : 0 .. MaxTime, notes : 0 .. MaxNotes]
  BY DEF IInv, Typed, MarkInv, MarkTypeOK, Maps, User
<1> HIDE DEF counts
<1>10. liveReg \in [Slot -> Made \cup {NoRequest}]
  BY DEF IInv, Typed
<1> HIDE DEF n
<1>11. /\ push' \in [Request -> {None} \cup [since : 0 .. MaxTime, notes : 0 .. MaxNotes]]
       /\ \A r \in Made : push'[r] = push[r]
  <2>1. push \in [Request -> {None} \cup [since : 0 .. MaxTime, notes : 0 .. MaxNotes]]
    BY DEF IInv, Typed
  <2>2. \A r \in Made : r \in Request /\ r # n
    BY <1>6, MadeAre DEF IInv
  <2>3. QED
    BY <1>2, <1>6, <1>9, <2>1, <2>2
<1>12. /\ liveReg' \in [Slot -> Made' \cup {NoRequest}]
       /\ liveReg'[x] = IF room THEN n ELSE NoRequest
       /\ \A y \in Slot : y # x => liveReg'[y] = liveReg[y]
  BY <1>2, <1>6, <1>10
<1>13. n # NoRequest
  BY <1>6 DEF NoRequest
<1>14. subscribed' = timers' /\ timers' = {liveReg'[y] : y \in Slot} \ {NoRequest}
  <2>1. subscribed = timers /\ timers = {liveReg[y] : y \in Slot} \ {NoRequest}
    BY DEF IInv, OwnedBySession
  <2>2. \A y, z \in Slot : liveReg[y] # NoRequest /\ liveReg[y] = liveReg[z] => y = z
    BY DEF IInv, SlotsSound
  <2>3. ASSUME NEW t \in timers' PROVE \E y \in Slot : t = liveReg'[y] /\ t # NoRequest
    <3>1. CASE room /\ t = n
      BY <1>12, <1>13, <3>1
    <3>2. CASE t \in timers /\ t # liveReg[x]
      BY <1>12, <2>1, <3>2
    <3>3. QED
      BY <1>2, <2>3, <3>1, <3>2
  <2>4. ASSUME NEW y \in Slot, liveReg'[y] # NoRequest PROVE liveReg'[y] \in timers'
    <3>1. CASE y = x
      BY <1>2, <1>12, <2>4, <3>1
    <3>2. CASE y # x
      <4>1. liveReg'[y] = liveReg[y] /\ liveReg[y] \in timers /\ liveReg[y] # liveReg[x]
        BY <1>12, <2>1, <2>2, <2>4, <3>2
      <4>2. QED
        BY <1>2, <4>1
    <3>3. QED
      BY <3>1, <3>2
  <2>5. QED
    BY <1>2, <2>1, <2>3, <2>4
<1>15. \A y \in Slot : \/ liveReg'[y] = liveReg[y] \/ liveReg'[y] = NoRequest
                       \/ y = x /\ liveReg'[y] = Len(req) + 1
  BY <1>12 DEF n
<1>16. QED
  BY <1>1, <1>4, <1>7, <1>8, <1>11, <1>12, <1>14, <1>15, NewRequestKeeps
-----------------------------------------------------------------------------
LEMMA InitIInv == Init => IInv
<1> USE ShimAssumption, WatermarksAssumption
<1> SUFFICES ASSUME Init PROVE IInv
  OBVIOUS
<1>1. MarkInv
  BY DEF Init, MarkInit, MarkInv, MarkTypeOK, MarkSound, Maps
<1>2. req = << >> /\ Made = {} /\ Len(req) = 0
  BY DEF Init, Made
<1>3. Typed
  BY <1>2 DEF Init, Typed, Request
<1>4. Capped
  <2>1. \A c \in Client : LiveOf(c) = {}
    BY DEF Init, LiveOf
  <2>2. QED
    BY <2>1, FS_EmptySet DEF Capped
<1>5. CallersWait /\ SlotsSound /\ LateSound
  BY <1>2 DEF Init, MarkInit, CallersWait, SlotsSound, LateSound
<1>6. OwnedBySession
  BY <1>2 DEF Init, OwnedBySession
<1>7. QED
  BY <1>1, <1>3, <1>4, <1>5, <1>6 DEF IInv

LEMMA StepIInv == IInv /\ [Next]_vars => IInv'
<1> SUFFICES ASSUME IInv, [Next]_vars PROVE IInv'
  OBVIOUS
<1>1. CASE UNCHANGED vars
  <2>1. UNCHANGED <<markVars, Slots, socket, awaiting, push, lastPushed, late, notes, faults>>
    BY <1>1 DEF vars, sessionVars, Slots
  <2>2. Typed' /\ LateSound'
    BY <2>1 DEF IInv, Typed, LateSound, Slots, Made, Registered
  <2>3. UNCHANGED writes /\ MarkInv'
    BY <2>1, MarksUnchanged DEF IInv, markVars
  <2>4. QED
    BY <2>1, <2>2, <2>3, SlotsUnchanged DEF IInv
<1>2. ASSUME NEW x \in Slot, NEW u \in User, HandleFetch(x, u) PROVE IInv'
  BY <1>2, HandleFetchKeeps
<1>3. ASSUME NEW x \in Slot, NEW u \in User, HandleBadge(x, u) PROVE IInv'
  BY <1>3, HandleBadgeKeeps
<1>4. ASSUME NEW x \in Slot, NEW u \in User, NEW ts \in 1 .. MaxTime, HandleSeen(x, u, ts)
      PROVE  IInv'
  BY <1>4, HandleSeenKeeps
<1>5. ASSUME NEW x \in Slot, HandleClose(x) PROVE IInv'
  BY <1>5, HandleCloseKeeps
<1>6. ASSUME NEW r \in Made, Yield(r) \/ Finish(r) PROVE IInv'
  BY <1>6, YieldKeeps, FinishKeeps
<1>7. ASSUME NEW r \in Made, StartPush(r) \/ FinishPush(r) \/ FailPush(r) PROVE IInv'
  BY <1>7, StartPushKeeps, FinishPushKeeps, FailPushKeeps
<1>8. CASE Write \/ WriteEnds
  BY <1>8, WriteKeeps, WriteEndsKeeps
<1>9. CASE \/ \E u \in User : Interaction(u)
           \/ \E c \in Client : Connect(c) \/ Die(c) \/ HangUp(c) \/ Pong(c)
           \/ Sweep
  BY <1>9, EnvironmentKeeps
<1>10. ASSUME NEW c \in Client, SocketClosed(c) PROVE IInv'
  BY <1>10, SocketClosedKeeps
<1>11. CASE RestartShim
  BY <1>11, RestartShimKeeps
<1>12. QED
  BY <1>1, <1>2, <1>3, <1>4, <1>5, <1>6, <1>7, <1>8, <1>9, <1>10, <1>11 DEF Next

(* The inductive invariant holds in every reachable state. *)
LEMMA Invariance == Spec => []IInv
  BY InitIInv, StepIInv, PTL DEF Spec

-----------------------------------------------------------------------------
(* The shim's variables keep their types, and no session ever has more     *)
(* live counters than the cap that registerLive looks at.                  *)
THEOREM ShimTypeCorrect == Spec => []TypeOK
<1>1. IInv => TypeOK
  <2> SUFFICES ASSUME IInv PROVE TypeOK
    OBVIOUS
  <2>1. req \in Requests
    BY RequestsAreRecords DEF IInv, Typed
  <2>2. QED
    BY <2>1 DEF IInv, MarkInv, Typed, Capped, TypeOK
<1>2. QED
  BY <1>1, Invariance, PTL

(* Nothing that runs for a client is out of its reach: timers and relay    *)
(* subscriptions are those of registered counters of sockets not closed,   *)
(* and a running request is the one its id would abort.                    *)
THEOREM SessionsOwnTheirWork == Spec => []OwnedBySession
<1>1. IInv => OwnedBySession
  BY DEF IInv
<1>2. QED
  BY <1>1, Invariance, PTL

(* A counter that was torn down sends at most the push that was computing: *)
(* its timer is gone, and no later request registers it again.             *)
THEOREM OneLatePush == Spec => []AtMostOneLatePush
<1>1. IInv => AtMostOneLatePush
  <2> SUFFICES ASSUME IInv, NEW r \in Request PROVE late[r] <= 1
    BY DEF AtMostOneLatePush
  <2>1. late[r] = 0 \/ late[r] = 1
    BY DEF IInv, LateSound
  <2>2. QED
    BY <2>1
<1>2. QED
  BY <1>1, Invariance, PTL

(* A seen mark whose write was reported done is in the file, whatever is   *)
(* written later and whenever the process ends.                            *)
THEOREM KeptMarksSurvive == Spec => []KeptSurvives
<1>1. IInv => KeptSurvives
  <2> SUFFICES ASSUME IInv, NEW k \in Key PROVE file[k] >= kept[k]
    BY DEF KeptSurvives
  <2>1. kept[k] <= file[k] /\ kept[k] \in 0 .. MaxTime /\ file[k] \in 0 .. MaxTime
    BY DEF IInv, MarkInv, MarkTypeOK, MarkSound, Maps
  <2>2. QED
    BY <2>1
<1>2. QED
  BY <1>1, Invariance, PTL
=============================================================================
