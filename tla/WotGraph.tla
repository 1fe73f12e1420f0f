------------------------------ MODULE WotGraph ------------------------------
(***************************************************************************)
(* The web of trust (src/wot/graph.ts, src/wot/policy.ts): follows and     *)
(* mutes are read out of the stored lists by a rebuild that clears them,   *)
(* awaits two scans and then replaces the scores at once.  A timer starts  *)
(* rebuilds without waiting for the last one, and verdicts on incoming     *)
(* events are taken at any moment in between.                              *)
(*                                                                         *)
(* Maps from a pubkey to a set hold {} where the code has no entry.  The   *)
(* score's number is left out: it is 0 for a muted pubkey and configured   *)
(* by degree otherwise.                                                    *)
(***************************************************************************)
EXTENDS StoreView

CONSTANTS
  Owner,      \* config.ownerPubkey, which is set
  MaxDepth,   \* config.maxDepth
  Discovery,  \* config.discoveryEnabled
  PTags,      \* the pubkeys an event names in "p" tags
  MaxBuilds,  \* bound on the rebuilds under way together
  MaxFaults   \* bound on overlapping and failing rebuilds, and on restarts

Build    == 1 .. MaxBuilds
Contacts == 3
Mutes    == 10000

ASSUME WotAssumption ==
  /\ Owner \in Pubkey
  /\ {MaxDepth, MaxFaults} \subseteq Nat /\ MaxBuilds \in Nat \ {0}
  /\ Discovery \in BOOLEAN
  /\ PTags \in [Id -> SUBSET Pubkey]
  /\ IsFiniteSet(Pubkey)

VARIABLES
  view,     \* the view of the base
  follows,  \* pubkey -> the pubkeys it follows
  mutes,    \* pubkey -> the pubkeys it mutes
  scores,   \* pubkey -> its score, or None outside the graph
  build,    \* per rebuild: its phase, the list events its scan has left, and
            \* those it has read, or None once it has overlapped another
  ready,    \* the first rebuild since the start is done
  basis,    \* history: what the last complete rebuild read, or None if there
            \* is none or a rebuild since has failed or overlapped another
  faults

graph == <<follows, mutes, scores, build, ready, basis>>

Nobody == [p \in Pubkey |-> {}]
Idle   == [phase |-> "idle", left |-> {}, read |-> {}]

GraphInit ==
  /\ view = EmptyView({})
  /\ follows = Nobody /\ mutes = Nobody
  /\ scores = [p \in Pubkey |-> None]
  /\ build = [r \in Build |-> Idle]
  /\ ready = FALSE
  /\ basis = None
  /\ faults = 0

-----------------------------------------------------------------------------
(* Pure: degrees, mutes and scores of follow and mute maps F and M.        *)

(* computeDegrees: who is at most n steps away from the owner. *)
Within(F) ==
  LET W[n \in 0 .. MaxDepth] ==
        IF n = 0 THEN {Owner} ELSE W[n - 1] \cup UNION {F[p] : p \in W[n - 1]}
  IN W

DegreeFromOne(F, p) ==
  1 + CHOOSE n \in 0 .. MaxDepth : p \in Within(F)[n] /\ \A k \in 0 .. n - 1 : p \notin Within(F)[k]

Degree(F, p) ==
  CHOOSE n \in 0 .. MaxDepth : p \in Within(F)[n] /\ \A k \in 0 .. n - 1 : p \notin Within(F)[k]

(* isExplicitlyMuted: by the owner, or by half of those the owner follows. *)
Muted(F, M, p) ==
  \/ p \in M[Owner]
  \/ LET friends == F[Owner]
         against == {q \in friends : p \in M[q]}
     IN against # {} /\ Cardinality(against) >= Cardinality(friends) \div 2

(* computeScores *)
Scores(F, M) ==
  [p \in Pubkey |->
     IF p \in Within(F)[MaxDepth]
     THEN [degree |-> Degree(F, p), muted |-> Muted(F, M, p)]
     ELSE None]

(* The map that the lists S of one kind say. *)
Named(S, kind) ==
  [p \in Pubkey |-> UNION {PTags[e] : e \in {x \in S : Ev[x].pubkey = p /\ Ev[x].kind = kind}}]

-----------------------------------------------------------------------------
IsMutedNow(p) == Muted(follows, mutes, p)

(* getScore: cached, or for an unknown pubkey the mutes known right now. *)
IsMuted(p) == IF scores[p] # None THEN scores[p].muted ELSE Muted(follows, mutes, p)

(* evaluate *)
Verdict(p) ==
  IF IsMuted(p) THEN "reject"
  ELSE IF p = Owner \/ scores[p] # None THEN "accept"
  ELSE IF Discovery THEN "discovery" ELSE "reject"

-----------------------------------------------------------------------------
Building == \E r \in Build : build[r].phase # "idle"

IsFree(r) == build[r].phase = "idle" /\ \A q \in 1 .. r - 1 : build[q].phase # "idle"

(* What a scan opened now will go through, oldest index entries included. *)
Listed(kind) == {e \in view.indexed : Ev[e].kind = kind}

(* rebuild: the maps are cleared for all, a rebuild under way included. *)
BeginRebuild(r) ==
  /\ IsFree(r)
  /\ Building => faults < MaxFaults
  /\ faults' = faults + (IF Building THEN 1 ELSE 0)
  /\ basis' = IF Building THEN None ELSE basis
  /\ follows' = Nobody /\ mutes' = Nobody
  /\ build' = [q \in Build |->
                 CASE q = r -> [phase |-> "contacts", left |-> Listed(Contacts),
                                read |-> IF Building THEN None ELSE {}]
                   [] q # r /\ build[q].phase # "idle" -> [build[q] EXCEPT !.read = None]
                   [] OTHER -> Idle]
  /\ UNCHANGED <<view, scores, ready>>

(* The next entry of a scan; an event gone meanwhile is passed over. *)
ScanList(r, e) ==
  /\ e \in build[r].left
  /\ build' = [build EXCEPT ![r].left = @ \ {e},
                            ![r].read = IF e \in view.events /\ @ # None THEN @ \cup {e}
                                         ELSE @]
  /\ LET p == Ev[e].pubkey IN
       CASE e \notin view.events \/ PTags[e] = {} -> UNCHANGED <<follows, mutes>>
         [] e \in view.events /\ PTags[e] # {} /\ build[r].phase = "contacts" ->
              follows' = [follows EXCEPT ![p] = PTags[e]] /\ UNCHANGED mutes
         [] e \in view.events /\ PTags[e] # {} /\ build[r].phase = "mutes" ->
              mutes' = [mutes EXCEPT ![p] = PTags[e]] /\ UNCHANGED follows
  /\ UNCHANGED <<view, scores, ready, basis, faults>>

BeginMutes(r) ==
  /\ build[r].phase = "contacts" /\ build[r].left = {}
  /\ build' = [build EXCEPT ![r].phase = "mutes", ![r].left = Listed(Mutes)]
  /\ UNCHANGED <<view, follows, mutes, scores, ready, basis, faults>>

(* Both scans are done: degrees and scores, without an await. *)
Complete(r) ==
  /\ build[r].phase = "mutes" /\ build[r].left = {}
  /\ scores' = Scores(follows, mutes)
  /\ build' = [build EXCEPT ![r] = Idle]
  /\ ready' = TRUE
  /\ basis' = build[r].read
  /\ UNCHANGED <<view, follows, mutes, faults>>

(* A scan throws: logged, the maps stay as they are until the next rebuild. *)
FailRebuild(r) ==
  /\ ready /\ build[r].phase # "idle"
  /\ faults < MaxFaults
  /\ faults' = faults + 1
  /\ build' = [build EXCEPT ![r] = Idle]
  /\ basis' = None
  /\ UNCHANGED <<view, follows, mutes, scores, ready>>

(* A start: the graph is empty until its first rebuild. *)
RestartGraph ==
  /\ follows' = Nobody /\ mutes' = Nobody
  /\ scores' = [p \in Pubkey |-> None]
  /\ build' = [r \in Build |-> Idle]
  /\ ready' = FALSE /\ basis' = None

(* startRefresh comes after the first rebuild, which therefore runs alone. *)
Refresh(r) ==
  \/ (ready \/ ~Building) /\ BeginRebuild(r)
  \/ \E e \in build[r].left : ScanList(r, e)
  \/ BeginMutes(r) \/ Complete(r)

-----------------------------------------------------------------------------
GraphTypeOK ==
  /\ view \in View
  /\ follows \in [Pubkey -> SUBSET Pubkey] /\ mutes \in [Pubkey -> SUBSET Pubkey]
  /\ \A p \in Pubkey :
       scores[p] = None \/ scores[p] \in [degree : 0 .. MaxDepth, muted : BOOLEAN]
  /\ build \in [Build -> [phase : {"idle", "contacts", "mutes"}, left : SUBSET Id,
                          read : (SUBSET Id) \cup {None}]]
  /\ ready \in BOOLEAN
  /\ basis \in (SUBSET Id) \cup {None}
  /\ faults \in 0 .. MaxFaults

(***************************************************************************)
(* "Muted pubkeys are always rejected", as far as the code keeps it: a     *)
(* verdict agrees with the lists of the last complete rebuild, whatever a  *)
(* rebuild under way has cleared or read so far.  Left out are a pubkey    *)
(* outside the graph while a rebuild scans, and everyone after rebuilds    *)
(* that overlapped or failed, until the next complete one.                 *)
(***************************************************************************)
MutesHold ==
  basis # None =>
    \A p \in Pubkey :
      \/ IsMuted(p) = Muted(Named(basis, Contacts), Named(basis, Mutes), p)
      \/ scores[p] = None /\ Building

=============================================================================
