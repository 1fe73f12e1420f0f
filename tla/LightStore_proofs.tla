-------------------------- MODULE LightStore_proofs --------------------------
(***************************************************************************)
(* Theorems about the light store and the web of trust it consults.  Three *)
(* things make them hold together:                                         *)
(*                                                                         *)
(*   - the view obeys the consensus rules (StoreView_proofs), so that the  *)
(*     lists a scan goes through are at most one per author;               *)
(*   - a rebuild that nothing overlapped has in its maps exactly what the  *)
(*     lists it has read say, and so do the maps once it is over;          *)
(*   - RoomLeft: an unknown author's stored events, those whose count has  *)
(*     come in, and those whose count could still come in below the cap    *)
(*     are together no more than the cap and the puts in flight allow,     *)
(*     whatever is deleted meanwhile.                                      *)
(***************************************************************************)
EXTENDS LightStore, StoreView_proofs, FunctionTheorems, WellFoundedInduction

-----------------------------------------------------------------------------
(* The kind of the lists that a rebuild's scan goes through. *)
ScanKind(r) == IF build[r].phase = "contacts" THEN Contacts ELSE Mutes

(* At most one list of a kind per author. *)
OneListEach(S, kind) ==
  \A e, o \in S : Ev[e].kind = kind /\ (Ev[e].pubkey = Ev[o].pubkey => e = o)

(* A rebuild that was not overlapped: the maps are what it has read. *)
MapsAreRead(r) ==
  /\ \A q \in Build \ {r} : build[q].phase = "idle"
  /\ follows = Named(build[r].read, Contacts)
  /\ mutes = Named(build[r].read, Mutes)
  /\ build[r].left \cap build[r].read = {}
  /\ OneListEach(build[r].left \cup {e \in build[r].read : Ev[e].kind = ScanKind(r)}, ScanKind(r))
  /\ build[r].phase = "contacts" => \A e \in build[r].read : Ev[e].kind = Contacts

RebuildsRead ==
  \A r \in Build :
    /\ build[r].phase = "idle" => build[r] = Idle
    /\ build[r].phase # "idle" /\ build[r].read # None => MapsAreRead(r)

(* What the last complete rebuild has left behind. *)
BasisHolds ==
  basis # None =>
    /\ scores = Scores(Named(basis, Contacts), Named(basis, Mutes))
    /\ ~Building => follows = Named(basis, Contacts) /\ mutes = Named(basis, Mutes)

(* Only puts that are counted, and whose count came in below the cap, are in the history. *)
UnknownPassed ==
  /\ \A e \in unknown : put[e] \in {"appending", "done"} /\ e \notin Exempt
  /\ \A e \in Id : put[e] = "counting" => e \notin Exempt

(* The finite sets that are counted. *)
FiniteStore ==
  /\ IsFiniteSet(view.events)
  /\ IsFiniteSet(InFlight)
  /\ \A e \in Id : IsFiniteSet(counted[e])

(* With the entries D gone: p's events kept, and the counts that may pass. *)
Kept(p, D) ==
  {e \in unknown : Ev[e].pubkey = p /\ (put[e] = "appending" \/ e \in view.indexed \ D)}
MayPass(p, D) ==
  {e \in Id : /\ put[e] = "counting" /\ Ev[e].pubkey = p
              /\ Cardinality((counted[e] \cap unknown \cap view.indexed) \ D) < Cap}
Places(p, D) == Kept(p, D) \cup MayPass(p, D)

RoomLeft ==
  \A p \in Pubkey : \A D \in SUBSET Id :
    IsFiniteSet(Places(p, D)) /\ Cardinality(Places(p, D)) <= Cap + MaxInFlight - 1

LightInv ==
  /\ TypeOK
  /\ ViewInv(view)
  /\ RebuildsRead
  /\ BasisHolds
  /\ UnknownPassed
  /\ FiniteStore
  /\ RoomLeft

-----------------------------------------------------------------------------
(* Facts about the operators. *)
LEMMA EventFacts ==
  \A e \in Id : Ev[e].pubkey \in Pubkey /\ PTags[e] \in SUBSET Pubkey
BY EventsAssumption, WotAssumption DEF EventRecord

LEMMA NatOrder == IsWellFoundedOn({ss \in Nat \X Nat : ss[1] < ss[2]}, Nat)
BY NatLessThanWellFounded DEF OpToRel

LEMMA LeastNumber ==
  ASSUME NEW T \in SUBSET Nat, T # {}
  PROVE  \E m \in T : \A k \in T : m <= k
<1> DEFINE R == {ss \in Nat \X Nat : ss[1] < ss[2]}
<1>1. IsWellFoundedOn(R, Nat)
  BY NatOrder
<1>2. \A x, y \in Nat : x < y => <<x, y>> \in R
  OBVIOUS
<1> HIDE DEF R
<1>3. PICK x \in T : \A y \in T : ~(<<y, x>> \in R)
  BY <1>1, WFMin
<1>4. \A y \in T : x <= y
  <2> TAKE y \in T
  <2>1. ~(<<y, x>> \in R) /\ x \in Nat /\ y \in Nat
    BY <1>3
  <2>2. ~(y < x)
    BY <2>1, <1>2
  <2>3. QED
    BY <2>1, <2>2
<1>5. QED
  BY <1>4

(* computeDegrees: a pubkey in the graph has a degree. *)
LEMMA DegreeExists ==
  ASSUME NEW F, NEW p, p \in Within(F)[MaxDepth]
  PROVE  Degree(F, p) \in 0 .. MaxDepth
<1> DEFINE W == Within(F)
           T == {n \in 0 .. MaxDepth : p \in W[n]}
           IsDegree(n) == p \in W[n] /\ \A k \in 0 .. n - 1 : p \notin W[k]
<1>1. MaxDepth \in Nat
  BY WotAssumption
<1> HIDE DEF W
<1>2. T \in SUBSET Nat /\ T # {}
  BY <1>1 DEF W
<1>3. PICK m \in T : \A k \in T : m <= k
  BY <1>2, LeastNumber
<1>4. m \in 0 .. MaxDepth /\ p \in W[m]
  BY <1>3
<1>5. \A k \in 0 .. m - 1 : p \notin W[k]
  <2> TAKE k \in 0 .. m - 1
  <2>1. k \in 0 .. MaxDepth /\ ~(m <= k)
    BY <1>1, <1>4
  <2>2. QED
    BY <2>1, <1>3
<1>6. \E n \in 0 .. MaxDepth : IsDegree(n)
  BY <1>4, <1>5
<1> HIDE DEF IsDegree
<1>7. (CHOOSE n \in 0 .. MaxDepth : IsDegree(n)) \in 0 .. MaxDepth
  BY <1>6
<1>8. QED
  BY <1>7 DEF IsDegree, W, Degree

LEMMA ScoresType ==
  ASSUME NEW F, NEW M, NEW p \in Pubkey
  PROVE  \/ Scores(F, M)[p] = None
         \/ Scores(F, M)[p] \in [degree : 0 .. MaxDepth, muted : BOOLEAN]
<1>1. CASE p \in Within(F)[MaxDepth]
  <2>1. Degree(F, p) \in 0 .. MaxDepth
    BY <1>1, DegreeExists
  <2>2. Muted(F, M, p) \in BOOLEAN
    BY DEF Muted
  <2>3. Scores(F, M)[p] = [degree |-> Degree(F, p), muted |-> Muted(F, M, p)]
    BY <1>1 DEF Scores
  <2>4. QED
    BY <2>1, <2>2, <2>3
<1>2. CASE ~(p \in Within(F)[MaxDepth])
  BY <1>2 DEF Scores
<1>3. QED
  BY <1>1, <1>2

(* The maps that lists say: their type, and what one more list changes. *)
LEMMA NamedType ==
  ASSUME NEW S \in SUBSET Id, NEW kind
  PROVE  Named(S, kind) \in [Pubkey -> SUBSET Pubkey]
<1>1. \A p \in Pubkey :
        UNION {PTags[e] : e \in {x \in S : Ev[x].pubkey = p /\ Ev[x].kind = kind}} \in SUBSET Pubkey
  BY EventFacts
<1>2. QED
  BY <1>1 DEF Named

LEMMA NamedNobody ==
  ASSUME NEW S \in SUBSET Id, NEW kind, \A e \in S : Ev[e].kind # kind
  PROVE  Named(S, kind) = Nobody
<1>1. \A p \in Pubkey :
        UNION {PTags[e] : e \in {x \in S : Ev[x].pubkey = p /\ Ev[x].kind = kind}} = {}
  OBVIOUS
<1>2. QED
  BY <1>1 DEF Named, Nobody

LEMMA NamedSame ==
  ASSUME NEW S \in SUBSET Id, NEW e \in Id, NEW kind, Ev[e].kind # kind \/ PTags[e] = {}
  PROVE  Named(S \cup {e}, kind) = Named(S, kind)
<1>1. ASSUME NEW p \in Pubkey
      PROVE  UNION {PTags[x] : x \in {y \in S \cup {e} : Ev[y].pubkey = p /\ Ev[y].kind = kind}}
             = UNION {PTags[x] : x \in {y \in S : Ev[y].pubkey = p /\ Ev[y].kind = kind}}
  OBVIOUS
<1>2. QED
  BY <1>1 DEF Named

LEMMA NamedOneMore ==
  ASSUME NEW S \in SUBSET Id, NEW e \in Id,
         \A o \in S : Ev[o].kind = Ev[e].kind => Ev[o].pubkey # Ev[e].pubkey
  PROVE  Named(S \cup {e}, Ev[e].kind)
           = [Named(S, Ev[e].kind) EXCEPT ![Ev[e].pubkey] = PTags[e]]
<1> DEFINE kind == Ev[e].kind
           N == Named(S, kind)
<1>1. ASSUME NEW p \in Pubkey
      PROVE  UNION {PTags[x] : x \in {y \in S \cup {e} : Ev[y].pubkey = p /\ Ev[y].kind = kind}}
             = IF p = Ev[e].pubkey THEN PTags[e]
               ELSE UNION {PTags[x] : x \in {y \in S : Ev[y].pubkey = p /\ Ev[y].kind = kind}}
  <2>1. CASE p = Ev[e].pubkey
    <3>1. {y \in S \cup {e} : Ev[y].pubkey = p /\ Ev[y].kind = kind} = {e}
      BY <2>1
    <3>2. QED
      BY <2>1, <3>1
  <2>2. CASE p # Ev[e].pubkey
    <3>1. {y \in S \cup {e} : Ev[y].pubkey = p /\ Ev[y].kind = kind}
          = {y \in S : Ev[y].pubkey = p /\ Ev[y].kind = kind}
      BY <2>2
    <3>2. QED
      BY <2>2, <3>1
  <2>3. QED
    BY <2>1, <2>2
<1>2. \A p \in Pubkey : N[p] =
        UNION {PTags[x] : x \in {y \in S : Ev[y].pubkey = p /\ Ev[y].kind = kind}}
  BY DEF Named
<1>3. N = [p \in Pubkey |-> N[p]]
  BY DEF Named
<1>4. Named(S \cup {e}, kind) = [p \in Pubkey |-> IF p = Ev[e].pubkey THEN PTags[e] ELSE N[p]]
  BY <1>1, <1>2 DEF Named
<1> HIDE DEF N
<1>5. QED
  BY <1>3, <1>4 DEF N

(* The lists that a scan opens with: one per author, as the indexes say. *)
LEMMA ListedOnce ==
  ASSUME ViewInv(view), NEW kind \in {Contacts, Mutes}
  PROVE  Listed(kind) \in SUBSET Id /\ OneListEach(Listed(kind), kind)
<1>1. view.indexed \subseteq Id /\ IndexesAgree(view)
  BY DEF ViewInv, View
<1>2. ASSUME NEW e \in Listed(kind), NEW o \in Listed(kind), Ev[e].pubkey = Ev[o].pubkey
      PROVE  e = o
  <2>1. e \in view.indexed /\ o \in view.indexed /\ Ev[e].kind = kind /\ Ev[o].kind = kind
    BY <1>2 DEF Listed
  <2>2. ClassifyKind(kind) = "replaceable"
    <3>1. ClassifyKind(3) = "replaceable"
      BY DEF ClassifyKind
    <3>2. ClassifyKind(10000) = "replaceable"
      BY DEF ClassifyKind
    <3>3. QED
      BY <3>1, <3>2 DEF Contacts, Mutes
  <2>3. e \in Versioned /\ o \in Versioned
    BY <1>1, <2>1, <2>2 DEF Versioned, Class
  <2>4. Slot(e) = Slot(o)
    BY <1>2, <2>1, <2>2 DEF Slot, Class
  <2>5. view.pointer[Slot(e)] = e /\ view.pointer[Slot(o)] = o
    BY <1>1, <2>1, <2>3 DEF IndexesAgree
  <2>6. QED
    BY <2>4, <2>5
<1>3. QED
  BY <1>1, <1>2 DEF Listed, OneListEach

LEMMA FewerListsOnce ==
  ASSUME NEW S, NEW kind, OneListEach(S, kind), NEW R, R \subseteq S
  PROVE  OneListEach(R, kind)
BY DEF OneListEach

(* Of two rebuilds under way, the overlapped ones are marked. *)
LEMMA OverlapIsMarked ==
  ASSUME RebuildsRead, NEW r \in Build, NEW q \in Build, q # r,
         build[r].phase # "idle", build[q].phase # "idle"
  PROVE  build[q].read = None
<1>1. CASE build[q].read # None
  <2>1. MapsAreRead(q)
    BY <1>1 DEF RebuildsRead
  <2>2. r \in Build \ {q}
    OBVIOUS
  <2>3. QED
    BY <2>1, <2>2 DEF MapsAreRead
<1>2. QED
  BY <1>1

(***************************************************************************)
(* The graph's own invariant, and that each step of a rebuild keeps it.    *)
(***************************************************************************)
GraphInv == GraphTypeOK /\ ViewInv(view) /\ RebuildsRead /\ BasisHolds

LEMMA BuildType ==
  ASSUME GraphTypeOK
  PROVE  \A r \in Build : /\ build[r].left \in SUBSET Id
                          /\ build[r].read # None => build[r].read \in SUBSET Id
BY DEF GraphTypeOK

LEMMA BeginRebuildKeeps ==
  ASSUME GraphInv, NEW r \in Build, BeginRebuild(r)
  PROVE  GraphInv'
<1> DEFINE first == [phase |-> "contacts", left |-> Listed(Contacts),
                     read |-> IF Building THEN None ELSE {}]
           after(q) == CASE q = r -> first
                         [] q # r /\ build[q].phase # "idle" -> [build[q] EXCEPT !.read = None]
                         [] OTHER -> Idle
<1>1. Listed(Contacts) \in SUBSET Id /\ OneListEach(Listed(Contacts), Contacts)
  BY ListedOnce DEF GraphInv
<1>2. build' = [q \in Build |-> after(q)]
  BY DEF BeginRebuild
<1>3. build'[r] = first
  BY <1>2
<1>4. \A q \in Build \ {r} :
        build'[q] = IF build[q].phase # "idle" THEN [build[q] EXCEPT !.read = None] ELSE Idle
  BY <1>2
<1>5. /\ follows' = Nobody /\ mutes' = Nobody
      /\ scores' = scores /\ view' = view /\ ready' = ready
      /\ basis' = IF Building THEN None ELSE basis
      /\ faults' = faults + (IF Building THEN 1 ELSE 0)
      /\ Building => faults < MaxFaults
  BY DEF BeginRebuild
<1>6. Idle \in [phase : {"idle", "contacts", "mutes"}, left : SUBSET Id,
                read : (SUBSET Id) \cup {None}]
  BY DEF Idle
<1>7. GraphTypeOK'
  <2>1. \A q \in Build : after(q) \in [phase : {"idle", "contacts", "mutes"}, left : SUBSET Id,
                                       read : (SUBSET Id) \cup {None}]
    <3> TAKE q \in Build
    <3>1. first \in [phase : {"idle", "contacts", "mutes"}, left : SUBSET Id,
                     read : (SUBSET Id) \cup {None}]
      BY <1>1
    <3>2. build[q] \in [phase : {"idle", "contacts", "mutes"}, left : SUBSET Id,
                        read : (SUBSET Id) \cup {None}]
      BY DEF GraphInv, GraphTypeOK
    <3>3. [build[q] EXCEPT !.read = None]
            \in [phase : {"idle", "contacts", "mutes"}, left : SUBSET Id,
                 read : (SUBSET Id) \cup {None}]
      BY <3>2
    <3> HIDE DEF first, Idle
    <3>4. QED
      BY <1>6, <3>1, <3>3
  <2>2. build' \in [Build -> [phase : {"idle", "contacts", "mutes"}, left : SUBSET Id,
                              read : (SUBSET Id) \cup {None}]]
    BY <1>2, <2>1
  <2>3. Nobody \in [Pubkey -> SUBSET Pubkey]
    BY DEF Nobody
  <2>4. faults' \in 0 .. MaxFaults
    BY <1>5, WotAssumption DEF GraphInv, GraphTypeOK
  <2>5. QED
    BY <1>5, <2>2, <2>3, <2>4 DEF GraphInv, GraphTypeOK
<1>8. RebuildsRead'
  <2>1. ASSUME NEW q \in Build, build'[q].phase = "idle"
        PROVE  build'[q] = Idle
    <3>1. q # r
      BY <1>3, <2>1
    <3>2. build'[q] = IF build[q].phase # "idle" THEN [build[q] EXCEPT !.read = None] ELSE Idle
      BY <1>4, <3>1
    <3>3. build[q] \in [phase : {"idle", "contacts", "mutes"}, left : SUBSET Id,
                        read : (SUBSET Id) \cup {None}]
      BY DEF GraphInv, GraphTypeOK
    <3>4. QED
      BY <2>1, <3>2, <3>3
  <2>2. ASSUME NEW q \in Build, build'[q].phase # "idle", build'[q].read # None
        PROVE  MapsAreRead(q)'
    <3>1. q = r
      <4>1. CASE q # r
        <5>1. build'[q] = IF build[q].phase # "idle" THEN [build[q] EXCEPT !.read = None] ELSE Idle
          BY <1>4, <4>1
        <5>2. build[q] \in [phase : {"idle", "contacts", "mutes"}, left : SUBSET Id,
                            read : (SUBSET Id) \cup {None}]
          BY DEF GraphInv, GraphTypeOK
        <5>3. QED
          BY <2>2, <5>1, <5>2 DEF Idle
      <4>2. QED
        BY <4>1
    <3>2. ~Building
      BY <1>3, <2>2, <3>1
    <3>3. build'[r] = [phase |-> "contacts", left |-> Listed(Contacts), read |-> {}]
      BY <1>3, <3>2
    <3>4. ASSUME NEW o \in Build \ {r} PROVE build'[o].phase = "idle"
      <4>1. build[o].phase = "idle"
        BY <3>2 DEF Building
      <4>2. build'[o] = Idle
        BY <1>4, <4>1
      <4>3. QED
        BY <4>2 DEF Idle
    <3>5. Nobody = Named({}, Contacts) /\ Nobody = Named({}, Mutes)
      BY NamedNobody
    <3>6. ScanKind(r)' = Contacts
      BY <3>3 DEF ScanKind
    <3>7. OneListEach(build[r].left \cup {e \in build[r].read : Ev[e].kind = ScanKind(r)},
                      ScanKind(r))'
      <4>1. Listed(Contacts) \cup {e \in {} : Ev[e].kind = Contacts} = Listed(Contacts)
        OBVIOUS
      <4>2. OneListEach(Listed(Contacts) \cup {e \in {} : Ev[e].kind = Contacts}, Contacts)
        BY <1>1, <4>1
      <4>3. QED
        BY <3>3, <3>6, <4>2 DEF OneListEach
    <3>8. QED
      BY <1>5, <3>1, <3>3, <3>4, <3>5, <3>7 DEF MapsAreRead
  <2>3. QED
    BY <2>1, <2>2 DEF RebuildsRead
<1>9. BasisHolds'
  <2>1. Building'
    BY <1>3 DEF Building
  <2>2. basis' # None => basis' = basis
    BY <1>5
  <2>3. QED
    BY <1>5, <2>1, <2>2 DEF BasisHolds, GraphInv
<1>10. QED
  BY <1>5, <1>7, <1>8, <1>9 DEF GraphInv

(***************************************************************************)
(* The steps that change one rebuild r and leave the others alone.         *)
(***************************************************************************)
LEMMA OthersStayMarked ==
  ASSUME RebuildsRead, NEW r \in Build, build[r].phase # "idle",
         \A q \in Build \ {r} : build'[q] = build[q],
         build'[r].phase = "idle" => build'[r] = Idle,
         build'[r].phase # "idle" /\ build'[r].read # None => MapsAreRead(r)'
  PROVE  RebuildsRead'
<1>1. ASSUME NEW q \in Build
      PROVE  /\ build'[q].phase = "idle" => build'[q] = Idle
             /\ build'[q].phase # "idle" /\ build'[q].read # None => MapsAreRead(q)'
  <2>1. CASE q = r
    BY <2>1
  <2>2. CASE q # r
    <3>1. build'[q] = build[q]
      BY <2>2
    <3>2. build[q].phase # "idle" => build[q].read = None
      BY <2>2, OverlapIsMarked
    <3>3. build[q].phase = "idle" => build[q] = Idle
      BY DEF RebuildsRead
    <3>4. QED
      BY <3>1, <3>2, <3>3
  <2>3. QED
    BY <2>1, <2>2
<1>2. QED
  BY <1>1 DEF RebuildsRead

LEMMA ScanListKeeps ==
  ASSUME GraphInv, NEW r \in Build, NEW e \in build[r].left, ScanList(r, e)
  PROVE  GraphInv'
<1> DEFINE b == build[r]
           p == Ev[e].pubkey
           more == e \in view.events /\ b.read # None
           read == IF more THEN b.read \cup {e} ELSE b.read
<1>1. /\ b \in [phase : {"idle", "contacts", "mutes"}, left : SUBSET Id,
                read : (SUBSET Id) \cup {None}]
      /\ e \in Id
  BY DEF GraphInv, GraphTypeOK
<1>2. b.phase # "idle"
  BY DEF GraphInv, RebuildsRead, Idle
<1>3. build' = [build EXCEPT ![r] = [phase |-> b.phase, left |-> b.left \ {e}, read |-> read]]
  <2> DEFINE u == IF e \in view.events /\ b.read # None THEN b.read \cup {e} ELSE b.read
             n == [b EXCEPT !.left = b.left \ {e}, !.read = u]
  <2>1. build' = [build EXCEPT ![r] = n]
    BY DEF ScanList
  <2>2. n = [phase |-> b.phase, left |-> b.left \ {e}, read |-> read]
    <3> HIDE DEF b, u
    <3>1. [b EXCEPT !.left = b.left \ {e}]
            = [phase |-> b.phase, left |-> b.left \ {e}, read |-> b.read]
      BY <1>1
    <3>2. [[phase |-> b.phase, left |-> b.left \ {e}, read |-> b.read] EXCEPT !.read = u]
            = [phase |-> b.phase, left |-> b.left \ {e}, read |-> u]
      OBVIOUS
    <3>3. u = read
      BY DEF u
    <3>4. QED
      BY <3>1, <3>2, <3>3
  <2>3. QED
    BY <2>1, <2>2
<1>4. /\ build'[r] = [phase |-> b.phase, left |-> b.left \ {e}, read |-> read]
      /\ \A q \in Build \ {r} : build'[q] = build[q]
  BY <1>3 DEF GraphInv, GraphTypeOK
<1>5. /\ view' = view /\ scores' = scores /\ ready' = ready /\ basis' = basis /\ faults' = faults
  BY DEF ScanList
<1>6. \/ (e \notin view.events \/ PTags[e] = {}) /\ follows' = follows /\ mutes' = mutes
      \/ /\ e \in view.events /\ b.phase = "contacts"
         /\ follows' = [follows EXCEPT ![p] = PTags[e]] /\ mutes' = mutes
      \/ /\ e \in view.events /\ b.phase = "mutes"
         /\ mutes' = [mutes EXCEPT ![p] = PTags[e]] /\ follows' = follows
  BY <1>1, <1>2 DEF ScanList
<1>7. p \in Pubkey /\ PTags[e] \in SUBSET Pubkey
  BY <1>1, EventFacts
<1>8. GraphTypeOK'
  <2>1. [phase |-> b.phase, left |-> b.left \ {e}, read |-> read]
          \in [phase : {"idle", "contacts", "mutes"}, left : SUBSET Id, read : (SUBSET Id) \cup {None}]
    BY <1>1
  <2>2. build' \in [Build -> [phase : {"idle", "contacts", "mutes"}, left : SUBSET Id,
                              read : (SUBSET Id) \cup {None}]]
    BY <1>3, <2>1 DEF GraphInv, GraphTypeOK
  <2>3. follows' \in [Pubkey -> SUBSET Pubkey] /\ mutes' \in [Pubkey -> SUBSET Pubkey]
    BY <1>6, <1>7 DEF GraphInv, GraphTypeOK
  <2>4. QED
    BY <1>5, <2>2, <2>3 DEF GraphInv, GraphTypeOK
<1>9. ASSUME build'[r].read # None
      PROVE  MapsAreRead(r)'
  <2>1. b.read # None /\ b.read \in SUBSET Id
    BY <1>1, <1>4, <1>9
  <2>2. MapsAreRead(r)
    BY <1>2, <2>1 DEF GraphInv, RebuildsRead
  <2> DEFINE kind == ScanKind(r)
             S == b.left \cup {x \in b.read : Ev[x].kind = kind}
  <2>3. ScanKind(r)' = kind /\ kind = IF b.phase = "contacts" THEN Contacts ELSE Mutes
    BY <1>4 DEF ScanKind
  <2>4. /\ b.left \cap b.read = {}
        /\ OneListEach(S, kind)
        /\ b.phase = "contacts" => \A x \in b.read : Ev[x].kind = Contacts
        /\ follows = Named(b.read, Contacts)
        /\ mutes = Named(b.read, Mutes)
    BY <2>2 DEF MapsAreRead
  <2>5. Ev[e].kind = kind
    BY <2>4 DEF OneListEach
  <2>6. \A o \in b.read : Ev[o].kind = Ev[e].kind => Ev[o].pubkey # Ev[e].pubkey
    <3> SUFFICES ASSUME NEW o \in b.read, Ev[o].kind = Ev[e].kind, Ev[o].pubkey = Ev[e].pubkey
                 PROVE  FALSE
      OBVIOUS
    <3>1. o \in S /\ e \in S
      BY <2>5
    <3>2. o = e
      BY <2>4, <3>1 DEF OneListEach
    <3>3. QED
      BY <2>4, <3>2
  <2>7. Contacts # Mutes
    BY DEF Contacts, Mutes
  <2>8. follows' = Named(read, Contacts) /\ mutes' = Named(read, Mutes)
    <3>1. CASE e \notin view.events
      <4>1. read = b.read /\ follows' = follows /\ mutes' = mutes
        BY <1>6, <3>1
      <4>2. QED
        BY <2>4, <4>1
    <3>2. CASE e \in view.events /\ PTags[e] = {} /\ follows' = follows /\ mutes' = mutes
      <4>1. read = b.read \cup {e}
        BY <2>1, <3>2
      <4>2. Named(b.read \cup {e}, Contacts) = Named(b.read, Contacts)
        BY <1>1, <2>1, <3>2, NamedSame
      <4>3. Named(b.read \cup {e}, Mutes) = Named(b.read, Mutes)
        BY <1>1, <2>1, <3>2, NamedSame
      <4>4. QED
        BY <2>4, <3>2, <4>1, <4>2, <4>3
    <3>3. CASE /\ e \in view.events /\ b.phase = "contacts"
               /\ follows' = [follows EXCEPT ![p] = PTags[e]] /\ mutes' = mutes
      <4>1. read = b.read \cup {e} /\ Ev[e].kind = Contacts
        BY <2>1, <2>3, <2>5, <3>3
      <4>2. Named(b.read \cup {e}, Contacts) = [Named(b.read, Contacts) EXCEPT ![p] = PTags[e]]
        BY <1>1, <2>1, <2>6, <4>1, NamedOneMore
      <4>3. Named(b.read \cup {e}, Mutes) = Named(b.read, Mutes)
        BY <1>1, <2>1, <2>7, <4>1, NamedSame
      <4>4. QED
        BY <2>4, <3>3, <4>1, <4>2, <4>3
    <3>4. CASE /\ e \in view.events /\ b.phase = "mutes"
               /\ mutes' = [mutes EXCEPT ![p] = PTags[e]] /\ follows' = follows
      <4>1. read = b.read \cup {e} /\ Ev[e].kind = Mutes
        BY <2>1, <2>3, <2>5, <3>4
      <4>2. Named(b.read \cup {e}, Mutes) = [Named(b.read, Mutes) EXCEPT ![p] = PTags[e]]
        BY <1>1, <2>1, <2>6, <4>1, NamedOneMore
      <4>3. Named(b.read \cup {e}, Contacts) = Named(b.read, Contacts)
        BY <1>1, <2>1, <2>7, <4>1, NamedSame
      <4>4. QED
        BY <2>4, <3>4, <4>1, <4>2, <4>3
    <3>5. QED
      BY <1>6, <3>1, <3>2, <3>3, <3>4
  <2>9. (b.left \ {e}) \cap read = {}
    BY <2>4
  <2>10. OneListEach((b.left \ {e}) \cup {x \in read : Ev[x].kind = kind}, kind)
    <3>1. (b.left \ {e}) \cup {x \in read : Ev[x].kind = kind} \subseteq S
      OBVIOUS
    <3>2. QED
      BY <2>4, <3>1, FewerListsOnce
  <2>11. b.phase = "contacts" => \A x \in read : Ev[x].kind = Contacts
    BY <2>3, <2>4, <2>5
  <2>12. \A q \in Build \ {r} : build'[q].phase = "idle"
    BY <1>4, <2>2 DEF MapsAreRead
  <2> HIDE DEF read, kind
  <2>13. QED
    BY <1>4, <2>3, <2>8, <2>9, <2>10, <2>11, <2>12 DEF MapsAreRead
<1>10. RebuildsRead'
  <2>1. build'[r].phase # "idle"
    BY <1>2, <1>4
  <2>2. \A q \in Build \ {r} : build'[q] = build[q]
    BY <1>4
  <2>3. QED
    BY <1>2, <1>9, <2>1, <2>2, OthersStayMarked DEF GraphInv
<1>11. BasisHolds'
  <2>1. Building'
    BY <1>2, <1>4 DEF Building
  <2>2. QED
    BY <1>5, <2>1 DEF BasisHolds, GraphInv
<1>12. QED
  BY <1>5, <1>8, <1>10, <1>11 DEF GraphInv

LEMMA BeginMutesKeeps ==
  ASSUME GraphInv, NEW r \in Build, BeginMutes(r)
  PROVE  GraphInv'
<1> DEFINE b == build[r]
<1>1. /\ b \in [phase : {"idle", "contacts", "mutes"}, left : SUBSET Id,
                read : (SUBSET Id) \cup {None}]
      /\ b.phase = "contacts"
  BY DEF GraphInv, GraphTypeOK, BeginMutes
<1>2. Listed(Mutes) \in SUBSET Id /\ OneListEach(Listed(Mutes), Mutes)
  BY ListedOnce DEF GraphInv
<1>3. build' = [build EXCEPT ![r] = [phase |-> "mutes", left |-> Listed(Mutes), read |-> b.read]]
  <2> DEFINE n == [b EXCEPT !.phase = "mutes", !.left = Listed(Mutes)]
  <2>1. build' = [build EXCEPT ![r] = n]
    BY DEF BeginMutes
  <2>2. n = [phase |-> "mutes", left |-> Listed(Mutes), read |-> b.read]
    <3> HIDE DEF b
    <3>1. [b EXCEPT !.phase = "mutes"] = [phase |-> "mutes", left |-> b.left, read |-> b.read]
      BY <1>1
    <3>2. [[phase |-> "mutes", left |-> b.left, read |-> b.read] EXCEPT !.left = Listed(Mutes)]
            = [phase |-> "mutes", left |-> Listed(Mutes), read |-> b.read]
      OBVIOUS
    <3>3. QED
      BY <3>1, <3>2
  <2>3. QED
    BY <2>1, <2>2
<1>4. /\ build'[r] = [phase |-> "mutes", left |-> Listed(Mutes), read |-> b.read]
      /\ \A q \in Build \ {r} : build'[q] = build[q]
  BY <1>3 DEF GraphInv, GraphTypeOK
<1>5. UNCHANGED <<view, follows, mutes, scores, ready, basis, faults>>
  BY DEF BeginMutes
<1>6. GraphTypeOK'
  <2>1. [phase |-> "mutes", left |-> Listed(Mutes), read |-> b.read]
          \in [phase : {"idle", "contacts", "mutes"}, left : SUBSET Id, read : (SUBSET Id) \cup {None}]
    BY <1>1, <1>2
  <2>2. build' \in [Build -> [phase : {"idle", "contacts", "mutes"}, left : SUBSET Id,
                              read : (SUBSET Id) \cup {None}]]
    BY <1>3, <2>1 DEF GraphInv, GraphTypeOK
  <2>3. QED
    BY <1>5, <2>2 DEF GraphInv, GraphTypeOK
<1>7. ASSUME build'[r].read # None
      PROVE  MapsAreRead(r)'
  <2>1. MapsAreRead(r)
    BY <1>1, <1>4, <1>7 DEF GraphInv, RebuildsRead
  <2>2. ScanKind(r)' = Mutes
    BY <1>4 DEF ScanKind
  <2>3. \A x \in b.read : Ev[x].kind = Contacts
    BY <1>1, <2>1 DEF MapsAreRead
  <2>4. Contacts # Mutes
    BY DEF Contacts, Mutes
  <2>5. \A x \in Listed(Mutes) : Ev[x].kind = Mutes
    BY DEF Listed
  <2>6. Listed(Mutes) \cap b.read = {}
    BY <2>3, <2>4, <2>5
  <2>7. Listed(Mutes) \cup {x \in b.read : Ev[x].kind = Mutes} = Listed(Mutes)
    BY <2>3, <2>4
  <2>8. OneListEach(Listed(Mutes) \cup {x \in b.read : Ev[x].kind = Mutes}, Mutes)
    BY <1>2, <2>7
  <2>9. \A q \in Build \ {r} : build'[q].phase = "idle"
    BY <1>4, <2>1 DEF MapsAreRead
  <2>10. follows' = Named(b.read, Contacts) /\ mutes' = Named(b.read, Mutes)
    BY <1>5, <2>1 DEF MapsAreRead
  <2>11. QED
    BY <1>4, <2>2, <2>6, <2>8, <2>9, <2>10 DEF MapsAreRead
<1>8. RebuildsRead'
  <2>1. build[r].phase # "idle" /\ build'[r].phase # "idle"
    BY <1>1, <1>4
  <2>2. \A q \in Build \ {r} : build'[q] = build[q]
    BY <1>4
  <2>3. QED
    BY <1>7, <2>1, <2>2, OthersStayMarked DEF GraphInv
<1>9. BasisHolds'
  <2>1. Building'
    BY <1>4 DEF Building
  <2>2. QED
    BY <1>5, <2>1 DEF BasisHolds, GraphInv
<1>10. QED
  BY <1>5, <1>6, <1>8, <1>9 DEF GraphInv

LEMMA CompleteKeeps ==
  ASSUME GraphInv, NEW r \in Build, Complete(r)
  PROVE  GraphInv'
<1>1. build[r].phase = "mutes" /\ build[r].read \in (SUBSET Id) \cup {None}
  BY DEF GraphInv, GraphTypeOK, Complete
<1>2. /\ build' = [build EXCEPT ![r] = Idle]
      /\ build'[r] = Idle
      /\ \A q \in Build \ {r} : build'[q] = build[q]
  BY DEF GraphInv, GraphTypeOK, Complete
<1>3. /\ scores' = Scores(follows, mutes) /\ ready' = TRUE /\ basis' = build[r].read
      /\ UNCHANGED <<view, follows, mutes, faults>>
  BY DEF Complete
<1>4. GraphTypeOK'
  <2>1. Idle \in [phase : {"idle", "contacts", "mutes"}, left : SUBSET Id,
                  read : (SUBSET Id) \cup {None}]
    BY DEF Idle
  <2>2. build' \in [Build -> [phase : {"idle", "contacts", "mutes"}, left : SUBSET Id,
                              read : (SUBSET Id) \cup {None}]]
    BY <1>2, <2>1 DEF GraphInv, GraphTypeOK
  <2>3. \A p \in Pubkey :
          scores'[p] = None \/ scores'[p] \in [degree : 0 .. MaxDepth, muted : BOOLEAN]
    BY <1>3, ScoresType
  <2>4. QED
    BY <1>1, <1>3, <2>2, <2>3 DEF GraphInv, GraphTypeOK
<1>5. RebuildsRead'
  <2>1. build[r].phase # "idle"
    BY <1>1
  <2>2. build'[r].phase = "idle"
    BY <1>2 DEF Idle
  <2>3. QED
    BY <1>2, <2>1, <2>2, OthersStayMarked DEF GraphInv
<1>6. BasisHolds'
  <2>1. ASSUME basis' # None
        PROVE  follows = Named(basis', Contacts) /\ mutes = Named(basis', Mutes)
    <3>1. MapsAreRead(r)
      BY <1>1, <1>3, <2>1 DEF GraphInv, RebuildsRead
    <3>2. QED
      BY <1>3, <3>1 DEF MapsAreRead
  <2>2. QED
    BY <1>3, <2>1 DEF BasisHolds
<1>7. QED
  BY <1>3, <1>4, <1>5, <1>6 DEF GraphInv

LEMMA FailRebuildKeeps ==
  ASSUME GraphInv, NEW r \in Build, FailRebuild(r)
  PROVE  GraphInv'
<1>1. build[r].phase # "idle" /\ faults < MaxFaults
  BY DEF FailRebuild
<1>2. /\ build' = [build EXCEPT ![r] = Idle]
      /\ build'[r] = Idle
      /\ \A q \in Build \ {r} : build'[q] = build[q]
  BY DEF GraphInv, GraphTypeOK, FailRebuild
<1>3. /\ faults' = faults + 1 /\ basis' = None
      /\ UNCHANGED <<view, follows, mutes, scores, ready>>
  BY DEF FailRebuild
<1>4. GraphTypeOK'
  <2>1. Idle \in [phase : {"idle", "contacts", "mutes"}, left : SUBSET Id,
                  read : (SUBSET Id) \cup {None}]
    BY DEF Idle
  <2>2. build' \in [Build -> [phase : {"idle", "contacts", "mutes"}, left : SUBSET Id,
                              read : (SUBSET Id) \cup {None}]]
    BY <1>2, <2>1 DEF GraphInv, GraphTypeOK
  <2>3. faults' \in 0 .. MaxFaults
    BY <1>1, <1>3, WotAssumption DEF GraphInv, GraphTypeOK
  <2>4. QED
    BY <1>3, <2>2, <2>3 DEF GraphInv, GraphTypeOK
<1>5. RebuildsRead'
  <2>1. build'[r].phase = "idle"
    BY <1>2 DEF Idle
  <2>2. QED
    BY <1>1, <1>2, <2>1, OthersStayMarked DEF GraphInv
<1>6. BasisHolds'
  BY <1>3 DEF BasisHolds
<1>7. QED
  BY <1>3, <1>4, <1>5, <1>6 DEF GraphInv

(* A start, the first and a later one: the graph is empty and unbuilt. *)
LEMMA EmptyGraphKeeps ==
  ASSUME ViewInv(view), faults \in 0 .. MaxFaults,
         follows = Nobody, mutes = Nobody, scores = [p \in Pubkey |-> None],
         build = [r \in Build |-> Idle], ready = FALSE, basis = None
  PROVE  GraphInv
<1>1. Idle \in [phase : {"idle", "contacts", "mutes"}, left : SUBSET Id,
                read : (SUBSET Id) \cup {None}]
  BY DEF Idle
<1>2. build \in [Build -> [phase : {"idle", "contacts", "mutes"}, left : SUBSET Id,
                           read : (SUBSET Id) \cup {None}]]
  BY <1>1
<1>3. Nobody \in [Pubkey -> SUBSET Pubkey]
  BY DEF Nobody
<1>4. view \in View
  BY DEF ViewInv
<1>5. GraphTypeOK
  BY <1>2, <1>3, <1>4 DEF GraphTypeOK
<1>6. RebuildsRead
  BY DEF RebuildsRead, Idle
<1>7. BasisHolds
  BY DEF BasisHolds
<1>8. QED
  BY <1>5, <1>6, <1>7 DEF GraphInv

LEMMA RestartGraphKeeps ==
  ASSUME GraphInv, RestartGraph, view' = view, faults' \in 0 .. MaxFaults
  PROVE  GraphInv'
<1>1. /\ follows' = Nobody /\ mutes' = Nobody
      /\ scores' = [p \in Pubkey |-> None] /\ build' = [r \in Build |-> Idle]
      /\ ready' = FALSE /\ basis' = None
  BY DEF RestartGraph
<1>2. Idle \in [phase : {"idle", "contacts", "mutes"}, left : SUBSET Id,
                read : (SUBSET Id) \cup {None}]
  BY DEF Idle
<1>3. build' \in [Build -> [phase : {"idle", "contacts", "mutes"}, left : SUBSET Id,
                            read : (SUBSET Id) \cup {None}]]
  BY <1>1, <1>2
<1>4. Nobody \in [Pubkey -> SUBSET Pubkey]
  BY DEF Nobody
<1>5. GraphTypeOK'
  BY <1>1, <1>3, <1>4 DEF GraphTypeOK, GraphInv
<1>6. RebuildsRead'
  BY <1>1 DEF RebuildsRead, Idle
<1>7. BasisHolds'
  BY <1>1 DEF BasisHolds
<1>8. QED
  BY <1>5, <1>6, <1>7 DEF GraphInv

(* The steps of the store change the view at most. *)
LEMMA GraphUntouched ==
  ASSUME GraphInv, ViewInv(view)', UNCHANGED <<graph, faults>>
  PROVE  GraphInv'
<1>1. view' \in View
  BY DEF ViewInv
<1>2. UNCHANGED <<follows, mutes, scores, build, ready, basis, faults>>
  BY DEF graph
<1>3. GraphTypeOK'
  BY <1>1, <1>2 DEF GraphInv, GraphTypeOK
<1>4. RebuildsRead'
  BY <1>2 DEF GraphInv, RebuildsRead, MapsAreRead, ScanKind
<1>5. BasisHolds'
  BY <1>2 DEF GraphInv, BasisHolds, Building
<1>6. QED
  BY <1>3, <1>4, <1>5 DEF GraphInv

LEMMA VerdictsAgree ==
  ASSUME GraphInv
  PROVE  MutesHold
<1> SUFFICES ASSUME basis # None, NEW p \in Pubkey
             PROVE  \/ IsMuted(p) = Muted(Named(basis, Contacts), Named(basis, Mutes), p)
                    \/ scores[p] = None /\ Building
  BY DEF MutesHold
<1> DEFINE F == Named(basis, Contacts)
           M == Named(basis, Mutes)
<1>1. scores = Scores(F, M)
  BY DEF GraphInv, BasisHolds
<1>2. ~Building => follows = F /\ mutes = M
  BY DEF GraphInv, BasisHolds
<1> HIDE DEF F, M
<1>3. CASE scores[p] # None
  <2>1. p \in Within(F)[MaxDepth]
    BY <1>1, <1>3 DEF Scores
  <2>2. scores[p] = [degree |-> Degree(F, p), muted |-> Muted(F, M, p)]
    BY <1>1, <2>1 DEF Scores
  <2>3. scores[p].muted = Muted(F, M, p)
    BY <2>2
  <2>4. QED
    BY <1>3, <2>3 DEF IsMuted, F, M
<1>4. CASE scores[p] = None /\ ~Building
  BY <1>2, <1>4 DEF IsMuted, F, M
<1>5. QED
  BY <1>3, <1>4

-----------------------------------------------------------------------------
(* What an op makes of the view, as far as the store counts it. *)
LEMMA AppliedAddsOne ==
  ASSUME ViewInv(view), NEW e \in Id
  PROVE  /\ ViewInv(Applied(e))
         /\ Applied(e).events \subseteq view.events \cup {e}
         /\ Applied(e).indexed \subseteq view.indexed \cup {e}
<1>1. CASE Applied(e) = view
  BY <1>1
<1>2. CASE Applied(e) = ApplyDelete(view, e)
  BY <1>2, ApplyDeleteKeepsInv, DeleteAddsOne
<1>3. CASE Applied(e) = ApplyPut(view, e)
  BY <1>3, ApplyPutKeepsInv, PutAddsOne
<1>4. Applied(e) \in {view, ApplyDelete(view, e), ApplyPut(view, e)}
  BY DEF Applied, ApplyOptimistic
<1>5. QED
  BY <1>1, <1>2, <1>3, <1>4

LEMMA PruneTakesAway ==
  ASSUME NEW v, ViewInv(v), NEW from, NEW S
  PROVE  /\ ApplyPruneDelete(v, from, S).events \subseteq v.events
         /\ ApplyPruneDelete(v, from, S).indexed \subseteq v.indexed
<1>1. S \cap v.events \in SUBSET Id /\ v \in View
  BY DEF ViewInv, View
<1>2. /\ RemoveEvents(v, S \cap v.events).events = v.events \ (S \cap v.events)
      /\ RemoveEvents(v, S \cap v.events).indexed = v.indexed \ (S \cap v.events)
  BY <1>1, RemoveEventsFields
<1>3. QED
  BY <1>2 DEF ApplyPruneDelete

-----------------------------------------------------------------------------
(* The room under the cap. *)
LEMMA RoomFits ==
  ASSUME NEW P, NEW Q, P \subseteq Q, IsFiniteSet(Q), NEW n \in Int, Cardinality(Q) <= n
  PROVE  IsFiniteSet(P) /\ Cardinality(P) <= n
<1>1. IsFiniteSet(P) /\ Cardinality(P) <= Cardinality(Q)
  BY FS_Subset
<1>2. Cardinality(P) \in Nat /\ Cardinality(Q) \in Nat
  BY <1>1, FS_CardinalityType
<1>3. QED
  BY <1>1, <1>2

LEMMA LimitType == Cap + MaxInFlight - 1 \in Nat /\ Cap \in Nat \ {0} /\ MaxInFlight \in Nat \ {0}
BY LightAssumption

(* Places that hold no more than places did before are within the room. *)
LEMMA RoomKept ==
  ASSUME RoomLeft,
         \A p \in Pubkey : \A D \in SUBSET Id : \E C \in SUBSET Id : Places(p, D)' \subseteq Places(p, C)
  PROVE  RoomLeft'
<1> SUFFICES ASSUME NEW p \in Pubkey, NEW D \in SUBSET Id
             PROVE  IsFiniteSet(Places(p, D)') /\ Cardinality(Places(p, D)') <= Cap + MaxInFlight - 1
  BY DEF RoomLeft
<1>1. PICK C \in SUBSET Id : Places(p, D)' \subseteq Places(p, C)
  OBVIOUS
<1>2. IsFiniteSet(Places(p, C)) /\ Cardinality(Places(p, C)) <= Cap + MaxInFlight - 1
  BY DEF RoomLeft
<1>3. QED
  BY <1>1, <1>2, RoomFits, LimitType

(* A step of the view: what it adds was on its way, what it takes is gone. *)
LEMMA ViewStepKeepsRoom ==
  ASSUME RoomLeft, FiniteStore, unknown \subseteq Id, view.indexed \subseteq Id,
         unknown' = unknown, counted' = counted,
         \A x \in Id : put'[x] \in {"appending", "counting"} => put'[x] = put[x],
         \A x \in unknown : x \in view'.indexed => x \in view.indexed \/ put[x] = "appending"
  PROVE  RoomLeft'
<1> SUFFICES ASSUME NEW p \in Pubkey, NEW D \in SUBSET Id
             PROVE  \E C \in SUBSET Id : Places(p, D)' \subseteq Places(p, C)
  BY RoomKept
<1> DEFINE C == D \cup (view.indexed \ view'.indexed)
<1>1. C \in SUBSET Id
  OBVIOUS
<1>2. Kept(p, D)' \subseteq Kept(p, C)
  <2> SUFFICES ASSUME NEW x \in Kept(p, D)'
               PROVE  x \in Kept(p, C)
    OBVIOUS
  <2>1. x \in unknown /\ Ev[x].pubkey = p /\ x \in Id
    BY DEF Kept
  <2>2. put'[x] = "appending" \/ x \in view'.indexed \ D
    BY DEF Kept
  <2>3. put[x] = "appending" \/ x \in view.indexed \ C
    BY <2>1, <2>2
  <2>4. QED
    BY <2>1, <2>3 DEF Kept
<1>3. MayPass(p, D)' \subseteq MayPass(p, C)
  <2> SUFFICES ASSUME NEW x \in MayPass(p, D)'
               PROVE  x \in MayPass(p, C)
    OBVIOUS
  <2> DEFINE A == (counted[x] \cap unknown \cap view.indexed) \ C
             B == (counted[x] \cap unknown \cap view'.indexed) \ D
  <2>1. x \in Id /\ put'[x] = "counting" /\ Ev[x].pubkey = p /\ Cardinality(B) < Cap
    BY DEF MayPass
  <2>2. put[x] = "counting"
    BY <2>1
  <2>3. A \subseteq B /\ B \subseteq counted[x]
    OBVIOUS
  <2>4. IsFiniteSet(counted[x])
    BY <2>1 DEF FiniteStore
  <2> HIDE DEF A, B
  <2>5. IsFiniteSet(B)
    BY <2>3, <2>4, FS_Subset
  <2>6. Cardinality(A) <= Cardinality(B) /\ IsFiniteSet(A)
    BY <2>3, <2>5, FS_Subset
  <2>7. Cardinality(A) < Cap
    BY <2>1, <2>5, <2>6, FS_CardinalityType, LimitType
  <2>8. QED
    BY <2>1, <2>2, <2>7 DEF A, MayPass
<1> HIDE DEF C
<1>4. Places(p, D)' \subseteq Places(p, C)
  BY <1>2, <1>3 DEF Places
<1>5. QED
  BY <1>1, <1>4

(* A call that does not count: no place is taken. *)
LEMMA UncountedCallKeepsRoom ==
  ASSUME RoomLeft, unknown \subseteq Id, NEW e \in Id, put[e] = "new", UnknownPassed,
         put \in [Id -> {"new", "counting", "appending", "done"}],
         UNCHANGED <<view, counted, unknown>>,
         NEW s \in {"appending", "done"}, put' = [put EXCEPT ![e] = s]
  PROVE  RoomLeft'
<1> SUFFICES ASSUME NEW p \in Pubkey, NEW D \in SUBSET Id
             PROVE  Places(p, D)' \subseteq Places(p, D)
  BY RoomKept
<1>1. e \notin unknown
  BY DEF UnknownPassed
<1>2. \A x \in Id \ {e} : put'[x] = put[x]
  OBVIOUS
<1>3. put'[e] # "counting"
  OBVIOUS
<1>4. Kept(p, D)' \subseteq Kept(p, D)
  BY <1>1, <1>2 DEF Kept
<1>5. MayPass(p, D)' \subseteq MayPass(p, D)
  BY <1>2, <1>3 DEF MayPass
<1>6. QED
  BY <1>4, <1>5 DEF Places

(***************************************************************************)
(* A call that counts.  If, with D gone, the entries it goes through still *)
(* make up the cap, it cannot pass.  Otherwise fewer than the cap of the   *)
(* author's events are left, and all else is in flight.                    *)
(***************************************************************************)
LEMMA CountedCallKeepsRoom ==
  ASSUME RoomLeft, unknown \subseteq Id, NEW e \in Id, put[e] = "new", UnknownPassed,
         put \in [Id -> {"new", "counting", "appending", "done"}],
         counted \in [Id -> SUBSET Id], view.indexed \subseteq Id,
         UNCHANGED <<view, unknown>>, put' = [put EXCEPT ![e] = "counting"],
         counted' = [counted EXCEPT ![e] = AuthorEntries(e)],
         IsFiniteSet(InFlight'), Cardinality(InFlight') <= MaxInFlight
  PROVE  RoomLeft'
<1> SUFFICES ASSUME NEW p \in Pubkey, NEW D \in SUBSET Id
             PROVE  IsFiniteSet(Places(p, D)') /\ Cardinality(Places(p, D)') <= Cap + MaxInFlight - 1
  BY DEF RoomLeft
<1>1. e \notin unknown
  BY DEF UnknownPassed
<1>2. \A x \in Id \ {e} : put'[x] = put[x] /\ counted'[x] = counted[x]
  OBVIOUS
<1>3. Kept(p, D)' = Kept(p, D)
  BY <1>1, <1>2 DEF Kept
<1>4. MayPass(p, D)' \subseteq MayPass(p, D) \cup {e}
  BY <1>2 DEF MayPass
<1>5. IsFiniteSet(Places(p, D)) /\ Cardinality(Places(p, D)) <= Cap + MaxInFlight - 1
  BY DEF RoomLeft
<1>6. CASE e \notin MayPass(p, D)'
  <2>1. Places(p, D)' \subseteq Places(p, D)
    BY <1>3, <1>4, <1>6 DEF Places
  <2> DEFINE P == Places(p, D)'
             Q == Places(p, D)
  <2>2. P \subseteq Q /\ IsFiniteSet(Q) /\ Cardinality(Q) <= Cap + MaxInFlight - 1
    BY <1>5, <2>1
  <2> HIDE DEF P, Q
  <2>3. IsFiniteSet(P) /\ Cardinality(P) <= Cap + MaxInFlight - 1
    BY <2>2, RoomFits, LimitType
  <2>4. QED
    BY <2>3 DEF P
<1>7. CASE e \in MayPass(p, D)'
  <2> DEFINE U == {x \in unknown : Ev[x].pubkey = p /\ x \in view.indexed \ D}
             N == (counted'[e] \cap unknown \cap view.indexed) \ D
             G == InFlight'
  <2>1. Cardinality(N) < Cap /\ Ev[e].pubkey = p
    BY <1>7 DEF MayPass
  <2>2. U \subseteq N
    <3>1. counted'[e] = {i \in view.indexed : Ev[i].pubkey = p}
      BY <2>1 DEF AuthorEntries
    <3>2. QED
      BY <3>1
  <2>3. N \subseteq U
    <3>1. counted'[e] = {i \in view.indexed : Ev[i].pubkey = p}
      BY <2>1 DEF AuthorEntries
    <3>2. QED
      BY <3>1
  <2>4. Cardinality(U) < Cap
    BY <2>1, <2>2, <2>3
  <2>5. U \subseteq Places(p, D)
    BY DEF Places, Kept
  <2>6. Places(p, D)' \subseteq U \cup G
    <3>1. Kept(p, D)' \subseteq U \cup G
      BY <1>2, <1>3 DEF Kept, InFlight
    <3>2. MayPass(p, D)' \subseteq G
      BY DEF MayPass, InFlight
    <3>3. QED
      BY <3>1, <3>2 DEF Places
  <2>7. IsFiniteSet(G) /\ Cardinality(G) <= MaxInFlight
    OBVIOUS
  <2> HIDE DEF U, N, G
  <2>8. IsFiniteSet(U)
    BY <1>5, <2>5, FS_Subset
  <2>9. IsFiniteSet(U \cup G) /\ Cardinality(U \cup G) = Cardinality(U) + Cardinality(G) - Cardinality(U \cap G)
    BY <2>7, <2>8, FS_Union
  <2>10. IsFiniteSet(U \cap G)
    BY <2>7, FS_Subset
  <2>11. /\ Cardinality(U) \in Nat /\ Cardinality(G) \in Nat /\ Cardinality(U \cap G) \in Nat
    BY <2>7, <2>8, <2>10, FS_CardinalityType
  <2>12. Cardinality(U \cup G) <= Cap + MaxInFlight - 1
    BY <2>4, <2>7, <2>9, <2>11, LimitType
  <2>13. QED
    BY <2>6, <2>9, <2>12, RoomFits, LimitType
<1>8. QED
  BY <1>6, <1>7

(* The count of e has come in, and its place is now the event's own. *)
LEMMA CountKeepsRoom ==
  ASSUME RoomLeft, FiniteStore, UnknownPassed, ViewInv(view), unknown \subseteq Id, NEW e \in Id,
         put \in [Id -> {"new", "counting", "appending", "done"}],
         counted \in [Id -> SUBSET Id],
         CountAuthorEvents(e)
  PROVE  RoomLeft'
<1>1. PICK found \in CountFinds(e) :
        put' = [put EXCEPT ![e] = IF Cardinality(found) >= Cap THEN "done" ELSE "appending"]
  BY DEF CountAuthorEvents
<1>2. /\ put[e] = "counting" /\ view' = view
      /\ unknown' = IF put'[e] = "appending" THEN unknown \cup {e} ELSE unknown
      /\ counted' = [counted EXCEPT ![e] = {}]
  BY DEF CountAuthorEvents
<1>3. e \notin unknown
  BY <1>2 DEF UnknownPassed
<1>4. \A x \in Id \ {e} : put'[x] = put[x] /\ counted'[x] = counted[x]
  BY <1>1, <1>2
<1>5. put'[e] # "counting" /\ (put'[e] = "appending" => ~(Cardinality(found) >= Cap))
  BY <1>1
<1>6. view.indexed \subseteq view.events /\ view.events \subseteq Id
  BY DEF ViewInv, View, IndexesAgree
<1> SUFFICES ASSUME NEW p \in Pubkey, NEW D \in SUBSET Id
             PROVE  Places(p, D)' \subseteq Places(p, D)
  BY RoomKept
<1>7. MayPass(p, D)' \subseteq MayPass(p, D)
  <2> SUFFICES ASSUME NEW x \in MayPass(p, D)'
               PROVE  x \in MayPass(p, D)
    OBVIOUS
  <2> DEFINE A == (counted[x] \cap unknown \cap view.indexed) \ D
             B == (counted[x] \cap unknown' \cap view.indexed) \ D
  <2>1. x \in Id /\ x # e /\ put[x] = "counting" /\ Ev[x].pubkey = p
    BY <1>4, <1>5 DEF MayPass
  <2>2. Cardinality(B) < Cap
    BY <1>2, <1>4, <2>1 DEF MayPass
  <2>3. A \subseteq B /\ B \subseteq counted[x]
    BY <1>2
  <2>4. IsFiniteSet(counted[x])
    BY <2>1 DEF FiniteStore
  <2> HIDE DEF A, B
  <2>5. IsFiniteSet(B)
    BY <2>3, <2>4, FS_Subset
  <2>6. Cardinality(A) <= Cardinality(B) /\ IsFiniteSet(A)
    BY <2>3, <2>5, FS_Subset
  <2>7. Cardinality(A) < Cap
    BY <2>2, <2>5, <2>6, FS_CardinalityType, LimitType
  <2>8. QED
    BY <2>1, <2>7 DEF A, MayPass
<1>8. Kept(p, D)' \subseteq Kept(p, D) \cup MayPass(p, D)
  <2> SUFFICES ASSUME NEW x \in Kept(p, D)'
               PROVE  x \in Kept(p, D) \cup MayPass(p, D)
    OBVIOUS
  <2>1. /\ x \in unknown' /\ Ev[x].pubkey = p
        /\ put'[x] = "appending" \/ x \in view.indexed \ D
    BY <1>2 DEF Kept
  <2>2. CASE x # e
    <3>1. x \in unknown /\ x \in Id
      BY <1>2, <2>1, <2>2
    <3>2. put'[x] = put[x]
      BY <1>4, <2>2, <3>1
    <3>3. QED
      BY <2>1, <3>1, <3>2 DEF Kept
  <2>3. CASE x = e
    <3> DEFINE A == (counted[e] \cap unknown \cap view.indexed) \ D
    <3>1. put'[e] = "appending"
      BY <1>2, <1>3, <2>1, <2>3
    <3>2. ~(Cardinality(found) >= Cap)
      BY <1>5, <3>1
    <3>3. /\ found \subseteq counted[e]
          /\ (counted[e] \cap view.events) \ Exempt \subseteq found
      BY <1>1 DEF CountFinds
    <3>4. unknown \cap Exempt = {}
      BY DEF UnknownPassed
    <3>5. A \subseteq found
      BY <1>6, <3>3, <3>4
    <3>6. IsFiniteSet(counted[e])
      BY DEF FiniteStore
    <3> HIDE DEF A
    <3>7. IsFiniteSet(found)
      BY <3>3, <3>6, FS_Subset
    <3>8. Cardinality(A) <= Cardinality(found) /\ IsFiniteSet(A)
      BY <3>5, <3>7, FS_Subset
    <3>9. Cardinality(A) < Cap
      BY <3>2, <3>7, <3>8, FS_CardinalityType, LimitType
    <3>10. QED
      BY <1>2, <2>1, <2>3, <3>9 DEF A, MayPass
  <2>4. QED
    BY <2>2, <2>3
<1>9. QED
  BY <1>7, <1>8 DEF Places

-----------------------------------------------------------------------------
(* The puts in flight stay below their bound. *)
LEMMA FlightFits ==
  ASSUME put \in [Id -> {"new", "counting", "appending", "done"}],
         IsFiniteSet(InFlight), Cardinality(InFlight) <= MaxInFlight,
         NEW e \in Id, NEW s \in {"new", "counting", "appending", "done"},
         put' = [put EXCEPT ![e] = s],
         \/ s \in {"new", "done"}
         \/ e \in InFlight
         \/ Cardinality(InFlight) < MaxInFlight
  PROVE  /\ put' \in [Id -> {"new", "counting", "appending", "done"}]
         /\ IsFiniteSet(InFlight') /\ Cardinality(InFlight') <= MaxInFlight
<1> DEFINE F == InFlight
           G == InFlight'
<1>1. \A x \in Id \ {e} : put'[x] = put[x]
  OBVIOUS
<1>2. put'[e] = s
  OBVIOUS
<1>3. G \subseteq F \cup {e}
  BY <1>1 DEF InFlight
<1>4. IsFiniteSet(F) /\ Cardinality(F) <= MaxInFlight
  OBVIOUS
<1>5. CASE s \in {"new", "done"} \/ e \in InFlight
  <2>1. G \subseteq F
    BY <1>1, <1>2, <1>5 DEF InFlight
  <2> HIDE DEF F, G
  <2>2. IsFiniteSet(G) /\ Cardinality(G) <= MaxInFlight
    BY <1>4, <2>1, RoomFits, LimitType
  <2>3. QED
    BY <2>2 DEF G
<1>6. CASE Cardinality(InFlight) < MaxInFlight
  <2> DEFINE H == F \cup {e}
  <2>1. Cardinality(F) < MaxInFlight
    BY <1>6
  <2> HIDE DEF F, G
  <2>2. IsFiniteSet(H) /\ Cardinality(H) <= Cardinality(F) + 1 /\ Cardinality(F) \in Nat
    <3>1. Cardinality(F) \in Nat
      BY <1>4, FS_CardinalityType
    <3>2. /\ IsFiniteSet(H)
          /\ Cardinality(H) = IF e \in F THEN Cardinality(F) ELSE Cardinality(F) + 1
      BY <1>4, FS_AddElement
    <3>3. QED
      BY <3>1, <3>2
  <2>3. Cardinality(H) \in Nat
    BY <2>2, FS_CardinalityType
  <2>4. Cardinality(H) <= MaxInFlight
    BY <2>1, <2>2, <2>3, LimitType
  <2>5. G \subseteq H
    BY <1>3
  <2> HIDE DEF H
  <2>6. IsFiniteSet(G) /\ Cardinality(G) <= MaxInFlight
    BY <2>2, <2>4, <2>5, RoomFits, LimitType
  <2>7. QED
    BY <2>6 DEF G
<1>7. QED
  BY <1>5, <1>6

LEMMA StartKeepsLightInv ==
  ASSUME Init
  PROVE  LightInv
<1>1. ViewInv(view)
  <2>1. {} \in SUBSET Id /\ view = EmptyView({})
    BY DEF Init, GraphInit
  <2>2. QED
    BY <2>1, EmptyViewInv
<1>2. GraphInv
  <2>1. faults = 0 /\ MaxFaults \in Nat
    BY WotAssumption DEF Init, GraphInit
  <2>2. faults \in 0 .. MaxFaults
    BY <2>1
  <2>3. /\ follows = Nobody /\ mutes = Nobody /\ scores = [p \in Pubkey |-> None]
        /\ build = [r \in Build |-> Idle] /\ ready = FALSE /\ basis = None
    BY DEF Init, GraphInit
  <2>4. QED
    BY <1>1, <2>2, <2>3, EmptyGraphKeeps
<1>3. InFlight = {}
  BY DEF Init, InFlight
<1>4. /\ put \in [Id -> {"new", "counting", "appending", "done"}]
      /\ counted \in [Id -> SUBSET Id]
      /\ prune = {} /\ unknown = {}
  BY DEF Init
<1>5. IsFiniteSet(InFlight) /\ Cardinality(InFlight) <= MaxInFlight
  BY <1>3, FS_EmptySet, LimitType
<1>6. TypeOK
  BY <1>2, <1>4, <1>5 DEF TypeOK, GraphInv
<1>7. UnknownPassed
  <2>1. \A e \in Id : put[e] = "new"
    BY DEF Init
  <2>2. QED
    BY <1>4, <2>1 DEF UnknownPassed
<1>8. FiniteStore
  <2>1. view.events = {} /\ \A e \in Id : counted[e] = {}
    BY DEF Init, GraphInit, EmptyView
  <2>2. QED
    BY <1>5, <2>1, FS_EmptySet DEF FiniteStore
<1>9. RoomLeft
  <2> SUFFICES ASSUME NEW p \in Pubkey, NEW D \in SUBSET Id
               PROVE  Places(p, D) = {}
    BY FS_EmptySet, LimitType DEF RoomLeft
  <2>1. Kept(p, D) = {}
    BY <1>4 DEF Kept
  <2>2. MayPass(p, D) = {}
    BY DEF MayPass, Init
  <2>3. QED
    BY <2>1, <2>2 DEF Places
<1>10. QED
  BY <1>1, <1>2, <1>6, <1>7, <1>8, <1>9 DEF LightInv, GraphInv

(* The steps of the graph, and those that change nothing. *)
LEMMA StoreUntouched ==
  ASSUME LightInv, GraphInv', UNCHANGED <<view, put, counted, prune, unknown>>
  PROVE  LightInv'
<1>1. InFlight' = InFlight
  BY DEF InFlight
<1>2. TypeOK'
  BY <1>1 DEF LightInv, TypeOK, GraphInv
<1>3. UnknownPassed' /\ FiniteStore'
  BY <1>1 DEF LightInv, UnknownPassed, FiniteStore
<1>4. RoomLeft'
  <2>1. \A p \in Pubkey : \A D \in SUBSET Id : Places(p, D)' \subseteq Places(p, D)
    BY DEF Places, Kept, MayPass
  <2>2. QED
    BY <2>1, RoomKept DEF LightInv
<1>5. QED
  BY <1>2, <1>3, <1>4 DEF LightInv, GraphInv

LEMMA LightInvFacts ==
  ASSUME LightInv
  PROVE  /\ GraphInv
         /\ put \in [Id -> {"new", "counting", "appending", "done"}]
         /\ counted \in [Id -> SUBSET Id]
         /\ unknown \subseteq Id /\ prune \subseteq Id
         /\ IsFiniteSet(InFlight) /\ Cardinality(InFlight) <= MaxInFlight
         /\ view.indexed \subseteq view.events /\ view.events \subseteq Id
BY DEF LightInv, TypeOK, GraphInv, FiniteStore, ViewInv, View, IndexesAgree

(* A call of an event that is not exempt, or is not counted. *)
LEMMA CallKeepsUnknown ==
  ASSUME UnknownPassed, put \in [Id -> {"new", "counting", "appending", "done"}],
         unknown \subseteq Id, NEW e \in Id, put[e] = "new",
         NEW s \in {"done", "counting", "appending"}, s = "counting" => e \notin Exempt,
         put' = [put EXCEPT ![e] = s], unknown' = unknown
  PROVE  UnknownPassed'
<1>1. \A x \in Id \ {e} : put'[x] = put[x]
  OBVIOUS
<1>2. put'[e] = s
  OBVIOUS
<1>3. \A x \in unknown : x \in Id \ {e}
  BY DEF UnknownPassed
<1>4. \A x \in unknown : put'[x] \in {"appending", "done"} /\ x \notin Exempt
  BY <1>1, <1>3 DEF UnknownPassed
<1>5. \A x \in Id : put'[x] = "counting" => x \notin Exempt
  BY <1>1, <1>2 DEF UnknownPassed
<1>6. QED
  BY <1>4, <1>5 DEF UnknownPassed

(* The calls. *)
LEMMA PutEventKeeps ==
  ASSUME LightInv, NEW e \in Id, PutEvent(e)
  PROVE  LightInv'
<1> DEFINE verdict == IF e \in Exempt THEN "accept" ELSE Verdict(Ev[e].pubkey)
           s == CASE verdict = "reject"    -> "done"
                  [] verdict = "discovery" -> "counting"
                  [] verdict = "accept"    -> "appending"
<1>1. Called(e, s) /\ UNCHANGED <<view, graph, prune, unknown, faults>>
  BY DEF PutEvent
<1>2. counted' = IF verdict = "discovery" THEN [counted EXCEPT ![e] = AuthorEntries(e)] ELSE counted
  BY DEF PutEvent
<1>3. verdict \in {"reject", "discovery", "accept"}
  BY DEF Verdict
<1>4. /\ put[e] = "new" /\ put' = [put EXCEPT ![e] = s]
      /\ Cardinality(InFlight) < MaxInFlight
  BY <1>1 DEF Called
<1>5. s \in {"done", "counting", "appending"} /\ (s = "counting" <=> verdict = "discovery")
  BY <1>3
<1> HIDE DEF s, verdict
<1>6. /\ put' \in [Id -> {"new", "counting", "appending", "done"}]
      /\ IsFiniteSet(InFlight') /\ Cardinality(InFlight') <= MaxInFlight
  BY <1>4, <1>5, FlightFits, LightInvFacts
<1>7. GraphInv'
  BY <1>1, GraphUntouched, LightInvFacts DEF GraphInv, ViewInv
<1>8. AuthorEntries(e) \subseteq view.events
  BY LightInvFacts DEF AuthorEntries
<1>9. counted' \in [Id -> SUBSET Id] /\ \A x \in Id : IsFiniteSet(counted'[x])
  <2>1. AuthorEntries(e) \in SUBSET Id /\ IsFiniteSet(AuthorEntries(e))
    BY <1>8, LightInvFacts, FS_Subset DEF LightInv, FiniteStore
  <2>2. QED
    BY <1>2, <2>1, LightInvFacts DEF LightInv, FiniteStore
<1>10. TypeOK'
  BY <1>1, <1>6, <1>7, <1>9, LightInvFacts DEF TypeOK, GraphInv
<1>11. UnknownPassed'
  <2>1. unknown' = unknown
    BY <1>1
  <2>2. s = "counting" => e \notin Exempt
    BY <1>5 DEF verdict
  <2>3. QED
    BY <1>4, <1>5, <2>1, <2>2, LightInvFacts, CallKeepsUnknown DEF LightInv
<1>12. FiniteStore'
  BY <1>1, <1>6, <1>9 DEF FiniteStore, LightInv
<1>13. RoomLeft'
  <2>1. CASE s = "counting"
    BY <1>1, <1>2, <1>4, <1>5, <1>6, <2>1, LightInvFacts, CountedCallKeepsRoom DEF LightInv
  <2>2. CASE s # "counting"
    BY <1>1, <1>2, <1>4, <1>5, <2>2, LightInvFacts, UncountedCallKeepsRoom DEF LightInv
  <2>3. QED
    BY <2>1, <2>2
<1>14. QED
  BY <1>7, <1>10, <1>11, <1>12, <1>13 DEF LightInv, GraphInv

LEMMA DeleteEventKeeps ==
  ASSUME LightInv, NEW e \in Id, DeleteEvent(e)
  PROVE  LightInv'
<1> DEFINE s == IF Verdict(Ev[e].pubkey) = "reject" THEN "done" ELSE "appending"
<1>1. Called(e, s) /\ UNCHANGED <<view, graph, counted, prune, unknown, faults>>
  BY DEF DeleteEvent
<1>2. /\ put[e] = "new" /\ put' = [put EXCEPT ![e] = s]
      /\ Cardinality(InFlight) < MaxInFlight
  BY <1>1 DEF Called
<1>3. s \in {"done", "appending"}
  OBVIOUS
<1> HIDE DEF s
<1>4. /\ put' \in [Id -> {"new", "counting", "appending", "done"}]
      /\ IsFiniteSet(InFlight') /\ Cardinality(InFlight') <= MaxInFlight
  BY <1>2, <1>3, FlightFits, LightInvFacts
<1>5. GraphInv'
  BY <1>1, GraphUntouched, LightInvFacts DEF GraphInv, ViewInv
<1>6. TypeOK'
  BY <1>1, <1>4, <1>5, LightInvFacts DEF TypeOK, GraphInv
<1>7. UnknownPassed'
  <2>1. unknown' = unknown /\ s # "counting"
    BY <1>1, <1>3
  <2>2. QED
    BY <1>2, <1>3, <2>1, LightInvFacts, CallKeepsUnknown DEF LightInv
<1>8. FiniteStore'
  BY <1>1, <1>4 DEF FiniteStore, LightInv
<1>9. RoomLeft'
  BY <1>1, <1>2, <1>3, LightInvFacts, UncountedCallKeepsRoom DEF LightInv
<1>10. QED
  BY <1>5, <1>6, <1>7, <1>8, <1>9 DEF LightInv, GraphInv

LEMMA CountKeeps ==
  ASSUME LightInv, NEW e \in Id, CountAuthorEvents(e)
  PROVE  LightInv'
<1>1. PICK s \in {"done", "appending"} : put' = [put EXCEPT ![e] = s]
  <2>1. PICK found \in CountFinds(e) :
          put' = [put EXCEPT ![e] = IF Cardinality(found) >= Cap THEN "done" ELSE "appending"]
    BY DEF CountAuthorEvents
  <2>2. QED
    BY <2>1
<1>2. /\ put[e] = "counting"
      /\ unknown' = IF put'[e] = "appending" THEN unknown \cup {e} ELSE unknown
      /\ counted' = [counted EXCEPT ![e] = {}]
      /\ UNCHANGED <<view, graph, prune, faults>>
  BY DEF CountAuthorEvents
<1>3. e \in InFlight
  BY <1>2 DEF InFlight
<1>4. /\ put' \in [Id -> {"new", "counting", "appending", "done"}]
      /\ IsFiniteSet(InFlight') /\ Cardinality(InFlight') <= MaxInFlight
  BY <1>1, <1>3, FlightFits, LightInvFacts
<1>5. GraphInv'
  BY <1>2, GraphUntouched, LightInvFacts DEF GraphInv, ViewInv
<1>6. TypeOK'
  BY <1>2, <1>4, <1>5, LightInvFacts DEF TypeOK, GraphInv
<1>7. UnknownPassed'
  <2>1. e \notin Exempt
    BY <1>2 DEF LightInv, UnknownPassed
  <2>2. QED
    BY <1>1, <1>2, <2>1, LightInvFacts DEF LightInv, UnknownPassed
<1>8. FiniteStore'
  BY <1>2, <1>4, FS_EmptySet, LightInvFacts DEF FiniteStore, LightInv
<1>9. RoomLeft'
  BY LightInvFacts, CountKeepsRoom DEF LightInv
<1>10. QED
  BY <1>5, <1>6, <1>7, <1>8, <1>9 DEF LightInv, GraphInv

(* An op that is applied, of this store or of another writer. *)
LEMMA ViewStepKeeps ==
  ASSUME LightInv, NEW e \in Id, put' = [put EXCEPT ![e] = "done"],
         e \in unknown => put[e] = "appending",
         ViewInv(view'),
         view'.events \subseteq view.events \cup {e},
         view'.indexed \subseteq view.indexed \cup {e},
         UNCHANGED <<graph, counted, prune, unknown, faults>>
  PROVE  LightInv'
<1>1. /\ put' \in [Id -> {"new", "counting", "appending", "done"}]
      /\ IsFiniteSet(InFlight') /\ Cardinality(InFlight') <= MaxInFlight
  BY FlightFits, LightInvFacts
<1>2. GraphInv'
  BY GraphUntouched, LightInvFacts
<1>3. TypeOK'
  BY <1>1, <1>2, LightInvFacts DEF TypeOK, GraphInv
<1>4. UnknownPassed'
  BY LightInvFacts DEF LightInv, UnknownPassed
<1>5. FiniteStore'
  <2>1. IsFiniteSet(view.events \cup {e})
    BY FS_AddElement DEF LightInv, FiniteStore
  <2>2. IsFiniteSet(view'.events)
    BY <2>1, FS_Subset
  <2>3. QED
    BY <1>1, <2>2 DEF FiniteStore, LightInv
<1>6. RoomLeft'
  <2>1. \A x \in Id : put'[x] \in {"appending", "counting"} => put'[x] = put[x]
    BY LightInvFacts
  <2>2. \A x \in unknown : x \in view'.indexed => x \in view.indexed \/ put[x] = "appending"
    OBVIOUS
  <2>3. QED
    BY <2>1, <2>2, LightInvFacts, ViewStepKeepsRoom DEF LightInv
<1>7. QED
  BY <1>2, <1>3, <1>4, <1>5, <1>6 DEF LightInv, GraphInv

LEMMA AppendKeeps ==
  ASSUME LightInv, NEW e \in Id, Append(e)
  PROVE  LightInv'
<1>1. put[e] = "appending" /\ view' = Applied(e) /\ put' = [put EXCEPT ![e] = "done"]
  BY DEF Append
<1>2. UNCHANGED <<graph, counted, prune, unknown, faults>>
  BY DEF Append
<1>3. /\ ViewInv(view')
      /\ view'.events \subseteq view.events \cup {e}
      /\ view'.indexed \subseteq view.indexed \cup {e}
  BY <1>1, AppliedAddsOne DEF LightInv
<1>4. QED
  BY <1>1, <1>2, <1>3, ViewStepKeeps

LEMMA OtherPutKeeps ==
  ASSUME LightInv, NEW e \in Id, OtherPut(e)
  PROVE  LightInv'
<1>1. put[e] = "new" /\ view' = ApplyPut(view, e) /\ put' = [put EXCEPT ![e] = "done"]
  BY DEF OtherPut
<1>2. UNCHANGED <<graph, counted, prune, unknown, faults>>
  BY DEF OtherPut
<1>3. /\ ViewInv(view')
      /\ view'.events \subseteq view.events \cup {e}
      /\ view'.indexed \subseteq view.indexed \cup {e}
  BY <1>1, ApplyPutKeepsInv, PutAddsOne DEF LightInv
<1>4. e \notin unknown
  BY <1>1 DEF LightInv, UnknownPassed
<1>5. QED
  BY <1>1, <1>2, <1>3, <1>4, ViewStepKeeps

LEMMA PruneScanKeeps ==
  ASSUME LightInv, PruneScan
  PROVE  LightInv'
<1>1. UNCHANGED <<view, graph, put, counted, unknown, faults>>
  BY DEF PruneScan
<1>2. prune' \subseteq Id
  BY LightInvFacts DEF PruneScan, Prunable
<1>3. InFlight' = InFlight
  BY <1>1 DEF InFlight
<1>4. GraphInv'
  BY <1>1, GraphUntouched, LightInvFacts DEF GraphInv, ViewInv
<1>5. TypeOK'
  BY <1>1, <1>2, <1>3, <1>4, LightInvFacts DEF TypeOK, GraphInv
<1>6. UnknownPassed' /\ FiniteStore'
  BY <1>1, <1>3 DEF LightInv, UnknownPassed, FiniteStore
<1>7. RoomLeft'
  <2>1. \A p \in Pubkey : \A D \in SUBSET Id : Places(p, D)' \subseteq Places(p, D)
    BY <1>1 DEF Places, Kept, MayPass
  <2>2. QED
    BY <2>1, RoomKept DEF LightInv
<1>8. QED
  BY <1>4, <1>5, <1>6, <1>7 DEF LightInv, GraphInv

LEMMA PruneEventsKeeps ==
  ASSUME LightInv, PruneEvents
  PROVE  LightInv'
<1>1. /\ view' = ApplyPruneDelete(view, Local, prune) /\ prune' = {}
      /\ UNCHANGED <<graph, put, counted, unknown, faults>>
  BY DEF PruneEvents
<1>2. ViewInv(view')
  BY <1>1, PruneDeleteKeepsInv DEF LightInv
<1>3. view'.events \subseteq view.events /\ view'.indexed \subseteq view.indexed
  BY <1>1, PruneTakesAway DEF LightInv
<1>4. InFlight' = InFlight
  BY <1>1 DEF InFlight
<1>5. GraphInv'
  BY <1>1, <1>2, GraphUntouched, LightInvFacts
<1>6. TypeOK'
  BY <1>1, <1>4, <1>5, LightInvFacts DEF TypeOK, GraphInv
<1>7. UnknownPassed'
  BY <1>1 DEF LightInv, UnknownPassed
<1>8. FiniteStore'
  <2>1. IsFiniteSet(view'.events)
    BY <1>3, FS_Subset DEF LightInv, FiniteStore
  <2>2. QED
    BY <1>1, <1>4, <2>1 DEF LightInv, FiniteStore
<1>9. RoomLeft'
  <2>1. \A x \in Id : put'[x] \in {"appending", "counting"} => put'[x] = put[x]
    BY <1>1
  <2>2. \A x \in unknown : x \in view'.indexed => x \in view.indexed \/ put[x] = "appending"
    BY <1>3
  <2>3. QED
    BY <1>1, <2>1, <2>2, LightInvFacts, ViewStepKeepsRoom DEF LightInv
<1>10. QED
  BY <1>5, <1>6, <1>7, <1>8, <1>9 DEF LightInv, GraphInv

LEMMA RestartKeeps ==
  ASSUME LightInv, Restart
  PROVE  LightInv'
<1>1. /\ faults < MaxFaults /\ faults' = faults + 1 /\ view' = view
      /\ put' = [e \in Id |-> IF e \in InFlight THEN "new" ELSE put[e]]
      /\ counted' = [e \in Id |-> {}]
      /\ prune' = {} /\ unknown' = unknown \ InFlight
  BY DEF Restart
<1>2. GraphInv'
  <2>1. faults' \in 0 .. MaxFaults
    BY <1>1, WotAssumption DEF LightInv, TypeOK, GraphTypeOK
  <2>2. RestartGraph
    BY DEF Restart
  <2>3. QED
    BY <1>1, <2>1, <2>2, LightInvFacts, RestartGraphKeeps
<1>3. \A e \in Id : put'[e] \in {"new", "done"} /\ (put'[e] = "done" => put[e] = "done")
  BY <1>1, LightInvFacts DEF InFlight
<1>4. InFlight' = {}
  BY <1>3 DEF InFlight
<1>5. put' \in [Id -> {"new", "counting", "appending", "done"}]
  BY <1>1, LightInvFacts
<1>6. IsFiniteSet(InFlight') /\ Cardinality(InFlight') <= MaxInFlight
  BY <1>4, FS_EmptySet, LimitType
<1>7. TypeOK'
  BY <1>1, <1>2, <1>5, <1>6, LightInvFacts DEF TypeOK, GraphInv
<1>8. UnknownPassed'
  <2>1. ASSUME NEW e \in unknown'
        PROVE  put'[e] \in {"appending", "done"} /\ e \notin Exempt
    <3>1. e \in unknown /\ e \notin InFlight /\ e \in Id
      BY <1>1, LightInvFacts
    <3>2. put'[e] = put[e]
      BY <1>1, <3>1
    <3>3. QED
      BY <3>1, <3>2 DEF LightInv, UnknownPassed
  <2>2. \A e \in Id : put'[e] # "counting"
    BY <1>3
  <2>3. QED
    BY <2>1, <2>2 DEF UnknownPassed
<1>9. FiniteStore'
  BY <1>1, <1>6, FS_EmptySet DEF LightInv, FiniteStore
<1>10. RoomLeft'
  <2>1. ASSUME NEW p \in Pubkey, NEW D \in SUBSET Id
        PROVE  Places(p, D)' \subseteq Places(p, D)
    <3>1. MayPass(p, D)' = {}
      BY <1>3 DEF MayPass
    <3>2. Kept(p, D)' \subseteq Kept(p, D)
      BY <1>1, <1>3, LightInvFacts DEF Kept
    <3>3. QED
      BY <3>1, <3>2 DEF Places
  <2>2. QED
    BY <2>1, RoomKept DEF LightInv
<1>11. QED
  BY <1>2, <1>7, <1>8, <1>9, <1>10 DEF LightInv, GraphInv

-----------------------------------------------------------------------------
LEMMA RefreshKeeps ==
  ASSUME LightInv, NEW r \in Build, Refresh(r), UNCHANGED <<put, counted, prune, unknown>>
  PROVE  LightInv'
<1>1. GraphInv
  BY LightInvFacts
<1>2. CASE BeginRebuild(r)
  BY <1>1, <1>2, BeginRebuildKeeps, StoreUntouched DEF BeginRebuild
<1>3. CASE \E e \in build[r].left : ScanList(r, e)
  BY <1>1, <1>3, ScanListKeeps, StoreUntouched DEF ScanList
<1>4. CASE BeginMutes(r)
  BY <1>1, <1>4, BeginMutesKeeps, StoreUntouched DEF BeginMutes
<1>5. CASE Complete(r)
  BY <1>1, <1>5, CompleteKeeps, StoreUntouched DEF Complete
<1>6. QED
  BY <1>2, <1>3, <1>4, <1>5 DEF Refresh

LEMMA StepKeepsLightInv ==
  ASSUME LightInv, [Next]_vars
  PROVE  LightInv'
<1>1. CASE RefreshGraph
  BY <1>1, RefreshKeeps DEF RefreshGraph
<1>2. CASE \E r \in Build : FailRebuild(r) /\ UNCHANGED <<put, counted, prune, unknown>>
  BY <1>2, FailRebuildKeeps, StoreUntouched, LightInvFacts DEF FailRebuild
<1>3. ASSUME NEW e \in Id, PutEvent(e) \/ DeleteEvent(e) \/ OtherPut(e) \/ Settling(e)
      PROVE  LightInv'
  BY <1>3, PutEventKeeps, DeleteEventKeeps, OtherPutKeeps, CountKeeps, AppendKeeps DEF Settling
<1>4. CASE PruneScan
  BY <1>4, PruneScanKeeps
<1>5. CASE PruneEvents
  BY <1>5, PruneEventsKeeps
<1>6. CASE Restart
  BY <1>6, RestartKeeps
<1>7. CASE UNCHANGED vars
  <2>1. UNCHANGED <<view, put, counted, prune, unknown, graph, faults>>
    BY <1>7 DEF vars
  <2>2. GraphInv'
    BY <2>1, GraphUntouched, LightInvFacts DEF GraphInv, ViewInv
  <2>3. QED
    BY <2>1, <2>2, StoreUntouched
<1>8. QED
  BY <1>1, <1>2, <1>3, <1>4, <1>5, <1>6, <1>7 DEF Next

LEMMA LightInvariance == Spec => []LightInv
<1>1. Init => LightInv
  BY StartKeepsLightInv
<1>2. LightInv /\ [Next]_vars => LightInv'
  BY StepKeepsLightInv
<1>3. QED
  BY <1>1, <1>2, PTL DEF Spec

LEMMA RoomCaps ==
  ASSUME LightInv
  PROVE  DiscoveryCapped
<1> SUFFICES ASSUME NEW p \in Pubkey
             PROVE  Cardinality({e \in unknown \cap view.indexed : Ev[e].pubkey = p})
                      <= Cap + MaxInFlight - 1
  BY DEF DiscoveryCapped
<1> DEFINE P == {e \in unknown \cap view.indexed : Ev[e].pubkey = p}
           Q == Places(p, {})
<1>1. P \subseteq Q
  BY DEF Places, Kept
<1>2. IsFiniteSet(Q) /\ Cardinality(Q) <= Cap + MaxInFlight - 1
  BY DEF LightInv, RoomLeft
<1> HIDE DEF P, Q
<1>3. IsFiniteSet(P) /\ Cardinality(P) <= Cap + MaxInFlight - 1
  BY <1>1, <1>2, RoomFits, LimitType
<1>4. QED
  BY <1>3 DEF P

(***************************************************************************)
(* Every variable of the light store and of its web of trust has its type. *)
(***************************************************************************)
THEOREM LightTypeCorrect == Spec => []TypeOK
<1>1. LightInv => TypeOK
  BY DEF LightInv
<1>2. QED
  BY <1>1, LightInvariance, PTL

(***************************************************************************)
(* A verdict agrees with the lists that the last complete rebuild read,    *)
(* whatever a rebuild under way has cleared or read so far, for any number *)
(* of rebuilds under way, of lists and of authors.                         *)
(***************************************************************************)
THEOREM VerdictsFollowLists == Spec => []MutesHold
<1>1. LightInv => MutesHold
  BY LightInvFacts, VerdictsAgree
<1>2. QED
  BY <1>1, LightInvariance, PTL

(***************************************************************************)
(* The cap of countAuthorEvents, read across an await, is passed by at     *)
(* most the other puts in flight, for every cap and every bound on these,  *)
(* over deletes, pruning, rebuilds and restarts.                           *)
(***************************************************************************)
THEOREM CapHolds == Spec => []DiscoveryCapped
<1>1. LightInv => DiscoveryCapped
  BY RoomCaps
<1>2. QED
  BY <1>1, LightInvariance, PTL
=============================================================================
