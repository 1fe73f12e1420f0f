--------------------------- MODULE Admission_proofs ---------------------------
(***************************************************************************)
(* Admission keeps its invariants for every set of nodes, connections and  *)
(* stray requests, every cap and every budget.  The inductive invariant    *)
(* adds to the checked ones that the settled view is consistent, where the *)
(* requests on a channel come from, and that evaluations run at granters.  *)
(***************************************************************************)
EXTENDS Admission, StoreView_proofs

(* A request on a channel is the joiner's own, proved there, or a stray. *)
Wired ==
  \A c \in Conn : \A req \in channel[c] :
    /\ conn[c] # None
    /\ \/ req \in Strays
       \/ /\ req = [key |-> conn[c].joiner,
                    proof |-> [invited |-> TRUE, conn |-> c, key |-> conn[c].joiner]]
          /\ conn[c].joiner \in RequestWriter

Evaluating == IsFiniteSet(evals) /\ \A e \in evals : granter(e) \in AutoAdmit

IInv ==
  /\ TypeOK
  /\ ViewInv(base)
  /\ Wired
  /\ Evaluating
  /\ OnlyProvenAdmitted
  /\ BudgetsConserved

-----------------------------------------------------------------------------
LEMMA MinOfTwo ==
  ASSUME NEW a \in Nat, NEW b \in Nat
  PROVE  Min({a, b}) \in Nat /\ Min({a, b}) <= a /\ Min({a, b}) <= b
<1>1. \E x \in {a, b} : \A y \in {a, b} : x <= y
  <2>1. CASE a <= b
    BY <2>1
  <2>2. CASE b <= a
    BY <2>2
  <2>3. QED
    BY <2>1, <2>2
<1>2. Min({a, b}) \in {a, b} /\ \A y \in {a, b} : Min({a, b}) <= y
  BY <1>1 DEF Min
<1>3. QED
  BY <1>2

(* The types an action's case needs of the state it starts from. *)
LEMMA NodesAreKeys ==
  /\ AutoAdmit \subseteq Key
  /\ RequestWriter \subseteq Key
  /\ Burst \in Nat /\ RequestBurst \in Nat /\ MaxPerConn \in Nat /\ MaxRefills \in Nat
  BY AdmissionAssumption

(* An open connection stays as it is. *)
LEMMA ConnectionsStay ==
  ASSUME TypeOK, Next, NEW c \in Conn, conn[c] # None
  PROVE  conn'[c] = conn[c]
  BY DEF TypeOK, Next, Attach, Stray, OnRequest, Dedup, Get, Count, AppendFails,
         RefillAdmissions, RefillRequests,
         Linearise, Sync, baseVars, wireVars, bucketVars, history

-----------------------------------------------------------------------------
LEMMA InitIInv == Init => IInv
<1> SUFFICES ASSUME Init PROVE IInv
  OBVIOUS
<1>1. ViewInv(base)
  BY EmptyViewInv DEF Init
<1>2. base \in View
  BY <1>1 DEF ViewInv
<1>3. TypeOK
  BY <1>2, NodesAreKeys DEF Init, TypeOK
<1>4. Wired /\ Evaluating
  BY FS_EmptySet DEF Init, Wired, Evaluating
<1>5. OnlyProvenAdmitted
  <2>1. base.addedBy = [k \in Key |-> None]
    BY DEF Init, EmptyView
  <2>2. Writers(base) = {}
    BY <2>1 DEF Writers
  <2>3. QED
    BY <2>2 DEF Init, OnlyProvenAdmitted
<1>6. BudgetsConserved
  <2>1. SUFFICES ASSUME NEW g \in AutoAdmit
                 PROVE  /\ tokens[g] + Cardinality(Charged(g)) + appended[g] <= Burst + refills[g]
                        /\ budget[g] + begun[g] <= RequestBurst + renewals[g]
    BY DEF BudgetsConserved
  <2>2. Charged(g) = {}
    BY DEF Init, Charged
  <2>3. Cardinality(Charged(g)) = 0
    BY <2>2, FS_EmptySet
  <2>4. /\ tokens[g] = Burst /\ appended[g] = 0 /\ refills[g] = 0 /\ renewals[g] = 0
        /\ budget[g] = RequestBurst /\ begun[g] = 0
    BY DEF Init
  <2>5. QED
    BY <2>3, <2>4, NodesAreKeys
<1>7. QED
  BY <1>1, <1>3, <1>4, <1>5, <1>6 DEF IInv

-----------------------------------------------------------------------------
(* Only Linearise changes the settled view, on behalf of a writer of it. *)
LEMMA ViewStep ==
  ASSUME IInv, Next
  PROVE  ViewInv(base')
<1>1. ViewInv(base) /\ log \subseteq Op
  BY DEF IInv, TypeOK
<1>2. ASSUME NEW op \in log, Linearise(op)
      PROVE  ViewInv(base')
  <2>1. op.from \in MayWrite(base) /\ op.key \in Key
    BY <1>1, <1>2 DEF Linearise, Op
  <2>2. QED
    BY <1>1, <1>2, <2>1, AddWriterKeepsInv DEF Linearise
<1>3. QED
  BY <1>1, <1>2 DEF Next, Attach, Stray, OnRequest, Dedup, Get, Count, AppendFails,
                    RefillAdmissions, RefillRequests,
                    Sync, baseVars, wireVars, bucketVars, history

(* What the types say of an evaluation and of its granter's bucket. *)
LEMMA EvalTypes ==
  ASSUME IInv, NEW e \in evals
  PROVE  /\ e \in Eval
         /\ granter(e) \in AutoAdmit
         /\ tokens[granter(e)] \in 0 .. Burst
         /\ tokens \in [AutoAdmit -> 0 .. Burst]
  BY DEF IInv, TypeOK, Evaluating

LEMMA MovesType ==
  ASSUME IInv, NEW e \in evals, NEW pc \in {"dedup", "get", "count"}, Moves(e, pc) \/ Replies(e)
  PROVE  evals' \subseteq Eval
<1>1. evals \subseteq Eval /\ e \in Eval
  BY DEF IInv, TypeOK
<1>2. [e EXCEPT !.pc = pc] \in Eval
  BY <1>1 DEF Eval
<1>3. QED
  BY <1>1, <1>2 DEF Moves, Replies

LEMMA RefundType ==
  ASSUME TypeOK, NEW g \in AutoAdmit, Refund(g)
  PROVE  tokens' \in [AutoAdmit -> 0 .. Burst]
<1>1. tokens \in [AutoAdmit -> 0 .. Burst] /\ tokens[g] + 1 \in Nat /\ Burst \in Nat
  BY NodesAreKeys DEF TypeOK
<1>2. Min({Burst, tokens[g] + 1}) \in 0 .. Burst
  BY <1>1, MinOfTwo
<1>3. QED
  BY <1>1, <1>2 DEF Refund

(* Attaching, and the messages that arrive on a channel. *)
LEMMA AttachKeepsType ==
  ASSUME TypeOK, NEW c \in Conn, NEW j \in Key, NEW g \in Key, Attach(c, j, g)
  PROVE  TypeOK'
<1>1. conn' \in [Conn -> Ends \cup {None}]
  BY DEF TypeOK, Attach, Ends
<1>2. channel' \in [Conn -> SUBSET Request]
  <2>1. [key |-> j, proof |-> [invited |-> TRUE, conn |-> c, key |-> j]] \in Request
    BY DEF Request
  <2>2. QED
    BY <2>1 DEF TypeOK, Attach
<1>3. QED
  BY <1>1, <1>2 DEF TypeOK, Attach, baseVars, bucketVars, history

LEMMA StrayKeepsType ==
  ASSUME TypeOK, NEW c \in Conn, NEW req \in Strays, Stray(c, req)
  PROVE  TypeOK'
<1>1. channel' \in [Conn -> SUBSET Request]
  BY AdmissionAssumption DEF TypeOK, Stray
<1>2. QED
  BY <1>1 DEF TypeOK, Stray, baseVars, bucketVars, history

LEMMA OnRequestKeepsType ==
  ASSUME TypeOK, NEW c \in Conn, NEW req \in channel[c], OnRequest(c, req)
  PROVE  TypeOK'
<1> DEFINE g == conn[c].granter
<1>1. channel' \in [Conn -> SUBSET Request] /\ req \in Request
  BY DEF TypeOK, OnRequest
<1>2. handled' \in [Conn -> 0 .. MaxPerConn]
  <2>1. handled \in [Conn -> 0 .. MaxPerConn] /\ MaxPerConn \in Nat
    BY NodesAreKeys DEF TypeOK
  <2>2. handled' = handled \/ (handled[c] < MaxPerConn /\ handled' = [handled EXCEPT ![c] = @ + 1])
    BY DEF OnRequest
  <2>3. QED
    BY <2>1, <2>2
<1>3. budget' \in [AutoAdmit -> 0 .. RequestBurst] /\ begun' \in [AutoAdmit -> Nat]
  <2>1. budget \in [AutoAdmit -> 0 .. RequestBurst] /\ begun \in [AutoAdmit -> Nat] /\ RequestBurst \in Nat
    BY NodesAreKeys DEF TypeOK
  <2>2. \/ budget' = budget /\ begun' = begun
        \/ /\ g \in AutoAdmit /\ budget[g] >= 1
           /\ budget' = [budget EXCEPT ![g] = @ - 1]
           /\ begun' = [begun EXCEPT ![g] = @ + 1]
    BY DEF OnRequest
  <2>3. QED
    BY <2>1, <2>2
<1>4. evals' \subseteq Eval
  <2>1. \/ evals' = evals
        \/ /\ handled[c] < MaxPerConn
           /\ evals' = evals \cup {[conn |-> c, nr |-> handled[c] + 1, key |-> req.key, pc |-> "dedup"]}
    BY DEF OnRequest
  <2>2. handled[c] \in Nat /\ req.key \in Key /\ evals \subseteq Eval /\ MaxPerConn \in Nat
    BY <1>1, NodesAreKeys DEF TypeOK, Request
  <2>3. handled[c] < MaxPerConn => handled[c] + 1 \in 1 .. MaxPerConn
    BY <2>2
  <2>4. QED
    BY <2>1, <2>2, <2>3 DEF Eval
<1>5. QED
  BY <1>1, <1>2, <1>3, <1>4 DEF TypeOK, OnRequest, baseVars

-----------------------------------------------------------------------------
(* The continuations of an evaluation. *)
LEMMA DedupKeepsType ==
  ASSUME IInv, NEW e \in evals, Dedup(e)
  PROVE  TypeOK'
<1> DEFINE g == granter(e)
<1>1. evals' \subseteq Eval
  BY MovesType DEF Dedup
<1>2. tokens' \in [AutoAdmit -> 0 .. Burst]
  <2>1. \/ tokens' = tokens
        \/ tokens[g] >= 1 /\ tokens' = [tokens EXCEPT ![g] = @ - 1]
    BY DEF Dedup, Consume
  <2>2. QED
    BY <2>1, EvalTypes, NodesAreKeys
<1>3. QED
  BY <1>1, <1>2 DEF IInv, TypeOK, Dedup, baseVars, wireVars, history

LEMMA GetKeepsType ==
  ASSUME IInv, NEW e \in evals, Get(e)
  PROVE  TypeOK'
<1>1. evals' \subseteq Eval
  BY MovesType DEF Get
<1>2. tokens' \in [AutoAdmit -> 0 .. Burst]
  BY EvalTypes, RefundType DEF Get, IInv
<1>3. QED
  BY <1>1, <1>2 DEF IInv, TypeOK, Get, baseVars, wireVars, history

LEMMA CountKeepsType ==
  ASSUME IInv, NEW e \in evals, Count(e)
  PROVE  TypeOK'
<1> DEFINE g == granter(e)
           op == [from |-> g, key |-> e.key, conn |-> e.conn, nr |-> e.nr]
<1>1. evals' \subseteq Eval
  BY MovesType DEF Count
<1>2. tokens' \in [AutoAdmit -> 0 .. Burst]
  BY EvalTypes, RefundType DEF Count, IInv
<1>3. op \in Op
  BY EvalTypes, NodesAreKeys DEF Eval, Op
<1>4. log' \subseteq Op
  BY <1>3 DEF IInv, TypeOK, Count
<1>5. appended' \in [AutoAdmit -> Nat]
  BY EvalTypes DEF IInv, TypeOK, Count
<1>6. QED
  BY <1>1, <1>2, <1>4, <1>5 DEF IInv, TypeOK, Count, wireVars

LEMMA AppendFailsKeepsType ==
  ASSUME IInv, NEW e \in evals, AppendFails(e)
  PROVE  TypeOK'
<1>1. evals' \subseteq Eval
  BY MovesType DEF AppendFails
<1>2. QED
  BY <1>1 DEF IInv, TypeOK, AppendFails, baseVars, wireVars, bucketVars, history

LEMMA RefillKeepsType ==
  ASSUME TypeOK, NEW g \in AutoAdmit, RefillAdmissions(g) \/ RefillRequests(g)
  PROVE  TypeOK'
<1>1. /\ tokens \in [AutoAdmit -> 0 .. Burst] /\ tokens[g] + 1 \in Nat
      /\ budget \in [AutoAdmit -> 0 .. RequestBurst] /\ budget[g] + 1 \in Nat
      /\ refills \in [AutoAdmit -> Nat] /\ renewals \in [AutoAdmit -> Nat]
  BY NodesAreKeys DEF TypeOK
<1>2. tokens' \in [AutoAdmit -> 0 .. Burst]
  <2>1. Min({Burst, tokens[g] + 1}) \in 0 .. Burst
    BY <1>1, MinOfTwo, NodesAreKeys
  <2>2. QED
    BY <1>1, <2>1 DEF RefillAdmissions, RefillRequests
<1>3. budget' \in [AutoAdmit -> 0 .. RequestBurst]
  <2>1. Min({RequestBurst, budget[g] + 1}) \in 0 .. RequestBurst
    BY <1>1, MinOfTwo, NodesAreKeys
  <2>2. QED
    BY <1>1, <2>1 DEF RefillAdmissions, RefillRequests
<1>4. refills' \in [AutoAdmit -> Nat] /\ renewals' \in [AutoAdmit -> Nat]
  BY <1>1 DEF RefillAdmissions, RefillRequests
<1>5. QED
  BY <1>2, <1>3, <1>4 DEF TypeOK, RefillAdmissions, RefillRequests, baseVars, wireVars, history

(* The order of the ops, and what each node has of it. *)
LEMMA LineariseKeepsType ==
  ASSUME IInv, Next, NEW op \in log, Linearise(op)
  PROVE  TypeOK'
<1>1. base' \in View
  BY ViewStep DEF ViewInv
<1>2. log' \subseteq Op /\ wasted' \subseteq Op
  BY DEF IInv, TypeOK, Linearise
<1>3. QED
  BY <1>1, <1>2 DEF IInv, TypeOK, Linearise, wireVars, bucketVars

LEMMA SyncKeepsType ==
  ASSUME IInv, NEW n \in Key, NEW W \in SUBSET Key, Sync(n, W)
  PROVE  TypeOK'
<1>1. Founder \notin W
  BY DEF IInv, ViewInv, AdmissionsRooted, Sync
<1>2. known' \in [Key -> SUBSET (Key \ {Founder})]
  BY <1>1 DEF IInv, TypeOK, Sync
<1>3. QED
  BY <1>2 DEF IInv, TypeOK, Sync, wireVars, bucketVars, history

LEMMA TypeStep ==
  ASSUME IInv, Next
  PROVE  TypeOK'
<1>1. TypeOK
  BY DEF IInv
<1>2. CASE \E c \in Conn, j \in Key, g \in Key : Attach(c, j, g)
  BY <1>1, <1>2, AttachKeepsType
<1>3. CASE \E c \in Conn, req \in Strays : Stray(c, req)
  BY <1>1, <1>3, StrayKeepsType
<1>4. CASE \E c \in Conn : \E req \in channel[c] : OnRequest(c, req)
  BY <1>1, <1>4, OnRequestKeepsType
<1>5. CASE \E e \in evals : Dedup(e) \/ Get(e) \/ Count(e) \/ AppendFails(e)
  BY <1>5, DedupKeepsType, GetKeepsType, CountKeepsType, AppendFailsKeepsType
<1>6. CASE \E g \in AutoAdmit : RefillAdmissions(g) \/ RefillRequests(g)
  BY <1>1, <1>6, RefillKeepsType
<1>7. CASE \E op \in log : Linearise(op)
  BY <1>7, LineariseKeepsType
<1>8. CASE \E n \in Key, W \in SUBSET Key : Sync(n, W)
  BY <1>8, SyncKeepsType
<1>9. QED
  BY <1>2, <1>3, <1>4, <1>5, <1>6, <1>7, <1>8 DEF Next

-----------------------------------------------------------------------------
(* Requests reach a channel from its joiner, when it opens, or as strays. *)
LEMMA WiredStep ==
  ASSUME IInv, Next
  PROVE  Wired'
<1>1. TypeOK /\ Wired
  BY DEF IInv
<1>2. SUFFICES ASSUME NEW c \in Conn, NEW req \in channel'[c]
               PROVE  /\ conn'[c] # None
                      /\ \/ req \in Strays
                         \/ /\ req = [key |-> conn'[c].joiner,
                                      proof |-> [invited |-> TRUE, conn |-> c, key |-> conn'[c].joiner]]
                            /\ conn'[c].joiner \in RequestWriter
  BY DEF Wired
<1>3. CASE req \in channel[c]
  BY <1>1, <1>3, ConnectionsStay DEF Wired
<1>4. CASE req \notin channel[c]
  <2>1. channel \in [Conn -> SUBSET Request] /\ conn \in [Conn -> Ends \cup {None}]
    BY <1>1 DEF TypeOK
  <2>2. ASSUME NEW d \in Conn, NEW j \in Key, NEW g \in Key, Attach(d, j, g)
        PROVE  /\ conn'[c] # None
               /\ req = [key |-> conn'[c].joiner,
                         proof |-> [invited |-> TRUE, conn |-> c, key |-> conn'[c].joiner]]
               /\ conn'[c].joiner \in RequestWriter
    <3>1. /\ d = c /\ j \in RequestWriter
          /\ req = [key |-> j, proof |-> [invited |-> TRUE, conn |-> c, key |-> j]]
      BY <1>4, <2>1, <2>2 DEF Attach
    <3>2. conn'[c] = [joiner |-> j, granter |-> g]
      BY <2>1, <2>2, <3>1 DEF Attach
    <3>3. QED
      BY <3>1, <3>2, AdmissionAssumption
  <2>3. ASSUME NEW d \in Conn, NEW r \in Strays, Stray(d, r)
        PROVE  conn'[c] # None /\ req \in Strays
    BY <1>4, <2>1, <2>3 DEF Stray
  <2>4. ASSUME NEW d \in Conn, NEW r \in channel[d], OnRequest(d, r)
        PROVE  FALSE
    BY <1>4, <2>1, <2>4 DEF OnRequest
  <2>5. QED
    BY <1>4, <2>2, <2>3, <2>4 DEF Next, Dedup, Get, Count, AppendFails,
                                  RefillAdmissions, RefillRequests, Linearise, Sync, wireVars
<1>5. QED
  BY <1>3, <1>4

(***************************************************************************)
(* How a step may change the evaluations: a request begins one, and its    *)
(* granter opted in and its proof matched; an evaluation moves or ends.    *)
(***************************************************************************)
LEMMA EvalsChange ==
  ASSUME IInv, Next
  PROVE  \/ evals' = evals
         \/ \E c \in Conn : \E req \in channel[c] :
              /\ conn[c] # None /\ conn[c].granter \in AutoAdmit
              /\ Proven(c, req.key)
              /\ evals' = evals \cup {[conn |-> c, nr |-> handled[c] + 1, key |-> req.key, pc |-> "dedup"]}
         \/ \E e \in evals : Replies(e) \/ \E pc \in {"get", "count"} : Moves(e, pc)
<1>1. ASSUME NEW c \in Conn, NEW req \in channel[c], OnRequest(c, req)
      PROVE  \/ evals' = evals
             \/ /\ conn[c] # None /\ conn[c].granter \in AutoAdmit
                /\ Proven(c, req.key)
                /\ evals' = evals \cup {[conn |-> c, nr |-> handled[c] + 1, key |-> req.key, pc |-> "dedup"]}
  <2>1. /\ conn[c] # None
        /\ \/ req \in Strays
           \/ /\ req = [key |-> conn[c].joiner,
                        proof |-> [invited |-> TRUE, conn |-> c, key |-> conn[c].joiner]]
              /\ conn[c].joiner \in RequestWriter
        /\ req \in Request
    BY DEF IInv, Wired, TypeOK
  <2>2. ASSUME ProofMatches(c, req)
        PROVE  Proven(c, req.key)
    <3>1. CASE req \in Strays
      <4>1. req.proof = [invited |-> TRUE, conn |-> c, key |-> req.key]
        BY <2>1, <2>2 DEF Request, ProofMatches
      <4>2. req = [key |-> req.key, proof |-> [invited |-> TRUE, conn |-> c, key |-> req.key]]
        BY <2>1, <4>1 DEF Request
      <4>3. QED
        BY <3>1, <4>2 DEF Proven
    <3>2. CASE req \notin Strays
      BY <2>1, <3>2 DEF Proven
    <3>3. QED
      BY <3>1, <3>2
  <2>3. QED
    BY <1>1, <2>1, <2>2 DEF OnRequest
<1>2. ASSUME NEW e \in evals, Dedup(e) \/ Get(e) \/ Count(e) \/ AppendFails(e)
      PROVE  Replies(e) \/ \E pc \in {"get", "count"} : Moves(e, pc)
  BY <1>2 DEF Dedup, Get, Count, AppendFails
<1>3. QED
  BY <1>1, <1>2 DEF Next, Attach, Stray, RefillAdmissions, RefillRequests, Linearise, Sync, history

LEMMA EvaluatingStep ==
  ASSUME IInv, Next
  PROVE  Evaluating' /\ \A e \in evals' : conn'[e.conn] # None /\ Proven(e.conn, e.key)'
<1> DEFINE Good(e) == /\ e.conn \in Conn /\ conn[e.conn] # None
                      /\ granter(e) \in AutoAdmit /\ Proven(e.conn, e.key)
<1>1. TypeOK /\ IsFiniteSet(evals) /\ evals \subseteq Eval
  BY DEF IInv, TypeOK, Evaluating
<1>2. \A e \in evals : Good(e)
  BY <1>1 DEF IInv, Evaluating, OnlyProvenAdmitted, Eval
<1>3. IsFiniteSet(evals') /\ \A e \in evals' : Good(e)
  <2>1. CASE evals' = evals
    BY <1>1, <1>2, <2>1
  <2>2. CASE \E c \in Conn : \E req \in channel[c] :
               /\ conn[c] # None /\ conn[c].granter \in AutoAdmit
               /\ Proven(c, req.key)
               /\ evals' = evals \cup {[conn |-> c, nr |-> handled[c] + 1, key |-> req.key, pc |-> "dedup"]}
    <3>1. PICK c \in Conn, req \in Request :
                 /\ conn[c] # None /\ conn[c].granter \in AutoAdmit /\ Proven(c, req.key)
                 /\ evals' = evals \cup {[conn |-> c, nr |-> handled[c] + 1, key |-> req.key, pc |-> "dedup"]}
      <4>1. \A c \in Conn : channel[c] \subseteq Request
        BY <1>1 DEF TypeOK
      <4>2. QED
        BY <2>2, <4>1
    <3> DEFINE x == [conn |-> c, nr |-> handled[c] + 1, key |-> req.key, pc |-> "dedup"]
    <3>2. Good(x)
      BY <3>1 DEF granter
    <3>3. IsFiniteSet(evals \cup {x})
      BY <1>1, FS_AddElement
    <3>4. QED
      BY <1>2, <3>1, <3>2, <3>3
  <2>3. ASSUME NEW e \in evals, Replies(e)
        PROVE  IsFiniteSet(evals') /\ \A x \in evals' : Good(x)
    BY <1>1, <1>2, <2>3, FS_RemoveElement DEF Replies
  <2>4. ASSUME NEW e \in evals, NEW pc, Moves(e, pc)
        PROVE  IsFiniteSet(evals') /\ \A x \in evals' : Good(x)
    <3>1. IsFiniteSet(evals \ {e}) /\ IsFiniteSet((evals \ {e}) \cup {[e EXCEPT !.pc = pc]})
      BY <1>1, FS_RemoveElement, FS_AddElement
    <3>2. /\ e \in Eval
          /\ [e EXCEPT !.pc = pc].conn = e.conn
          /\ [e EXCEPT !.pc = pc].key = e.key
      BY <1>1 DEF Eval
    <3>3. Good([e EXCEPT !.pc = pc])
      BY <1>2, <3>2 DEF granter
    <3>4. QED
      BY <1>2, <2>4, <3>1, <3>3 DEF Moves
  <2>5. QED
    BY <2>1, <2>2, <2>3, <2>4, EvalsChange
<1>4. \A e : Good(e) => conn'[e.conn] = conn[e.conn]
  BY <1>1, ConnectionsStay
<1>5. QED
  BY <1>3, <1>4 DEF Evaluating, granter, Proven

(* An op is appended for an evaluation; a writer is admitted by an op. *)
LEMMA OnlyProvenStep ==
  ASSUME IInv, Next
  PROVE  OnlyProvenAdmitted'
<1> DEFINE Fine(c, k) == c \in Conn /\ conn[c] # None /\ Proven(c, k)
<1>1. /\ TypeOK /\ OnlyProvenAdmitted
      /\ evals \subseteq Eval /\ log \subseteq Op /\ wasted \subseteq Op
  BY DEF IInv, TypeOK
<1>2. /\ \A e \in evals : Fine(e.conn, e.key)
      /\ \A op \in log \cup wasted : Fine(op.conn, op.key)
      /\ \A k \in Writers(base) : \E c \in Conn : Fine(c, k)
  BY <1>1 DEF OnlyProvenAdmitted, Eval, Op
<1>3. \A c, k : Fine(c, k) => conn'[c] # None /\ Proven(c, k)'
  BY <1>1, ConnectionsStay DEF Proven
<1>4. \A op \in log' \cup wasted' : Fine(op.conn, op.key)
  <2>1. ASSUME NEW e \in evals, Count(e)
        PROVE  \A op \in log' \cup wasted' : Fine(op.conn, op.key)
    <3>1. wasted' = wasted
      BY <2>1 DEF Count
    <3>2. \/ log' = log
          \/ log' = log \cup {[from |-> granter(e), key |-> e.key, conn |-> e.conn, nr |-> e.nr]}
      BY <2>1 DEF Count
    <3>3. QED
      BY <1>2, <3>1, <3>2
  <2>2. ASSUME NEW op \in log, Linearise(op)
        PROVE  log' \cup wasted' \subseteq log \cup wasted
    BY <2>2 DEF Linearise
  <2>3. QED
    BY <1>2, <2>1, <2>2 DEF Next, Attach, Stray, OnRequest, Dedup, Get, AppendFails,
                            RefillAdmissions, RefillRequests, Sync,
                            baseVars, history
<1>5. \A k \in Writers(base') : \E c \in Conn : Fine(c, k)
  <2>1. ASSUME NEW op \in log, Linearise(op)
        PROVE  Writers(base') \subseteq Writers(base) \cup {op.key}
    <3>1. base \in View
      BY <1>1 DEF TypeOK
    <3>2. base' = base \/ base' = [base EXCEPT !.addedBy[op.key] = op.from]
      BY <2>1 DEF Linearise, ApplyAddWriter
    <3>3. \A k \in Key : k # op.key => base'.addedBy[k] = base.addedBy[k]
      BY <3>1, <3>2 DEF View
    <3>4. QED
      BY <3>3 DEF Writers
  <2>2. CASE \E op \in log : Linearise(op)
    BY <1>2, <2>1, <2>2
  <2>3. CASE ~ \E op \in log : Linearise(op)
    <3>1. base' = base
      BY <2>3 DEF Next, Attach, Stray, OnRequest, Dedup, Get, Count, AppendFails,
                  RefillAdmissions, RefillRequests, Sync, baseVars
    <3>2. QED
      BY <1>2, <3>1
  <2>4. QED
    BY <2>2, <2>3
<1>6. \A e \in evals' : conn'[e.conn] # None /\ Proven(e.conn, e.key)'
  BY EvaluatingStep
<1>7. \A k \in Writers(base)' : k \in Writers(base')
  BY DEF Writers
<1>8. QED
  BY <1>3, <1>4, <1>5, <1>6, <1>7 DEF OnlyProvenAdmitted

-----------------------------------------------------------------------------
(***************************************************************************)
(* The charged evaluations of a granter, as an evaluation ends or moves.   *)
(***************************************************************************)
LEMMA ChargedFinite ==
  ASSUME IInv, NEW g
  PROVE  IsFiniteSet(Charged(g)) /\ Cardinality(Charged(g)) \in Nat
<1>1. IsFiniteSet(evals) /\ Charged(g) \in SUBSET evals
  BY DEF IInv, Evaluating, Charged
<1>2. QED
  BY <1>1, FS_Subset, FS_CardinalityType

LEMMA ChargedSame ==
  ASSUME IInv, NEW g, UNCHANGED evals, \A e \in evals : conn'[e.conn] = conn[e.conn]
  PROVE  Charged(g)' = Charged(g)
  BY DEF Charged, granter

LEMMA ChargedEnds ==
  ASSUME IInv, NEW g, NEW e \in evals, Replies(e), UNCHANGED conn
  PROVE  /\ Cardinality(Charged(g)') \in Nat
         /\ Cardinality(Charged(g)') =
              IF e \in Charged(g) THEN Cardinality(Charged(g)) - 1 ELSE Cardinality(Charged(g))
<1>1. Charged(g)' = Charged(g) \ {e}
  BY DEF Charged, granter, Replies
<1>2. QED
  BY <1>1, ChargedFinite, FS_RemoveElement, FS_CardinalityType

LEMMA ChargedMoves ==
  ASSUME IInv, NEW g, NEW e \in evals, NEW pc \in {"get", "count"}, Moves(e, pc), UNCHANGED conn
  PROVE  /\ Cardinality(Charged(g)') \in Nat
         /\ Cardinality(Charged(g)') <=
              IF granter(e) = g /\ e \notin Charged(g)
              THEN Cardinality(Charged(g)) + 1 ELSE Cardinality(Charged(g))
<1> DEFINE x == [e EXCEPT !.pc = pc]
           R == Charged(g) \ {e}
<1>1. e \in Eval /\ x.conn = e.conn /\ x.pc = pc /\ pc # "dedup"
  BY DEF IInv, TypeOK, Eval
<1>2. Charged(g)' = IF granter(e) = g THEN R \cup {x} ELSE Charged(g)
  <2>1. evals' = (evals \ {e}) \cup {x} /\ conn' = conn
    BY DEF Moves
  <2>2. Charged(g)' = {y \in evals' : conn[y.conn].granter = g /\ y.pc # "dedup"}
    BY <2>1 DEF Charged, granter
  <2>3. QED
    BY <1>1, <2>1, <2>2 DEF Charged, granter
<1>3. /\ IsFiniteSet(R) /\ Cardinality(R) \in Nat
      /\ Cardinality(R) = IF e \in Charged(g) THEN Cardinality(Charged(g)) - 1 ELSE Cardinality(Charged(g))
  BY ChargedFinite, FS_RemoveElement, FS_CardinalityType
<1>4. /\ Cardinality(R \cup {x}) \in Nat
      /\ Cardinality(R \cup {x}) <= Cardinality(R) + 1
  <2> HIDE DEF R, x
  <2>1. Cardinality(R \cup {x}) = Cardinality(R) \/ Cardinality(R \cup {x}) = Cardinality(R) + 1
    BY <1>3, FS_AddElement
  <2>2. QED
    BY <1>3, <2>1
<1>5. Cardinality(Charged(g)) \in Nat
  BY ChargedFinite
<1>6. e \in Charged(g) => granter(e) = g
  BY DEF Charged
<1> HIDE DEF x, R
<1>7. CASE granter(e) = g
  <2>1. Cardinality(Charged(g)') = Cardinality(R \cup {x})
    BY <1>2, <1>7
  <2>2. QED
    BY <1>3, <1>4, <1>5, <1>7, <2>1
<1>8. CASE granter(e) # g
  <2>1. Cardinality(Charged(g)') = Cardinality(Charged(g))
    BY <1>2, <1>8
  <2>2. QED
    BY <1>5, <1>8, <2>1
<1>9. QED
  BY <1>7, <1>8

-----------------------------------------------------------------------------
(***************************************************************************)
(* What one granter's budgets must satisfy after a step, and the numbers   *)
(* they start the step from.                                               *)
(***************************************************************************)
Kept(g) ==
  /\ tokens[g] + Cardinality(Charged(g)) + appended[g] <= Burst + refills[g]
  /\ budget[g] + begun[g] <= RequestBurst + renewals[g]

LEMMA Ledger ==
  ASSUME IInv, NEW g \in AutoAdmit
  PROVE  /\ tokens[g] \in Nat /\ appended[g] \in Nat /\ refills[g] \in Nat
         /\ budget[g] \in Nat /\ begun[g] \in Nat /\ renewals[g] \in Nat
         /\ Cardinality(Charged(g)) \in Nat
         /\ Burst \in Nat /\ RequestBurst \in Nat
         /\ tokens[g] + Cardinality(Charged(g)) + appended[g] <= Burst + refills[g]
         /\ budget[g] + begun[g] <= RequestBurst + renewals[g]
<1>1. TypeOK /\ BudgetsConserved
  BY DEF IInv
<1>2. /\ tokens \in [AutoAdmit -> 0 .. Burst] /\ budget \in [AutoAdmit -> 0 .. RequestBurst]
      /\ refills \in [AutoAdmit -> Nat] /\ renewals \in [AutoAdmit -> Nat]
      /\ begun \in [AutoAdmit -> Nat] /\ appended \in [AutoAdmit -> Nat]
  BY <1>1 DEF TypeOK
<1>3. QED
  BY <1>1, <1>2, NodesAreKeys, ChargedFinite DEF BudgetsConserved

(* A refund returns at most one token, and only to its own granter. *)
LEMMA RefundAddsOne ==
  ASSUME IInv, NEW h \in AutoAdmit, NEW g \in AutoAdmit, Refund(h)
  PROVE  /\ tokens'[g] \in Nat
         /\ tokens'[g] <= IF g = h THEN tokens[g] + 1 ELSE tokens[g]
<1>1. tokens \in [AutoAdmit -> 0 .. Burst] /\ tokens[h] + 1 \in Nat /\ Burst \in Nat
  BY NodesAreKeys DEF IInv, TypeOK
<1>2. Min({Burst, tokens[h] + 1}) \in Nat /\ Min({Burst, tokens[h] + 1}) <= tokens[h] + 1
  BY <1>1, MinOfTwo
<1>3. QED
  BY <1>1, <1>2 DEF Refund

(* A request begins one evaluation, not charged yet, for one unit of budget. *)
LEMMA OnRequestKeeps ==
  ASSUME IInv, NEW c \in Conn, NEW req \in channel[c], OnRequest(c, req), NEW g \in AutoAdmit
  PROVE  Kept(g)'
<1> DEFINE h == conn[c].granter
<1>1. /\ tokens' = tokens /\ appended' = appended /\ conn' = conn
      /\ refills' = refills /\ renewals' = renewals
      /\ \/ evals' = evals
         \/ evals' = evals \cup {[conn |-> c, nr |-> handled[c] + 1, key |-> req.key, pc |-> "dedup"]}
  BY DEF OnRequest
<1>2. Charged(g)' = Charged(g)
  BY <1>1 DEF Charged, granter
<1>3. \/ budget' = budget /\ begun' = begun
      \/ /\ h \in AutoAdmit
         /\ budget' = [budget EXCEPT ![h] = @ - 1]
         /\ begun' = [begun EXCEPT ![h] = @ + 1]
  BY DEF OnRequest
<1>4. budget \in [AutoAdmit -> 0 .. RequestBurst] /\ begun \in [AutoAdmit -> Nat]
  BY DEF IInv, TypeOK
<1>5. budget'[g] + begun'[g] = budget[g] + begun[g]
  BY <1>3, <1>4, Ledger
<1>6. QED
  BY <1>1, <1>2, <1>5, Ledger DEF Kept

(* The token is spent no later than the evaluation is charged with it. *)
LEMMA DedupKeeps ==
  ASSUME IInv, NEW e \in evals, Dedup(e), NEW g \in AutoAdmit
  PROVE  Kept(g)'
<1> DEFINE h == granter(e)
           n == Cardinality(Charged(g))
           m == Cardinality(Charged(g)')
<1>1. /\ appended' = appended /\ refills' = refills /\ renewals' = renewals
      /\ budget' = budget /\ begun' = begun
      /\ conn' = conn /\ e \notin Charged(g)
      /\ \/ Replies(e) /\ (tokens' = tokens \/ Consume(h))
         \/ Moves(e, "get") /\ Consume(h)
  BY DEF Dedup, wireVars, history, Charged
<1>2. tokens \in [AutoAdmit -> 0 .. Burst] /\ h \in AutoAdmit
  BY EvalTypes
<1>3. Consume(h) => /\ tokens'[g] \in Nat
                    /\ tokens'[g] = IF g = h THEN tokens[g] - 1 ELSE tokens[g]
  BY <1>2, Ledger DEF Consume
<1>4. tokens'[g] \in Nat /\ m \in Nat /\ tokens'[g] + m <= tokens[g] + n
  <2>1. ASSUME Replies(e)
        PROVE  m \in Nat /\ m = n
    BY <1>1, <2>1, ChargedEnds
  <2>2. ASSUME Moves(e, "get")
        PROVE  m \in Nat /\ m <= IF h = g THEN n + 1 ELSE n
    BY <1>1, <2>2, ChargedMoves
  <2>3. n \in Nat /\ tokens[g] \in Nat
    BY Ledger
  <2> HIDE DEF m, n, h
  <2>4. QED
    BY <1>1, <1>3, <2>1, <2>2, <2>3
<1>5. QED
  <2>1. n \in Nat /\ tokens[g] \in Nat /\ tokens[g] + n + appended[g] <= Burst + refills[g]
    BY Ledger
  <2>2. appended[g] \in Nat /\ refills[g] \in Nat /\ Burst \in Nat
    BY Ledger
  <2>3. tokens'[g] + m + appended[g] <= Burst + refills[g]
    <3> HIDE DEF m, n
    <3>1. QED
      BY <1>4, <2>1, <2>2
  <2>4. QED
    BY <1>1, <2>3, Ledger DEF Kept

(* A refund, or the append, ends the evaluation that was charged. *)
LEMMA GetKeeps ==
  ASSUME IInv, NEW e \in evals, Get(e), NEW g \in AutoAdmit
  PROVE  Kept(g)'
<1> DEFINE h == granter(e)
           n == Cardinality(Charged(g))
           m == Cardinality(Charged(g)')
<1>1. /\ appended' = appended /\ refills' = refills /\ renewals' = renewals
      /\ budget' = budget /\ begun' = begun
      /\ conn' = conn /\ (e \in Charged(g) <=> h = g)
      /\ \/ Replies(e) /\ Refund(h)
         \/ Moves(e, "count") /\ tokens' = tokens
  <2>1. e \in Charged(g) <=> h = g
    BY DEF Get, Charged
  <2>2. QED
    BY <2>1 DEF Get, wireVars, history
<1>2. tokens'[g] \in Nat /\ m \in Nat /\ tokens'[g] + m <= tokens[g] + n
  <2>1. ASSUME Replies(e)
        PROVE  m \in Nat /\ m = IF h = g THEN n - 1 ELSE n
    BY <1>1, <2>1, ChargedEnds
  <2>2. ASSUME Moves(e, "count")
        PROVE  m \in Nat /\ m <= n
    BY <1>1, <2>2, ChargedMoves
  <2>3. Refund(h) => tokens'[g] \in Nat /\ tokens'[g] <= IF g = h THEN tokens[g] + 1 ELSE tokens[g]
    BY EvalTypes, RefundAddsOne
  <2>4. n \in Nat /\ tokens[g] \in Nat
    BY Ledger
  <2> HIDE DEF m, n, h
  <2>5. QED
    BY <1>1, <2>1, <2>2, <2>3, <2>4
<1>3. QED
  <2>1. n \in Nat /\ tokens[g] \in Nat /\ tokens[g] + n + appended[g] <= Burst + refills[g]
    BY Ledger
  <2>2. appended[g] \in Nat /\ refills[g] \in Nat /\ Burst \in Nat
    BY Ledger
  <2>3. tokens'[g] + m + appended[g] <= Burst + refills[g]
    <3> HIDE DEF m, n
    <3>1. QED
      BY <1>2, <2>1, <2>2
  <2>4. QED
    BY <1>1, <2>3, Ledger DEF Kept

LEMMA CountKeeps ==
  ASSUME IInv, NEW e \in evals, Count(e), NEW g \in AutoAdmit
  PROVE  Kept(g)'
<1> DEFINE h == granter(e)
           n == Cardinality(Charged(g))
           m == Cardinality(Charged(g)')
<1>1. /\ refills' = refills /\ renewals' = renewals /\ budget' = budget /\ begun' = begun
      /\ conn' = conn /\ (e \in Charged(g) <=> h = g) /\ Replies(e)
      /\ \/ Refund(h) /\ appended' = appended
         \/ tokens' = tokens /\ appended' = [appended EXCEPT ![h] = @ + 1]
  BY DEF Count, wireVars, Charged
<1>2. m \in Nat /\ m = IF h = g THEN n - 1 ELSE n
  BY <1>1, ChargedEnds
<1>3. Refund(h) => tokens'[g] \in Nat /\ tokens'[g] <= IF g = h THEN tokens[g] + 1 ELSE tokens[g]
  BY EvalTypes, RefundAddsOne
<1>4. appended \in [AutoAdmit -> Nat] /\ h \in AutoAdmit
  BY EvalTypes DEF IInv, TypeOK
<1>5. /\ n \in Nat /\ tokens[g] \in Nat /\ tokens[g] + n + appended[g] <= Burst + refills[g]
      /\ appended[g] \in Nat /\ refills[g] \in Nat /\ Burst \in Nat
  BY Ledger
<1>6. tokens'[g] + m + appended'[g] <= Burst + refills[g]
  <2>1. CASE Refund(h) /\ appended' = appended
    <3> HIDE DEF m, n, h
    <3>1. QED
      BY <1>2, <1>3, <1>5, <2>1
  <2>2. CASE tokens' = tokens /\ appended' = [appended EXCEPT ![h] = @ + 1]
    <3>1. appended'[g] = IF g = h THEN appended[g] + 1 ELSE appended[g]
      BY <1>4, <2>2
    <3> HIDE DEF m, n, h
    <3>2. QED
      BY <1>2, <1>5, <2>2, <3>1
  <2>3. QED
    BY <1>1, <2>1, <2>2
<1>7. QED
  BY <1>1, <1>6, Ledger DEF Kept

(* A failed append keeps the token it spent. *)
LEMMA AppendFailsKeeps ==
  ASSUME IInv, NEW e \in evals, AppendFails(e), NEW g \in AutoAdmit
  PROVE  Kept(g)'
<1> DEFINE n == Cardinality(Charged(g))
           m == Cardinality(Charged(g)')
<1>1. /\ tokens' = tokens /\ appended' = appended /\ refills' = refills /\ renewals' = renewals
      /\ budget' = budget /\ begun' = begun /\ conn' = conn /\ Replies(e)
  BY DEF AppendFails, wireVars, bucketVars, history
<1>2. m \in Nat /\ n \in Nat /\ m <= n
  <2>1. n \in Nat /\ m \in Nat /\ m = IF e \in Charged(g) THEN n - 1 ELSE n
    BY <1>1, ChargedEnds, Ledger
  <2> HIDE DEF m, n
  <2>2. QED
    BY <2>1
<1>3. /\ tokens[g] \in Nat /\ tokens[g] + n + appended[g] <= Burst + refills[g]
      /\ appended[g] \in Nat /\ refills[g] \in Nat /\ Burst \in Nat
  BY Ledger
<1>4. tokens[g] + m + appended[g] <= Burst + refills[g]
  <2> HIDE DEF m, n
  <2>1. QED
    BY <1>2, <1>3
<1>5. QED
  BY <1>1, <1>4, Ledger DEF Kept

(* Time adds to a bucket at most the one token that its history counts. *)
LEMMA RefillKeeps ==
  ASSUME IInv, NEW h \in AutoAdmit, RefillAdmissions(h) \/ RefillRequests(h), NEW g \in AutoAdmit
  PROVE  Kept(g)'
<1>1. /\ tokens \in [AutoAdmit -> 0 .. Burst] /\ budget \in [AutoAdmit -> 0 .. RequestBurst]
      /\ refills \in [AutoAdmit -> Nat] /\ renewals \in [AutoAdmit -> Nat]
  BY DEF IInv, TypeOK
<1>2. appended' = appended /\ begun' = begun /\ conn' = conn /\ evals' = evals
  BY DEF RefillAdmissions, RefillRequests, wireVars, history
<1>3. Charged(g)' = Charged(g)
  BY <1>2 DEF Charged, granter
<1>4. tokens[h] + 1 \in Nat /\ budget[h] + 1 \in Nat
  BY Ledger
<1>5. CASE RefillAdmissions(h)
  <2>1. Min({Burst, tokens[h] + 1}) \in Nat /\ Min({Burst, tokens[h] + 1}) <= tokens[h] + 1
    BY <1>4, MinOfTwo, NodesAreKeys
  <2>2. /\ tokens'[g] \in Nat /\ refills'[g] \in Nat
        /\ tokens'[g] - refills'[g] <= tokens[g] - refills[g]
    BY <1>1, <1>5, <2>1 DEF RefillAdmissions
  <2>3. budget' = budget /\ renewals' = renewals
    BY <1>5 DEF RefillAdmissions
  <2>4. QED
    BY <1>2, <1>3, <2>2, <2>3, Ledger DEF Kept
<1>6. CASE RefillRequests(h)
  <2>1. /\ Min({RequestBurst, budget[h] + 1}) \in Nat
        /\ Min({RequestBurst, budget[h] + 1}) <= budget[h] + 1
    BY <1>4, MinOfTwo, NodesAreKeys
  <2>2. /\ budget'[g] \in Nat /\ renewals'[g] \in Nat
        /\ budget'[g] - renewals'[g] <= budget[g] - renewals[g]
    BY <1>1, <1>6, <2>1 DEF RefillRequests
  <2>3. tokens' = tokens /\ refills' = refills
    BY <1>6 DEF RefillRequests
  <2>4. QED
    BY <1>2, <1>3, <2>2, <2>3, Ledger DEF Kept
<1>7. QED
  BY <1>5, <1>6

(* Opening a connection, strays, linearisation and views leave them alone. *)
LEMMA OthersKeep ==
  ASSUME IInv, Next, UNCHANGED <<evals, bucketVars, begun, appended>>, NEW g \in AutoAdmit
  PROVE  Kept(g)'
<1>1. \A e \in evals : e.conn \in Conn /\ conn[e.conn] # None
  BY DEF IInv, TypeOK, OnlyProvenAdmitted, Eval
<1>2. \A e \in evals : conn'[e.conn] = conn[e.conn]
  BY <1>1, ConnectionsStay DEF IInv
<1>3. Charged(g)' = Charged(g)
  BY <1>2, ChargedSame
<1>4. QED
  BY <1>3, Ledger DEF Kept, bucketVars

LEMMA BudgetsStep ==
  ASSUME IInv, Next
  PROVE  BudgetsConserved'
<1>1. SUFFICES ASSUME NEW g \in AutoAdmit PROVE Kept(g)'
  BY DEF BudgetsConserved, Kept
<1>2. CASE UNCHANGED <<evals, bucketVars, begun, appended>>
  BY <1>2, OthersKeep
<1>3. CASE \E c \in Conn : \E req \in channel[c] : OnRequest(c, req)
  BY <1>3, OnRequestKeeps
<1>4. CASE \E e \in evals : Dedup(e) \/ Get(e) \/ Count(e) \/ AppendFails(e)
  BY <1>4, DedupKeeps, GetKeeps, CountKeeps, AppendFailsKeeps
<1>5. CASE \E h \in AutoAdmit : RefillAdmissions(h) \/ RefillRequests(h)
  BY <1>5, RefillKeeps
<1>6. QED
  BY <1>2, <1>3, <1>4, <1>5 DEF Next, Attach, Stray, Linearise, Sync, history

-----------------------------------------------------------------------------
LEMMA StepIInv == IInv /\ [Next]_vars => IInv'
<1>1. ASSUME IInv, Next
      PROVE  IInv'
  <2>1. TypeOK' /\ Wired' /\ Evaluating' /\ OnlyProvenAdmitted' /\ BudgetsConserved'
    BY <1>1, TypeStep, WiredStep, EvaluatingStep, OnlyProvenStep, BudgetsStep
  <2>2. ViewInv(base)'
    BY <1>1, ViewStep, Zenon DEF ViewInv, IndexesAgree, OnlyAdmissible, TombstonesHold, AdmissionsRooted
  <2>3. QED
    BY <2>1, <2>2 DEF IInv
<1>2. ASSUME IInv, UNCHANGED vars
      PROVE  IInv'
  <2>1. TypeOK' /\ Wired' /\ Evaluating' /\ OnlyProvenAdmitted' /\ BudgetsConserved'
    BY <1>2 DEF vars, IInv, TypeOK, Wired, Evaluating, OnlyProvenAdmitted, Proven, Writers,
                BudgetsConserved, Charged, granter
  <2>2. ViewInv(base)'
    BY <1>2 DEF vars, IInv
  <2>3. QED
    BY <2>1, <2>2 DEF IInv
<1>3. QED
  BY <1>1, <1>2

LEMMA Invariance == Spec => []IInv
  BY InitIInv, StepIInv, PTL DEF Spec

(***************************************************************************)
(* Every variable keeps its type, for every set of nodes, connections and  *)
(* stray requests: in particular no bucket of admission.ts is overdrawn    *)
(* and no connection handles more than MAX_REQUESTS_PER_CONN requests.     *)
(***************************************************************************)
THEOREM AdmissionTypeCorrect == Spec => []TypeOK
<1>1. IInv => TypeOK
  BY DEF IInv
<1>2. QED
  BY <1>1, Invariance, PTL

(***************************************************************************)
(* However many granters race from stale views, the settled writers sub    *)
(* stays within MAX_WRITERS and every admission goes back to the founder.  *)
(***************************************************************************)
THEOREM CapSurvivesRaces == Spec => []RacesKeepTheCap
<1>1. IInv => RacesKeepTheCap
  BY DEF IInv, ViewInv, RacesKeepTheCap
<1>2. QED
  BY <1>1, Invariance, PTL

(***************************************************************************)
(* Across the awaits, refunds and failures of evaluateAdmissionRequest no  *)
(* granter appends more admissions, or evaluates more requests, than its   *)
(* buckets held and time refilled.                                         *)
(***************************************************************************)
THEOREM BudgetsStayConserved == Spec => []BudgetsConserved
<1>1. IInv => BudgetsConserved
  BY DEF IInv
<1>2. QED
  BY <1>1, Invariance, PTL

(***************************************************************************)
(* Every key under evaluation, appended or admitted was named in a request *)
(* whose proof a holder of the invite made for that very connection.       *)
(***************************************************************************)
THEOREM AdmissionsAreProven == Spec => []OnlyProvenAdmitted
<1>1. IInv => OnlyProvenAdmitted
  BY DEF IInv
<1>2. QED
  BY <1>1, Invariance, PTL

=============================================================================
