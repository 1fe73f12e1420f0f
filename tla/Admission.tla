------------------------------ MODULE Admission ------------------------------
(***************************************************************************)
(* In-band writer admission (src/swarm/admission.ts, attached by           *)
(* src/swarm/network.ts, over EventStore.admitWriter).  A joiner that      *)
(* holds the invite proves it once per connection; a granter evaluates the *)
(* request across four awaits and appends add_writer; the op is linearised *)
(* among those of the other granters, and apply has the last word.         *)
(* Every node works from its own copy of the view.                         *)
(***************************************************************************)
EXTENDS StoreView, FiniteSetsExt

CONSTANTS
  Conn,           \* swarm connections, each with a handshake hash of its own
  AutoAdmit,      \* the nodes started with --auto-admit
  RequestWriter,  \* the nodes started with --request-writer
  Strays,         \* requests other peers may send on their connections
  Burst,          \* ADMISSIONS_PER_HOUR, the capacity of the bucket
  RequestBurst,   \* REQUEST_BURST
  MaxPerConn,     \* MAX_REQUESTS_PER_CONN
  MaxRefills      \* bound on the tokens that time puts into buckets

(* A proof is an HMAC keyed by the invite over a handshake and a key. *)
Request == [key : Key, proof : [invited : BOOLEAN, conn : Conn, key : Key]]

ASSUME AdmissionAssumption ==
  /\ AutoAdmit \subseteq Key /\ RequestWriter \subseteq Key
  /\ Strays \subseteq Request
  /\ None \notin [joiner : Key, granter : Key]
  /\ Burst \in Nat /\ RequestBurst \in Nat /\ MaxPerConn \in Nat /\ MaxRefills \in Nat

VARIABLES
  base,      \* the view of the ops linearised so far
  log,       \* add_writer ops appended and not linearised yet
  known,     \* the writers sub in each node's own view
  conn,      \* the two ends of each connection, or None before it opens
  channel,   \* requests sent on each connection and not handled yet
  handled,   \* requestsHandled of each connection
  evals,     \* evaluations in flight
  tokens,    \* each granter's admission bucket
  budget,    \* each granter's requestBudget
  refills,   \* history: tokens time has put into each admission bucket
  renewals,  \* history: tokens time has put into each requestBudget
  begun,     \* history: requests each granter evaluated
  appended,  \* history: add_writer ops each granter appended
  wasted     \* history: ops that were no-ops when linearised

baseVars   == <<base, log, known>>
wireVars   == <<conn, channel, handled>>
bucketVars == <<tokens, budget, refills, renewals>>
history    == <<begun, appended, wasted>>
vars == <<base, log, known, conn, channel, handled, evals,
          tokens, budget, refills, renewals, begun, appended, wasted>>

Eval == [conn : Conn, nr : 1 .. MaxPerConn, key : Key, pc : {"dedup", "get", "count"}]
Op   == [from : Key, key : Key, conn : Conn, nr : 1 .. MaxPerConn]
Ends == [joiner : Key, granter : Key]

Init ==
  /\ base = EmptyView({}) /\ log = {} /\ known = [n \in Key |-> {}]
  /\ conn = [c \in Conn |-> None]
  /\ channel = [c \in Conn |-> {}] /\ handled = [c \in Conn |-> 0]
  /\ evals = {}
  /\ tokens = [g \in AutoAdmit |-> Burst]
  /\ budget = [g \in AutoAdmit |-> RequestBurst]
  /\ refills = [g \in AutoAdmit |-> 0] /\ renewals = [g \in AutoAdmit |-> 0]
  /\ begun = [g \in AutoAdmit |-> 0] /\ appended = [g \in AutoAdmit |-> 0]
  /\ wasted = {}

writable(n)   == n = Founder \/ n \in known[n]
granter(e)    == conn[e.conn].granter
Admitted(n,k) == k = Founder \/ k \in known[n]

-----------------------------------------------------------------------------
(* attach: a joiner that is not a writer yet sends its one request. *)
Attach(c, j, g) ==
  /\ conn[c] = None /\ j # g
  /\ conn' = [conn EXCEPT ![c] = [joiner |-> j, granter |-> g]]
  /\ channel' =
       IF j \in RequestWriter /\ ~writable(j)
       THEN [channel EXCEPT ![c] =
               {[key |-> j, proof |-> [invited |-> TRUE, conn |-> c, key |-> j]]}]
       ELSE channel
  /\ UNCHANGED <<baseVars, handled, evals, bucketVars, history>>

(* Anyone on the topic may open the channel and send requests. *)
Stray(c, req) ==
  /\ conn[c] # None
  /\ handled[c] + Cardinality(channel[c]) <= MaxPerConn   \* bounds the channel
  /\ channel' = [channel EXCEPT ![c] = @ \cup {req}]
  /\ UNCHANGED <<baseVars, conn, handled, evals, bucketVars, history>>

ProofMatchesAnyConn(c, req) == req.proof.invited /\ req.proof.key = req.key

(* computeAdmissionProof over this connection gives the proof received. *)
ProofMatches(c, req) ==
  /\ req.proof.invited
  /\ req.proof.conn = c
  /\ req.proof.key = req.key

(***************************************************************************)
(* The granter's onmessage and evaluateAdmissionRequest up to its first    *)
(* await: the per-connection cap, the global budget, then the checks.      *)
(***************************************************************************)
OnRequest(c, req) ==
  LET g == conn[c].granter
      counted == g \in AutoAdmit /\ handled[c] < MaxPerConn
      begins == counted /\ budget[g] >= 1
      passes == begins /\ writable(g) /\ ProofMatches(c, req) IN
  /\ req \in channel[c]
  /\ channel' = [channel EXCEPT ![c] = @ \ {req}]
  /\ handled' = IF counted THEN [handled EXCEPT ![c] = @ + 1] ELSE handled
  /\ IF begins
     THEN /\ budget' = [budget EXCEPT ![g] = @ - 1]
          /\ begun' = [begun EXCEPT ![g] = @ + 1]
     ELSE UNCHANGED <<budget, begun>>
  /\ evals' = IF passes
              THEN evals \cup {[conn |-> c, nr |-> handled[c] + 1, key |-> req.key, pc |-> "dedup"]}
              ELSE evals
  /\ UNCHANGED <<baseVars, conn, tokens, refills, renewals, appended, wasted>>

-----------------------------------------------------------------------------
Moves(e, pc) == evals' = (evals \ {e}) \cup {[e EXCEPT !.pc = pc]}
Replies(e) == evals' = evals \ {e}

ConsumeOverdrawn(g) == tokens' = [tokens EXCEPT ![g] = @ - 1]

Consume(g) == tokens[g] >= 1 /\ tokens' = [tokens EXCEPT ![g] = @ - 1]

RefundTwice(g) == tokens' = [tokens EXCEPT ![g] = Min({Burst, @ + 2})]

Refund(g) == tokens' = [tokens EXCEPT ![g] = Min({Burst, @ + 1})]

(* isAdmittedWriter has answered: reply, or spend a token and go on. *)
Dedup(e) ==
  LET g == granter(e) IN
  /\ e \in evals /\ e.pc = "dedup"
  /\ \/ Admitted(g, e.key) /\ Replies(e) /\ UNCHANGED tokens
     \/ ~Admitted(g, e.key) /\ tokens[g] < 1 /\ Replies(e) /\ UNCHANGED tokens
     \/ ~Admitted(g, e.key) /\ Consume(g) /\ IF writable(g) THEN Moves(e, "get") ELSE Replies(e)
  /\ UNCHANGED <<baseVars, wireVars, budget, refills, renewals, history>>

(* admitWriter: the dedup read. *)
Get(e) ==
  LET g == granter(e) IN
  /\ e \in evals /\ e.pc = "get"
  /\ IF Admitted(g, e.key) THEN Replies(e) /\ Refund(g) ELSE Moves(e, "count") /\ UNCHANGED tokens
  /\ UNCHANGED <<baseVars, wireVars, budget, refills, renewals, history>>

(* admitWriter: the cap, then the append. *)
Count(e) ==
  LET g == granter(e) IN
  /\ e \in evals /\ e.pc = "count"
  /\ Replies(e)
  /\ IF Cardinality(known[g]) >= MaxWriters
     THEN Refund(g) /\ UNCHANGED <<log, appended>>
     ELSE /\ log' = log \cup {[from |-> g, key |-> e.key, conn |-> e.conn, nr |-> e.nr]}
          /\ appended' = [appended EXCEPT ![g] = @ + 1]
          /\ UNCHANGED tokens
  /\ UNCHANGED <<base, known, wireVars, budget, refills, renewals, begun, wasted>>

(* admitWriter throws (a closed base): no refund and no reply. *)
AppendFails(e) ==
  /\ e \in evals /\ e.pc # "dedup"
  /\ Replies(e)
  /\ UNCHANGED <<baseVars, wireVars, bucketVars, history>>

Refilled == MapThenSumSet(LAMBDA g : refills[g] + renewals[g], AutoAdmit)

(* TokenBucket.refill of either bucket, a token at a time. *)
RefillAdmissions(g) ==
  /\ Refilled < MaxRefills
  /\ refills' = [refills EXCEPT ![g] = @ + 1]
  /\ tokens' = [tokens EXCEPT ![g] = Min({Burst, @ + 1})]
  /\ UNCHANGED <<baseVars, wireVars, evals, budget, renewals, history>>

RefillRequests(g) ==
  /\ Refilled < MaxRefills
  /\ renewals' = [renewals EXCEPT ![g] = @ + 1]
  /\ budget' = [budget EXCEPT ![g] = Min({RequestBurst, @ + 1})]
  /\ UNCHANGED <<baseVars, wireVars, evals, tokens, refills, history>>

-----------------------------------------------------------------------------
(* Autobase orders the op of a writer next, and every peer applies it. *)
Linearise(op) ==
  /\ op \in log /\ op.from \in MayWrite(base)
  /\ log' = log \ {op}
  /\ base' = ApplyAddWriter(base, op.from, op.key)
  /\ wasted' = IF base' = base THEN wasted \cup {op} ELSE wasted
  /\ UNCHANGED <<known, wireVars, evals, bucketVars, begun, appended>>

(* A node's view: what is settled, and pending ops in an order of its own. *)
Sync(n, W) ==
  /\ Writers(base) \subseteq W
  /\ W \subseteq Writers(base) \cup ({op.key : op \in log} \ {Founder})
  /\ Cardinality(W) <= MaxWriters
  /\ W # known[n]
  /\ known' = [known EXCEPT ![n] = W]
  /\ UNCHANGED <<base, log, wireVars, evals, bucketVars, history>>

Next ==
  \/ \E c \in Conn, j \in Key, g \in Key : Attach(c, j, g)
  \/ \E c \in Conn, req \in Strays : Stray(c, req)
  \/ \E c \in Conn : \E req \in channel[c] : OnRequest(c, req)
  \/ \E e \in evals : Dedup(e) \/ Get(e) \/ Count(e) \/ AppendFails(e)
  \/ \E g \in AutoAdmit : RefillAdmissions(g) \/ RefillRequests(g)
  \/ \E op \in log : Linearise(op)
  \/ \E n \in Key, W \in SUBSET Key : Sync(n, W)

Spec == Init /\ [][Next]_vars

-----------------------------------------------------------------------------
(* Every variable has its type. *)
TypeOK ==
  /\ base \in View
  /\ log \subseteq Op /\ wasted \subseteq Op
  /\ known \in [Key -> SUBSET (Key \ {Founder})]
  /\ conn \in [Conn -> Ends \cup {None}]
  /\ channel \in [Conn -> SUBSET Request]
  /\ handled \in [Conn -> 0 .. MaxPerConn]
  /\ evals \subseteq Eval
  /\ tokens \in [AutoAdmit -> 0 .. Burst]
  /\ budget \in [AutoAdmit -> 0 .. RequestBurst]
  /\ refills \in [AutoAdmit -> Nat] /\ renewals \in [AutoAdmit -> Nat]
  /\ begun \in [AutoAdmit -> Nat] /\ appended \in [AutoAdmit -> Nat]

(***************************************************************************)
(* Granters that race from stale views cannot pass the cap, admit twice or *)
(* admit themselves: apply re-checks what admitWriter only pre-checks.     *)
(***************************************************************************)
RacesKeepTheCap == AdmissionsRooted(base)

(***************************************************************************)
(* Tokens are conserved across the awaits and refunds: a granter never     *)
(* appends more admissions, nor evaluates more requests, than its buckets  *)
(* started with and time put into them.                                    *)
(***************************************************************************)
Charged(g) == {e \in evals : granter(e) = g /\ e.pc # "dedup"}

BudgetsConserved ==
  \A g \in AutoAdmit :
    /\ tokens[g] + Cardinality(Charged(g)) + appended[g] <= Burst + refills[g]
    /\ budget[g] + begun[g] <= RequestBurst + renewals[g]

(***************************************************************************)
(* Every admission in flight, appended or settled answers a request whose  *)
(* proof was made for that very connection by a holder of the invite.      *)
(***************************************************************************)
Proven(c, k) ==
  \/ conn[c].joiner = k /\ k \in RequestWriter
  \/ [key |-> k, proof |-> [invited |-> TRUE, conn |-> c, key |-> k]] \in Strays

OnlyProvenAdmitted ==
  /\ \A e \in evals : conn[e.conn] # None /\ Proven(e.conn, e.key)
  /\ \A op \in log \cup wasted : conn[op.conn] # None /\ Proven(op.conn, op.key)
  /\ \A k \in Writers(base) : \E c \in Conn : conn[c] # None /\ Proven(c, k)

(* Claim of protocol.ts:53-54: the token is "refunded if the append is a   *)
(* no-op (so only real admissions are charged)".                           *)
OnlyRealAdmissionsCharged == wasted = {}

=============================================================================
