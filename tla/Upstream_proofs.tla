--------------------------- MODULE Upstream_proofs ---------------------------
(***************************************************************************)
(* Theorems about the shim's upstream client, for any number of sockets,   *)
(* calls, retries and lost connections.                                    *)
(***************************************************************************)
EXTENDS Upstream, SequenceTheorems, FiniteSetTheorems, TLAPS

-----------------------------------------------------------------------------
(* The calls.  A fetch or count is pending as long as it is not settled. *)
CallInv ==
  /\ IsFiniteSet(made)
  /\ pending \cup backoff \cup liveSubs \subseteq made
  /\ \A c \in Call : c \notin made => outcome[c] = "none"
  /\ \A p \in Publish : p \notin made => attempt[p] = 0
  /\ \A c \in Fetch \cup Count : c \in made => (c \in pending <=> outcome[c] = "none")
  /\ \A p \in backoff : outcome[p] = "none" /\ attempt[p] < MaxRetries

(* A publish waits in one place: its backoff, or one place of one queue. *)
WaiterHolds(s, e, w) ==
  /\ EventOf[w[1]] = e /\ sock[w[1]] = s /\ w[2] = attempt[w[1]]
  /\ w[1] \in made /\ w[1] \notin backoff
  /\ outcome[w[1]] = "none" \/ (attempt[w[1]] > 0 /\ outcome[w[1]] = "failed")

WaitInv ==
  \A s \in Socket : \A e \in Event :
    /\ \A k \in DOMAIN waiters[s][e] : WaiterHolds(s, e, waiters[s][e][k])
    /\ \A j, k \in DOMAIN waiters[s][e] : waiters[s][e][j][1] = waiters[s][e][k][1] => j = k

(* Nothing is in flight, or held, on a socket that is not open. *)
Quiet ==
  \A s \in Socket : ~Connected(s) =>
    /\ up[s] = << >> /\ down[s] = << >>
    /\ \A i \in SubId : Home(i) = s => relaySub[i] = "none"

(* What is in flight about a subscription is on its own socket. *)
OnItsSocket ==
  /\ \A s \in Socket : \A m \in ToSet(up[s]) :
       m.type \in {"REQ", "CLOSE"} => Home(m.id) = s /\ m.id \in made
  /\ \A s \in Socket : \A m \in ToSet(down[s]) :
       m.type \in {"EVENT", "EOSE", "CLOSED"} => Home(m.id) = s /\ m.id \in made
  /\ \A i \in SubId : relaySub[i] # "none" => i \in made

(* A fetch asks once, and is refused for good. *)
Once(q, m) == \A j, k \in DOMAIN q : q[j] = m /\ q[k] = m => j = k

AskedOnce ==
  \A i \in Fetch :
    /\ Once(up[Home(i)], Msg("REQ", i))
    /\ Msg("REQ", i) \in ToSet(up[Home(i)]) => relaySub[i] = "none"
    /\ Msg("CLOSED", i) \in ToSet(down[Home(i)]) => ~WillHold(i)

WireInv == Quiet /\ OnItsSocket /\ AskedOnce /\ SubscriptionsAgree

(* The stored answer comes before the end of the stored answers. *)
StoredOf(i) == [type |-> "EVENT", id |-> i, says |-> "stored"]

EventBeforeEose(q, i) ==
  \A k \in DOMAIN q : q[k] = Msg("EOSE", i) => \E j \in 1 .. k - 1 : q[j] = StoredOf(i)

AnswerComes ==
  \A i \in Fetch \cap pending :
    \/ "stored" \in got[i]
    \/ /\ EventBeforeEose(down[Home(i)], i)
       /\ relaySub[i] = "sent" => StoredOf(i) \in ToSet(down[Home(i)])

AnswerInv ==
  /\ AnswerComes
  /\ \A s \in Socket : \A m \in ToSet(down[s]) : m.type = "OK" /\ m.says = "ok" => m.id \in stored
  /\ \A c \in Call : outcome[c] = "answered" => Truthful(c)

UpstreamInv == TypeOK /\ CallInv /\ WaitInv /\ WireInv /\ AnswerInv

-----------------------------------------------------------------------------
(* Queues: what the first message's removal and a new last message change. *)
LEMMA TailElements ==
  ASSUME NEW S, NEW q \in Seq(S), q # << >>
  PROVE  /\ Head(q) \in S /\ Head(q) = q[1] /\ Head(q) \in ToSet(q)
         /\ Tail(q) \in Seq(S)
         /\ Len(q) \in Nat \ {0} /\ DOMAIN q = 1 .. Len(q)
         /\ Len(Tail(q)) = Len(q) - 1 /\ DOMAIN Tail(q) = 1 .. Len(q) - 1
         /\ \A k \in 1 .. Len(q) - 1 : Tail(q)[k] = q[k + 1]
         /\ ToSet(Tail(q)) \subseteq ToSet(q)
<1>1. /\ Head(q) \in S
      /\ Tail(q) \in Seq(S)
      /\ Len(Tail(q)) = Len(q) - 1
      /\ \A k \in 1 .. Len(Tail(q)) : Tail(q)[k] = q[k + 1]
  BY HeadTailProperties
<1>2. Len(q) \in Nat \ {0} /\ DOMAIN q = 1 .. Len(q) /\ Head(q) = q[1]
  BY EmptySeq, LenProperties
<1>3. DOMAIN Tail(q) = 1 .. Len(q) - 1
  BY <1>1, LenProperties
<1>4. \A k \in 1 .. Len(q) - 1 : Tail(q)[k] = q[k + 1] /\ k + 1 \in DOMAIN q
  BY <1>1, <1>2
<1>5. ToSet(Tail(q)) \subseteq ToSet(q)
  BY <1>3, <1>4 DEF ToSet
<1>6. Head(q) \in ToSet(q)
  BY <1>2 DEF ToSet
<1>7. QED
  BY <1>1, <1>2, <1>3, <1>4, <1>5, <1>6

LEMMA AppendElements ==
  ASSUME NEW S, NEW q \in Seq(S), NEW m \in S
  PROVE  /\ Append(q, m) \in Seq(S)
         /\ Len(q) \in Nat /\ DOMAIN q = 1 .. Len(q)
         /\ DOMAIN Append(q, m) = 1 .. Len(q) + 1
         /\ \A k \in 1 .. Len(q) : Append(q, m)[k] = q[k]
         /\ Append(q, m)[Len(q) + 1] = m
         /\ ToSet(Append(q, m)) = ToSet(q) \cup {m}
<1> DEFINE t == Append(q, m)
<1>1. /\ t \in Seq(S) /\ Len(t) = Len(q) + 1
      /\ \A k \in 1 .. Len(q) : t[k] = q[k]
      /\ t[Len(q) + 1] = m
  BY AppendProperties
<1>2. Len(q) \in Nat /\ DOMAIN q = 1 .. Len(q) /\ DOMAIN t = 1 .. Len(t)
  BY <1>1, LenProperties
<1> HIDE DEF t
<1>3. DOMAIN t = 1 .. Len(q) + 1
  BY <1>1, <1>2
<1>4. \A k \in 1 .. Len(q) + 1 : k \in 1 .. Len(q) \/ k = Len(q) + 1
  BY <1>2
<1>5. Len(q) + 1 \in DOMAIN t /\ \A k \in 1 .. Len(q) : k \in DOMAIN t
  BY <1>2, <1>3
<1>6. ToSet(t) \subseteq ToSet(q) \cup {m}
  BY <1>1, <1>2, <1>3, <1>4 DEF ToSet
<1>7. ToSet(q) \cup {m} \subseteq ToSet(t)
  BY <1>1, <1>2, <1>5 DEF ToSet
<1>8. QED
  BY <1>1, <1>2, <1>3, <1>6, <1>7 DEF t

-----------------------------------------------------------------------------
(* Held, when a request is sent or taken. *)
Names(m, i) == m.id = i /\ m.type \in {"REQ", "CLOSE"}

LEMMA HeldEmpty ==
  ASSUME NEW i, NEW h
  PROVE  Held(<< >>, i, h) = h
BY DEF Held, About

LEMMA HeldAppend ==
  ASSUME NEW S, NEW q \in Seq(S), NEW m \in S, NEW i, NEW h \in BOOLEAN
  PROVE  Held(Append(q, m), i, h) <=> IF Names(m, i) THEN m.type = "REQ" ELSE Held(q, i, h)
<1> DEFINE t == Append(q, m)
           n == Len(q) + 1
<1>1. /\ Len(q) \in Nat /\ DOMAIN q = 1 .. Len(q) /\ DOMAIN t = 1 .. n
      /\ \A k \in 1 .. Len(q) : t[k] = q[k]
      /\ t[n] = m
  BY AppendElements
<1> HIDE DEF t
<1>2. CASE ~Names(m, i)
  <2>1. About(t, i) = About(q, i)
    <3>1. \A k \in 1 .. n : k \in 1 .. Len(q) \/ k = n
      BY <1>1
    <3>2. n \notin About(t, i)
      BY <1>1, <1>2 DEF About, Names
    <3>3. \A k \in 1 .. Len(q) : k \in About(t, i) <=> k \in About(q, i)
      BY <1>1 DEF About
    <3>4. About(t, i) \subseteq 1 .. n /\ About(q, i) \subseteq 1 .. Len(q)
      BY <1>1 DEF About
    <3>5. QED
      BY <3>1, <3>2, <3>3, <3>4
  <2>2. \A k \in About(q, i) : t[k] = q[k]
    BY <1>1 DEF About
  <2>3. Held(t, i, h) <=> Held(q, i, h)
    BY <2>1, <2>2 DEF Held
  <2>4. QED
    BY <1>2, <2>3 DEF t
<1>3. CASE Names(m, i)
  <2>1. n \in About(t, i)
    BY <1>1, <1>3 DEF About, Names
  <2>2. About(t, i) \subseteq 1 .. n
    BY <1>1 DEF About
  <2>3. ASSUME NEW k \in About(t, i), \A j \in About(t, i) : j <= k
        PROVE  k = n
    BY <1>1, <2>1, <2>2, <2>3
  <2>4. \A j \in About(t, i) : j <= n
    BY <1>1, <2>2
  <2>5. Held(t, i, h) <=> t[n].type = "REQ"
    BY <2>1, <2>3, <2>4 DEF Held
  <2>6. QED
    BY <1>1, <1>3, <2>5 DEF t
<1>4. QED
  BY <1>2, <1>3

LEMMA HeldTail ==
  ASSUME NEW S, NEW q \in Seq(S), q # << >>, NEW i, NEW h \in BOOLEAN
  PROVE  Held(q, i, h)
           <=> Held(Tail(q), i, IF Names(Head(q), i) THEN Head(q).type = "REQ" ELSE h)
<1> DEFINE t == Tail(q)
           m == Head(q)
<1>1. /\ m = q[1] /\ Len(q) \in Nat \ {0} /\ DOMAIN q = 1 .. Len(q)
      /\ DOMAIN t = 1 .. Len(q) - 1
      /\ \A k \in 1 .. Len(q) - 1 : t[k] = q[k + 1]
  BY TailElements
<1> HIDE DEF t, m
<1>2. ASSUME NEW k \in Int
      PROVE  k \in About(t, i) <=> k # 0 /\ k + 1 \in About(q, i)
  <2>1. k \in DOMAIN t <=> k # 0 /\ k + 1 \in DOMAIN q
    BY <1>1
  <2>2. k \in DOMAIN t => t[k] = q[k + 1]
    BY <1>1
  <2>3. QED
    BY <2>1, <2>2 DEF About
<1>3. 1 \in About(q, i) <=> Names(m, i)
  BY <1>1 DEF About, Names
<1>4. /\ About(t, i) \subseteq Int /\ About(q, i) \subseteq Int
      /\ \A k \in About(q, i) : k >= 1
      /\ \A k \in About(t, i) : k >= 1 /\ t[k] = q[k + 1]
  BY <1>1 DEF About
<1> DEFINE g == IF Names(m, i) THEN m.type = "REQ" ELSE h
<1>5. CASE About(t, i) = {}
  <2>1. \A k \in About(q, i) : k = 1
    <3> TAKE k \in About(q, i)
    <3>1. k - 1 \in Int /\ (k - 1) + 1 = k /\ k \in Int
      BY <1>4
    <3>2. k - 1 \notin About(t, i)
      BY <1>5
    <3>3. k - 1 = 0
      BY <1>2, <3>1, <3>2
    <3>4. QED
      BY <3>1, <3>3
  <2>2. Held(t, i, g) <=> g
    BY <1>5 DEF Held
  <2>3. CASE Names(m, i)
    <3>1. About(q, i) = {1}
      BY <1>3, <2>1, <2>3
    <3>2. Held(q, i, h) <=> q[1].type = "REQ"
      BY <3>1 DEF Held
    <3>3. QED
      BY <1>1, <2>2, <2>3, <3>2 DEF t, m
  <2>4. CASE ~Names(m, i)
    <3>1. About(q, i) = {}
      BY <1>3, <2>1, <2>4
    <3>2. Held(q, i, h) <=> h
      BY <3>1 DEF Held
    <3>3. QED
      BY <2>2, <2>4, <3>2 DEF t, m
  <2>5. QED
    BY <2>3, <2>4
<1>6. CASE About(t, i) # {}
  <2>1. PICK z \in About(t, i) : TRUE
    BY <1>6
  <2>2. z \in Int /\ z >= 1 /\ z + 1 \in About(q, i)
    BY <1>2, <1>4, <2>1
  <2>3. Held(t, i, g) <=> \E k \in About(t, i) : t[k].type = "REQ" /\ \A j \in About(t, i) : j <= k
    BY <1>6 DEF Held
  <2>4. Held(q, i, h) <=> \E k \in About(q, i) : q[k].type = "REQ" /\ \A j \in About(q, i) : j <= k
    BY <2>2 DEF Held
  <2>5. ASSUME NEW k \in About(t, i), t[k].type = "REQ", \A j \in About(t, i) : j <= k
        PROVE  Held(q, i, h)
    <3>1. k \in Int /\ k >= 1 /\ k + 1 \in About(q, i) /\ q[k + 1].type = "REQ"
      BY <1>2, <1>4, <2>5
    <3>2. ASSUME NEW j \in About(q, i)
          PROVE  j <= k + 1
      <4>1. j \in Int /\ j - 1 \in Int /\ (j - 1) + 1 = j /\ j >= 1
        BY <1>4
      <4>2. CASE j - 1 = 0
        BY <3>1, <4>1, <4>2
      <4>3. CASE j - 1 # 0
        <5>1. j - 1 \in About(t, i)
          BY <1>2, <4>1, <4>3
        <5>2. j - 1 <= k
          BY <2>5, <5>1
        <5>3. QED
          BY <3>1, <4>1, <5>2
      <4>4. QED
        BY <4>2, <4>3
    <3>3. QED
      BY <2>4, <3>1, <3>2
  <2>6. ASSUME NEW k \in About(q, i), q[k].type = "REQ", \A j \in About(q, i) : j <= k
        PROVE  Held(t, i, g)
    <3>1. k \in Int /\ z + 1 <= k
      BY <1>4, <2>2, <2>6
    <3>2. k - 1 \in Int /\ k - 1 # 0 /\ (k - 1) + 1 = k
      BY <2>2, <3>1
    <3>3. k - 1 \in About(t, i) /\ t[k - 1] = q[k]
      BY <1>2, <1>4, <3>2
    <3>4. ASSUME NEW j \in About(t, i)
          PROVE  j <= k - 1
      <4>1. j \in Int /\ j + 1 \in About(q, i)
        BY <1>2, <1>4
      <4>2. j + 1 <= k
        BY <2>6, <4>1
      <4>3. QED
        BY <3>1, <4>1, <4>2
    <3>5. t[k - 1].type = "REQ"
      BY <2>6, <3>3
    <3>6. QED
      BY <2>3, <3>3, <3>4, <3>5
  <2>7. QED
    BY <2>3, <2>4, <2>5, <2>6 DEF t, m
<1>7. QED
  BY <1>5, <1>6

-----------------------------------------------------------------------------
(* A waiter taken out of the middle of its queue. *)
(* A prefix of a sequence. *)
LEMMA Prefix ==
  ASSUME NEW S, NEW s \in Seq(S), NEW n \in 0 .. Len(s)
  PROVE  /\ SubSeq(s, 1, n) \in Seq(S)
         /\ Len(SubSeq(s, 1, n)) = n
         /\ \A i \in 1 .. n : SubSeq(s, 1, n)[i] = s[i]
         /\ ToSet(SubSeq(s, 1, n)) \subseteq ToSet(s)
<1> DEFINE t == SubSeq(s, 1, n)
<1>1. Len(s) \in Nat /\ DOMAIN s = 1 .. Len(s) /\ \A i \in 1 .. n : s[i] \in S
  BY LenProperties, ElementOfSeq
<1>2. /\ t \in Seq(S)
      /\ Len(t) = IF 1 <= n THEN n - 1 + 1 ELSE 0
      /\ \A i \in 1 .. n - 1 + 1 : t[i] = s[1 + i - 1]
  BY <1>1, SubSeqProperties
<1> HIDE DEF t
<1>3. Len(t) = n /\ \A i \in 1 .. n : t[i] = s[i]
  BY <1>1, <1>2
<1>4. DOMAIN t = 1 .. n
  BY <1>2, <1>3, LenProperties
<1>5. ToSet(t) \subseteq ToSet(s)
  BY <1>1, <1>3, <1>4 DEF ToSet
<1>6. QED
  BY <1>2, <1>3, <1>5 DEF t

(* A suffix of a sequence. *)
LEMMA Suffix ==
  ASSUME NEW S, NEW s \in Seq(S), NEW m \in 1 .. Len(s) + 1
  PROVE  /\ SubSeq(s, m, Len(s)) \in Seq(S)
         /\ Len(SubSeq(s, m, Len(s))) = Len(s) - m + 1
         /\ \A i \in 1 .. Len(s) - m + 1 : SubSeq(s, m, Len(s))[i] = s[m + i - 1]
<1>1. Len(s) \in Nat /\ \A i \in m .. Len(s) : s[i] \in S
  BY LenProperties, ElementOfSeq
<1>2. QED
  BY <1>1, SubSeqProperties
(* What lies where after an insertion or a removal. *)

LEMMA RemoveAtElements ==
  ASSUME NEW S, NEW s \in Seq(S), NEW p \in 1 .. Len(s)
  PROVE  /\ RemoveAt(s, p) \in Seq(S)
         /\ Len(RemoveAt(s, p)) = Len(s) - 1
         /\ \A i \in 1 .. p - 1 : RemoveAt(s, p)[i] = s[i]
         /\ \A i \in p .. Len(s) - 1 : RemoveAt(s, p)[i] = s[i + 1]
<1> DEFINE a == SubSeq(s, 1, p - 1)
           b == SubSeq(s, p + 1, Len(s))
           t == a \o b
<1>1. Len(s) \in Nat /\ p \in Nat /\ p - 1 \in 0 .. Len(s) /\ p + 1 \in 1 .. Len(s) + 1
  BY LenProperties
<1>2. a \in Seq(S) /\ Len(a) = p - 1 /\ \A i \in 1 .. p - 1 : a[i] = s[i]
  BY <1>1, Prefix
<1>3. /\ b \in Seq(S) /\ Len(b) = Len(s) - (p + 1) + 1
      /\ \A i \in 1 .. Len(s) - (p + 1) + 1 : b[i] = s[p + 1 + i - 1]
  BY <1>1, Suffix
<1> HIDE DEF a, b
<1>4. /\ t \in Seq(S)
      /\ Len(t) = Len(a) + Len(b)
      /\ \A i \in 1 .. Len(a) + Len(b) : t[i] = IF i <= Len(a) THEN a[i] ELSE b[i - Len(a)]
  BY <1>2, <1>3, ConcatProperties
<1>5. t = RemoveAt(s, p)
  BY DEF RemoveAt, a, b
<1> HIDE DEF t
<1>6. Len(t) = Len(s) - 1
  BY <1>1, <1>2, <1>3, <1>4
<1>7. ASSUME NEW i \in 1 .. p - 1
      PROVE  t[i] = s[i]
  <2>1. i \in 1 .. Len(a) + Len(b) /\ i <= Len(a)
    BY <1>1, <1>2, <1>3
  <2>2. QED
    BY <1>2, <1>4, <2>1
<1>8. ASSUME NEW i \in p .. Len(s) - 1
      PROVE  t[i] = s[i + 1]
  <2>1. i \in 1 .. Len(a) + Len(b) /\ ~(i <= Len(a))
    BY <1>1, <1>2, <1>3
  <2>2. t[i] = b[i - (p - 1)]
    BY <1>2, <1>4, <2>1
  <2>3. i - (p - 1) \in 1 .. Len(s) - (p + 1) + 1 /\ p + 1 + (i - (p - 1)) - 1 = i + 1
    BY <1>1
  <2>4. QED
    BY <1>3, <2>2, <2>3
<1>9. QED
  BY <1>4, <1>5, <1>6, <1>7, <1>8


(* What is left keeps its value and its place apart. *)
LEMMA RemoveAtKeeps ==
  ASSUME NEW S, NEW s \in Seq(S), NEW p \in 1 .. Len(s)
  PROVE  /\ RemoveAt(s, p) \in Seq(S)
         /\ \A i \in DOMAIN RemoveAt(s, p) : \E k \in DOMAIN s : RemoveAt(s, p)[i] = s[k]
         /\ \A i, j \in DOMAIN RemoveAt(s, p) :
              i # j => \E k, m \in DOMAIN s :
                         k # m /\ RemoveAt(s, p)[i] = s[k] /\ RemoveAt(s, p)[j] = s[m]
<1> DEFINE t == RemoveAt(s, p)
           At(i) == IF i < p THEN i ELSE i + 1
<1>1. /\ t \in Seq(S) /\ Len(t) = Len(s) - 1
      /\ \A i \in 1 .. p - 1 : t[i] = s[i]
      /\ \A i \in p .. Len(s) - 1 : t[i] = s[i + 1]
  BY RemoveAtElements
<1>2. Len(s) \in Nat /\ DOMAIN s = 1 .. Len(s) /\ DOMAIN t = 1 .. Len(s) - 1
  BY <1>1, LenProperties
<1> HIDE DEF t
<1>3. ASSUME NEW i \in DOMAIN t
      PROVE  At(i) \in DOMAIN s /\ t[i] = s[At(i)]
  <2>1. i \in 1 .. p - 1 \/ i \in p .. Len(s) - 1
    BY <1>2
  <2>2. CASE i \in 1 .. p - 1
    BY <1>1, <1>2, <2>2
  <2>3. CASE i \in p .. Len(s) - 1
    BY <1>1, <1>2, <2>3
  <2>4. QED
    BY <2>1, <2>2, <2>3
<1>4. ASSUME NEW i \in DOMAIN t, NEW j \in DOMAIN t, i # j
      PROVE  At(i) # At(j)
  BY <1>2, <1>4
<1> HIDE DEF At
<1>5. QED
  BY <1>1, <1>3, <1>4 DEF t

(* The requests a reconnected socket opens with: one for each of S. *)
Requests(order) == [k \in DOMAIN order |-> Msg("REQ", order[k])]

LEMMA RequestsForAll ==
  ASSUME NEW S, IsFiniteSet(S), NEW order \in SetToSeqs(S)
  PROVE  /\ order \in Seq(S)
         /\ DOMAIN order = 1 .. Cardinality(S)
         /\ \A l \in S : \E k \in DOMAIN order : order[k] = l
         /\ \A l, k \in DOMAIN order : order[l] = order[k] => l = k
<1> DEFINE D == 1 .. Cardinality(S)
<1>1. Cardinality(S) \in Nat /\ IsFiniteSet(D) /\ Cardinality(D) = Cardinality(S)
  <2>1. Cardinality(S) \in Nat
    BY FS_CardinalityType
  <2>2. IsFiniteSet(1 .. Cardinality(S)) /\ Cardinality(1 .. Cardinality(S)) = Cardinality(S)
    BY <2>1, FS_Interval
  <2>3. QED
    BY <2>1, <2>2
<1>2. order \in [D -> S] /\ \A i, j \in D : i # j => order[i] # order[j]
  BY Zenon DEF SetToSeqs
<1> HIDE DEF D
<1>3. order \in Injection(D, S)
  BY <1>2 DEF Injection, IsInjective
<1>4. order \in Surjection(D, S)
  BY <1>1, <1>3, FS_Injection
<1>5. \A l \in S : \E k \in D : order[k] = l
  BY <1>4 DEF Surjection
<1>6. order \in Seq(S)
  BY <1>1, <1>2, SeqDef DEF D
<1>7. QED
  BY <1>1, <1>2, <1>5, <1>6 DEF D

LEMMA HeldRequests ==
  ASSUME NEW S, IsFiniteSet(S), NEW order \in SetToSeqs(S), NEW i
  PROVE  Held(Requests(order), i, FALSE) <=> i \in S
<1>1. /\ order \in Seq(S)
      /\ DOMAIN order = 1 .. Cardinality(S)
      /\ \A l \in S : \E k \in DOMAIN order : order[k] = l
      /\ \A l, k \in DOMAIN order : order[l] = order[k] => l = k
  BY RequestsForAll
<1>2. /\ DOMAIN Requests(order) = DOMAIN order
      /\ \A k \in DOMAIN order : Requests(order)[k].id = order[k] /\ Requests(order)[k].type = "REQ"
  BY DEF Requests, Msg
<1>3. \A k \in DOMAIN order : order[k] \in S
  BY <1>1, ElementOfSeq, LenProperties
<1>4. About(Requests(order), i) = {k \in DOMAIN order : order[k] = i}
  BY <1>2 DEF About
<1>5. CASE i \in S
  <2>1. PICK k \in DOMAIN order : order[k] = i
    BY <1>1, <1>5
  <2>2. About(Requests(order), i) = {k}
    BY <1>1, <1>4, <2>1
  <2>3. k <= k
    BY <1>1, <2>1, FS_CardinalityType
  <2>4. Held(Requests(order), i, FALSE)
    BY <1>2, <2>1, <2>2, <2>3 DEF Held
  <2>5. QED
    BY <1>5, <2>4
<1>6. CASE i \notin S
  <2>1. About(Requests(order), i) = {}
    BY <1>3, <1>4, <1>6
  <2>2. QED
    BY <1>6, <2>1 DEF Held
<1>7. QED
  BY <1>5, <1>6

-----------------------------------------------------------------------------
(* Types. *)
LEMMA RequestTypes ==
  /\ \A i \in SubId : Msg("REQ", i) \in Request /\ Msg("CLOSE", i) \in Request
  /\ \A c \in Count : Msg("COUNT", c) \in Request
  /\ \A e \in Event : Msg("EVENT", e) \in Request
BY DEF Request, Msg

LEMMA AnswerTypes ==
  /\ \A i \in SubId : Msg("EOSE", i) \in Answer /\ Msg("CLOSED", i) \in Answer
  /\ \A i \in SubId, v \in {"stored", "new"} : [type |-> "EVENT", id |-> i, says |-> v] \in Answer
  /\ \A c \in Count : Msg("COUNT", c) \in Answer
  /\ \A e \in Event, v \in {"ok", "rate", "refused"} : [type |-> "OK", id |-> e, says |-> v] \in Answer
BY DEF Answer, Msg

LEMMA RequestKinds ==
  ASSUME NEW m \in Request
  PROVE  /\ m.type \in {"REQ", "CLOSE"} => m.id \in SubId
         /\ m.type = "COUNT" => m.id \in Count
         /\ m.type = "EVENT" => m.id \in Event
         /\ m.type \in {"REQ", "CLOSE", "COUNT", "EVENT"}
         /\ m = Msg(m.type, m.id)
BY DEF Request, Msg

LEMMA AnswerKinds ==
  ASSUME NEW m \in Answer
  PROVE  /\ m.type \in {"EOSE", "CLOSED"} => m.id \in SubId /\ m = Msg(m.type, m.id)
         /\ m.type = "COUNT" => m.id \in Count
         /\ m.type = "EVENT" => m.id \in SubId /\ m.says \in {"stored", "new"}
         /\ m.type = "OK" => m.id \in Event /\ m.says \in {"ok", "rate", "refused"}
         /\ m.type \in {"EOSE", "CLOSED", "COUNT", "EVENT", "OK"}
         /\ m.type = "EVENT" => m = [type |-> "EVENT", id |-> m.id, says |-> m.says]
BY DEF Answer, Msg

LEMMA Apart ==
  /\ Fetch \cap Count = {} /\ Fetch \cap Publish = {} /\ Fetch \cap LiveSub = {}
  /\ Count \cap Publish = {} /\ Count \cap LiveSub = {} /\ Publish \cap LiveSub = {}
BY UpstreamAssumption DEF Call

LEMMA SendType ==
  ASSUME up \in [Socket -> Seq(Request)], NEW s \in Socket, NEW m \in Request, Send(s, m)
  PROVE  up' \in [Socket -> Seq(Request)]
<1>1. Append(up[s], m) \in Seq(Request)
  BY AppendProperties
<1>2. QED
  BY <1>1 DEF Send

LEMMA ReplyType ==
  ASSUME down \in [Socket -> Seq(Answer)], NEW s \in Socket, NEW m \in Answer, Reply(s, m)
  PROVE  down' \in [Socket -> Seq(Answer)]
<1>1. Append(down[s], m) \in Seq(Answer)
  BY AppendProperties
<1>2. QED
  BY <1>1 DEF Reply

LEMMA RelayTakesType ==
  ASSUME TypeOK, NEW s \in Socket, NEW type, RelayTakes(s, type)
  PROVE  up' \in [Socket -> Seq(Request)] /\ Head(up[s]) \in Request /\ Head(up[s]).type = type
<1>1. up \in [Socket -> Seq(Request)] /\ up[s] # << >>
  BY DEF TypeOK, RelayTakes
<1>2. Tail(up[s]) \in Seq(Request) /\ Head(up[s]) \in Request
  BY <1>1, HeadTailProperties
<1>3. QED
  BY <1>1, <1>2 DEF RelayTakes

LEMMA ReceivesType ==
  ASSUME TypeOK, NEW s \in Socket, NEW type, Receives(s, type)
  PROVE  down' \in [Socket -> Seq(Answer)] /\ Head(down[s]) \in Answer /\ Head(down[s]).type = type
<1>1. down \in [Socket -> Seq(Answer)] /\ down[s] # << >>
  BY DEF TypeOK, Receives
<1>2. Tail(down[s]) \in Seq(Answer) /\ Head(down[s]) \in Answer
  BY <1>1, HeadTailProperties
<1>3. QED
  BY <1>1, <1>2 DEF Receives

LEMMA SettleType ==
  ASSUME outcome \in [Call -> {"none", "answered", "failed"}], NEW D,
         NEW r \in {"answered", "failed"}, Settle(D, r)
  PROVE  outcome' \in [Call -> {"none", "answered", "failed"}]
BY DEF Settle

LEMMA QueueType ==
  ASSUME TypeOK, NEW s \in Socket, NEW e \in Event, NEW q \in Seq(Waiter)
  PROVE  [waiters EXCEPT ![s][e] = q] \in [Socket -> [Event -> Seq(Waiter)]]
BY DEF TypeOK

LEMMA PushWaiterType ==
  ASSUME TypeOK, NEW s \in Socket, NEW p \in Publish, NEW n \in 0 .. MaxRetries
  PROVE  /\ PushWaiter(s, p, n) \in [Socket -> [Event -> Seq(Waiter)]]
         /\ PushWaiter(s, p, n)
              = [waiters EXCEPT ![s][EventOf[p]] = Append(waiters[s][EventOf[p]], <<p, n>>)]
         /\ waiters[s][EventOf[p]] \in Seq(Waiter) /\ EventOf[p] \in Event /\ <<p, n>> \in Waiter
<1>1. EventOf[p] \in Event /\ <<p, n>> \in Waiter
  BY DEF Event, Waiter
<1>2. waiters[s][EventOf[p]] \in Seq(Waiter)
  BY <1>1 DEF TypeOK
<1>3. Append(waiters[s][EventOf[p]], <<p, n>>) \in Seq(Waiter)
  BY <1>1, <1>2, AppendProperties
<1>4. PushWaiter(s, p, n)
        = [waiters EXCEPT ![s][EventOf[p]] = Append(waiters[s][EventOf[p]], <<p, n>>)]
  BY DEF PushWaiter
<1>5. QED
  BY <1>1, <1>2, <1>3, <1>4, QueueType

LEMMA CutType ==
  ASSUME TypeOK, NEW s \in Socket, Cut(s)
  PROVE  /\ up' \in [Socket -> Seq(Request)] /\ down' \in [Socket -> Seq(Answer)]
         /\ relaySub' \in [SubId -> {"none", "asked", "sent", "live"}]
<1>1. << >> \in Seq(Request) /\ << >> \in Seq(Answer)
  BY EmptySeq
<1>2. QED
  BY <1>1 DEF Cut, TypeOK

LEMMA FailAllPendingType ==
  ASSUME TypeOK, NEW S \in SUBSET Socket, FailAllPending(S)
  PROVE  /\ pending' \subseteq Fetch \cup Count
         /\ outcome' \in [Call -> {"none", "answered", "failed"}]
         /\ waiters' \in [Socket -> [Event -> Seq(Waiter)]]
<1>1. << >> \in Seq(Waiter)
  BY EmptySeq
<1>2. [e \in Event |-> << >>] \in [Event -> Seq(Waiter)]
  BY <1>1
<1>3. waiters' \in [Socket -> [Event -> Seq(Waiter)]]
  BY <1>2 DEF FailAllPending, TypeOK
<1>4. outcome' \in [Call -> {"none", "answered", "failed"}]
  BY DEF FailAllPending, TypeOK, Settle
<1>5. QED
  BY <1>3, <1>4 DEF FailAllPending, TypeOK

LEMMA HomeType ==
  ASSUME TypeOK, NEW i \in SubId
  PROVE  Home(i) \in Socket
BY DEF TypeOK, Home, Socket, SubId, Call

LEMMA InitType == Init => TypeOK
<1> SUFFICES ASSUME Init PROVE TypeOK
  OBVIOUS
<1>1. << >> \in Seq(Request) /\ << >> \in Seq(Answer) /\ << >> \in Seq(Waiter)
  BY EmptySeq
<1>2. up \in [Socket -> Seq(Request)] /\ down \in [Socket -> Seq(Answer)]
  BY <1>1 DEF Init
<1>3. waiters \in [Socket -> [Event -> Seq(Waiter)]]
  <2>1. [e \in Event |-> << >>] \in [Event -> Seq(Waiter)]
    BY <1>1
  <2>2. QED
    BY <2>1 DEF Init
<1>4. /\ link \in [Socket -> {"connecting", "open", "waiting", "closed"}]
      /\ sock \in [Call -> Socket]
      /\ got \in [Fetch -> SUBSET {"stored", "new"}]
      /\ outcome \in [Call -> {"none", "answered", "failed"}]
      /\ relaySub \in [SubId -> {"none", "asked", "sent", "live"}]
  BY DEF Init, Socket
<1>5. /\ attempt \in [Publish -> 0 .. MaxRetries]
      /\ resub \in [LiveSub -> Nat]
      /\ faults \in 0 .. MaxFaults /\ news \in 0 .. MaxNews
  BY UpstreamAssumption DEF Init
<1>6. QED
  BY <1>2, <1>3, <1>4, <1>5 DEF TypeOK, Init

(* The calls the shim makes and their timers. *)
LEMMA CallType ==
  ASSUME TypeOK, CallInv,
         \/ \E c \in Fetch \cup Count : Ask(c) \/ AskTimeout(c)
         \/ \E p \in Publish : PublishEvent(p) \/ Retry(p)
         \/ \E s \in Socket, w \in Waiter : OkTimeout(s, w)
  PROVE  TypeOK'
<1>0. /\ outcome \in [Call -> {"none", "answered", "failed"}] /\ sock \in [Call -> Socket]
      /\ up \in [Socket -> Seq(Request)]
      /\ Pick \subseteq Socket
  BY DEF TypeOK, Pick, Socket
<1>1. ASSUME NEW c \in Fetch \cup Count, Ask(c)
      PROVE  TypeOK'
  <2>1. /\ outcome' \in [Call -> {"none", "answered", "failed"}] /\ sock' \in [Call -> Socket]
        /\ up' \in [Socket -> Seq(Request)]
        /\ pending' \subseteq Fetch \cup Count
    <3>1. CASE Pick = {}
      BY <1>0, <1>1, <3>1, SettleType DEF Ask, TypeOK
    <3>2. CASE Pick # {}
      <4>1. PICK s \in Pick :
              /\ pending' = pending \cup {c}
              /\ sock' = [sock EXCEPT ![c] = s]
              /\ Send(s, Msg(IF c \in Fetch THEN "REQ" ELSE "COUNT", c))
              /\ UNCHANGED outcome
        BY <1>1, <3>2 DEF Ask
      <4>2. Msg(IF c \in Fetch THEN "REQ" ELSE "COUNT", c) \in Request
        BY RequestTypes DEF SubId
      <4>3. up' \in [Socket -> Seq(Request)]
        BY <1>0, <4>1, <4>2, SendType
      <4>4. QED
        BY <1>0, <4>1, <4>3 DEF TypeOK
    <3>3. QED
      BY <3>1, <3>2
  <2>2. made' \subseteq Call \cup LiveSub
    BY <1>1 DEF Ask, TypeOK, Call
  <2>3. QED
    BY <1>1, <2>1, <2>2 DEF Ask, TypeOK, pubVars, liveVars
<1>2. ASSUME NEW c \in Fetch \cup Count, AskTimeout(c)
      PROVE  TypeOK'
  <2>1. outcome' \in [Call -> {"none", "answered", "failed"}]
    BY <1>0, <1>2, SettleType DEF AskTimeout
  <2>2. up' \in [Socket -> Seq(Request)]
    <3>1. CASE c \in Fetch /\ Connected(sock[c])
      <4>1. sock[c] \in Socket /\ Msg("CLOSE", c) \in Request
        BY <1>0, <3>1, RequestTypes DEF SubId, Call
      <4>2. QED
        BY <1>0, <1>2, <3>1, <4>1, SendType DEF AskTimeout
    <3>2. CASE ~(c \in Fetch /\ Connected(sock[c]))
      BY <1>0, <1>2, <3>2 DEF AskTimeout
    <3>3. QED
      BY <3>1, <3>2
  <2>3. QED
    BY <1>2, <2>1, <2>2 DEF AskTimeout, TypeOK, pubVars, liveVars
<1>3. ASSUME NEW p \in Publish, PublishEvent(p)
      PROVE  TypeOK'
  <2>1. /\ outcome' \in [Call -> {"none", "answered", "failed"}] /\ sock' \in [Call -> Socket]
        /\ up' \in [Socket -> Seq(Request)]
        /\ waiters' \in [Socket -> [Event -> Seq(Waiter)]]
    <3>1. CASE Pick = {}
      BY <1>0, <1>3, <3>1, SettleType DEF PublishEvent, TypeOK
    <3>2. CASE Pick # {}
      <4>1. PICK s \in Pick :
              /\ waiters' = PushWaiter(s, p, 0)
              /\ sock' = [sock EXCEPT ![p] = s]
              /\ Send(s, Msg("EVENT", EventOf[p]))
              /\ UNCHANGED outcome
        BY <1>3, <3>2 DEF PublishEvent
      <4>2. Msg("EVENT", EventOf[p]) \in Request /\ 0 \in 0 .. MaxRetries
        BY RequestTypes, UpstreamAssumption DEF Event
      <4>3. up' \in [Socket -> Seq(Request)]
        BY <1>0, <4>1, <4>2, SendType
      <4>4. waiters' \in [Socket -> [Event -> Seq(Waiter)]]
        BY <1>0, <4>1, <4>2, PushWaiterType
      <4>5. QED
        BY <1>0, <4>1, <4>3, <4>4 DEF TypeOK
    <3>3. QED
      BY <3>1, <3>2
  <2>2. made' \subseteq Call \cup LiveSub
    BY <1>3 DEF PublishEvent, TypeOK, Call
  <2>3. QED
    BY <1>3, <2>1, <2>2 DEF PublishEvent, TypeOK, liveVars
<1>4. ASSUME NEW p \in Publish, Retry(p)
      PROVE  TypeOK'
  <2>0. attempt[p] + 1 \in 0 .. MaxRetries /\ sock[p] \in Socket
    BY <1>0, <1>4, UpstreamAssumption DEF Retry, TypeOK, CallInv, Call
  <2>1. attempt' \in [Publish -> 0 .. MaxRetries]
    BY <1>4, <2>0 DEF Retry, TypeOK
  <2>2. waiters' \in [Socket -> [Event -> Seq(Waiter)]]
    BY <1>4, <2>0, PushWaiterType DEF Retry
  <2>3. outcome' \in [Call -> {"none", "answered", "failed"}] /\ up' \in [Socket -> Seq(Request)]
    <3>1. CASE Connected(sock[p])
      <4>1. Msg("EVENT", EventOf[p]) \in Request
        BY RequestTypes DEF Event
      <4>2. QED
        BY <1>0, <1>4, <2>0, <3>1, <4>1, SendType DEF Retry
    <3>2. CASE ~Connected(sock[p])
      BY <1>0, <1>4, <3>2, SettleType DEF Retry
    <3>3. QED
      BY <3>1, <3>2
  <2>4. QED
    BY <1>4, <2>1, <2>2, <2>3 DEF Retry, TypeOK, liveVars
<1>5. ASSUME NEW s \in Socket, NEW w \in Waiter, OkTimeout(s, w)
      PROVE  TypeOK'
  <2>1. PICK k \in DOMAIN waiters[s][EventOf[w[1]]] :
          waiters' = [waiters EXCEPT ![s][EventOf[w[1]]] = RemoveAt(@, k)]
    BY <1>5 DEF OkTimeout
  <2>2. EventOf[w[1]] \in Event
    BY DEF Waiter, Event
  <2>3. waiters[s][EventOf[w[1]]] \in Seq(Waiter)
    BY <2>2 DEF TypeOK
  <2>4. k \in 1 .. Len(waiters[s][EventOf[w[1]]])
    BY <2>1, <2>3, LenProperties
  <2>5. RemoveAt(waiters[s][EventOf[w[1]]], k) \in Seq(Waiter)
    BY <2>3, <2>4, RemoveAtElements
  <2>6. waiters' = [waiters EXCEPT ![s][EventOf[w[1]]] = RemoveAt(waiters[s][EventOf[w[1]]], k)]
    BY <2>1
  <2>7. waiters' \in [Socket -> [Event -> Seq(Waiter)]]
    BY <2>2, <2>5, <2>6, QueueType
  <2>8. outcome' \in [Call -> {"none", "answered", "failed"}]
    BY <1>0, <1>5, SettleType DEF OkTimeout
  <2>9. QED
    BY <1>5, <2>7, <2>8 DEF OkTimeout, TypeOK, wire, liveVars
<1>6. QED
  BY <1>1, <1>2, <1>3, <1>4, <1>5

(* Live subscriptions. *)
LEMMA LiveType ==
  ASSUME TypeOK, NEW l \in LiveSub,
         SubscribeLive(l) \/ UnsubscribeLive(l) \/ Resubscribe(l)
  PROVE  TypeOK'
<1>0. /\ up \in [Socket -> Seq(Request)] /\ Live \in Socket
      /\ Msg("REQ", l) \in Request /\ Msg("CLOSE", l) \in Request
  BY RequestTypes DEF TypeOK, Socket, SubId
<1>1. up' \in [Socket -> Seq(Request)]
  <2>1. CASE UNCHANGED up
    BY <1>0, <2>1
  <2>2. CASE Send(Live, Msg("REQ", l))
    BY <1>0, <2>2, SendType
  <2>3. CASE Send(Live, Msg("CLOSE", l))
    BY <1>0, <2>3, SendType
  <2>4. QED
    BY <2>1, <2>2, <2>3 DEF SubscribeLive, UnsubscribeLive, Resubscribe
<1>2. CASE SubscribeLive(l)
  <2>1. made' \subseteq Call \cup LiveSub /\ liveSubs' \subseteq LiveSub
    BY <1>2 DEF SubscribeLive, TypeOK
  <2>2. QED
    BY <1>1, <1>2, <2>1 DEF SubscribeLive, TypeOK, callVars, pubVars
<1>3. CASE UnsubscribeLive(l)
  <2>1. liveSubs' \subseteq LiveSub
    BY <1>3 DEF UnsubscribeLive, TypeOK
  <2>2. QED
    BY <1>1, <1>3, <2>1 DEF UnsubscribeLive, TypeOK, callVars, pubVars
<1>4. CASE Resubscribe(l)
  <2>1. resub' \in [LiveSub -> Nat]
    BY <1>4 DEF Resubscribe, TypeOK
  <2>2. QED
    BY <1>1, <1>4, <2>1 DEF Resubscribe, TypeOK, callVars, pubVars
<1>5. QED
  BY <1>2, <1>3, <1>4

(* The messages from the relay. *)
LEMMA RouteType ==
  ASSUME TypeOK, NEW s \in Socket, Route(s)
  PROVE  TypeOK'
<1>0. outcome \in [Call -> {"none", "answered", "failed"}] /\ pending \subseteq Fetch \cup Count
  BY DEF TypeOK
<1> DEFINE m == Head(down[s])
<1>1. CASE RouteEvent(s)
  <2>1. /\ down' \in [Socket -> Seq(Answer)] /\ m.id \in SubId /\ m.says \in {"stored", "new"}
    BY <1>1, ReceivesType, AnswerKinds DEF RouteEvent
  <2>2. m.id \in pending => m.id \in Fetch
    BY <1>0, <2>1, Apart DEF SubId
  <2>3. got' \in [Fetch -> SUBSET {"stored", "new"}]
    BY <1>1, <2>1, <2>2 DEF RouteEvent, TypeOK
  <2>4. QED
    BY <1>1, <2>1, <2>3 DEF RouteEvent, TypeOK, pubVars, liveVars
<1>2. CASE RouteEose(s)
  <2>1. /\ down' \in [Socket -> Seq(Answer)] /\ m.id \in SubId
    BY <1>2, ReceivesType, AnswerKinds DEF RouteEose
  <2>2. /\ pending' \subseteq Fetch \cup Count
        /\ outcome' \in [Call -> {"none", "answered", "failed"}]
        /\ up' \in [Socket -> Seq(Request)]
    <3>1. CASE m.id \in pending
      <4>1. Msg("CLOSE", m.id) \in Request /\ up \in [Socket -> Seq(Request)]
        BY <2>1, RequestTypes DEF TypeOK
      <4>2. pending' = pending \ {m.id} /\ Send(s, Msg("CLOSE", m.id)) /\ Settle({m.id}, "answered")
        BY <1>2, <3>1 DEF RouteEose
      <4>3. QED
        BY <1>0, <4>1, <4>2, SendType, SettleType
    <3>2. CASE m.id \notin pending
      BY <1>2, <3>2 DEF RouteEose, TypeOK
    <3>3. QED
      BY <3>1, <3>2
  <2>3. QED
    BY <1>2, <2>1, <2>2 DEF RouteEose, TypeOK, pubVars, liveVars
<1>3. CASE RouteClosed(s)
  <2>1. /\ down' \in [Socket -> Seq(Answer)] /\ m.id \in SubId
    BY <1>3, ReceivesType, AnswerKinds DEF RouteClosed
  <2>2. outcome' \in [Call -> {"none", "answered", "failed"}]
    BY <1>0, <1>3, SettleType DEF RouteClosed
  <2>3. resub' \in [LiveSub -> Nat]
    BY <1>3 DEF RouteClosed, TypeOK
  <2>4. QED
    BY <1>3, <2>1, <2>2, <2>3 DEF RouteClosed, TypeOK, pubVars
<1>4. CASE RouteCount(s)
  <2>1. down' \in [Socket -> Seq(Answer)]
    BY <1>4, ReceivesType DEF RouteCount
  <2>2. outcome' \in [Call -> {"none", "answered", "failed"}]
    BY <1>0, <1>4, SettleType DEF RouteCount
  <2>3. QED
    BY <1>4, <2>1, <2>2 DEF RouteCount, TypeOK, pubVars, liveVars
<1>5. CASE RouteOk(s)
  <2> DEFINE q == waiters[s][m.id]
             p == Head(q)[1]
  <2>1. /\ down' \in [Socket -> Seq(Answer)] /\ m.id \in Event
    BY <1>5, ReceivesType, AnswerKinds DEF RouteOk
  <2>2. q \in Seq(Waiter)
    BY <2>1 DEF TypeOK
  <2>3. /\ waiters' \in [Socket -> [Event -> Seq(Waiter)]] /\ backoff' \subseteq Publish
        /\ outcome' \in [Call -> {"none", "answered", "failed"}]
    <3>1. CASE q = << >>
      <4>1. UNCHANGED <<waiters, backoff, outcome>>
        BY <1>5, <3>1 DEF RouteOk
      <4>2. QED
        BY <4>1 DEF TypeOK
    <3>2. CASE q # << >>
      <4>1. Tail(q) \in Seq(Waiter) /\ Head(q) \in Waiter
        BY <2>2, <3>2, HeadTailProperties
      <4>2. p \in Publish
        BY <4>1 DEF Waiter
      <4>3. waiters' = [waiters EXCEPT ![s][m.id] = Tail(q)]
        BY <1>5, <3>2 DEF RouteOk
      <4>4. waiters' \in [Socket -> [Event -> Seq(Waiter)]]
        BY <2>1, <4>1, <4>3, QueueType
      <4>5. \/ backoff' = backoff \cup {p} /\ UNCHANGED outcome
            \/ Settle({p}, "answered") /\ UNCHANGED backoff
            \/ Settle({p}, "failed") /\ UNCHANGED backoff
        BY <1>5, <3>2 DEF RouteOk
      <4>6. outcome' \in [Call -> {"none", "answered", "failed"}]
        BY <1>0, <4>5, SettleType
      <4>7. backoff' \subseteq Publish
        BY <4>2, <4>5 DEF TypeOK
      <4>8. QED
        BY <4>4, <4>6, <4>7
    <3>3. QED
      BY <3>1, <3>2
  <2>4. QED
    BY <1>5, <2>1, <2>3 DEF RouteOk, TypeOK, liveVars
<1>6. QED
  BY <1>1, <1>2, <1>3, <1>4, <1>5 DEF Route

(* Connections. *)
LEMMA LinkType ==
  ASSUME TypeOK, CallInv,
         (\E s \in Socket : Opened(s) \/ Lost(s) \/ Reconnect(s)) \/ Close
  PROVE  TypeOK'
<1>1. ASSUME NEW s \in Socket, Opened(s)
      PROVE  TypeOK'
  <2>1. IsFiniteSet(liveSubs)
    BY FS_Subset DEF CallInv
  <2>2. PICK order \in SetToSeqs(liveSubs) :
          up' = IF s = Live THEN [up EXCEPT ![s] = [k \in DOMAIN order |-> Msg("REQ", order[k])]]
                ELSE up
    BY <1>1 DEF Opened
  <2>3. order \in Seq(liveSubs) /\ DOMAIN order = 1 .. Cardinality(liveSubs)
    BY <2>1, RequestsForAll
  <2>4. \A k \in DOMAIN order : Msg("REQ", order[k]) \in Request
    <3> TAKE k \in DOMAIN order
    <3>1. order[k] \in liveSubs
      BY <2>3, ElementOfSeq, LenProperties
    <3>2. QED
      BY <3>1, RequestTypes DEF TypeOK, SubId
  <2>5. Requests(order) \in Seq(Request)
    <3>1. Cardinality(liveSubs) \in Nat
      BY <2>1, FS_CardinalityType
    <3>2. Requests(order) \in [1 .. Cardinality(liveSubs) -> Request]
      BY <2>3, <2>4 DEF Requests
    <3>3. QED
      BY <3>1, <3>2, SeqDef
  <2>6. up' \in [Socket -> Seq(Request)]
    BY <2>2, <2>5 DEF TypeOK, Requests
  <2>7. link' \in [Socket -> {"connecting", "open", "waiting", "closed"}] /\ first' \subseteq Socket
    BY <1>1 DEF Opened, TypeOK
  <2>8. QED
    BY <1>1, <2>6, <2>7 DEF Opened, TypeOK, callVars, pubVars, liveVars
<1>2. ASSUME NEW s \in Socket, Lost(s)
      PROVE  TypeOK'
  <2>1. /\ up' \in [Socket -> Seq(Request)] /\ down' \in [Socket -> Seq(Answer)]
        /\ relaySub' \in [SubId -> {"none", "asked", "sent", "live"}]
    BY <1>2, CutType DEF Lost
  <2>2. /\ pending' \subseteq Fetch \cup Count
        /\ outcome' \in [Call -> {"none", "answered", "failed"}]
        /\ waiters' \in [Socket -> [Event -> Seq(Waiter)]]
    BY <1>2, FailAllPendingType DEF Lost
  <2>3. link' \in [Socket -> {"connecting", "open", "waiting", "closed"}] /\ faults' \in 0 .. MaxFaults
    BY <1>2, UpstreamAssumption DEF Lost, TypeOK
  <2>4. QED
    BY <1>2, <2>1, <2>2, <2>3 DEF Lost, TypeOK, liveVars
<1>3. ASSUME NEW s \in Socket, Reconnect(s)
      PROVE  TypeOK'
  BY <1>3 DEF Reconnect, TypeOK, wire, callVars, pubVars, liveVars
<1>4. ASSUME Close
      PROVE  TypeOK'
  <2>0. << >> \in Seq(Request) /\ << >> \in Seq(Answer)
    BY EmptySeq
  <2>1. /\ up' \in [Socket -> Seq(Request)] /\ down' \in [Socket -> Seq(Answer)]
        /\ relaySub' \in [SubId -> {"none", "asked", "sent", "live"}]
        /\ link' \in [Socket -> {"connecting", "open", "waiting", "closed"}]
    BY <1>4, <2>0 DEF Close
  <2>2. /\ pending' \subseteq Fetch \cup Count
        /\ outcome' \in [Call -> {"none", "answered", "failed"}]
        /\ waiters' \in [Socket -> [Event -> Seq(Waiter)]]
    BY <1>4, FailAllPendingType DEF Close
  <2>3. QED
    BY <1>4, <2>1, <2>2 DEF Close, TypeOK, liveVars
<1>5. QED
  BY <1>1, <1>2, <1>3, <1>4

(* The relay. *)
RelayActs ==
  \/ \E s \in Socket : \/ RelayReq(s) \/ RelayRefuses(s) \/ RelayClose(s) \/ RelayCount(s)
                       \/ \E v \in {"ok", "rate", "refused"} : RelayPublish(s, v)
  \/ \E i \in SubId : RelayStored(i) \/ RelayEose(i) \/ RelayNews(i)

LEMMA RelayType ==
  ASSUME TypeOK, RelayActs
  PROVE  TypeOK'
<1>0. /\ down \in [Socket -> Seq(Answer)] /\ faults \in 0 .. MaxFaults /\ news \in 0 .. MaxNews
      /\ MaxFaults \in Nat /\ MaxNews \in Nat
  BY UpstreamAssumption DEF TypeOK
<1>1. ASSUME NEW s \in Socket, RelayReq(s)
      PROVE  TypeOK'
  <2>1. up' \in [Socket -> Seq(Request)] /\ Head(up[s]).id \in SubId
    BY <1>1, RelayTakesType, RequestKinds DEF RelayReq
  <2>2. relaySub' \in [SubId -> {"none", "asked", "sent", "live"}]
    BY <1>1, <2>1 DEF RelayReq, TypeOK
  <2>3. QED
    BY <1>1, <2>1, <2>2 DEF RelayReq, RelayRest, TypeOK, callVars, pubVars, liveVars
<1>2. ASSUME NEW s \in Socket, RelayRefuses(s)
      PROVE  TypeOK'
  <2>1. up' \in [Socket -> Seq(Request)] /\ Head(up[s]).id \in SubId
    BY <1>2, RelayTakesType, RequestKinds DEF RelayRefuses
  <2>2. down' \in [Socket -> Seq(Answer)]
    BY <1>0, <1>2, <2>1, AnswerTypes, ReplyType DEF RelayRefuses
  <2>3. faults' \in 0 .. MaxFaults
    BY <1>0, <1>2 DEF RelayRefuses
  <2>4. QED
    BY <1>2, <2>1, <2>2, <2>3 DEF RelayRefuses, RelayRest, TypeOK, callVars, pubVars, liveVars
<1>3. ASSUME NEW s \in Socket, RelayClose(s)
      PROVE  TypeOK'
  <2>1. up' \in [Socket -> Seq(Request)] /\ Head(up[s]).id \in SubId
    BY <1>3, RelayTakesType, RequestKinds DEF RelayClose
  <2>2. relaySub' \in [SubId -> {"none", "asked", "sent", "live"}]
    BY <1>3, <2>1 DEF RelayClose, TypeOK
  <2>3. QED
    BY <1>3, <2>1, <2>2 DEF RelayClose, RelayRest, TypeOK, callVars, pubVars, liveVars
<1>4. ASSUME NEW s \in Socket, RelayCount(s)
      PROVE  TypeOK'
  <2>1. up' \in [Socket -> Seq(Request)] /\ Head(up[s]).id \in Count
    BY <1>4, RelayTakesType, RequestKinds DEF RelayCount
  <2>2. down' \in [Socket -> Seq(Answer)]
    BY <1>0, <1>4, <2>1, AnswerTypes, ReplyType DEF RelayCount
  <2>3. QED
    BY <1>4, <2>1, <2>2 DEF RelayCount, RelayRest, TypeOK, callVars, pubVars, liveVars
<1>5. ASSUME NEW s \in Socket, NEW v \in {"ok", "rate", "refused"}, RelayPublish(s, v)
      PROVE  TypeOK'
  <2>1. up' \in [Socket -> Seq(Request)] /\ Head(up[s]).id \in Event
    BY <1>5, RelayTakesType, RequestKinds DEF RelayPublish
  <2>2. [type |-> "OK", id |-> Head(up[s]).id, says |-> v] \in Answer
    BY <2>1, AnswerTypes
  <2>3. down' \in [Socket -> Seq(Answer)]
    BY <1>0, <1>5, <2>2, ReplyType DEF RelayPublish
  <2>4. stored' \subseteq Event
    BY <1>5, <2>1 DEF RelayPublish, TypeOK
  <2>5. faults' \in 0 .. MaxFaults
    BY <1>0, <1>5 DEF RelayPublish
  <2>6. QED
    BY <1>5, <2>1, <2>3, <2>4, <2>5 DEF RelayPublish, RelayRest, TypeOK, callVars, pubVars, liveVars
<1>6. ASSUME NEW i \in SubId, RelayStored(i)
      PROVE  TypeOK'
  <2>1. down' \in [Socket -> Seq(Answer)]
    BY <1>0, <1>6, AnswerTypes, HomeType, ReplyType DEF RelayStored
  <2>2. relaySub' \in [SubId -> {"none", "asked", "sent", "live"}]
    BY <1>6 DEF RelayStored, TypeOK
  <2>3. QED
    BY <1>6, <2>1, <2>2 DEF RelayStored, RelayRest, TypeOK, callVars, pubVars, liveVars
<1>7. ASSUME NEW i \in SubId, RelayEose(i)
      PROVE  TypeOK'
  <2>1. down' \in [Socket -> Seq(Answer)]
    BY <1>0, <1>7, AnswerTypes, HomeType, ReplyType DEF RelayEose
  <2>2. relaySub' \in [SubId -> {"none", "asked", "sent", "live"}]
    BY <1>7 DEF RelayEose, TypeOK
  <2>3. QED
    BY <1>7, <2>1, <2>2 DEF RelayEose, RelayRest, TypeOK, callVars, pubVars, liveVars
<1>8. ASSUME NEW i \in SubId, RelayNews(i)
      PROVE  TypeOK'
  <2>1. down' \in [Socket -> Seq(Answer)]
    BY <1>0, <1>8, AnswerTypes, HomeType, ReplyType DEF RelayNews
  <2>2. news' \in 0 .. MaxNews
    BY <1>0, <1>8 DEF RelayNews
  <2>3. QED
    BY <1>8, <2>1, <2>2 DEF RelayNews, RelayRest, TypeOK, callVars, pubVars, liveVars
<1>9. QED
  BY <1>1, <1>2, <1>3, <1>4, <1>5, <1>6, <1>7, <1>8 DEF RelayActs

(* The steps by who takes them. *)
CallSteps ==
  \/ \E c \in Fetch \cup Count : Ask(c) \/ AskTimeout(c)
  \/ \E p \in Publish : PublishEvent(p) \/ Retry(p)
  \/ \E s \in Socket, w \in Waiter : OkTimeout(s, w)
LiveSteps == \E l \in LiveSub : SubscribeLive(l) \/ UnsubscribeLive(l) \/ Resubscribe(l)
LinkSteps == (\E s \in Socket : Opened(s) \/ Lost(s) \/ Reconnect(s)) \/ Close

LEMMA StepCases ==
  ASSUME [Next]_vars
  PROVE  CallSteps \/ LiveSteps \/ (\E s \in Socket : Route(s)) \/ LinkSteps \/ RelayActs
           \/ UNCHANGED vars
BY Zenon DEF Next, Timers, Relay, CallSteps, LiveSteps, LinkSteps, RelayActs

LEMMA TypeStep ==
  ASSUME TypeOK, CallInv, [Next]_vars
  PROVE  TypeOK'
<1>1. CASE CallSteps
  BY <1>1, CallType DEF CallSteps
<1>2. CASE LiveSteps
  BY <1>2, LiveType DEF LiveSteps
<1>3. CASE \E s \in Socket : Route(s)
  BY <1>3, RouteType
<1>4. CASE LinkSteps
  BY <1>4, LinkType DEF LinkSteps
<1>5. CASE RelayActs
  BY <1>5, RelayType
<1>6. CASE UNCHANGED vars
  BY <1>6 DEF vars, wire, callVars, pubVars, liveVars, TypeOK
<1>7. QED
  BY <1>1, <1>2, <1>3, <1>4, <1>5, <1>6, StepCases

-----------------------------------------------------------------------------
(* The calls: what settles, and what waits. *)
LEMMA Settled ==
  ASSUME TypeOK, NEW D, NEW r, Settle(D, r)
  PROVE  \A c \in Call : outcome'[c] = IF c \in D /\ outcome[c] = "none" THEN r ELSE outcome[c]
BY DEF Settle

LEMMA Waits ==
  ASSUME TypeOK, WaitInv, NEW s \in Socket, NEW p \in WaitingOn(s)
  PROVE  /\ p \in Publish /\ p \in made /\ p \notin backoff /\ sock[p] = s
         /\ outcome[p] = "none" \/ (attempt[p] > 0 /\ outcome[p] = "failed")
<1>1. PICK n \in 0 .. MaxRetries : Contains(waiters[s][EventOf[p]], <<p, n>>)
  BY DEF WaitingOn
<1>2. p \in Publish /\ EventOf[p] \in Event
  BY DEF WaitingOn, Event
<1>3. waiters[s][EventOf[p]] \in Seq(Waiter)
  BY <1>2 DEF TypeOK
<1>4. PICK k \in DOMAIN waiters[s][EventOf[p]] : waiters[s][EventOf[p]][k] = <<p, n>>
  BY <1>1, <1>3, LenProperties DEF Contains
<1>5. WaiterHolds(s, EventOf[p], <<p, n>>)
  BY <1>2, <1>4 DEF WaitInv
<1>6. QED
  BY <1>2, <1>5 DEF WaiterHolds

(* The rest of a queue holds what it held, each waiter once. *)
Shrinks(q, r) ==
  /\ \A i \in DOMAIN r : \E k \in DOMAIN q : r[i] = q[k]
  /\ \A i, j \in DOMAIN r : i # j => \E k, m \in DOMAIN q : k # m /\ r[i] = q[k] /\ r[j] = q[m]

LEMMA ShrinksSame == ASSUME NEW q PROVE Shrinks(q, q)
BY DEF Shrinks

LEMMA ShrinksEmpty == ASSUME NEW q PROVE Shrinks(q, << >>)
BY DEF Shrinks

LEMMA ShrinksTail ==
  ASSUME NEW S, NEW q \in Seq(S), q # << >>
  PROVE  Shrinks(q, Tail(q))
<1>1. /\ DOMAIN q = 1 .. Len(q) /\ DOMAIN Tail(q) = 1 .. Len(q) - 1 /\ Len(q) \in Nat
      /\ \A k \in 1 .. Len(q) - 1 : Tail(q)[k] = q[k + 1]
  BY TailElements
<1> DEFINE t == Tail(q)
<1> HIDE DEF t
<1>2. ASSUME NEW i \in DOMAIN t
      PROVE  i + 1 \in DOMAIN q /\ t[i] = q[i + 1]
  BY <1>1 DEF t
<1>3. ASSUME NEW i \in DOMAIN t, NEW j \in DOMAIN t, i # j
      PROVE  i + 1 # j + 1
  BY <1>1, <1>3 DEF t
<1>4. QED
  BY <1>2, <1>3 DEF Shrinks, t

LEMMA ShrinksRemoveAt ==
  ASSUME NEW S, NEW q \in Seq(S), NEW p \in 1 .. Len(q)
  PROVE  Shrinks(q, RemoveAt(q, p))
BY RemoveAtKeeps DEF Shrinks

(* A waiter that holds in the next state. *)
HoldsNext(s, e, w) ==
  /\ EventOf[w[1]] = e /\ sock'[w[1]] = s /\ w[2] = attempt'[w[1]]
  /\ w[1] \in made' /\ w[1] \notin backoff'
  /\ outcome'[w[1]] = "none" \/ (attempt'[w[1]] > 0 /\ outcome'[w[1]] = "failed")

LEMMA WaitShrinks ==
  ASSUME WaitInv,
         \A s \in Socket : \A e \in Event :
           /\ Shrinks(waiters[s][e], waiters'[s][e])
           /\ \A i \in DOMAIN waiters'[s][e] : HoldsNext(s, e, waiters'[s][e][i])
  PROVE  WaitInv'
<1>1. ASSUME NEW s \in Socket, NEW e \in Event, NEW i \in DOMAIN waiters'[s][e]
      PROVE  WaiterHolds(s, e, waiters[s][e][i])'
  BY DEF WaiterHolds, HoldsNext
<1>2. ASSUME NEW s \in Socket, NEW e \in Event,
             NEW j \in DOMAIN waiters'[s][e], NEW k \in DOMAIN waiters'[s][e], j # k,
             waiters'[s][e][j][1] = waiters'[s][e][k][1]
      PROVE  FALSE
  <2>1. PICK m, n \in DOMAIN waiters[s][e] :
          m # n /\ waiters'[s][e][j] = waiters[s][e][m] /\ waiters'[s][e][k] = waiters[s][e][n]
    BY <1>2 DEF Shrinks
  <2>2. waiters[s][e][m][1] = waiters[s][e][n][1]
    BY <1>2, <2>1
  <2>3. QED
    BY <2>1, <2>2 DEF WaitInv
<1>3. QED
  BY <1>1, <1>2 DEF WaitInv

(* A step that leaves every publish that waits as it is. *)
PublishesAlone ==
  /\ UNCHANGED <<attempt, waiters, backoff>>
  /\ made \subseteq made'
  /\ \A p \in Publish \cap made : sock'[p] = sock[p] /\ outcome'[p] = outcome[p]

LEMMA WaiterOfQueue ==
  ASSUME TypeOK, WaitInv, NEW s \in Socket, NEW e \in Event, NEW k \in DOMAIN waiters[s][e]
  PROVE  /\ waiters[s][e][k] \in Waiter /\ waiters[s][e][k][1] \in Publish
         /\ WaiterHolds(s, e, waiters[s][e][k])
<1>1. waiters[s][e] \in Seq(Waiter)
  BY DEF TypeOK
<1>2. waiters[s][e][k] \in Waiter
  BY <1>1, ElementOfSeq, LenProperties
<1>3. waiters[s][e][k][1] \in Publish
  BY <1>2 DEF Waiter
<1>4. QED
  BY <1>2, <1>3 DEF WaitInv

LEMMA WaitAlone ==
  ASSUME TypeOK, WaitInv, PublishesAlone
  PROVE  WaitInv'
<1>1. waiters' = waiters
  BY DEF PublishesAlone
<1>2. ASSUME NEW s \in Socket, NEW e \in Event, NEW k \in DOMAIN waiters[s][e]
      PROVE  HoldsNext(s, e, waiters[s][e][k])
  <2>1. waiters[s][e][k][1] \in Publish /\ WaiterHolds(s, e, waiters[s][e][k])
    BY WaiterOfQueue
  <2>2. QED
    BY <2>1 DEF WaiterHolds, HoldsNext, PublishesAlone
<1>3. \A s \in Socket, e \in Event : Shrinks(waiters[s][e], waiters'[s][e])
  BY <1>1, ShrinksSame
<1>4. QED
  BY <1>1, <1>2, <1>3, WaitShrinks

(* A new waiter, of a publish that waits nowhere. *)
LEMMA WaitPushes ==
  ASSUME TypeOK, WaitInv, NEW p \in Publish, NEW n \in 0 .. MaxRetries, NEW s \in Socket,
         p \notin made \/ p \in backoff,
         waiters' = PushWaiter(s, p, n),
         made' = made \cup {p}, backoff' = backoff \ {p}, p \notin backoff',
         sock'[p] = s, attempt'[p] = n,
         outcome'[p] = "none" \/ (n > 0 /\ outcome'[p] = "failed"),
         \A o \in Publish \ {p} : /\ sock'[o] = sock[o] /\ attempt'[o] = attempt[o]
                                  /\ outcome'[o] = outcome[o]
  PROVE  WaitInv'
<1> DEFINE e == EventOf[p]
           q == waiters[s][e]
           r == Append(q, <<p, n>>)
<1>1. /\ waiters' = [waiters EXCEPT ![s][e] = r]
      /\ q \in Seq(Waiter) /\ e \in Event /\ <<p, n>> \in Waiter
      /\ waiters \in [Socket -> [Event -> Seq(Waiter)]]
  <2>1. /\ PushWaiter(s, p, n) = [waiters EXCEPT ![s][EventOf[p]]
                                     = Append(waiters[s][EventOf[p]], <<p, n>>)]
        /\ waiters[s][EventOf[p]] \in Seq(Waiter) /\ EventOf[p] \in Event
        /\ <<p, n>> \in Waiter
    BY PushWaiterType
  <2>2. waiters \in [Socket -> [Event -> Seq(Waiter)]]
    BY DEF TypeOK
  <2>3. QED
    BY <2>1, <2>2
<1>2. /\ Len(q) \in Nat /\ DOMAIN q = 1 .. Len(q) /\ DOMAIN r = 1 .. Len(q) + 1
      /\ \A k \in 1 .. Len(q) : r[k] = q[k]
      /\ r[Len(q) + 1] = <<p, n>>
  BY <1>1, AppendElements
<1> HIDE DEF r
<1>3. ASSUME NEW t \in Socket, NEW x \in Event, NEW k \in DOMAIN waiters[t][x]
      PROVE  waiters[t][x][k][1] # p /\ HoldsNext(t, x, waiters[t][x][k])
  <2>1. waiters[t][x][k][1] \in Publish /\ WaiterHolds(t, x, waiters[t][x][k])
    BY WaiterOfQueue
  <2>2. waiters[t][x][k][1] # p
    BY <2>1 DEF WaiterHolds
  <2>3. QED
    BY <2>1, <2>2 DEF WaiterHolds, HoldsNext
<1>4. HoldsNext(s, e, <<p, n>>)
  BY DEF HoldsNext
<1>5. /\ waiters'[s][e] = r
      /\ \A t \in Socket, x \in Event : (t = s /\ x = e) \/ waiters'[t][x] = waiters[t][x]
  BY <1>1
<1>6. ASSUME NEW k \in DOMAIN r
      PROVE  /\ HoldsNext(s, e, r[k])
             /\ k # Len(q) + 1 => k \in DOMAIN q /\ r[k] = q[k] /\ r[k][1] # p
             /\ k = Len(q) + 1 => r[k][1] = p
  <2>1. k \in DOMAIN q \/ k = Len(q) + 1
    BY <1>2
  <2>2. CASE k \in DOMAIN q
    <3>1. r[k] = q[k] /\ k # Len(q) + 1
      BY <1>2, <2>2
    <3>2. q[k][1] # p /\ HoldsNext(s, e, q[k])
      BY <1>1, <1>3, <2>2
    <3>3. QED
      BY <2>2, <3>1, <3>2
  <2>3. CASE k = Len(q) + 1
    BY <1>2, <1>4, <2>3
  <2>4. QED
    BY <2>1, <2>2, <2>3
<1>7. ASSUME NEW t \in Socket, NEW x \in Event, NEW k \in DOMAIN waiters'[t][x]
      PROVE  HoldsNext(t, x, waiters'[t][x][k])
  BY <1>3, <1>5, <1>6
<1>8. ASSUME NEW j \in DOMAIN r, NEW k \in DOMAIN r, r[j][1] = r[k][1]
      PROVE  j = k
  <2>1. CASE j = Len(q) + 1 \/ k = Len(q) + 1
    BY <1>6, <1>8, <2>1
  <2>2. CASE j # Len(q) + 1 /\ k # Len(q) + 1
    <3>1. j \in DOMAIN q /\ k \in DOMAIN q /\ q[j][1] = q[k][1]
      BY <1>6, <1>8, <2>2
    <3>2. QED
      BY <1>1, <3>1 DEF WaitInv
  <2>3. QED
    BY <2>1, <2>2
<1>9. ASSUME NEW t \in Socket, NEW x \in Event,
             NEW j \in DOMAIN waiters'[t][x], NEW k \in DOMAIN waiters'[t][x],
             waiters'[t][x][j][1] = waiters'[t][x][k][1]
      PROVE  j = k
  <2>1. CASE t = s /\ x = e
    BY <1>5, <1>8, <1>9, <2>1
  <2>2. CASE ~(t = s /\ x = e)
    <3>1. waiters'[t][x] = waiters[t][x]
      BY <1>5, <2>2
    <3>2. QED
      BY <1>9, <3>1 DEF WaitInv
  <2>3. QED
    BY <2>1, <2>2
<1>10. ASSUME NEW t \in Socket, NEW x \in Event, NEW k \in DOMAIN waiters'[t][x]
       PROVE  WaiterHolds(t, x, waiters[t][x][k])'
  <2>1. PICK w : w = waiters'[t][x][k]
    OBVIOUS
  <2>2. HoldsNext(t, x, w)
    BY <1>7, <2>1
  <2>3. QED
    BY <2>1, <2>2 DEF HoldsNext, WaiterHolds
<1>11. QED
  BY <1>9, <1>10 DEF WaitInv

(* Each step keeps what is known of the calls and of the waiters. *)
LEMMA AsksKeep ==
  ASSUME TypeOK, CallInv, WaitInv, NEW c \in Fetch \cup Count, Ask(c) \/ AskTimeout(c)
  PROVE  CallInv' /\ WaitInv'
<1>0. /\ c \in Call /\ c \notin Publish
      /\ outcome \in [Call -> {"none", "answered", "failed"}] /\ sock \in [Call -> Socket]
  BY Apart DEF Call, TypeOK
<1>1. CASE Ask(c)
  <2>1. c \notin made /\ made' = made \cup {c} /\ IsFiniteSet(made')
    BY <1>1, FS_AddElement DEF Ask, MayCall, CallInv
  <2>2. /\ \A o \in Call \ {c} : outcome'[o] = outcome[o] /\ sock'[o] = sock[o]
        /\ \/ c \in pending' /\ outcome'[c] = "none"
           \/ c \notin pending' /\ outcome'[c] = "failed"
        /\ pending' \subseteq pending \cup {c} /\ pending \subseteq pending'
    <3>1. CASE Pick = {}
      <4>1. Settle({c}, "failed") /\ UNCHANGED <<pending, sock>>
        BY <1>1, <3>1 DEF Ask
      <4>2. outcome[c] = "none" /\ c \notin pending
        BY <1>0, <2>1 DEF CallInv
      <4>3. QED
        BY <1>0, <4>1, <4>2, Settled
    <3>2. CASE Pick # {}
      <4>1. PICK s \in Pick : /\ pending' = pending \cup {c} /\ sock' = [sock EXCEPT ![c] = s]
                              /\ UNCHANGED outcome
        BY <1>1, <3>2 DEF Ask
      <4>2. QED
        BY <1>0, <2>1, <4>1 DEF CallInv
    <3>3. QED
      BY <3>1, <3>2
  <2>3. UNCHANGED <<attempt, waiters, backoff, liveSubs>>
    BY <1>1 DEF Ask, pubVars, liveVars
  <2>4. PublishesAlone
    BY <1>0, <2>1, <2>2, <2>3 DEF PublishesAlone, Call
  <2>5. CallInv'
    <3>1. (pending \cup (backoff \cup liveSubs))' \subseteq made'
      BY <2>1, <2>2, <2>3 DEF CallInv
    <3>2. \A o \in Call : o \notin made' => outcome'[o] = "none"
      BY <2>1, <2>2 DEF CallInv
    <3>3. \A o \in Fetch \cup Count : o \in made' => (o \in pending' <=> outcome'[o] = "none")
      BY <1>0, <2>1, <2>2 DEF CallInv, Call
    <3>4. \A p \in backoff' : outcome'[p] = "none" /\ attempt'[p] < MaxRetries
      <4> TAKE p \in backoff'
      <4>1. p \in backoff /\ p \in Call \ {c}
        BY <1>0, <2>3 DEF TypeOK, Call
      <4>2. QED
        BY <2>2, <2>3, <4>1 DEF CallInv
    <3>5. \A p \in Publish : p \notin made' => attempt'[p] = 0
      BY <2>1, <2>3 DEF CallInv
    <3>6. QED
      BY <2>1, <3>1, <3>2, <3>3, <3>4, <3>5 DEF CallInv
  <2>6. QED
    BY <2>4, <2>5, WaitAlone
<1>2. CASE AskTimeout(c)
  <2>1. /\ \A o \in Call \ {c} : outcome'[o] = outcome[o]
        /\ outcome'[c] = "failed" /\ c \in pending /\ pending' = pending \ {c} /\ c \in made
        /\ UNCHANGED <<attempt, waiters, backoff, liveSubs, sock, made>>
    <3>1. Settle({c}, "failed") /\ c \in pending /\ c \in made /\ outcome[c] = "none"
      BY <1>2 DEF AskTimeout, CallInv
    <3>2. QED
      BY <1>0, <1>2, <3>1, Settled DEF AskTimeout, pubVars, liveVars
  <2>2. PublishesAlone
    BY <1>0, <2>1 DEF PublishesAlone, Call
  <2>3. CallInv'
    <3>1. \A o \in Fetch \cup Count : o \in made' => (o \in pending' <=> outcome'[o] = "none")
      BY <1>0, <2>1 DEF CallInv, Call
    <3>2. \A p \in backoff' : outcome'[p] = "none" /\ attempt'[p] < MaxRetries
      BY <1>0, <2>1 DEF CallInv, TypeOK, Call
    <3>3. QED
      BY <2>1, <3>1, <3>2 DEF CallInv
  <2>4. QED
    BY <2>2, <2>3, WaitAlone
<1>3. QED
  BY <1>1, <1>2

LEMMA PublishKeeps ==
  ASSUME TypeOK, CallInv, WaitInv, NEW p \in Publish, PublishEvent(p)
  PROVE  CallInv' /\ WaitInv'
<1>0. /\ p \in Call /\ p \notin Fetch \cup Count /\ p \notin LiveSub
      /\ outcome \in [Call -> {"none", "answered", "failed"}] /\ sock \in [Call -> Socket]
  BY Apart DEF Call, TypeOK
<1>1. /\ p \notin made /\ made' = made \cup {p} /\ IsFiniteSet(made')
      /\ UNCHANGED <<attempt, backoff, liveSubs, pending>>
      /\ outcome[p] = "none" /\ attempt[p] = 0 /\ p \notin backoff
  BY <1>0, FS_AddElement DEF PublishEvent, MayCall, CallInv, liveVars
<1>2. \A o \in Call \ {p} : outcome'[o] = outcome[o] /\ sock'[o] = sock[o]
  <2>1. CASE Pick = {}
    <3>1. Settle({p}, "failed") /\ UNCHANGED sock
      BY <2>1 DEF PublishEvent
    <3>2. QED
      BY <3>1, Settled
  <2>2. CASE Pick # {}
    <3>1. PICK s \in Pick : sock' = [sock EXCEPT ![p] = s] /\ UNCHANGED outcome
      BY <2>2 DEF PublishEvent
    <3>2. QED
      BY <1>0, <3>1
  <2>3. QED
    BY <2>1, <2>2
<1>3. CallInv'
  <2>1. \A o \in Fetch \cup Count : o \in made' => (o \in pending' <=> outcome'[o] = "none")
    BY <1>0, <1>1, <1>2 DEF CallInv, Call
  <2>2. \A o \in backoff' : outcome'[o] = "none" /\ attempt'[o] < MaxRetries
    BY <1>1, <1>2 DEF CallInv, TypeOK, Call
  <2>3. \A o \in Call : o \notin made' => outcome'[o] = "none"
    BY <1>1, <1>2 DEF CallInv
  <2>4. QED
    BY <1>1, <2>1, <2>2, <2>3 DEF CallInv
<1>4. WaitInv'
  <2>1. CASE Pick = {}
    <3>1. UNCHANGED waiters
      BY <2>1 DEF PublishEvent
    <3>2. PublishesAlone
      BY <1>1, <1>2, <3>1 DEF PublishesAlone, Call
    <3>3. QED
      BY <3>2, WaitAlone
  <2>2. CASE Pick # {}
    <3>1. PICK s \in Pick : /\ waiters' = PushWaiter(s, p, 0) /\ sock' = [sock EXCEPT ![p] = s]
                            /\ UNCHANGED outcome
      BY <2>2 DEF PublishEvent
    <3>2. s \in Socket /\ 0 \in 0 .. MaxRetries
      BY UpstreamAssumption DEF Pick, Socket
    <3>3. /\ sock'[p] = s /\ attempt'[p] = 0 /\ outcome'[p] = "none" /\ p \notin backoff'
          /\ backoff' = backoff \ {p}
      BY <1>0, <1>1, <3>1
    <3>4. \A o \in Publish \ {p} : /\ sock'[o] = sock[o] /\ attempt'[o] = attempt[o]
                                   /\ outcome'[o] = outcome[o]
      BY <1>1, <1>2 DEF Call
    <3>5. QED
      BY <1>1, <3>1, <3>2, <3>3, <3>4, WaitPushes
  <2>3. QED
    BY <2>1, <2>2
<1>5. QED
  BY <1>3, <1>4

LEMMA RetryKeeps ==
  ASSUME TypeOK, CallInv, WaitInv, NEW p \in Publish, Retry(p)
  PROVE  CallInv' /\ WaitInv'
<1>0. /\ p \in Call /\ p \notin Fetch \cup Count
      /\ outcome \in [Call -> {"none", "answered", "failed"}] /\ sock[p] \in Socket
      /\ attempt[p] \in Nat /\ attempt[p] + 1 \in 0 .. MaxRetries /\ p \in backoff /\ p \in made
      /\ attempt \in [Publish -> 0 .. MaxRetries]
  BY Apart, UpstreamAssumption DEF Call, TypeOK, Retry, CallInv
<1>1. /\ backoff' = backoff \ {p} /\ attempt' = [attempt EXCEPT ![p] = attempt[p] + 1]
      /\ waiters' = PushWaiter(sock[p], p, attempt[p] + 1)
      /\ UNCHANGED <<pending, sock, made, liveSubs>>
  BY DEF Retry, liveVars
<1>2. /\ \A o \in Call \ {p} : outcome'[o] = outcome[o]
      /\ outcome'[p] = "none" \/ outcome'[p] = "failed"
  <2>1. outcome[p] = "none"
    BY <1>0 DEF CallInv
  <2>2. CASE UNCHANGED outcome
    BY <2>1, <2>2
  <2>3. CASE Settle({p}, "failed")
    BY <1>0, <2>1, <2>3, Settled
  <2>4. QED
    BY <2>2, <2>3 DEF Retry
<1>3. CallInv'
  <2>1. \A o \in Fetch \cup Count : o \in made' => (o \in pending' <=> outcome'[o] = "none")
    BY <1>0, <1>1, <1>2 DEF CallInv, Call
  <2>2. \A o \in backoff' : outcome'[o] = "none" /\ attempt'[o] < MaxRetries
    BY <1>0, <1>1, <1>2 DEF CallInv, TypeOK, Call
  <2>3. \A o \in Call : o \notin made' => outcome'[o] = "none"
    BY <1>0, <1>1, <1>2 DEF CallInv
  <2>4. \A o \in Publish : o \notin made' => attempt'[o] = 0
    BY <1>0, <1>1 DEF CallInv
  <2>5. QED
    BY <1>1, <2>1, <2>2, <2>3, <2>4 DEF CallInv
<1>4. WaitInv'
  <2>1. made' = made \cup {p} /\ p \notin backoff' /\ sock'[p] = sock[p]
    BY <1>0, <1>1
  <2>2. attempt'[p] = attempt[p] + 1 /\ attempt[p] + 1 > 0
    BY <1>0, <1>1
  <2>3. \A o \in Publish \ {p} : /\ sock'[o] = sock[o] /\ attempt'[o] = attempt[o]
                                 /\ outcome'[o] = outcome[o]
    BY <1>0, <1>1, <1>2 DEF Call
  <2> DEFINE n == attempt[p] + 1
             t == sock[p]
  <2>4. n \in 0 .. MaxRetries /\ t \in Socket
    BY <1>0
  <2>5. /\ waiters' = PushWaiter(t, p, n) /\ sock'[p] = t /\ attempt'[p] = n
        /\ outcome'[p] = "none" \/ (n > 0 /\ outcome'[p] = "failed")
    BY <1>1, <1>2, <2>1, <2>2
  <2>6. PICK y \in 0 .. MaxRetries : y = n
    BY <2>4
  <2>7. PICK z \in Socket : z = t
    BY <2>4
  <2> HIDE DEF n, t
  <2>8. QED
    BY <1>0, <1>1, <2>1, <2>3, <2>5, <2>6, <2>7, WaitPushes
<1>5. QED
  BY <1>3, <1>4

(* A publish settled by its own waiter, which goes with it. *)
LEMMA WaiterSettles ==
  ASSUME TypeOK, CallInv, WaitInv, NEW s \in Socket, NEW e \in Event,
         NEW k \in DOMAIN waiters[s][e], NEW q \in Seq(Waiter),
         waiters' = [waiters EXCEPT ![s][e] = q],
         Shrinks(waiters[s][e], q),
         \A i \in DOMAIN q : q[i][1] # waiters[s][e][k][1],
         \/ /\ backoff' = backoff \cup {waiters[s][e][k][1]}
            /\ outcome[waiters[s][e][k][1]] = "none"
            /\ attempt[waiters[s][e][k][1]] < MaxRetries
            /\ UNCHANGED outcome
         \/ /\ UNCHANGED backoff
            /\ \E r \in {"answered", "failed"} : Settle({waiters[s][e][k][1]}, r),
         UNCHANGED <<pending, sock, attempt, made, liveSubs>>
  PROVE  CallInv' /\ WaitInv'
<1> DEFINE p == waiters[s][e][k][1]
<1>1. p \in Publish /\ WaiterHolds(s, e, waiters[s][e][k])
  BY WaiterOfQueue
<1>2. p \in made /\ p \notin backoff /\ sock[p] = s /\ EventOf[p] = e
  BY <1>1 DEF WaiterHolds
<1>3. /\ \A o \in Call \ {p} : outcome'[o] = outcome[o]
      /\ p \in backoff' => outcome'[p] = "none" /\ attempt[p] < MaxRetries
      /\ backoff \subseteq backoff' /\ backoff' \subseteq backoff \cup {p}
  <2>1. CASE UNCHANGED backoff
    BY <1>2, <2>1, Settled
  <2>2. CASE backoff' # backoff
    BY <2>2
  <2>3. QED
    BY <2>1, <2>2
<1> HIDE DEF p
<1>4. p \in Call /\ p \notin Fetch \cup Count
  BY <1>1, Apart DEF Call
<1>5. CallInv'
  <2>1. \A o \in Fetch \cup Count : o \in made' => (o \in pending' <=> outcome'[o] = "none")
    BY <1>3, <1>4 DEF CallInv, Call
  <2>2. \A o \in backoff' : outcome'[o] = "none" /\ attempt'[o] < MaxRetries
    BY <1>3 DEF CallInv, TypeOK, Call
  <2>3. \A o \in Call : o \notin made' => outcome'[o] = "none"
    BY <1>2, <1>3 DEF CallInv
  <2>4. (pending \cup (backoff \cup liveSubs))' \subseteq made'
    BY <1>2, <1>3 DEF CallInv
  <2>5. QED
    BY <2>1, <2>2, <2>3, <2>4 DEF CallInv
<1>6. /\ waiters'[s][e] = q
      /\ \A t \in Socket, x \in Event : (t = s /\ x = e) \/ waiters'[t][x] = waiters[t][x]
  BY DEF TypeOK
<1>7. ASSUME NEW t \in Socket, NEW x \in Event, NEW j \in DOMAIN waiters[t][x],
             waiters[t][x][j][1] # p
      PROVE  HoldsNext(t, x, waiters[t][x][j])
  <2>1. waiters[t][x][j][1] \in Publish /\ WaiterHolds(t, x, waiters[t][x][j])
    BY WaiterOfQueue
  <2>2. /\ outcome'[waiters[t][x][j][1]] = outcome[waiters[t][x][j][1]]
        /\ waiters[t][x][j][1] \in backoff' => waiters[t][x][j][1] \in backoff
    BY <1>3, <1>7, <2>1 DEF Call
  <2>3. QED
    BY <2>1, <2>2 DEF WaiterHolds, HoldsNext
<1>8. ASSUME NEW t \in Socket, NEW x \in Event
      PROVE  /\ Shrinks(waiters[t][x], waiters'[t][x])
             /\ \A i \in DOMAIN waiters'[t][x] : HoldsNext(t, x, waiters'[t][x][i])
  <2>1. CASE t = s /\ x = e
    <3>1. ASSUME NEW i \in DOMAIN q
          PROVE  HoldsNext(s, e, q[i])
      <4>1. PICK j \in DOMAIN waiters[s][e] : q[i] = waiters[s][e][j]
        BY DEF Shrinks
      <4>2. q[i][1] # p
        BY DEF p
      <4>3. QED
        BY <1>7, <4>1, <4>2
    <3>2. QED
      BY <1>6, <2>1, <3>1
  <2>2. CASE ~(t = s /\ x = e)
    <3>1. waiters'[t][x] = waiters[t][x]
      BY <1>6, <2>2
    <3>2. ASSUME NEW i \in DOMAIN waiters[t][x]
          PROVE  waiters[t][x][i][1] # p
      <4>1. WaiterHolds(t, x, waiters[t][x][i])
        BY WaiterOfQueue
      <4>2. QED
        BY <1>2, <2>2, <4>1 DEF WaiterHolds, p
    <3>3. QED
      BY <1>7, <3>1, <3>2, ShrinksSame
  <2>3. QED
    BY <2>1, <2>2
<1>9. QED
  BY <1>5, <1>8, WaitShrinks

LEMMA OkTimeoutKeeps ==
  ASSUME TypeOK, CallInv, WaitInv, NEW s \in Socket, NEW w \in Waiter, OkTimeout(s, w)
  PROVE  CallInv' /\ WaitInv'
<1> DEFINE e == EventOf[w[1]]
<1>1. e \in Event
  BY DEF Event, Waiter
<1>2. PICK k \in DOMAIN waiters[s][e] :
        waiters[s][e][k] = w /\ waiters' = [waiters EXCEPT ![s][e] = RemoveAt(@, k)]
  BY DEF OkTimeout
<1>3. waiters[s][e] \in Seq(Waiter) /\ k \in 1 .. Len(waiters[s][e])
  BY <1>1, LenProperties DEF TypeOK
<1> DEFINE u == waiters[s][e]
           q == RemoveAt(u, k)
<1>4. waiters' = [waiters EXCEPT ![s][e] = q]
  BY <1>2
<1>5. q \in Seq(Waiter) /\ Len(q) = Len(u) - 1
      /\ (\A i \in 1 .. k - 1 : q[i] = u[i])
      /\ (\A i \in k .. Len(u) - 1 : q[i] = u[i + 1])
  BY <1>3, RemoveAtElements
<1>6. Shrinks(u, q)
  BY <1>3, ShrinksRemoveAt
<1>7. Len(u) \in Nat /\ DOMAIN u = 1 .. Len(u) /\ DOMAIN q = 1 .. Len(u) - 1
  BY <1>3, <1>5, LenProperties
<1>8. \A i, j \in DOMAIN u : u[i][1] = u[j][1] => i = j
  BY <1>1 DEF WaitInv
<1> HIDE DEF u, q
<1>9. ASSUME NEW i \in DOMAIN q
      PROVE  q[i][1] # u[k][1]
  <2>1. CASE i \in 1 .. k - 1
    <3>1. i \in DOMAIN u /\ k \in DOMAIN u /\ i # k /\ q[i] = u[i]
      BY <1>3, <1>5, <1>7, <2>1 DEF u
    <3>2. QED
      BY <1>8, <3>1
  <2>2. CASE i \in k .. Len(u) - 1
    <3>1. i + 1 \in DOMAIN u /\ k \in DOMAIN u /\ i + 1 # k /\ q[i] = u[i + 1]
      BY <1>3, <1>5, <1>7, <2>2 DEF u
    <3>2. QED
      BY <1>8, <3>1
  <2>3. QED
    BY <1>3, <1>7, <2>1, <2>2 DEF u
<1>10. UNCHANGED <<backoff, pending, sock, attempt, made, liveSubs>> /\ Settle({u[k][1]}, "failed")
  BY <1>2 DEF OkTimeout, liveVars, u
<1>11. \A i \in DOMAIN q : q[i][1] # waiters[s][e][k][1]
  BY <1>9 DEF u
<1>12. Shrinks(waiters[s][e], q) /\ Settle({waiters[s][e][k][1]}, "failed")
  BY <1>6, <1>10 DEF u
<1>13. PICK x \in Event : x = e
  BY <1>1
<1>14. PICK z \in Seq(Waiter) : z = q
  BY <1>5
<1> HIDE DEF e, q
<1>15. waiters' = [waiters EXCEPT ![s][x] = z]
  BY <1>4, <1>13, <1>14
<1>16. k \in DOMAIN waiters[s][x]
  BY <1>13
<1>17. Shrinks(waiters[s][x], z) /\ \A i \in DOMAIN z : z[i][1] # waiters[s][x][k][1]
  BY <1>11, <1>12, <1>13, <1>14
<1>18. Settle({waiters[s][x][k][1]}, "failed")
  BY <1>12, <1>13
<1>19. QED
  BY <1>10, <1>15, <1>16, <1>17, <1>18, WaiterSettles

LEMMA RouteOkKeeps ==
  ASSUME TypeOK, CallInv, WaitInv, NEW s \in Socket, RouteOk(s)
  PROVE  CallInv' /\ WaitInv'
<1> DEFINE m == Head(down[s])
           e == m.id
           u == waiters[s][e]
           p == Head(u)[1]
<1>1. e \in Event
  BY ReceivesType, AnswerKinds DEF RouteOk
<1>2. u \in Seq(Waiter)
  BY <1>1 DEF TypeOK
<1>3. UNCHANGED <<pending, sock, attempt, made, liveSubs>>
  BY DEF RouteOk, liveVars
<1>4. CASE u = << >>
  <2>1. UNCHANGED <<waiters, backoff, outcome>>
    BY <1>4 DEF RouteOk
  <2>2. PublishesAlone /\ CallInv'
    BY <1>3, <2>1 DEF PublishesAlone, CallInv
  <2>3. QED
    BY <2>2, WaitAlone
<1>5. CASE u # << >>
  <2>1. /\ waiters' = [waiters EXCEPT ![s][e] = Tail(u)]
        /\ \/ /\ backoff' = backoff \cup {p} /\ UNCHANGED outcome
              /\ outcome[p] = "none" /\ attempt[p] < MaxRetries
           \/ Settle({p}, "answered") /\ UNCHANGED backoff
           \/ Settle({p}, "failed") /\ UNCHANGED backoff
    BY <1>5 DEF RouteOk
  <2> DEFINE q == Tail(u)
  <2>2. /\ DOMAIN u = 1 .. Len(u) /\ Len(u) \in Nat \ {0} /\ Head(u) = u[1]
        /\ q \in Seq(Waiter) /\ DOMAIN q = 1 .. Len(u) - 1
        /\ \A k \in 1 .. Len(u) - 1 : q[k] = u[k + 1]
    BY <1>2, <1>5, TailElements
  <2>3. Shrinks(u, q)
    BY <1>2, <1>5, ShrinksTail
  <2>4. \A i, j \in DOMAIN u : u[i][1] = u[j][1] => i = j
    BY <1>1 DEF WaitInv
  <2> HIDE DEF q
  <2>5. ASSUME NEW i \in DOMAIN q
        PROVE  q[i][1] # u[1][1]
    <3> HIDE DEF u
    <3>1. i \in 1 .. Len(u) - 1 /\ Len(u) \in Nat
      BY <2>2
    <3>2. i + 1 \in 1 .. Len(u) /\ 1 \in 1 .. Len(u) /\ i + 1 # 1
      BY <3>1
    <3>3. q[i] = u[i + 1]
      BY <2>2, <3>1
    <3>4. QED
      BY <2>2, <2>4, <3>2, <3>3
  <2>6. p = u[1][1] /\ 1 \in DOMAIN u
    <3> HIDE DEF u
    <3>1. 1 \in 1 .. Len(u)
      BY <2>2
    <3>2. QED
      BY <2>2, <3>1
  <2>7. PICK x \in Event : x = e
    BY <1>1
  <2>8. PICK z \in Seq(Waiter) : z = q
    BY <2>2
  <2>9. PICK k \in DOMAIN waiters[s][x] : k = 1
    BY <2>6, <2>7
  <2>10. /\ waiters' = [waiters EXCEPT ![s][x] = z] /\ Shrinks(waiters[s][x], z)
         /\ \A i \in DOMAIN z : z[i][1] # waiters[s][x][k][1]
    BY <2>1, <2>3, <2>5, <2>7, <2>8, <2>9 DEF q
  <2>11. p = waiters[s][x][k][1]
    BY <2>6, <2>7, <2>9
  <2> HIDE DEF e, u, p
  <2>12. \/ /\ backoff' = backoff \cup {waiters[s][x][k][1]} /\ UNCHANGED outcome
            /\ outcome[waiters[s][x][k][1]] = "none" /\ attempt[waiters[s][x][k][1]] < MaxRetries
         \/ /\ UNCHANGED backoff
            /\ \E r \in {"answered", "failed"} : Settle({waiters[s][x][k][1]}, r)
    BY <2>1, <2>11
  <2>13. QED
    BY <1>3, <2>10, <2>12, WaiterSettles
<1>6. QED
  BY <1>4, <1>5

(* failAllPending: what waits on the sockets S fails, and no other call. *)
LEMMA FailAllKeeps ==
  ASSUME TypeOK, CallInv, WaitInv, NEW S \in SUBSET Socket, FailAllPending(S),
         UNCHANGED <<sock, attempt, backoff, made, liveSubs>>
  PROVE  CallInv' /\ WaitInv'
<1> DEFINE lost == {c \in pending : sock[c] \in S}
           gone == lost \cup UNION {WaitingOn(s) : s \in S}
<1>1. /\ pending' = pending \ lost
      /\ Settle(gone, "failed")
      /\ waiters' = [s \in Socket |-> IF s \in S THEN [e \in Event |-> << >>] ELSE waiters[s]]
  BY DEF FailAllPending
<1>2. \A c \in Call : outcome'[c] = IF c \in gone /\ outcome[c] = "none" THEN "failed" ELSE outcome[c]
  BY <1>1, Settled
<1>3. \A c \in gone : c \in made /\ c \notin backoff /\ sock[c] \in S /\ (c \in pending \/ c \in Publish)
  <2>1. ASSUME NEW c \in lost
        PROVE  c \in made /\ c \notin backoff /\ sock[c] \in S /\ c \in pending
    BY Apart DEF CallInv, TypeOK
  <2>2. ASSUME NEW s \in S, NEW c \in WaitingOn(s)
        PROVE  c \in made /\ c \notin backoff /\ sock[c] \in S /\ c \in Publish
    BY Waits
  <2>3. QED
    BY <2>1, <2>2
<1>4. \A c \in pending : c \in gone <=> c \in lost
  <2>1. \A s \in S : WaitingOn(s) \subseteq Publish
    BY DEF WaitingOn
  <2>2. pending \cap Publish = {}
    BY Apart DEF TypeOK
  <2>3. QED
    BY <2>1, <2>2
<1>5. lost \subseteq gone
  OBVIOUS
<1> HIDE DEF gone
<1>6. CallInv'
  <2>1. \A o \in Fetch \cup Count : o \in made' => (o \in pending' <=> outcome'[o] = "none")
    <3> TAKE o \in Fetch \cup Count
    <3> HAVE o \in made'
    <3>1. o \in Call /\ o \notin Publish /\ o \in made
      BY Apart DEF Call
    <3>2. o \in pending <=> outcome[o] = "none"
      BY <3>1 DEF CallInv
    <3>3. o \in gone => o \in pending
      BY <1>3, <3>1
    <3>4. CASE o \in gone
      BY <1>1, <1>2, <1>4, <3>1, <3>3, <3>4
    <3>5. CASE o \notin gone
      BY <1>1, <1>2, <1>5, <3>1, <3>2, <3>5
    <3>6. QED
      BY <3>4, <3>5
  <2>2. \A o \in backoff' : outcome'[o] = "none" /\ attempt'[o] < MaxRetries
    BY <1>2, <1>3 DEF CallInv, TypeOK, Call
  <2>3. \A o \in Call : o \notin made' => outcome'[o] = "none"
    BY <1>2, <1>3 DEF CallInv
  <2>4. (pending \cup (backoff \cup liveSubs))' \subseteq made'
    BY <1>1 DEF CallInv
  <2>5. QED
    BY <2>1, <2>2, <2>3, <2>4 DEF CallInv
<1>7. ASSUME NEW s \in Socket, NEW e \in Event
      PROVE  /\ Shrinks(waiters[s][e], waiters'[s][e])
             /\ \A i \in DOMAIN waiters'[s][e] : HoldsNext(s, e, waiters'[s][e][i])
  <2>1. CASE s \in S
    <3>1. waiters'[s][e] = << >>
      BY <1>1, <2>1
    <3>2. DOMAIN << >> = {}
      OBVIOUS
    <3>3. QED
      BY <3>1, <3>2, ShrinksEmpty
  <2>2. CASE s \notin S
    <3>1. waiters'[s][e] = waiters[s][e]
      BY <1>1, <2>2
    <3>2. ASSUME NEW i \in DOMAIN waiters[s][e]
          PROVE  HoldsNext(s, e, waiters[s][e][i])
      <4>1. waiters[s][e][i][1] \in Publish /\ WaiterHolds(s, e, waiters[s][e][i])
        BY WaiterOfQueue
      <4>2. waiters[s][e][i][1] \notin gone
        BY <1>3, <2>2, <4>1 DEF WaiterHolds
      <4>3. outcome'[waiters[s][e][i][1]] = outcome[waiters[s][e][i][1]]
        BY <1>2, <4>1, <4>2 DEF Call
      <4>4. QED
        BY <4>1, <4>3 DEF WaiterHolds, HoldsNext
    <3>3. QED
      BY <3>1, <3>2, ShrinksSame
  <2>3. QED
    BY <2>1, <2>2
<1>8. QED
  BY <1>6, <1>7, WaitShrinks

(* A step that settles at most a fetch or a count, and forgets it with that. *)
LEMMA AnswersKeep ==
  ASSUME TypeOK, CallInv, WaitInv, NEW i,
         /\ pending' = pending \ {i}
         /\ IF i \in pending THEN \E r \in {"answered", "failed"} : Settle({i}, r)
            ELSE UNCHANGED outcome,
         UNCHANGED <<attempt, backoff, waiters, liveSubs, made, sock>>
  PROVE  CallInv' /\ WaitInv'
<1>1. i \in pending => i \in Fetch \cup Count /\ i \in Call /\ i \notin Publish /\ outcome[i] = "none"
  BY Apart DEF TypeOK, Call, CallInv
<1>2. /\ \A o \in Call \ {i} : outcome'[o] = outcome[o]
      /\ i \in pending => outcome'[i] # "none"
      /\ i \notin pending => outcome' = outcome
  BY <1>1, Settled
<1>3. PublishesAlone
  BY <1>1, <1>2 DEF PublishesAlone, Call
<1>4. CallInv'
  <2>1. \A o \in Fetch \cup Count : o \in made' => (o \in pending' <=> outcome'[o] = "none")
    BY <1>1, <1>2 DEF CallInv, Call
  <2>2. \A o \in backoff' : outcome'[o] = "none" /\ attempt'[o] < MaxRetries
    BY <1>1, <1>2 DEF CallInv, TypeOK, Call
  <2>3. \A o \in Call : o \notin made' => outcome'[o] = "none"
    BY <1>1, <1>2 DEF CallInv
  <2>4. QED
    BY <2>1, <2>2, <2>3 DEF CallInv
<1>5. QED
  BY <1>3, <1>4, WaitAlone

(* A step that leaves the calls alone. *)
CallsAlone ==
  UNCHANGED <<pending, outcome, attempt, backoff, waiters, liveSubs, made, sock>>

LEMMA AloneKeeps ==
  ASSUME TypeOK, CallInv, WaitInv, CallsAlone
  PROVE  CallInv' /\ WaitInv'
<1>1. PublishesAlone /\ CallInv'
  BY DEF PublishesAlone, CallsAlone, CallInv
<1>2. QED
  BY <1>1, WaitAlone

LEMMA LiveKeeps ==
  ASSUME TypeOK, CallInv, WaitInv, NEW l \in LiveSub,
         SubscribeLive(l) \/ UnsubscribeLive(l) \/ Resubscribe(l)
  PROVE  CallInv' /\ WaitInv'
<1>0. l \notin Call
  BY Apart DEF Call
<1>1. CASE SubscribeLive(l)
  <2>1. made' = made \cup {l} /\ IsFiniteSet(made') /\ liveSubs' = liveSubs \cup {l}
        /\ UNCHANGED <<pending, outcome, attempt, backoff, waiters, sock>>
    BY <1>1, FS_AddElement DEF SubscribeLive, CallInv, callVars, pubVars
  <2>2. PublishesAlone
    BY <2>1 DEF PublishesAlone
  <2>3. CallInv'
    BY <1>0, <2>1 DEF CallInv, Call
  <2>4. QED
    BY <2>2, <2>3, WaitAlone
<1>2. CASE UnsubscribeLive(l)
  <2>1. UNCHANGED made /\ liveSubs' = liveSubs \ {l}
        /\ UNCHANGED <<pending, outcome, attempt, backoff, waiters, sock>>
    BY <1>2 DEF UnsubscribeLive, callVars, pubVars
  <2>2. PublishesAlone /\ CallInv'
    BY <2>1 DEF PublishesAlone, CallInv
  <2>3. QED
    BY <2>2, WaitAlone
<1>3. CASE Resubscribe(l)
  BY <1>3, AloneKeeps DEF Resubscribe, CallsAlone, callVars, pubVars
<1>4. QED
  BY <1>1, <1>2, <1>3

LEMMA RouteKeeps ==
  ASSUME TypeOK, CallInv, WaitInv, NEW s \in Socket, Route(s)
  PROVE  CallInv' /\ WaitInv'
<1> DEFINE i == Head(down[s]).id
<1>1. CASE RouteEvent(s)
  BY <1>1, AloneKeeps DEF RouteEvent, CallsAlone, pubVars, liveVars
<1>2. CASE RouteEose(s)
  <2>1. /\ pending' = pending \ {i}
        /\ IF i \in pending THEN Settle({i}, "answered") ELSE UNCHANGED outcome
        /\ UNCHANGED <<attempt, backoff, waiters, liveSubs, made, sock>>
    BY <1>2 DEF RouteEose, pubVars, liveVars
  <2> HIDE DEF i
  <2>2. QED
    BY <2>1, AnswersKeep
<1>3. CASE RouteClosed(s)
  <2>1. /\ pending' = pending \ {i}
        /\ IF i \in pending THEN Settle({i}, "failed") ELSE UNCHANGED outcome
        /\ UNCHANGED <<attempt, backoff, waiters, liveSubs, made, sock>>
    BY <1>3 DEF RouteClosed, pubVars
  <2> HIDE DEF i
  <2>2. QED
    BY <2>1, AnswersKeep
<1>4. CASE RouteCount(s)
  <2>1. /\ pending' = pending \ {i}
        /\ IF i \in pending THEN Settle({i}, "answered") ELSE UNCHANGED outcome
        /\ UNCHANGED <<attempt, backoff, waiters, liveSubs, made, sock>>
    BY <1>4 DEF RouteCount, pubVars, liveVars
  <2> HIDE DEF i
  <2>2. QED
    BY <2>1, AnswersKeep
<1>5. CASE RouteOk(s)
  BY <1>5, RouteOkKeeps
<1>6. QED
  BY <1>1, <1>2, <1>3, <1>4, <1>5 DEF Route

LEMMA LinkKeeps ==
  ASSUME TypeOK, CallInv, WaitInv, LinkSteps
  PROVE  CallInv' /\ WaitInv'
<1>1. ASSUME NEW s \in Socket, Opened(s) PROVE CallInv' /\ WaitInv'
  BY <1>1, AloneKeeps DEF Opened, CallsAlone, callVars, pubVars, liveVars
<1>2. ASSUME NEW s \in Socket, Lost(s) PROVE CallInv' /\ WaitInv'
  BY <1>2, FailAllKeeps DEF Lost, liveVars
<1>3. ASSUME NEW s \in Socket, Reconnect(s) PROVE CallInv' /\ WaitInv'
  BY <1>3, AloneKeeps DEF Reconnect, CallsAlone, callVars, pubVars, liveVars
<1>4. ASSUME Close PROVE CallInv' /\ WaitInv'
  BY <1>4, FailAllKeeps DEF Close, liveVars
<1>5. QED
  BY <1>1, <1>2, <1>3, <1>4 DEF LinkSteps

LEMMA RelayLeavesCalls ==
  ASSUME RelayActs
  PROVE  CallsAlone /\ UNCHANGED <<link, first, got, resub>>
<1>1. RelayRest
  BY Zenon DEF RelayActs, RelayReq, RelayRefuses, RelayClose, RelayCount, RelayPublish, RelayStored,
            RelayEose, RelayNews
<1>2. QED
  BY <1>1 DEF RelayRest, CallsAlone, callVars, pubVars, liveVars

LEMMA CallStep ==
  ASSUME TypeOK, CallInv, WaitInv, [Next]_vars
  PROVE  CallInv' /\ WaitInv'
<1>1. CASE CallSteps
  BY <1>1, AsksKeep, PublishKeeps, RetryKeeps, OkTimeoutKeeps DEF CallSteps
<1>2. CASE LiveSteps
  BY <1>2, LiveKeeps DEF LiveSteps
<1>3. CASE \E s \in Socket : Route(s)
  BY <1>3, RouteKeeps
<1>4. CASE LinkSteps
  BY <1>4, LinkKeeps
<1>5. CASE RelayActs
  BY <1>5, RelayLeavesCalls, AloneKeeps
<1>6. CASE UNCHANGED vars
  BY <1>6, AloneKeeps DEF vars, callVars, pubVars, liveVars, CallsAlone
<1>7. QED
  BY <1>1, <1>2, <1>3, <1>4, <1>5, <1>6, StepCases

LEMMA InitCalls == Init => CallInv /\ WaitInv
<1> SUFFICES ASSUME Init PROVE CallInv /\ WaitInv
  OBVIOUS
<1>1. CallInv
  BY FS_EmptySet DEF Init, CallInv
<1>2. \A s \in Socket, e \in Event : waiters[s][e] = << >>
  BY DEF Init
<1>3. WaitInv
  BY <1>2 DEF WaitInv
<1>4. QED
  BY <1>1, <1>3

-----------------------------------------------------------------------------
(* The wire. *)
LEMMA OnceEmpty == ASSUME NEW m PROVE Once(<< >>, m)
BY DEF Once

LEMMA OnceAppend ==
  ASSUME NEW S, NEW q \in Seq(S), NEW x \in S, NEW m, Once(q, m), x # m \/ m \notin ToSet(q)
  PROVE  Once(Append(q, x), m)
<1> DEFINE t == Append(q, x)
<1>1. /\ Len(q) \in Nat /\ DOMAIN q = 1 .. Len(q) /\ DOMAIN t = 1 .. Len(q) + 1
      /\ \A k \in 1 .. Len(q) : t[k] = q[k]
      /\ t[Len(q) + 1] = x
  BY AppendElements
<1> HIDE DEF t
<1>2. \A k \in DOMAIN t : k \in DOMAIN q \/ k = Len(q) + 1
  BY <1>1
<1>3. ASSUME NEW j \in DOMAIN t, NEW k \in DOMAIN t, t[j] = m, t[k] = m
      PROVE  j = k
  <2>1. CASE x # m
    BY <1>1, <1>2, <1>3, <2>1 DEF Once
  <2>2. CASE m \notin ToSet(q)
    BY <1>1, <1>2, <1>3, <2>2 DEF ToSet
  <2>3. QED
    BY <2>1, <2>2
<1>4. QED
  BY <1>3 DEF Once, t

LEMMA OnceTail ==
  ASSUME NEW S, NEW q \in Seq(S), q # << >>, NEW m, Once(q, m)
  PROVE  Once(Tail(q), m) /\ (Head(q) = m => m \notin ToSet(Tail(q)))
<1> DEFINE t == Tail(q)
<1>1. /\ Len(q) \in Nat \ {0} /\ DOMAIN q = 1 .. Len(q) /\ DOMAIN t = 1 .. Len(q) - 1
      /\ \A k \in 1 .. Len(q) - 1 : t[k] = q[k + 1]
      /\ Head(q) = q[1]
  BY TailElements
<1> HIDE DEF t
<1>2. \A k \in DOMAIN t : k \in Int /\ k + 1 \in DOMAIN q /\ t[k] = q[k + 1] /\ k + 1 # 1
  BY <1>1
<1>3. ASSUME NEW j \in DOMAIN t, NEW k \in DOMAIN t, t[j] = m, t[k] = m
      PROVE  j = k
  <2>1. j + 1 = k + 1
    BY <1>2, <1>3 DEF Once
  <2>2. QED
    BY <1>2, <2>1
<1>4. ASSUME NEW k \in DOMAIN t, t[k] = m, q[1] = m
      PROVE  FALSE
  <2>1. 1 \in DOMAIN q
    BY <1>1
  <2>2. QED
    BY <1>2, <1>4, <2>1 DEF Once
<1>5. Once(t, m)
  BY <1>3 DEF Once
<1>6. Head(q) = m => m \notin ToSet(t)
  BY <1>1, <1>4 DEF ToSet
<1>7. QED
  BY <1>5, <1>6 DEF t

LEMMA ContainsIn ==
  ASSUME NEW S, NEW q \in Seq(S), NEW m
  PROVE  Contains(q, m) <=> m \in ToSet(q)
<1>1. DOMAIN q = 1 .. Len(q)
  BY LenProperties
<1>2. QED
  BY <1>1 DEF Contains, ToSet

LEMMA EmptyElements == ToSet(<< >>) = {}
BY DEF ToSet

LEMMA HeldBool ==
  ASSUME NEW q, NEW i, NEW h \in BOOLEAN
  PROVE  Held(q, i, h) \in BOOLEAN
BY DEF Held

LEMMA HeldMore ==
  ASSUME NEW q, NEW i, NEW h \in BOOLEAN, Held(q, i, h)
  PROVE  Held(q, i, TRUE)
BY DEF Held

(* Nothing asks, so what the relay holds it held. *)
LEMMA HeldQuiet ==
  ASSUME NEW q, NEW i, \A k \in DOMAIN q : q[k].id = i => q[k].type # "REQ"
  PROVE  ~Held(q, i, FALSE)
<1>1. CASE About(q, i) = {}
  BY <1>1 DEF Held
<1>2. CASE About(q, i) # {}
  BY <1>2 DEF Held, About
<1>3. QED
  BY <1>1, <1>2

LEMMA InFlight ==
  ASSUME TypeOK, NEW s \in Socket
  PROVE  /\ ToSet(up[s]) \subseteq Request /\ ToSet(down[s]) \subseteq Answer
         /\ \A m \in ToSet(up[s]) : m.type \in {"REQ", "CLOSE"} => m.id \in SubId
         /\ \A m \in ToSet(down[s]) : m.type \in {"EVENT", "EOSE", "CLOSED"} => m.id \in SubId
<1>1. up[s] \in Seq(Request) /\ down[s] \in Seq(Answer)
  BY DEF TypeOK
<1>2. ToSet(up[s]) \subseteq Request /\ ToSet(down[s]) \subseteq Answer
  BY <1>1, ElementOfSeq, LenProperties DEF ToSet
<1>3. QED
  BY <1>2, RequestKinds, AnswerKinds

HomesStay == \A i \in SubId : Home(i)' = Home(i)

DownShrinks ==
  \A t \in Socket : /\ ToSet(down'[t]) \subseteq ToSet(down[t])
                    /\ down[t] = << >> => down'[t] = << >>

(* A step that sends nothing and takes at most something received. *)
LEMMA NoSendKeeps ==
  ASSUME TypeOK, WireInv, UNCHANGED <<link, relaySub, up>>, DownShrinks, HomesStay,
         made \subseteq made'
  PROVE  /\ Quiet' /\ OnItsSocket' /\ AskedOnce'
         /\ \A i \in SubId : WillHold(i)' <=> WillHold(i)
<1>0. Quiet /\ OnItsSocket /\ AskedOnce
  BY DEF WireInv
<1>1. \A i \in SubId : WillHold(i)' <=> WillHold(i)
  BY DEF WillHold, HomesStay
<1>2. Quiet'
  BY <1>0 DEF Quiet, Connected, DownShrinks, HomesStay
<1>3. OnItsSocket'
  <2>1. \A s \in Socket : \A m \in ToSet(up'[s]) :
          m.type \in {"REQ", "CLOSE"} => Home(m.id)' = s /\ m.id \in made'
    BY <1>0, InFlight DEF OnItsSocket, HomesStay
  <2>2. \A s \in Socket : \A m \in ToSet(down'[s]) :
          m.type \in {"EVENT", "EOSE", "CLOSED"} => Home(m.id)' = s /\ m.id \in made'
    BY <1>0, InFlight DEF OnItsSocket, DownShrinks, HomesStay
  <2>3. \A i \in SubId : relaySub'[i] # "none" => i \in made'
    BY <1>0 DEF OnItsSocket
  <2>4. QED
    BY <2>1, <2>2, <2>3 DEF OnItsSocket
<1>4. AskedOnce'
  <2> SUFFICES ASSUME NEW i \in Fetch
               PROVE  /\ Once(up'[Home(i)'], Msg("REQ", i))
                      /\ Msg("REQ", i) \in ToSet(up'[Home(i)']) => relaySub'[i] = "none"
                      /\ Msg("CLOSED", i) \in ToSet(down'[Home(i)']) => ~WillHold(i)'
    BY DEF AskedOnce
  <2>1. i \in SubId /\ Home(i)' = Home(i) /\ Home(i) \in Socket
    BY HomeType DEF SubId, HomesStay
  <2>2. QED
    BY <1>0, <1>1, <2>1 DEF AskedOnce, DownShrinks
<1>5. QED
  BY <1>1, <1>2, <1>3, <1>4

(* A step that sends a message over an open socket. *)
LEMMA SendKeeps ==
  ASSUME TypeOK, WireInv, NEW s \in Socket, Connected(s), NEW m \in Request, Send(s, m),
         UNCHANGED <<link, relaySub>>, DownShrinks, HomesStay, made \subseteq made',
         m.type \in {"REQ", "CLOSE"} => Home(m.id) = s /\ m.id \in made',
         m.type = "REQ" => m.id \in LiveSub
  PROVE  /\ Quiet' /\ OnItsSocket' /\ AskedOnce'
         /\ \A i \in SubId : WillHold(i)' <=> IF Names(m, i) THEN m.type = "REQ" ELSE WillHold(i)
<1>0. Quiet /\ OnItsSocket /\ AskedOnce
  BY DEF WireInv
<1>1. /\ up \in [Socket -> Seq(Request)]
      /\ up'[s] = Append(up[s], m) /\ \A t \in Socket \ {s} : up'[t] = up[t]
  BY DEF TypeOK, Send
<1>2. ToSet(up'[s]) = ToSet(up[s]) \cup {m}
  BY <1>1, AppendElements
<1>3. \A i \in SubId : WillHold(i)' <=> IF Names(m, i) THEN m.type = "REQ" ELSE WillHold(i)
  <2> TAKE i \in SubId
  <2>1. Home(i)' = Home(i) /\ Home(i) \in Socket
    BY HomeType DEF HomesStay
  <2>2. CASE Home(i) = s
    <3>1. Held(Append(up[s], m), i, relaySub[i] # "none")
            <=> IF Names(m, i) THEN m.type = "REQ" ELSE Held(up[s], i, relaySub[i] # "none")
      BY <1>1, HeldAppend
    <3>2. QED
      BY <1>1, <2>1, <2>2, <3>1 DEF WillHold
  <2>3. CASE Home(i) # s
    <3>1. ~Names(m, i)
      BY <2>3 DEF Names
    <3>2. up'[Home(i)] = up[Home(i)]
      BY <1>1, <2>1, <2>3
    <3>3. QED
      BY <2>1, <3>1, <3>2 DEF WillHold
  <2>4. QED
    BY <2>2, <2>3
<1>4. Quiet'
  <2> SUFFICES ASSUME NEW t \in Socket, link'[t] # "open"
               PROVE  /\ up'[t] = << >> /\ down'[t] = << >>
                      /\ \A i \in SubId : Home(i)' = t => relaySub'[i] = "none"
    BY DEF Quiet, Connected
  <2>1. t # s /\ ~Connected(t)
    BY DEF Connected
  <2>2. QED
    BY <1>0, <1>1, <2>1 DEF Quiet, DownShrinks, HomesStay
<1>5. OnItsSocket'
  <2>1. ASSUME NEW t \in Socket, NEW x \in ToSet(up'[t]), x.type \in {"REQ", "CLOSE"}
        PROVE  Home(x.id)' = t /\ x.id \in made'
    <3>1. CASE x \in ToSet(up[t])
      BY <1>0, <2>1, <3>1, InFlight DEF OnItsSocket, HomesStay
    <3>2. CASE x \notin ToSet(up[t])
      <4>1. x = m /\ t = s
        BY <1>1, <1>2, <2>1, <3>2
      <4>2. m.id \in SubId
        BY <2>1, <4>1, RequestKinds
      <4>3. QED
        BY <2>1, <4>1, <4>2 DEF HomesStay
    <3>3. QED
      BY <3>1, <3>2
  <2>2. \A t \in Socket : \A x \in ToSet(down'[t]) :
          x.type \in {"EVENT", "EOSE", "CLOSED"} => Home(x.id)' = t /\ x.id \in made'
    BY <1>0, InFlight DEF OnItsSocket, DownShrinks, HomesStay
  <2>3. \A i \in SubId : relaySub'[i] # "none" => i \in made'
    BY <1>0 DEF OnItsSocket
  <2>4. QED
    BY <2>1, <2>2, <2>3 DEF OnItsSocket
<1>6. AskedOnce'
  <2> SUFFICES ASSUME NEW i \in Fetch
               PROVE  /\ Once(up'[Home(i)'], Msg("REQ", i))
                      /\ Msg("REQ", i) \in ToSet(up'[Home(i)']) => relaySub'[i] = "none"
                      /\ Msg("CLOSED", i) \in ToSet(down'[Home(i)']) => ~WillHold(i)'
    BY DEF AskedOnce
  <2>1. i \in SubId /\ Home(i)' = Home(i) /\ Home(i) \in Socket /\ i \notin LiveSub
    BY HomeType, Apart DEF SubId, HomesStay
  <2>2. m # Msg("REQ", i)
    BY <2>1 DEF Msg
  <2>3. Once(up'[Home(i)], Msg("REQ", i))
    <3>1. CASE Home(i) = s
      <4>1. Once(up[s], Msg("REQ", i)) /\ up[s] \in Seq(Request)
        BY <1>0, <1>1, <3>1 DEF AskedOnce
      <4>2. Once(Append(up[s], m), Msg("REQ", i))
        BY <2>2, <4>1, OnceAppend
      <4>3. QED
        BY <1>1, <3>1, <4>2
    <3>2. CASE Home(i) # s
      BY <1>0, <1>1, <2>1, <3>2 DEF AskedOnce
    <3>3. QED
      BY <3>1, <3>2
  <2>4. Msg("REQ", i) \in ToSet(up'[Home(i)]) => Msg("REQ", i) \in ToSet(up[Home(i)])
    BY <1>1, <1>2, <2>1, <2>2
  <2>5. WillHold(i)' => WillHold(i)
    <3>1. m.type = "REQ" => m.id # i
      BY <2>1
    <3>2. QED
      BY <1>3, <2>1, <3>1 DEF Names
  <2>6. QED
    BY <1>0, <2>1, <2>3, <2>4, <2>5 DEF AskedOnce, DownShrinks
<1>7. QED
  BY <1>3, <1>4, <1>5, <1>6

LEMMA SubscriptionsFrom ==
  ASSUME TypeOK, TypeOK', WireInv,
         \A i \in SubId : WillHold(i)' => i \in pending' \cup liveSubs',
         \A l \in liveSubs' : link'[Live] = "open" =>
           \/ WillHold(l)' \/ resub'[l] > 0 \/ Msg("CLOSED", l) \in ToSet(down'[Live])
  PROVE  SubscriptionsAgree'
<1>1. Live \in Socket
  BY DEF Socket
<1>2. down'[Live] \in Seq(Answer)
  BY <1>1 DEF TypeOK
<1>3. \A l \in LiveSub : Contains(down'[Live], Msg("CLOSED", l))
                          <=> Msg("CLOSED", l) \in ToSet(down'[Live])
  BY <1>2, ContainsIn
<1>4. liveSubs' \subseteq LiveSub
  BY DEF TypeOK
<1>5. QED
  BY <1>3, <1>4 DEF SubscriptionsAgree, Connected

LEMMA SubscriptionsNow ==
  ASSUME TypeOK, WireInv
  PROVE  /\ \A i \in SubId : WillHold(i) => i \in pending \cup liveSubs
         /\ \A l \in liveSubs : link[Live] = "open" =>
              \/ WillHold(l) \/ resub[l] > 0 \/ Msg("CLOSED", l) \in ToSet(down[Live])
<1>1. Live \in Socket
  BY DEF Socket
<1>2. down[Live] \in Seq(Answer)
  BY <1>1 DEF TypeOK
<1>3. \A l \in LiveSub : Contains(down[Live], Msg("CLOSED", l))
                          <=> Msg("CLOSED", l) \in ToSet(down[Live])
  BY <1>2, ContainsIn
<1>4. liveSubs \subseteq LiveSub
  BY DEF TypeOK
<1>5. QED
  BY <1>3, <1>4 DEF SubscriptionsAgree, Connected, WireInv

LEMMA NothingHeld ==
  ASSUME TypeOK, WireInv, NEW i \in SubId, ~Connected(Home(i)) \/ i \notin made
  PROVE  ~WillHold(i)
<1>1. Home(i) \in Socket
  BY HomeType
<1>2. CASE ~Connected(Home(i))
  <2>1. up[Home(i)] = << >> /\ relaySub[i] = "none"
    BY <1>1, <1>2 DEF WireInv, Quiet
  <2>2. QED
    BY <2>1, HeldEmpty DEF WillHold
<1>3. CASE i \notin made
  <2>1. relaySub[i] = "none"
    BY <1>3 DEF WireInv, OnItsSocket
  <2>2. \A k \in DOMAIN up[Home(i)] : up[Home(i)][k] \in ToSet(up[Home(i)])
    BY DEF ToSet
  <2>3. \A k \in DOMAIN up[Home(i)] : up[Home(i)][k].id = i => up[Home(i)][k].type # "REQ"
    BY <1>1, <1>3, <2>2 DEF WireInv, OnItsSocket
  <2>4. ~Held(up[Home(i)], i, FALSE)
    BY <2>3, HeldQuiet
  <2>5. (relaySub[i] # "none") = FALSE
    BY <2>1
  <2>6. QED
    BY <2>4, <2>5 DEF WillHold
<1>4. QED
  BY <1>2, <1>3

(* The shim's own calls and timers. *)
LEMMA DownSame ==
  ASSUME UNCHANGED down
  PROVE  DownShrinks
BY DEF DownShrinks

LEMMA AskWire ==
  ASSUME TypeOK, TypeOK', CallInv, WireInv, NEW c \in Fetch \cup Count, Ask(c)
  PROVE  WireInv'
<1>0. /\ c \in Call /\ c \notin LiveSub /\ c \notin made /\ made' = made \cup {c}
      /\ UNCHANGED <<link, relaySub, down, liveSubs, resub>>
      /\ sock \in [Call -> Socket] /\ up \in [Socket -> Seq(Request)]
      /\ DownShrinks
  BY Apart, DownSame DEF Ask, MayCall, Call, liveVars, TypeOK
<1>00. Quiet /\ OnItsSocket /\ AskedOnce
  BY DEF WireInv
<1>1. CASE Pick = {}
  <2>1. UNCHANGED <<up, pending, sock>>
    BY <1>1 DEF Ask
  <2>2. HomesStay
    BY <2>1 DEF HomesStay, Home
  <2>3. /\ Quiet' /\ OnItsSocket' /\ AskedOnce'
        /\ \A i \in SubId : WillHold(i)' <=> WillHold(i)
    BY <1>0, <2>1, <2>2, NoSendKeeps
  <2>4. SubscriptionsAgree'
    <3>1. \A i \in SubId : WillHold(i)' => i \in pending' \cup liveSubs'
      BY <1>0, <2>1, <2>3, SubscriptionsNow
    <3>2. \A l \in liveSubs' : link'[Live] = "open" =>
            WillHold(l)' \/ resub'[l] > 0 \/ Msg("CLOSED", l) \in ToSet(down'[Live])
      BY <1>0, <2>1, <2>3, SubscriptionsNow DEF TypeOK, SubId
    <3>3. QED
      BY <3>1, <3>2, SubscriptionsFrom
  <2>5. QED
    BY <2>3, <2>4 DEF WireInv
<1>2. CASE Pick # {}
  <2>1. PICK s \in Pick : /\ pending' = pending \cup {c}
                          /\ sock' = [sock EXCEPT ![c] = s]
                          /\ Send(s, Msg(IF c \in Fetch THEN "REQ" ELSE "COUNT", c))
    BY <1>2 DEF Ask
  <2> DEFINE m == Msg(IF c \in Fetch THEN "REQ" ELSE "COUNT", c)
  <2>2. s \in Socket /\ Connected(s) /\ m \in Request
    BY RequestTypes DEF Pick, Socket, SubId
  <2>3. /\ up'[s] = Append(up[s], m) /\ \A t \in Socket \ {s} : up'[t] = up[t]
        /\ ToSet(up'[s]) = ToSet(up[s]) \cup {m}
    <3>1. up'[s] = Append(up[s], m) /\ \A t \in Socket \ {s} : up'[t] = up[t]
      BY <1>0, <2>1, <2>2 DEF Send
    <3>2. up[s] \in Seq(Request)
      BY <1>0, <2>2
    <3>3. QED
      BY <2>2, <3>1, <3>2, AppendElements
  <2>4. /\ \A i \in SubId \ {c} : Home(i)' = Home(i)
        /\ c \in Fetch => Home(c)' = s
    BY <1>0, <2>1 DEF Home, SubId, Call
  <2>5. /\ m.id = c /\ m.type = IF c \in Fetch THEN "REQ" ELSE "COUNT"
        /\ c \in SubId <=> c \in Fetch
    BY <1>0, Apart DEF Msg, SubId
  <2> HIDE DEF m
  <2>6. ASSUME NEW i \in SubId, i # c
        PROVE  WillHold(i)' <=> WillHold(i)
    <3>1. ~Names(m, i) /\ Home(i) \in Socket
      BY <2>5, <2>6, HomeType DEF Names
    <3>2. CASE Home(i) = s
      <4>1. Held(Append(up[s], m), i, relaySub[i] # "none")
              <=> Held(up[s], i, relaySub[i] # "none")
        BY <1>0, <2>2, <3>1, HeldAppend
      <4>2. QED
        BY <1>0, <2>3, <2>4, <2>6, <3>2, <4>1 DEF WillHold
    <3>3. CASE Home(i) # s
      BY <1>0, <2>3, <2>4, <2>6, <3>1, <3>3 DEF WillHold
    <3>4. QED
      BY <3>2, <3>3
  <2>7. ASSUME NEW t \in Socket, NEW x \in ToSet(up[t]) \cup ToSet(down[t]),
               x \in ToSet(up[t]) => x.type \in {"REQ", "CLOSE"},
               x \notin ToSet(up[t]) => x.type \in {"EVENT", "EOSE", "CLOSED"}
        PROVE  x.id \in SubId /\ x.id # c /\ x.id \in made /\ Home(x.id)' = t
    <3>1. x.id \in SubId
      BY <2>7, InFlight
    <3>2. x.id \in made /\ Home(x.id) = t
      BY <1>00, <2>7 DEF OnItsSocket
    <3>3. QED
      BY <1>0, <2>4, <3>1, <3>2
  <2>8. Quiet'
    <3> SUFFICES ASSUME NEW t \in Socket, link'[t] # "open"
                 PROVE  /\ up'[t] = << >> /\ down'[t] = << >>
                        /\ \A i \in SubId : Home(i)' = t => relaySub'[i] = "none"
      BY DEF Quiet, Connected
    <3>1. t # s /\ ~Connected(t)
      BY <1>0, <2>2 DEF Connected
    <3>2. up'[t] = << >> /\ down'[t] = << >>
      BY <1>0, <1>00, <2>3, <3>1 DEF Quiet
    <3>3. ASSUME NEW i \in SubId, Home(i)' = t
          PROVE  relaySub'[i] = "none"
      <4>1. i # c
        BY <2>4, <2>5, <3>1, <3>3
      <4>2. Home(i) = t
        BY <2>4, <3>3, <4>1
      <4>3. QED
        BY <1>0, <1>00, <3>1, <4>2 DEF Quiet
    <3>4. QED
      BY <3>2, <3>3
  <2>9. OnItsSocket'
    <3>1. ASSUME NEW t \in Socket, NEW x \in ToSet(up'[t]), x.type \in {"REQ", "CLOSE"}
          PROVE  Home(x.id)' = t /\ x.id \in made'
      <4>1. CASE x \in ToSet(up[t])
        BY <1>0, <2>7, <3>1, <4>1
      <4>2. CASE x \notin ToSet(up[t])
        <5>1. x = m /\ t = s
          BY <2>3, <3>1, <4>2
        <5>2. QED
          BY <1>0, <2>4, <2>5, <3>1, <5>1
      <4>3. QED
        BY <4>1, <4>2
    <3>2. ASSUME NEW t \in Socket, NEW x \in ToSet(down'[t]), x.type \in {"EVENT", "EOSE", "CLOSED"}
          PROVE  Home(x.id)' = t /\ x.id \in made'
      <4>1. x \in ToSet(down[t])
        BY <1>0, <3>2
      <4>2. x.id \in SubId /\ x.id \in made /\ Home(x.id) = t
        BY <1>00, <3>2, <4>1, InFlight DEF OnItsSocket
      <4>3. QED
        BY <1>0, <2>4, <4>2
    <3>3. \A i \in SubId : relaySub'[i] # "none" => i \in made'
      BY <1>0, <1>00 DEF OnItsSocket
    <3>4. QED
      BY <3>1, <3>2, <3>3 DEF OnItsSocket
  <2>10. AskedOnce'
    <3> SUFFICES ASSUME NEW i \in Fetch
                 PROVE  /\ Once(up'[Home(i)'], Msg("REQ", i))
                        /\ Msg("REQ", i) \in ToSet(up'[Home(i)']) => relaySub'[i] = "none"
                        /\ Msg("CLOSED", i) \in ToSet(down'[Home(i)']) => ~WillHold(i)'
      BY DEF AskedOnce
    <3>1. i \in SubId /\ Home(i) \in Socket
      BY HomeType DEF SubId
    <3>2. CASE i # c
      <4>1. Home(i)' = Home(i) /\ (WillHold(i)' <=> WillHold(i)) /\ m # Msg("REQ", i)
        BY <2>4, <2>5, <2>6, <3>1, <3>2 DEF Msg
      <4>2. Once(up[Home(i)], Msg("REQ", i)) /\ up[Home(i)] \in Seq(Request)
        BY <1>0, <1>00, <3>1 DEF AskedOnce
      <4>3. Once(up'[Home(i)], Msg("REQ", i))
        <5>1. CASE Home(i) = s
          <6>1. Once(up[s], Msg("REQ", i)) /\ up[s] \in Seq(Request)
            BY <4>2, <5>1
          <6>2. Once(Append(up[s], m), Msg("REQ", i))
            BY <2>2, <4>1, <6>1, OnceAppend
          <6>3. QED
            BY <2>3, <5>1, <6>2
        <5>2. CASE Home(i) # s
          BY <2>3, <3>1, <4>2, <5>2
        <5>3. QED
          BY <5>1, <5>2
      <4>4. Msg("REQ", i) \in ToSet(up'[Home(i)]) => Msg("REQ", i) \in ToSet(up[Home(i)])
        BY <2>3, <3>1, <4>1
      <4>5. QED
        BY <1>0, <1>00, <4>1, <4>3, <4>4 DEF AskedOnce
    <3>3. CASE i = c
      <4>1. Home(i)' = s
        BY <2>4, <3>3
      <4>2. ~(\E k \in DOMAIN up[s] : up[s][k] = Msg("REQ", i)) /\ Msg("REQ", i) \notin ToSet(up[s])
        <5>1. Msg("REQ", i) \notin ToSet(up[s])
          <6>1. Msg("REQ", i).type = "REQ" /\ Msg("REQ", i).id = i
            BY DEF Msg
          <6>2. QED
            BY <2>2, <2>7, <3>3, <6>1
        <5>2. QED
          BY <5>1 DEF ToSet
      <4>3. Once(up[s], Msg("REQ", i)) /\ up[s] \in Seq(Request)
        BY <1>0, <2>2, <4>2 DEF Once
      <4>4. Once(Append(up[s], m), Msg("REQ", i))
        BY <2>2, <4>2, <4>3, OnceAppend
      <4>5. relaySub[i] = "none"
        BY <1>0, <1>00, <3>1, <3>3 DEF OnItsSocket
      <4>6. Msg("CLOSED", i) \notin ToSet(down[s])
        <5>1. Msg("CLOSED", i).type = "CLOSED" /\ Msg("CLOSED", i).id = i
          BY DEF Msg
        <5>2. QED
          BY <1>0, <1>00, <2>2, <3>3, <5>1 DEF OnItsSocket
      <4>7. QED
        BY <1>0, <2>3, <4>1, <4>4, <4>5, <4>6
    <3>4. QED
      BY <3>2, <3>3
  <2>11. SubscriptionsAgree'
    <3>1. \A i \in SubId : WillHold(i)' => i \in pending' \cup liveSubs'
      BY <1>0, <2>1, <2>6, SubscriptionsNow
    <3>2. \A l \in liveSubs' : link'[Live] = "open" =>
            WillHold(l)' \/ resub'[l] > 0 \/ Msg("CLOSED", l) \in ToSet(down'[Live])
      <4>1. \A l \in liveSubs : l \in SubId /\ l # c
        BY <1>0 DEF TypeOK, SubId
      <4>2. QED
        BY <1>0, <2>6, <4>1, SubscriptionsNow
    <3>3. QED
      BY <3>1, <3>2, SubscriptionsFrom
  <2>12. QED
    BY <2>8, <2>9, <2>10, <2>11 DEF WireInv
<1>3. QED
  BY <1>1, <1>2

(* Nothing changes for the subscriptions: no request names one, and nothing *)
(* of them is taken from the connection.                                    *)
LEMMA SubscriptionsAlone ==
  ASSUME TypeOK, TypeOK', WireInv,
         \A i \in SubId : WillHold(i)' <=> WillHold(i),
         UNCHANGED <<link, liveSubs, resub>>, pending \subseteq pending',
         \A l \in LiveSub : Msg("CLOSED", l) \in ToSet(down[Live])
                              => Msg("CLOSED", l) \in ToSet(down'[Live])
  PROVE  SubscriptionsAgree'
<1>1. \A i \in SubId : WillHold(i)' => i \in pending' \cup liveSubs'
  BY SubscriptionsNow
<1>2. \A l \in liveSubs : l \in SubId /\ l \in LiveSub
  BY DEF TypeOK, SubId
<1>3. \A l \in liveSubs' : link'[Live] = "open" =>
        WillHold(l)' \/ resub'[l] > 0 \/ Msg("CLOSED", l) \in ToSet(down'[Live])
  BY <1>2, SubscriptionsNow
<1>4. QED
  BY <1>1, <1>3, SubscriptionsFrom

LEMMA AskTimeoutWire ==
  ASSUME TypeOK, TypeOK', CallInv, WireInv, NEW c \in Fetch \cup Count, AskTimeout(c)
  PROVE  WireInv'
<1>0. /\ c \in Call /\ c \notin LiveSub /\ c \in made /\ pending' = pending \ {c}
      /\ UNCHANGED <<link, relaySub, down, liveSubs, resub, sock, made>>
      /\ sock \in [Call -> Socket] /\ HomesStay
      /\ c \in SubId => c \in Fetch
  BY Apart DEF AskTimeout, Call, liveVars, TypeOK, HomesStay, Home, SubId, CallInv
<1>1. DownShrinks
  BY <1>0, DownSame
<1>2. /\ Quiet' /\ OnItsSocket' /\ AskedOnce'
      /\ \A i \in SubId \ {c} : WillHold(i)' <=> WillHold(i)
      /\ c \in SubId => ~WillHold(c)'
  <2>1. CASE c \in Fetch /\ Connected(sock[c])
    <3>1. Send(sock[c], Msg("CLOSE", c)) /\ sock[c] \in Socket /\ Msg("CLOSE", c) \in Request
          /\ Msg("CLOSE", c).id = c /\ Msg("CLOSE", c).type = "CLOSE" /\ Home(c) = sock[c]
      BY <1>0, <2>1, RequestTypes DEF AskTimeout, SubId, Msg, Home
    <3>2. /\ Quiet' /\ OnItsSocket' /\ AskedOnce'
          /\ \A i \in SubId : WillHold(i)'
               <=> IF Names(Msg("CLOSE", c), i) THEN Msg("CLOSE", c).type = "REQ" ELSE WillHold(i)
      BY <1>0, <1>1, <2>1, <3>1, SendKeeps
    <3>3. \A i \in SubId : Names(Msg("CLOSE", c), i) <=> i = c
      BY <3>1 DEF Names
    <3>4. QED
      BY <3>1, <3>2, <3>3
  <2>2. CASE ~(c \in Fetch /\ Connected(sock[c]))
    <3>1. UNCHANGED up
      BY <2>2 DEF AskTimeout
    <3>2. /\ Quiet' /\ OnItsSocket' /\ AskedOnce'
          /\ \A i \in SubId : WillHold(i)' <=> WillHold(i)
      BY <1>0, <1>1, <3>1, NoSendKeeps
    <3>3. ASSUME c \in SubId PROVE ~WillHold(c)
      <4>1. c \in Fetch /\ Home(c) = sock[c]
        BY <1>0, <3>3 DEF Home
      <4>2. QED
        BY <2>2, <3>3, <4>1, NothingHeld
    <3>4. QED
      BY <3>2, <3>3
  <2>3. QED
    BY <2>1, <2>2
<1>3. SubscriptionsAgree'
  <2>1. \A i \in SubId : WillHold(i)' => i \in pending' \cup liveSubs'
    BY <1>0, <1>2, SubscriptionsNow
  <2>2. \A l \in liveSubs : l \in SubId /\ l # c
    BY <1>0 DEF TypeOK, SubId
  <2>3. \A l \in liveSubs' : link'[Live] = "open" =>
          WillHold(l)' \/ resub'[l] > 0 \/ Msg("CLOSED", l) \in ToSet(down'[Live])
    BY <1>0, <1>2, <2>2, SubscriptionsNow
  <2>4. QED
    BY <2>1, <2>3, SubscriptionsFrom
<1>4. QED
  BY <1>2, <1>3 DEF WireInv

LEMMA EventsWire ==
  ASSUME TypeOK, TypeOK', WireInv,
         \/ UNCHANGED up
         \/ \E s \in Socket, e \in Event : Connected(s) /\ Send(s, Msg("EVENT", e)),
         UNCHANGED <<link, relaySub, down, liveSubs, resub, pending>>,
         made \subseteq made', HomesStay
  PROVE  WireInv'
<1>0. DownShrinks
  BY DownSame
<1>1. /\ Quiet' /\ OnItsSocket' /\ AskedOnce'
      /\ \A i \in SubId : WillHold(i)' <=> WillHold(i)
  <2>1. CASE UNCHANGED up
    BY <1>0, <2>1, NoSendKeeps
  <2>2. ASSUME NEW s \in Socket, NEW e \in Event, Connected(s), Send(s, Msg("EVENT", e))
        PROVE  /\ Quiet' /\ OnItsSocket' /\ AskedOnce'
               /\ \A i \in SubId : WillHold(i)' <=> WillHold(i)
    <3> DEFINE m == Msg("EVENT", e)
    <3>1. m \in Request /\ m.type = "EVENT" /\ Send(s, m)
      BY <2>2, RequestTypes DEF Msg
    <3> HIDE DEF m
    <3>2. /\ Quiet' /\ OnItsSocket' /\ AskedOnce'
          /\ \A i \in SubId : WillHold(i)' <=> IF Names(m, i) THEN m.type = "REQ" ELSE WillHold(i)
      BY <1>0, <2>2, <3>1, SendKeeps
    <3>3. QED
      BY <3>1, <3>2 DEF Names
  <2>3. QED
    BY <2>1, <2>2
<1>2. SubscriptionsAgree'
  BY <1>1, SubscriptionsAlone
<1>3. QED
  BY <1>1, <1>2 DEF WireInv

LEMMA PublishWire ==
  ASSUME TypeOK, TypeOK', CallInv, WireInv, NEW p \in Publish, PublishEvent(p) \/ Retry(p)
  PROVE  WireInv'
<1>0. p \notin SubId /\ EventOf[p] \in Event /\ sock \in [Call -> Socket] /\ p \in Call
  BY Apart DEF SubId, Event, TypeOK, Call
<1>1. CASE PublishEvent(p)
  <2>1. UNCHANGED <<link, relaySub, down, liveSubs, resub, pending>> /\ made \subseteq made'
    BY <1>1 DEF PublishEvent, liveVars
  <2>2. CASE Pick = {}
    <3>1. UNCHANGED <<up, sock>>
      BY <1>1, <2>2 DEF PublishEvent
    <3>2. HomesStay
      BY <3>1 DEF HomesStay, Home
    <3>3. QED
      BY <2>1, <3>1, <3>2, EventsWire
  <2>3. CASE Pick # {}
    <3>1. PICK s \in Pick : sock' = [sock EXCEPT ![p] = s] /\ Send(s, Msg("EVENT", EventOf[p]))
      BY <1>1, <2>3 DEF PublishEvent
    <3>2. s \in Socket /\ Connected(s)
      BY DEF Pick, Socket
    <3>3. HomesStay
      BY <1>0, <3>1 DEF HomesStay, Home, SubId
    <3>4. QED
      BY <1>0, <2>1, <3>1, <3>2, <3>3, EventsWire
  <2>4. QED
    BY <2>2, <2>3
<1>2. CASE Retry(p)
  <2>1. UNCHANGED <<link, relaySub, down, liveSubs, resub, pending, made, sock>>
    BY <1>2 DEF Retry, liveVars
  <2>2. HomesStay
    BY <2>1 DEF HomesStay, Home
  <2>3. \/ UNCHANGED up
        \/ Connected(sock[p]) /\ Send(sock[p], Msg("EVENT", EventOf[p]))
    BY <1>2 DEF Retry
  <2>4. sock[p] \in Socket
    BY <1>0
  <2>5. QED
    BY <1>0, <2>1, <2>2, <2>3, <2>4, EventsWire
<1>3. QED
  BY <1>1, <1>2

LEMMA OkTimeoutWire ==
  ASSUME TypeOK, TypeOK', WireInv, NEW s \in Socket, NEW w \in Waiter, OkTimeout(s, w)
  PROVE  WireInv'
<1>1. UNCHANGED <<link, up, relaySub, down, liveSubs, resub, pending, made, sock>>
  BY DEF OkTimeout, wire, liveVars
<1>2. HomesStay
  BY <1>1 DEF HomesStay, Home
<1>3. QED
  BY <1>1, <1>2, EventsWire

(* Live subscriptions. *)
LEMMA LiveWire ==
  ASSUME TypeOK, TypeOK', CallInv, WireInv, NEW l \in LiveSub,
         SubscribeLive(l) \/ UnsubscribeLive(l) \/ Resubscribe(l)
  PROVE  WireInv'
<1>0. /\ l \in SubId /\ Live \in Socket /\ Home(l) = Live
      /\ Msg("REQ", l) \in Request /\ Msg("CLOSE", l) \in Request
      /\ Msg("REQ", l).id = l /\ Msg("REQ", l).type = "REQ"
      /\ Msg("CLOSE", l).id = l /\ Msg("CLOSE", l).type = "CLOSE"
      /\ liveSubs \subseteq SubId /\ resub \in [LiveSub -> Nat]
  BY RequestTypes DEF SubId, Socket, Home, Msg, TypeOK
<1>1. UNCHANGED <<link, relaySub, down, pending, sock>> /\ made \subseteq made'
  BY DEF SubscribeLive, UnsubscribeLive, Resubscribe, callVars
<1>2. HomesStay /\ DownShrinks
  BY <1>1, DownSame DEF HomesStay, Home
<1>3. l \in made' \/ UNCHANGED up
  BY DEF SubscribeLive, UnsubscribeLive, Resubscribe, CallInv
<1>4. ASSUME Connected(Live), Send(Live, Msg("REQ", l)), l \in made'
      PROVE  /\ Quiet' /\ OnItsSocket' /\ AskedOnce'
             /\ \A i \in SubId : WillHold(i)' <=> i = l \/ WillHold(i)
  <2>1. /\ Quiet' /\ OnItsSocket' /\ AskedOnce'
        /\ \A i \in SubId : WillHold(i)'
             <=> IF Names(Msg("REQ", l), i) THEN Msg("REQ", l).type = "REQ" ELSE WillHold(i)
    BY <1>0, <1>1, <1>2, <1>4, SendKeeps
  <2>2. QED
    BY <1>0, <2>1 DEF Names
<1>5. ASSUME Connected(Live), Send(Live, Msg("CLOSE", l)), l \in made'
      PROVE  /\ Quiet' /\ OnItsSocket' /\ AskedOnce'
             /\ \A i \in SubId : WillHold(i)' <=> i # l /\ WillHold(i)
  <2>1. /\ Quiet' /\ OnItsSocket' /\ AskedOnce'
        /\ \A i \in SubId : WillHold(i)'
             <=> IF Names(Msg("CLOSE", l), i) THEN Msg("CLOSE", l).type = "REQ" ELSE WillHold(i)
    BY <1>0, <1>1, <1>2, <1>5, SendKeeps
  <2>2. QED
    BY <1>0, <2>1 DEF Names
<1>6. ASSUME UNCHANGED up
      PROVE  /\ Quiet' /\ OnItsSocket' /\ AskedOnce'
             /\ \A i \in SubId : WillHold(i)' <=> WillHold(i)
  BY <1>1, <1>2, <1>6, NoSendKeeps
<1>7. CASE SubscribeLive(l)
  <2>1. liveSubs' = liveSubs \cup {l} /\ l \in made' /\ UNCHANGED resub
    BY <1>7 DEF SubscribeLive
  <2>2. /\ Quiet' /\ OnItsSocket' /\ AskedOnce'
        /\ \A i \in SubId : WillHold(i)' => i = l \/ WillHold(i)
        /\ \A i \in SubId : i # l /\ WillHold(i) => WillHold(i)'
        /\ Connected(Live) => WillHold(l)'
    BY <1>0, <1>4, <1>6, <1>7, <2>1 DEF SubscribeLive
  <2>3. SubscriptionsAgree'
    <3>1. \A i \in SubId : WillHold(i)' => i \in pending' \cup liveSubs'
      BY <1>1, <2>1, <2>2, SubscriptionsNow
    <3>2. \A k \in liveSubs' : link'[Live] = "open" =>
            WillHold(k)' \/ resub'[k] > 0 \/ Msg("CLOSED", k) \in ToSet(down'[Live])
      BY <1>0, <1>1, <2>1, <2>2, SubscriptionsNow DEF Connected
    <3>3. QED
      BY <3>1, <3>2, SubscriptionsFrom
  <2>4. QED
    BY <2>2, <2>3 DEF WireInv
<1>8. CASE UnsubscribeLive(l)
  <2>1. liveSubs' = liveSubs \ {l} /\ l \in made' /\ UNCHANGED resub
    BY <1>8 DEF UnsubscribeLive, CallInv
  <2>2. /\ Quiet' /\ OnItsSocket' /\ AskedOnce'
        /\ \A i \in SubId : WillHold(i)' => WillHold(i) /\ i # l
        /\ \A i \in SubId : i # l /\ WillHold(i) => WillHold(i)'
    <3>1. CASE Connected(Live)
      BY <1>0, <1>5, <1>8, <2>1, <3>1 DEF UnsubscribeLive
    <3>2. CASE ~Connected(Live)
      <4>1. UNCHANGED up
        BY <1>8, <3>2 DEF UnsubscribeLive
      <4>2. ~WillHold(l)
        BY <1>0, <3>2, NothingHeld
      <4>3. QED
        BY <1>6, <4>1, <4>2
    <3>3. QED
      BY <3>1, <3>2
  <2>3. SubscriptionsAgree'
    <3>1. \A i \in SubId : WillHold(i)' => i \in pending' \cup liveSubs'
      BY <1>1, <2>1, <2>2, SubscriptionsNow
    <3>2. \A k \in liveSubs' : link'[Live] = "open" =>
            WillHold(k)' \/ resub'[k] > 0 \/ Msg("CLOSED", k) \in ToSet(down'[Live])
      BY <1>0, <1>1, <2>1, <2>2, SubscriptionsNow DEF Connected
    <3>3. QED
      BY <3>1, <3>2, SubscriptionsFrom
  <2>4. QED
    BY <2>2, <2>3 DEF WireInv
<1>9. CASE Resubscribe(l)
  <2>1. UNCHANGED <<liveSubs, made>> /\ \A k \in LiveSub \ {l} : resub'[k] = resub[k]
    BY <1>0, <1>9 DEF Resubscribe
  <2>2. /\ Quiet' /\ OnItsSocket' /\ AskedOnce'
        /\ \A i \in SubId : WillHold(i)' => WillHold(i) \/ (i = l /\ l \in liveSubs)
        /\ \A i \in SubId : WillHold(i) => WillHold(i)'
        /\ Connected(Live) /\ l \in liveSubs => WillHold(l)'
    <3>1. CASE l \in liveSubs /\ Connected(Live)
      <4>1. Send(Live, Msg("REQ", l)) /\ l \in made'
        BY <1>9, <2>1, <3>1 DEF Resubscribe, CallInv
      <4>2. QED
        BY <1>0, <1>4, <3>1, <4>1
    <3>2. CASE ~(l \in liveSubs /\ Connected(Live))
      BY <1>6, <1>9, <3>2 DEF Resubscribe
    <3>3. QED
      BY <3>1, <3>2
  <2>3. SubscriptionsAgree'
    <3>1. \A i \in SubId : WillHold(i)' => i \in pending' \cup liveSubs'
      BY <1>1, <2>1, <2>2, SubscriptionsNow
    <3>2. \A k \in liveSubs' : link'[Live] = "open" =>
            WillHold(k)' \/ resub'[k] > 0 \/ Msg("CLOSED", k) \in ToSet(down'[Live])
      <4>1. liveSubs \subseteq LiveSub
        BY DEF TypeOK
      <4>2. QED
        BY <1>0, <1>1, <2>1, <2>2, <4>1, SubscriptionsNow DEF Connected
    <3>3. QED
      BY <3>1, <3>2, SubscriptionsFrom
  <2>4. QED
    BY <2>2, <2>3 DEF WireInv
<1>10. QED
  BY <1>7, <1>8, <1>9

(* What comes in. *)
LEMMA ReceivesWire ==
  ASSUME TypeOK, NEW s \in Socket, NEW type, Receives(s, type)
  PROVE  /\ DownShrinks
         /\ Head(down[s]) \in ToSet(down[s]) /\ Head(down[s]).type = type
         /\ \A t \in Socket : \A x \in ToSet(down[t]) :
              x \in ToSet(down'[t]) \/ (t = s /\ x = Head(down[s]))
<1>1. /\ down \in [Socket -> Seq(Answer)] /\ down[s] # << >>
      /\ down' = [down EXCEPT ![s] = Tail(down[s])] /\ Head(down[s]).type = type
  BY DEF TypeOK, Receives
<1> DEFINE q == down[s]
           r == Tail(q)
<1>2. /\ Head(q) = q[1] /\ Head(q) \in ToSet(q) /\ DOMAIN q = 1 .. Len(q) /\ Len(q) \in Nat \ {0}
      /\ DOMAIN r = 1 .. Len(q) - 1 /\ \A k \in 1 .. Len(q) - 1 : r[k] = q[k + 1]
      /\ ToSet(r) \subseteq ToSet(q)
  <2>1. q \in Seq(Answer) /\ q # << >>
    BY <1>1
  <2>2. QED
    BY <2>1, TailElements
<1>3. down'[s] = r /\ \A t \in Socket \ {s} : down'[t] = down[t]
  BY <1>1
<1> HIDE DEF r
<1>4. ASSUME NEW x \in ToSet(q), x # Head(q)
      PROVE  x \in ToSet(r)
  <2>1. PICK k \in DOMAIN q : q[k] = x
    BY DEF ToSet
  <2>2. k # 1 /\ k - 1 \in 1 .. Len(q) - 1 /\ (k - 1) + 1 = k
    BY <1>2, <1>4, <2>1
  <2>3. r[k - 1] = x
    BY <1>2, <2>1, <2>2
  <2>4. QED
    BY <1>2, <2>2, <2>3 DEF ToSet
<1>5. DownShrinks
  <2> SUFFICES ASSUME NEW t \in Socket
               PROVE  ToSet(down'[t]) \subseteq ToSet(down[t]) /\ (down[t] = << >> => down'[t] = << >>)
    BY DEF DownShrinks
  <2>1. CASE t = s
    BY <1>1, <1>2, <1>3, <2>1
  <2>2. CASE t # s
    BY <1>3, <2>2
  <2>3. QED
    BY <2>1, <2>2
<1>6. QED
  BY <1>1, <1>2, <1>3, <1>4, <1>5

LEMMA RouteWire ==
  ASSUME TypeOK, TypeOK', CallInv, WireInv, NEW s \in Socket, Route(s)
  PROVE  WireInv'
<1> DEFINE m == Head(down[s])
           i == m.id
<1>0. /\ UNCHANGED <<link, relaySub, sock, made, liveSubs>> /\ HomesStay
      /\ pending \subseteq Fetch \cup Count /\ Live \in Socket
  <2>1. UNCHANGED <<link, relaySub, sock, made, liveSubs>>
    BY DEF Route, RouteEvent, RouteEose, RouteClosed, RouteCount, RouteOk, liveVars
  <2>2. QED
    BY <2>1 DEF HomesStay, Home, TypeOK, Socket
<1>1. CASE RouteEvent(s) \/ RouteOk(s)
  <2>1. Receives(s, "EVENT") \/ Receives(s, "OK")
    BY <1>1 DEF RouteEvent, RouteOk
  <2>2. /\ DownShrinks /\ m.type \in {"EVENT", "OK"}
        /\ \A t \in Socket : \A x \in ToSet(down[t]) : x \in ToSet(down'[t]) \/ (t = s /\ x = m)
    BY <2>1, ReceivesWire
  <2>3. UNCHANGED <<up, pending, resub>>
    BY <1>1 DEF RouteEvent, RouteOk, liveVars
  <2>4. /\ Quiet' /\ OnItsSocket' /\ AskedOnce'
        /\ \A j \in SubId : WillHold(j)' <=> WillHold(j)
    BY <1>0, <2>2, <2>3, NoSendKeeps
  <2>5. \A l \in LiveSub : Msg("CLOSED", l) \in ToSet(down[Live])
                             => Msg("CLOSED", l) \in ToSet(down'[Live])
    BY <1>0, <2>2 DEF Msg
  <2>6. QED
    BY <1>0, <2>3, <2>4, <2>5, SubscriptionsAlone DEF WireInv
<1>2. CASE RouteEose(s)
  <2>1. /\ DownShrinks /\ m.type = "EOSE" /\ m \in ToSet(down[s])
        /\ \A t \in Socket : \A x \in ToSet(down[t]) : x \in ToSet(down'[t]) \/ (t = s /\ x = m)
    BY <1>2, ReceivesWire DEF RouteEose
  <2>2. i \in SubId /\ Home(i) = s /\ i \in made
    BY <2>1, InFlight DEF WireInv, OnItsSocket
  <2>3. UNCHANGED resub /\ Connected(s)
    BY <1>2 DEF RouteEose, liveVars, Receives
  <2>4. \A l \in LiveSub : Msg("CLOSED", l) \in ToSet(down[Live])
                             => Msg("CLOSED", l) \in ToSet(down'[Live])
    BY <1>0, <2>1 DEF Msg
  <2>5. CASE i \notin pending
    <3>1. UNCHANGED <<up, pending>>
      BY <1>2, <2>5 DEF RouteEose
    <3>2. /\ Quiet' /\ OnItsSocket' /\ AskedOnce'
          /\ \A j \in SubId : WillHold(j)' <=> WillHold(j)
      BY <1>0, <2>1, <3>1, NoSendKeeps
    <3>3. QED
      BY <1>0, <2>3, <2>4, <3>1, <3>2, SubscriptionsAlone DEF WireInv
  <2>6. CASE i \in pending
    <3>1. pending' = pending \ {i} /\ Send(s, Msg("CLOSE", i))
      BY <1>2, <2>6 DEF RouteEose
    <3>2. PICK j \in SubId : j = i
      BY <2>2
    <3>3. Msg("CLOSE", j) \in Request /\ Msg("CLOSE", j).id = j /\ Msg("CLOSE", j).type = "CLOSE"
      BY RequestTypes DEF Msg
    <3> HIDE DEF i, m
    <3>4. Send(s, Msg("CLOSE", j)) /\ Home(j) = s /\ j \in made'
      BY <1>0, <2>2, <3>1, <3>2
    <3>5. /\ Quiet' /\ OnItsSocket' /\ AskedOnce'
          /\ \A k \in SubId : WillHold(k)'
               <=> IF Names(Msg("CLOSE", j), k) THEN Msg("CLOSE", j).type = "REQ" ELSE WillHold(k)
      BY <1>0, <2>1, <2>3, <3>3, <3>4, SendKeeps
    <3>6. \A k \in SubId : WillHold(k)' <=> k # j /\ WillHold(k)
      BY <3>3, <3>5 DEF Names
    <3>7. j \notin LiveSub
      BY <1>0, <2>6, <3>2, Apart
    <3>8. SubscriptionsAgree'
      <4>1. \A k \in SubId : WillHold(k)' => k \in pending' \cup liveSubs'
        BY <1>0, <3>1, <3>2, <3>6, SubscriptionsNow
      <4>2. \A l \in liveSubs : l \in LiveSub /\ l \in SubId
        BY DEF TypeOK, SubId
      <4>3. \A l \in liveSubs' : link'[Live] = "open" =>
              WillHold(l)' \/ resub'[l] > 0 \/ Msg("CLOSED", l) \in ToSet(down'[Live])
        BY <1>0, <2>3, <2>4, <3>6, <3>7, <4>2, SubscriptionsNow
      <4>4. QED
        BY <4>1, <4>3, SubscriptionsFrom
    <3>9. QED
      BY <3>5, <3>8 DEF WireInv
  <2>7. QED
    BY <2>5, <2>6
<1>3. CASE RouteClosed(s)
  <2>1. /\ DownShrinks /\ m.type = "CLOSED" /\ m \in ToSet(down[s])
        /\ \A t \in Socket : \A x \in ToSet(down[t]) : x \in ToSet(down'[t]) \/ (t = s /\ x = m)
    BY <1>3, ReceivesWire DEF RouteClosed
  <2>2. i \in SubId /\ Home(i) = s /\ i \in made
    BY <2>1, InFlight DEF WireInv, OnItsSocket
  <2>3. m = Msg("CLOSED", i)
    <3>1. m \in Answer
      BY <2>1, InFlight
    <3>2. QED
      BY <2>1, <3>1, AnswerKinds
  <2>4. /\ UNCHANGED up /\ pending' = pending \ {i}
        /\ resub' = IF i \in liveSubs THEN [resub EXCEPT ![i] = @ + 1] ELSE resub
    BY <1>3 DEF RouteClosed
  <2>5. /\ Quiet' /\ OnItsSocket' /\ AskedOnce'
        /\ \A j \in SubId : WillHold(j)' <=> WillHold(j)
    BY <1>0, <2>1, <2>4, NoSendKeeps
  <2>6. i \in pending => ~WillHold(i)
    <3>1. i \in pending => i \in Fetch
      BY <1>0, <2>2, Apart DEF SubId
    <3>2. QED
      BY <2>1, <2>2, <2>3, <3>1 DEF WireInv, AskedOnce
  <2> HIDE DEF i, m
  <2>7. \A j \in SubId : WillHold(j)' => j \in pending' \cup liveSubs'
    BY <1>0, <2>4, <2>5, <2>6, SubscriptionsNow
  <2>8. ASSUME NEW l \in liveSubs, link'[Live] = "open"
        PROVE  WillHold(l)' \/ resub'[l] > 0 \/ Msg("CLOSED", l) \in ToSet(down'[Live])
    <3>1. l \in LiveSub /\ l \in SubId /\ resub \in [LiveSub -> Nat] /\ liveSubs \subseteq LiveSub
      BY DEF TypeOK, SubId
    <3>2. CASE l = i
      <4>1. resub'[l] = resub[l] + 1 /\ resub[l] \in Nat
        BY <2>4, <3>1, <3>2
      <4>2. QED
        BY <4>1
    <3>3. CASE l # i
      <4>1. resub'[l] = resub[l]
        BY <2>4, <3>1, <3>3
      <4>2. Msg("CLOSED", l) # m
        BY <2>3, <3>3 DEF Msg
      <4>3. QED
        BY <1>0, <2>1, <2>5, <2>8, <3>1, <4>1, <4>2, SubscriptionsNow
    <3>4. QED
      BY <3>2, <3>3
  <2>9. SubscriptionsAgree'
    BY <1>0, <2>7, <2>8, SubscriptionsFrom
  <2>10. QED
    BY <2>5, <2>9 DEF WireInv
<1>4. CASE RouteCount(s)
  <2>1. /\ DownShrinks /\ m.type = "COUNT" /\ m \in ToSet(down[s])
        /\ \A t \in Socket : \A x \in ToSet(down[t]) : x \in ToSet(down'[t]) \/ (t = s /\ x = m)
    BY <1>4, ReceivesWire DEF RouteCount
  <2>2. i \in Count
    <3>1. m \in Answer
      BY <2>1, InFlight
    <3>2. QED
      BY <2>1, <3>1, AnswerKinds
  <2>3. UNCHANGED <<up, resub>> /\ pending' = pending \ {i}
    BY <1>4 DEF RouteCount, liveVars
  <2>4. /\ Quiet' /\ OnItsSocket' /\ AskedOnce'
        /\ \A j \in SubId : WillHold(j)' <=> WillHold(j)
    BY <1>0, <2>1, <2>3, NoSendKeeps
  <2>5. \A j \in SubId : j # i
    BY <2>2, Apart DEF SubId
  <2>6. \A j \in SubId : WillHold(j)' => j \in pending' \cup liveSubs'
    BY <1>0, <2>3, <2>4, <2>5, SubscriptionsNow
  <2>7. \A l \in LiveSub : Msg("CLOSED", l) \in ToSet(down[Live])
                             => Msg("CLOSED", l) \in ToSet(down'[Live])
    BY <1>0, <2>1 DEF Msg
  <2>8. \A l \in liveSubs : l \in LiveSub /\ l \in SubId
    BY DEF TypeOK, SubId
  <2>9. \A l \in liveSubs' : link'[Live] = "open" =>
          WillHold(l)' \/ resub'[l] > 0 \/ Msg("CLOSED", l) \in ToSet(down'[Live])
    BY <1>0, <2>3, <2>4, <2>7, <2>8, SubscriptionsNow
  <2>10. QED
    BY <2>4, <2>6, <2>9, SubscriptionsFrom DEF WireInv
<1>5. QED
  BY <1>1, <1>2, <1>3, <1>4 DEF Route

(* Connections. *)
LEMMA OpenedWire ==
  ASSUME TypeOK, TypeOK', CallInv, WireInv, NEW s \in Socket, Opened(s)
  PROVE  WireInv'
<1>0. /\ UNCHANGED <<down, relaySub, sock, made, liveSubs, pending, resub>> /\ HomesStay
      /\ link[s] = "connecting" /\ link'[s] = "open"
      /\ \A t \in Socket \ {s} : link'[t] = link[t]
      /\ up \in [Socket -> Seq(Request)] /\ Live \in Socket /\ ~Connected(s)
      /\ liveSubs \subseteq LiveSub /\ liveSubs \subseteq made
  BY DEF Opened, callVars, liveVars, HomesStay, Home, TypeOK, Socket, Connected, CallInv
<1>00. Quiet /\ OnItsSocket /\ AskedOnce
  BY DEF WireInv
<1>1. IsFiniteSet(liveSubs)
  BY FS_Subset DEF CallInv
<1>2. PICK order \in SetToSeqs(liveSubs) :
        up' = IF s = Live THEN [up EXCEPT ![s] = [k \in DOMAIN order |-> Msg("REQ", order[k])]]
              ELSE up
  BY DEF Opened
<1>3. /\ s = Live => up'[Live] = Requests(order)
      /\ \A t \in Socket : t # Live \/ s # Live => up'[t] = up[t]
  BY <1>0, <1>2 DEF Requests
<1>4. \A x \in ToSet(Requests(order)) : x.type = "REQ" /\ x.id \in liveSubs
  <2>1. order \in Seq(liveSubs) /\ DOMAIN order = 1 .. Cardinality(liveSubs)
    BY <1>1, RequestsForAll
  <2>2. \A k \in DOMAIN order : order[k] \in liveSubs
    BY <2>1, ElementOfSeq, LenProperties
  <2>3. QED
    BY <2>2 DEF ToSet, Requests, Msg
<1>5. Quiet'
  <2> SUFFICES ASSUME NEW t \in Socket, link'[t] # "open"
               PROVE  /\ up'[t] = << >> /\ down'[t] = << >>
                      /\ \A i \in SubId : Home(i)' = t => relaySub'[i] = "none"
    BY DEF Quiet, Connected
  <2>1. t # s /\ ~Connected(t)
    BY <1>0 DEF Connected
  <2>2. up'[t] = up[t]
    BY <1>3, <2>1
  <2>3. QED
    BY <1>0, <1>00, <2>1, <2>2 DEF Quiet, HomesStay
<1>6. OnItsSocket'
  <2>1. ASSUME NEW t \in Socket, NEW x \in ToSet(up'[t]), x.type \in {"REQ", "CLOSE"}
        PROVE  Home(x.id)' = t /\ x.id \in made'
    <3>1. CASE t = Live /\ s = Live
      <4>1. x.id \in liveSubs
        BY <1>3, <1>4, <2>1, <3>1
      <4>2. QED
        BY <1>0, <3>1, <4>1 DEF Home
    <3>2. CASE t # Live \/ s # Live
      <4>1. x \in ToSet(up[t])
        BY <1>3, <2>1, <3>2
      <4>2. x.id \in SubId /\ x.id \in made /\ Home(x.id) = t
        BY <1>00, <2>1, <4>1, InFlight DEF OnItsSocket
      <4>3. QED
        BY <1>0, <4>2 DEF HomesStay
    <3>3. QED
      BY <3>1, <3>2
  <2>2. ASSUME NEW t \in Socket, NEW x \in ToSet(down'[t]), x.type \in {"EVENT", "EOSE", "CLOSED"}
        PROVE  Home(x.id)' = t /\ x.id \in made'
    <3>1. x \in ToSet(down[t])
      BY <1>0, <2>2
    <3>2. x.id \in SubId /\ x.id \in made /\ Home(x.id) = t
      BY <1>00, <2>2, <3>1, InFlight DEF OnItsSocket
    <3>3. QED
      BY <1>0, <3>2 DEF HomesStay
  <2>3. \A i \in SubId : relaySub'[i] # "none" => i \in made'
    BY <1>0, <1>00 DEF OnItsSocket
  <2>4. QED
    BY <2>1, <2>2, <2>3 DEF OnItsSocket
<1>7. ASSUME NEW i \in SubId, s = Live, Home(i) = Live
      PROVE  WillHold(i)' <=> i \in liveSubs
  <2>1. relaySub[i] = "none"
    BY <1>0, <1>00, <1>7 DEF Quiet
  <2>2. (relaySub'[i] # "none") = FALSE
    BY <1>0, <2>1
  <2>3. Held(Requests(order), i, FALSE) <=> i \in liveSubs
    BY <1>1, HeldRequests
  <2>4. WillHold(i)' <=> Held(Requests(order), i, relaySub'[i] # "none")
    BY <1>0, <1>3, <1>7 DEF WillHold, HomesStay
  <2>5. QED
    BY <2>2, <2>3, <2>4
<1>8. ASSUME NEW i \in SubId, s # Live \/ Home(i) # Live
      PROVE  WillHold(i)' <=> WillHold(i)
  <2>1. Home(i) \in Socket
    BY HomeType
  <2>2. up'[Home(i)] = up[Home(i)]
    BY <1>3, <1>8, <2>1
  <2>3. QED
    BY <1>0, <2>2 DEF WillHold, HomesStay
<1>9. AskedOnce'
  <2> SUFFICES ASSUME NEW i \in Fetch
               PROVE  /\ Once(up'[Home(i)'], Msg("REQ", i))
                      /\ Msg("REQ", i) \in ToSet(up'[Home(i)']) => relaySub'[i] = "none"
                      /\ Msg("CLOSED", i) \in ToSet(down'[Home(i)']) => ~WillHold(i)'
    BY DEF AskedOnce
  <2>1. i \in SubId /\ Home(i)' = Home(i) /\ Home(i) \in Socket /\ i \notin liveSubs
    BY <1>0, HomeType, Apart DEF SubId, HomesStay
  <2>2. CASE s = Live /\ Home(i) = Live
    <3>1. Msg("REQ", i) \notin ToSet(up'[Live])
      <4>1. Msg("REQ", i).id = i
        BY DEF Msg
      <4>2. QED
        BY <1>3, <1>4, <2>1, <2>2, <4>1
    <3>2. Once(up'[Live], Msg("REQ", i))
      BY <3>1 DEF Once, ToSet
    <3>3. ~WillHold(i)'
      BY <1>7, <2>1, <2>2
    <3>4. QED
      BY <2>1, <2>2, <3>1, <3>2, <3>3
  <2>3. CASE ~(s = Live /\ Home(i) = Live)
    <3>1. up'[Home(i)] = up[Home(i)] /\ (WillHold(i)' <=> WillHold(i))
      BY <1>3, <1>8, <2>1, <2>3
    <3>2. QED
      BY <1>0, <1>00, <2>1, <3>1 DEF AskedOnce
  <2>4. QED
    BY <2>2, <2>3
<1>10. SubscriptionsAgree'
  <2>1. \A i \in SubId : WillHold(i)' => i \in pending' \cup liveSubs'
    BY <1>0, <1>7, <1>8, SubscriptionsNow
  <2>2. ASSUME NEW l \in liveSubs', link'[Live] = "open"
        PROVE  WillHold(l)' \/ resub'[l] > 0 \/ Msg("CLOSED", l) \in ToSet(down'[Live])
    <3>1. l \in liveSubs /\ l \in LiveSub /\ l \in SubId /\ Home(l) = Live
      BY <1>0 DEF SubId, Home
    <3>2. CASE s = Live
      BY <1>7, <3>1, <3>2
    <3>3. CASE s # Live
      <4>1. link[Live] = "open"
        BY <1>0, <2>2, <3>3
      <4>2. QED
        BY <1>0, <1>8, <3>1, <3>3, <4>1, SubscriptionsNow
    <3>4. QED
      BY <3>2, <3>3
  <2>3. QED
    BY <2>1, <2>2, SubscriptionsFrom
<1>11. QED
  BY <1>5, <1>6, <1>9, <1>10 DEF WireInv

(* The connections of the sockets S end. *)
LEMMA EndWire ==
  ASSUME TypeOK, TypeOK', WireInv, NEW S \in SUBSET Socket,
         \A t \in S : up'[t] = << >> /\ down'[t] = << >> /\ link'[t] # "open",
         \A t \in Socket \ S : up'[t] = up[t] /\ down'[t] = down[t] /\ link'[t] = link[t],
         \A i \in SubId : relaySub'[i] = IF Home(i) \in S THEN "none" ELSE relaySub[i],
         pending' = pending \ {c \in pending : sock[c] \in S},
         UNCHANGED <<sock, made, liveSubs, resub>>
  PROVE  WireInv'
<1>0. HomesStay /\ Quiet /\ OnItsSocket /\ AskedOnce /\ Live \in Socket
  BY DEF HomesStay, Home, WireInv, Socket
<1>1. \A t \in Socket : ToSet(up'[t]) \subseteq ToSet(up[t]) /\ ToSet(down'[t]) \subseteq ToSet(down[t])
  BY EmptyElements
<1>2. ASSUME NEW i \in SubId
      PROVE  /\ Home(i) \in S => ~WillHold(i)'
             /\ Home(i) \notin S => (WillHold(i)' <=> WillHold(i))
  <2>1. Home(i) \in Socket /\ Home(i)' = Home(i)
    BY <1>0, HomeType DEF HomesStay
  <2>2. CASE Home(i) \in S
    <3>1. up'[Home(i)] = << >> /\ relaySub'[i] = "none"
      BY <2>2
    <3>2. ~Held(<< >>, i, relaySub'[i] # "none")
      BY <3>1, HeldEmpty
    <3>3. QED
      BY <2>1, <2>2, <3>1, <3>2 DEF WillHold
  <2>3. CASE Home(i) \notin S
    <3>1. up'[Home(i)] = up[Home(i)] /\ relaySub'[i] = relaySub[i]
      BY <2>1, <2>3
    <3>2. QED
      BY <2>1, <2>3, <3>1 DEF WillHold
  <2>4. QED
    BY <2>2, <2>3
<1>3. Quiet'
  <2> SUFFICES ASSUME NEW t \in Socket, link'[t] # "open"
               PROVE  /\ up'[t] = << >> /\ down'[t] = << >>
                      /\ \A i \in SubId : Home(i)' = t => relaySub'[i] = "none"
    BY DEF Quiet, Connected
  <2>1. CASE t \in S
    BY <1>0, <2>1 DEF HomesStay
  <2>2. CASE t \notin S
    BY <1>0, <2>2 DEF Quiet, Connected, HomesStay
  <2>3. QED
    BY <2>1, <2>2
<1>4. OnItsSocket'
  <2>1. ASSUME NEW t \in Socket, NEW x \in ToSet(up'[t]), x.type \in {"REQ", "CLOSE"}
        PROVE  Home(x.id)' = t /\ x.id \in made'
    BY <1>0, <1>1, <2>1, InFlight DEF OnItsSocket, HomesStay
  <2>2. ASSUME NEW t \in Socket, NEW x \in ToSet(down'[t]), x.type \in {"EVENT", "EOSE", "CLOSED"}
        PROVE  Home(x.id)' = t /\ x.id \in made'
    BY <1>0, <1>1, <2>2, InFlight DEF OnItsSocket, HomesStay
  <2>3. \A i \in SubId : relaySub'[i] # "none" => i \in made'
    BY <1>0 DEF OnItsSocket
  <2>4. QED
    BY <2>1, <2>2, <2>3 DEF OnItsSocket
<1>5. AskedOnce'
  <2> SUFFICES ASSUME NEW i \in Fetch
               PROVE  /\ Once(up'[Home(i)'], Msg("REQ", i))
                      /\ Msg("REQ", i) \in ToSet(up'[Home(i)']) => relaySub'[i] = "none"
                      /\ Msg("CLOSED", i) \in ToSet(down'[Home(i)']) => ~WillHold(i)'
    BY DEF AskedOnce
  <2>1. i \in SubId /\ Home(i)' = Home(i) /\ Home(i) \in Socket
    BY <1>0, HomeType DEF SubId, HomesStay
  <2>2. CASE Home(i) \in S
    <3>1. up'[Home(i)] = << >> /\ relaySub'[i] = "none" /\ ~WillHold(i)'
      BY <1>2, <2>1, <2>2
    <3>2. QED
      BY <2>1, <3>1, OnceEmpty
  <2>3. CASE Home(i) \notin S
    <3>1. /\ up'[Home(i)] = up[Home(i)] /\ down'[Home(i)] = down[Home(i)]
          /\ relaySub'[i] = relaySub[i] /\ (WillHold(i)' <=> WillHold(i))
      BY <1>2, <2>1, <2>3
    <3>2. QED
      BY <1>0, <2>1, <3>1 DEF AskedOnce
  <2>4. QED
    BY <2>2, <2>3
<1>6. SubscriptionsAgree'
  <2>1. ASSUME NEW i \in SubId, WillHold(i)'
        PROVE  i \in pending' \cup liveSubs'
    <3>1. Home(i) \notin S /\ i \in pending \cup liveSubs
      BY <1>2, <2>1, SubscriptionsNow
    <3>2. CASE i \in LiveSub
      <4>1. i \notin pending
        BY <3>2, Apart DEF TypeOK
      <4>2. QED
        BY <3>1, <4>1
    <3>3. CASE i \notin LiveSub
      <4>1. Home(i) = sock[i] /\ i \notin liveSubs
        BY <3>3 DEF Home, TypeOK
      <4>2. QED
        BY <3>1, <4>1
    <3>4. QED
      BY <3>2, <3>3
  <2>2. ASSUME NEW l \in liveSubs', link'[Live] = "open"
        PROVE  WillHold(l)' \/ resub'[l] > 0 \/ Msg("CLOSED", l) \in ToSet(down'[Live])
    <3>1. l \in liveSubs /\ l \in LiveSub /\ l \in SubId /\ Home(l) = Live
      BY DEF SubId, Home, TypeOK
    <3>2. Live \notin S /\ link[Live] = "open" /\ down'[Live] = down[Live]
      BY <1>0, <2>2
    <3>3. QED
      BY <1>2, <3>1, <3>2, SubscriptionsNow
  <2>3. QED
    BY <2>1, <2>2, SubscriptionsFrom
<1>7. QED
  BY <1>3, <1>4, <1>5, <1>6 DEF WireInv

LEMMA LinkWire ==
  ASSUME TypeOK, TypeOK', CallInv, WireInv, LinkSteps
  PROVE  WireInv'
<1>1. ASSUME NEW s \in Socket, Opened(s) PROVE WireInv'
  BY <1>1, OpenedWire
<1>2. ASSUME NEW s \in Socket, Lost(s) PROVE WireInv'
  <2>1. /\ \A t \in {s} : up'[t] = << >> /\ down'[t] = << >> /\ link'[t] # "open"
        /\ \A t \in Socket \ {s} : up'[t] = up[t] /\ down'[t] = down[t] /\ link'[t] = link[t]
    BY <1>2 DEF Lost, Cut, TypeOK
  <2>2. \A i \in SubId : relaySub'[i] = IF Home(i) \in {s} THEN "none" ELSE relaySub[i]
    BY <1>2 DEF Lost, Cut, Home
  <2>3. /\ pending' = pending \ {c \in pending : sock[c] \in {s}}
        /\ UNCHANGED <<sock, made, liveSubs, resub>>
    BY <1>2 DEF Lost, FailAllPending, liveVars
  <2>4. {s} \in SUBSET Socket
    OBVIOUS
  <2>5. QED
    BY <2>1, <2>2, <2>3, <2>4, EndWire
<1>3. ASSUME NEW s \in Socket, Reconnect(s) PROVE WireInv'
  <2>1. /\ UNCHANGED <<up, down, relaySub, sock, made, pending, liveSubs, resub>>
        /\ \A t \in Socket : Connected(t)' <=> Connected(t)
    BY <1>3 DEF Reconnect, wire, callVars, liveVars, Connected, TypeOK
  <2>2. \A i : (Home(i)' = Home(i)) /\ (WillHold(i)' <=> WillHold(i))
    BY <2>1 DEF Home, WillHold
  <2>3. Quiet'
    BY <2>1, <2>2 DEF WireInv, Quiet
  <2>4. OnItsSocket'
    BY <2>1, <2>2 DEF WireInv, OnItsSocket
  <2>5. AskedOnce'
    BY <2>1, <2>2 DEF WireInv, AskedOnce
  <2>6. SubscriptionsAgree'
    <3>1. Live \in Socket
      BY DEF Socket
    <3>2. QED
      BY <2>1, <2>2, <3>1 DEF WireInv, SubscriptionsAgree
  <2>7. QED
    BY <2>3, <2>4, <2>5, <2>6 DEF WireInv
<1>4. ASSUME Close PROVE WireInv'
  <2>1. /\ \A t \in Socket : up'[t] = << >> /\ down'[t] = << >> /\ link'[t] # "open"
        /\ \A i \in SubId : relaySub'[i] = IF Home(i) \in Socket THEN "none" ELSE relaySub[i]
    BY <1>4, HomeType DEF Close
  <2>2. /\ pending' = pending \ {c \in pending : sock[c] \in Socket}
        /\ UNCHANGED <<sock, made, liveSubs, resub>>
    BY <1>4 DEF Close, FailAllPending, liveVars
  <2>3. QED
    BY <2>1, <2>2, EndWire
<1>5. QED
  BY <1>1, <1>2, <1>3, <1>4 DEF LinkSteps

(* The relay takes a request: what it will hold is decided by the rest. *)
LEMMA TakesWire ==
  ASSUME TypeOK, WireInv, NEW s \in Socket, NEW type, RelayTakes(s, type)
  PROVE  /\ Connected(s) /\ up[s] # << >> /\ Head(up[s]) \in Request /\ Head(up[s]).type = type
         /\ up'[s] = Tail(up[s]) /\ \A t \in Socket \ {s} : up'[t] = up[t]
         /\ \A t \in Socket : ToSet(up'[t]) \subseteq ToSet(up[t])
         /\ type \in {"REQ", "CLOSE"} =>
              /\ Head(up[s]).id \in SubId /\ Home(Head(up[s]).id) = s /\ Head(up[s]).id \in made
         /\ \A i \in SubId : Home(i) = s => \A h \in BOOLEAN :
              Held(up[s], i, h)
                <=> Held(up'[s], i, IF Names(Head(up[s]), i) THEN Head(up[s]).type = "REQ" ELSE h)
         /\ \A i \in Fetch : Home(i) = s =>
              /\ Once(up'[s], Msg("REQ", i))
              /\ Head(up[s]) = Msg("REQ", i) => Msg("REQ", i) \notin ToSet(up'[s])
<1>1. /\ up[s] \in Seq(Request) /\ up[s] # << >> /\ Connected(s) /\ Head(up[s]).type = type
      /\ up'[s] = Tail(up[s]) /\ \A t \in Socket \ {s} : up'[t] = up[t]
  BY DEF TypeOK, RelayTakes
<1>2. /\ Head(up[s]) \in Request /\ Head(up[s]) \in ToSet(up[s])
      /\ ToSet(Tail(up[s])) \subseteq ToSet(up[s])
  BY <1>1, TailElements
<1>3. \A t \in Socket : ToSet(up'[t]) \subseteq ToSet(up[t])
  BY <1>1, <1>2
<1>4. type \in {"REQ", "CLOSE"} =>
        /\ Head(up[s]).id \in SubId /\ Home(Head(up[s]).id) = s /\ Head(up[s]).id \in made
  BY <1>1, <1>2, InFlight DEF WireInv, OnItsSocket
<1>5. \A i \in SubId : Home(i) = s => \A h \in BOOLEAN :
        Held(up[s], i, h)
          <=> Held(up'[s], i, IF Names(Head(up[s]), i) THEN Head(up[s]).type = "REQ" ELSE h)
  BY <1>1, HeldTail
<1>6. ASSUME NEW i \in Fetch, Home(i) = s
      PROVE  /\ Once(up'[s], Msg("REQ", i))
             /\ Head(up[s]) = Msg("REQ", i) => Msg("REQ", i) \notin ToSet(up'[s])
  <2>1. Once(up[s], Msg("REQ", i))
    BY <1>6 DEF WireInv, AskedOnce
  <2>2. /\ Once(Tail(up[s]), Msg("REQ", i))
        /\ Head(up[s]) = Msg("REQ", i) => Msg("REQ", i) \notin ToSet(Tail(up[s]))
    BY <1>1, <2>1, OnceTail
  <2>3. QED
    BY <1>1, <2>2
<1>7. QED
  BY <1>1, <1>2, <1>3, <1>4, <1>5, <1>6

LEMMA RepliesWire ==
  ASSUME TypeOK, NEW s \in Socket, NEW m \in Answer, Reply(s, m)
  PROVE  /\ \A t \in Socket \ {s} : down'[t] = down[t]
         /\ ToSet(down'[s]) = ToSet(down[s]) \cup {m}
<1>1. /\ down[s] \in Seq(Answer) /\ down'[s] = Append(down[s], m)
      /\ \A t \in Socket \ {s} : down'[t] = down[t]
  BY DEF TypeOK, Reply
<1>2. QED
  BY <1>1, AppendElements

(* What every step of the relay keeps: it works on an open connection, and *)
(* answers on it about what it was asked there.                            *)
DownGrows(s) ==
  \A t \in Socket :
    /\ ToSet(down[t]) \subseteq ToSet(down'[t])
    /\ t # s => down'[t] = down[t]
    /\ \A m \in ToSet(down'[t]) \ ToSet(down[t]) :
         m.type \in {"EVENT", "EOSE", "CLOSED"} => m.id \in SubId /\ Home(m.id) = t /\ m.id \in made

LEMMA GrowsSame ==
  ASSUME NEW s, UNCHANGED down
  PROVE  DownGrows(s)
BY DEF DownGrows

LEMMA GrowsReply ==
  ASSUME TypeOK, NEW s \in Socket, NEW m \in Answer, Reply(s, m),
         m.type \in {"EVENT", "EOSE", "CLOSED"} => m.id \in SubId /\ Home(m.id) = s /\ m.id \in made
  PROVE  DownGrows(s)
<1>1. /\ \A t \in Socket \ {s} : down'[t] = down[t]
      /\ ToSet(down'[s]) = ToSet(down[s]) \cup {m}
  BY RepliesWire
<1>2. QED
  BY <1>1 DEF DownGrows

LEMMA RelayWireFrom ==
  ASSUME TypeOK, TypeOK', WireInv, CallsAlone, UNCHANGED <<link, resub>>,
         NEW s \in Socket, Connected(s), DownGrows(s),
         \A t \in Socket : ToSet(up'[t]) \subseteq ToSet(up[t]) /\ (t # s => up'[t] = up[t]),
         \A i \in SubId : /\ relaySub'[i] # "none" => i \in made
                          /\ Home(i) # s => relaySub'[i] = relaySub[i],
         AskedOnce',
         \A i \in SubId : WillHold(i)' => WillHold(i),
         \A l \in LiveSub : WillHold(l) => WillHold(l)' \/ Msg("CLOSED", l) \in ToSet(down'[Live])
  PROVE  WireInv'
<1>0. /\ HomesStay /\ Quiet /\ OnItsSocket /\ Live \in Socket
      /\ UNCHANGED <<made, pending, liveSubs, sock>>
  BY DEF HomesStay, Home, CallsAlone, WireInv, Socket
<1>1. Quiet'
  <2> SUFFICES ASSUME NEW t \in Socket, link'[t] # "open"
               PROVE  /\ up'[t] = << >> /\ down'[t] = << >>
                      /\ \A i \in SubId : Home(i)' = t => relaySub'[i] = "none"
    BY DEF Quiet, Connected
  <2>1. t # s /\ ~Connected(t)
    BY DEF Connected
  <2>2. up'[t] = up[t] /\ down'[t] = down[t]
    BY <2>1 DEF DownGrows
  <2>3. QED
    BY <1>0, <2>1, <2>2 DEF Quiet, HomesStay
<1>2. OnItsSocket'
  <2>1. ASSUME NEW t \in Socket, NEW x \in ToSet(up'[t]), x.type \in {"REQ", "CLOSE"}
        PROVE  Home(x.id)' = t /\ x.id \in made'
    <3>1. x \in ToSet(up[t])
      OBVIOUS
    <3>2. x.id \in SubId /\ Home(x.id) = t /\ x.id \in made
      BY <1>0, <2>1, <3>1, InFlight DEF OnItsSocket
    <3>3. QED
      BY <1>0, <3>2 DEF HomesStay
  <2>2. ASSUME NEW t \in Socket, NEW x \in ToSet(down'[t]), x.type \in {"EVENT", "EOSE", "CLOSED"}
        PROVE  Home(x.id)' = t /\ x.id \in made'
    <3>1. x.id \in SubId /\ Home(x.id) = t /\ x.id \in made
      <4>1. CASE x \in ToSet(down[t])
        BY <1>0, <2>2, <4>1, InFlight DEF OnItsSocket
      <4>2. CASE x \notin ToSet(down[t])
        BY <2>2, <4>2 DEF DownGrows
      <4>3. QED
        BY <4>1, <4>2
    <3>2. QED
      BY <1>0, <3>1 DEF HomesStay
  <2>3. \A i \in SubId : relaySub'[i] # "none" => i \in made'
    BY <1>0
  <2>4. QED
    BY <2>1, <2>2, <2>3 DEF OnItsSocket
<1>3. SubscriptionsAgree'
  <2>1. \A i \in SubId : WillHold(i)' => i \in pending' \cup liveSubs'
    BY <1>0, SubscriptionsNow
  <2>2. \A l \in liveSubs : l \in SubId /\ l \in LiveSub
    BY DEF TypeOK, SubId
  <2>3. \A l \in liveSubs' : link'[Live] = "open" =>
          WillHold(l)' \/ resub'[l] > 0 \/ Msg("CLOSED", l) \in ToSet(down'[Live])
    BY <1>0, <2>2, SubscriptionsNow DEF DownGrows
  <2>4. QED
    BY <2>1, <2>3, SubscriptionsFrom
<1>4. QED
  BY <1>1, <1>2, <1>3 DEF WireInv

(* Once asked about or not, a fetch's place in the queue. *)
LEMMA AskedFrom ==
  ASSUME TypeOK, WireInv, CallsAlone, NEW s \in Socket,
         \A t \in Socket \ {s} : up'[t] = up[t] /\ down'[t] = down[t],
         \A i \in SubId : Home(i) # s => relaySub'[i] = relaySub[i],
         \A i \in Fetch : Home(i) = s =>
           /\ Once(up'[s], Msg("REQ", i))
           /\ Msg("REQ", i) \in ToSet(up'[s]) => relaySub'[i] = "none"
           /\ Msg("CLOSED", i) \in ToSet(down'[s]) => ~WillHold(i)'
  PROVE  AskedOnce'
<1> SUFFICES ASSUME NEW i \in Fetch
             PROVE  /\ Once(up'[Home(i)'], Msg("REQ", i))
                    /\ Msg("REQ", i) \in ToSet(up'[Home(i)']) => relaySub'[i] = "none"
                    /\ Msg("CLOSED", i) \in ToSet(down'[Home(i)']) => ~WillHold(i)'
  BY DEF AskedOnce
<1>1. i \in SubId /\ Home(i)' = Home(i) /\ Home(i) \in Socket
  BY HomeType DEF SubId, Home, CallsAlone
<1>2. CASE Home(i) = s
  BY <1>1, <1>2
<1>3. CASE Home(i) # s
  <2>1. /\ up'[Home(i)] = up[Home(i)] /\ down'[Home(i)] = down[Home(i)]
        /\ relaySub'[i] = relaySub[i]
    BY <1>1, <1>3
  <2>2. WillHold(i)' <=> WillHold(i)
    BY <1>1, <2>1 DEF WillHold
  <2>3. QED
    BY <1>1, <2>1, <2>2 DEF WireInv, AskedOnce
<1>4. QED
  BY <1>2, <1>3

LEMMA HomeSame ==
  ASSUME CallsAlone, NEW i, NEW q, up'[Home(i)] = q
  PROVE  /\ Home(i)' = Home(i)
         /\ WillHold(i)' <=> Held(q, i, relaySub'[i] # "none")
<1>1. Home(i)' = Home(i)
  BY DEF CallsAlone, Home
<1>2. QED
  BY <1>1 DEF WillHold

LEMMA ReqCloseWire ==
  ASSUME TypeOK, TypeOK', WireInv, CallsAlone, UNCHANGED <<link, resub>>,
         NEW s \in Socket, RelayReq(s) \/ RelayClose(s)
  PROVE  WireInv'
<1> DEFINE m == Head(up[s])
<1>0. PICK type \in {"REQ", "CLOSE"} : /\ RelayTakes(s, type)
                                       /\ relaySub' = [relaySub EXCEPT ![m.id] =
                                            IF type = "REQ" THEN "asked" ELSE "none"]
  <2>1. CASE RelayReq(s)
    BY <2>1 DEF RelayReq
  <2>2. CASE RelayClose(s)
    BY <2>2 DEF RelayClose
  <2>3. QED
    BY <2>1, <2>2
<1>1. /\ UNCHANGED down /\ DownGrows(s) /\ relaySub \in [SubId -> {"none", "asked", "sent", "live"}]
  BY GrowsSame DEF RelayReq, RelayClose, TypeOK
<1>2. /\ Connected(s) /\ m \in Request /\ m.type = type
      /\ up'[s] = Tail(up[s]) /\ \A t \in Socket \ {s} : up'[t] = up[t]
      /\ \A t \in Socket : ToSet(up'[t]) \subseteq ToSet(up[t])
      /\ m.id \in SubId /\ Home(m.id) = s /\ m.id \in made
      /\ \A i \in SubId : Home(i) = s => \A h \in BOOLEAN :
           Held(up[s], i, h)
             <=> Held(up'[s], i, IF Names(m, i) THEN m.type = "REQ" ELSE h)
      /\ \A i \in Fetch : Home(i) = s =>
           /\ Once(up'[s], Msg("REQ", i))
           /\ m = Msg("REQ", i) => Msg("REQ", i) \notin ToSet(up'[s])
  BY <1>0, TakesWire
<1>3. m = Msg(type, m.id)
  BY <1>2, RequestKinds
<1> HIDE DEF m
<1>4. \A i \in SubId : /\ i # m.id => relaySub'[i] = relaySub[i]
                       /\ i = m.id => relaySub'[i] = IF type = "REQ" THEN "asked" ELSE "none"
                       /\ Names(m, i) <=> i = m.id
  BY <1>0, <1>1, <1>2 DEF Names
<1>5. ASSUME NEW i \in SubId
      PROVE  WillHold(i)' <=> WillHold(i)
  <2>1. Home(i) \in Socket
    BY HomeType
  <2>2. CASE Home(i) = s
    <3>1. WillHold(i)' <=> Held(up'[s], i, relaySub'[i] # "none")
      BY <2>2, HomeSame
    <3>2. (relaySub'[i] # "none") = (IF Names(m, i) THEN m.type = "REQ" ELSE relaySub[i] # "none")
      BY <1>2, <1>4
    <3>3. WillHold(i) <=> Held(up[s], i, relaySub[i] # "none")
      BY <2>2 DEF WillHold
    <3>4. Held(up[s], i, relaySub[i] # "none")
            <=> Held(up'[s], i, IF Names(m, i) THEN m.type = "REQ" ELSE relaySub[i] # "none")
      BY <1>2, <2>2
    <3>5. QED
      BY <3>1, <3>2, <3>3, <3>4
  <2>3. CASE Home(i) # s
    <3>1. up'[Home(i)] = up[Home(i)] /\ relaySub'[i] = relaySub[i]
      BY <1>2, <1>4, <2>1, <2>3
    <3>2. QED
      BY <3>1, HomeSame DEF WillHold
  <2>4. QED
    BY <2>2, <2>3
<1>6. ASSUME NEW i \in Fetch, Home(i) = s
      PROVE  /\ Once(up'[s], Msg("REQ", i))
             /\ Msg("REQ", i) \in ToSet(up'[s]) => relaySub'[i] = "none"
             /\ Msg("CLOSED", i) \in ToSet(down'[s]) => ~WillHold(i)'
  <2>1. i \in SubId
    BY DEF SubId
  <2>2. Msg("REQ", i) \in ToSet(up'[s]) => relaySub'[i] = "none"
    <3>1. CASE i = m.id
      <4>1. type = "REQ" => Msg("REQ", i) \notin ToSet(up'[s])
        BY <1>2, <1>3, <1>6, <3>1
      <4>2. QED
        BY <1>4, <2>1, <3>1, <4>1
    <3>2. CASE i # m.id
      BY <1>2, <1>4, <1>6, <2>1, <3>2 DEF WireInv, AskedOnce
    <3>3. QED
      BY <3>1, <3>2
  <2>3. Msg("CLOSED", i) \in ToSet(down'[s]) => ~WillHold(i)'
    BY <1>1, <1>5, <1>6, <2>1 DEF WireInv, AskedOnce
  <2>4. QED
    BY <1>2, <1>6, <2>2, <2>3
<1>7. AskedOnce'
  BY <1>1, <1>2, <1>4, <1>6, AskedFrom
<1>8. \A i \in SubId : /\ relaySub'[i] # "none" => i \in made
                       /\ Home(i) # s => relaySub'[i] = relaySub[i]
  BY <1>2, <1>4 DEF WireInv, OnItsSocket
<1>9. QED
  BY <1>1, <1>2, <1>5, <1>7, <1>8, RelayWireFrom DEF SubId

LEMMA CountPublishWire ==
  ASSUME TypeOK, TypeOK', WireInv, CallsAlone, UNCHANGED <<link, resub>>,
         NEW s \in Socket, NEW m \in Answer,
         m.type \in {"COUNT", "OK"}, Reply(s, m),
         RelayTakes(s, "COUNT") \/ RelayTakes(s, "EVENT"), UNCHANGED relaySub
  PROVE  WireInv'
<1>0. PICK type \in {"COUNT", "EVENT"} : RelayTakes(s, type)
  OBVIOUS
<1>1. /\ DownGrows(s)
      /\ \A t \in Socket \ {s} : down'[t] = down[t]
      /\ ToSet(down'[s]) = ToSet(down[s]) \cup {m}
  BY RepliesWire, GrowsReply
<1>2. /\ Connected(s) /\ Head(up[s]).type = type
      /\ \A t \in Socket \ {s} : up'[t] = up[t]
      /\ \A t \in Socket : ToSet(up'[t]) \subseteq ToSet(up[t])
      /\ \A i \in SubId : Home(i) = s => \A h \in BOOLEAN :
           Held(up[s], i, h)
             <=> Held(up'[s], i, IF Names(Head(up[s]), i) THEN Head(up[s]).type = "REQ" ELSE h)
      /\ \A i \in Fetch : Home(i) = s => Once(up'[s], Msg("REQ", i))
  BY <1>0, TakesWire
<1>3. ASSUME NEW i \in SubId
      PROVE  WillHold(i)' <=> WillHold(i)
  <2>1. Home(i) \in Socket
    BY HomeType
  <2>2. CASE Home(i) = s
    <3>1. WillHold(i)' <=> Held(up'[s], i, relaySub[i] # "none")
      BY <2>2, HomeSame
    <3>2. ~Names(Head(up[s]), i)
      BY <1>2 DEF Names
    <3>3. Held(up[s], i, relaySub[i] # "none") <=> Held(up'[s], i, relaySub[i] # "none")
      BY <1>2, <2>2, <3>2
    <3>4. QED
      BY <2>2, <3>1, <3>3 DEF WillHold
  <2>3. CASE Home(i) # s
    BY <1>2, <2>1, <2>3, HomeSame DEF WillHold
  <2>4. QED
    BY <2>2, <2>3
<1>4. ASSUME NEW i \in Fetch, Home(i) = s
      PROVE  /\ Once(up'[s], Msg("REQ", i))
             /\ Msg("REQ", i) \in ToSet(up'[s]) => relaySub'[i] = "none"
             /\ Msg("CLOSED", i) \in ToSet(down'[s]) => ~WillHold(i)'
  <2>1. i \in SubId /\ m # Msg("CLOSED", i)
    BY DEF SubId, Msg
  <2>2. QED
    BY <1>1, <1>2, <1>3, <1>4, <2>1 DEF WireInv, AskedOnce
<1>5. AskedOnce'
  BY <1>1, <1>2, <1>4, AskedFrom
<1>6. \A i \in SubId : relaySub'[i] # "none" => i \in made
  BY DEF WireInv, OnItsSocket
<1>7. QED
  BY <1>1, <1>2, <1>3, <1>5, <1>6, RelayWireFrom DEF SubId

LEMMA RefusesWire ==
  ASSUME TypeOK, TypeOK', WireInv, CallsAlone, UNCHANGED <<link, resub>>,
         NEW s \in Socket, RelayRefuses(s)
  PROVE  WireInv'
<1> DEFINE m == Head(up[s])
<1>0. RelayTakes(s, "REQ") /\ UNCHANGED relaySub /\ Reply(s, Msg("CLOSED", m.id))
  BY DEF RelayRefuses
<1>1. /\ Connected(s) /\ m \in Request /\ m.type = "REQ"
      /\ \A t \in Socket \ {s} : up'[t] = up[t]
      /\ \A t \in Socket : ToSet(up'[t]) \subseteq ToSet(up[t])
      /\ m.id \in SubId /\ Home(m.id) = s /\ m.id \in made
      /\ \A i \in SubId : Home(i) = s => \A h \in BOOLEAN :
           Held(up[s], i, h) <=> Held(up'[s], i, IF Names(m, i) THEN m.type = "REQ" ELSE h)
      /\ \A i \in Fetch : Home(i) = s =>
           /\ Once(up'[s], Msg("REQ", i))
           /\ m = Msg("REQ", i) => Msg("REQ", i) \notin ToSet(up'[s])
      /\ m \in ToSet(up[s])
  <2>1. up[s] \in Seq(Request) /\ up[s] # << >>
    BY <1>0 DEF TypeOK, RelayTakes
  <2>2. m \in ToSet(up[s])
    BY <2>1, TailElements
  <2>3. QED
    BY <1>0, <2>2, TakesWire
<1>2. m = Msg("REQ", m.id)
  BY <1>1, RequestKinds
<1> HIDE DEF m
<1>3. /\ DownGrows(s)
      /\ \A t \in Socket \ {s} : down'[t] = down[t]
      /\ ToSet(down'[s]) = ToSet(down[s]) \cup {Msg("CLOSED", m.id)}
  <2>1. /\ Msg("CLOSED", m.id) \in Answer /\ Msg("CLOSED", m.id).id = m.id
    BY <1>1, AnswerTypes DEF Msg
  <2>2. QED
    BY <1>0, <1>1, <2>1, RepliesWire, GrowsReply
<1>4. ASSUME NEW i \in SubId
      PROVE  /\ WillHold(i)' => WillHold(i)
             /\ i # m.id => (WillHold(i)' <=> WillHold(i))
  <2>1. Home(i) \in Socket
    BY HomeType
  <2>2. CASE Home(i) = s
    <3>1. WillHold(i)' <=> Held(up'[s], i, relaySub[i] # "none")
      BY <1>0, <2>2, HomeSame
    <3>2. WillHold(i) <=> Held(up[s], i, relaySub[i] # "none")
      BY <2>2 DEF WillHold
    <3>3. CASE i # m.id
      <4>1. ~Names(m, i)
        BY <3>3 DEF Names
      <4>2. Held(up[s], i, relaySub[i] # "none") <=> Held(up'[s], i, relaySub[i] # "none")
        BY <1>1, <2>2, <4>1
      <4>3. QED
        BY <3>1, <3>2, <4>2
    <3>4. CASE i = m.id
      <4>1. Names(m, i)
        BY <1>1, <3>4 DEF Names
      <4>2. Held(up[s], i, relaySub[i] # "none") <=> Held(up'[s], i, TRUE)
        <5>1. Held(up[s], i, relaySub[i] # "none") <=> Held(up'[s], i, m.type = "REQ")
          BY <1>1, <2>2, <4>1
        <5>2. (m.type = "REQ") = TRUE
          BY <1>1
        <5>3. QED
          BY <5>1, <5>2
      <4>3. Held(up'[s], i, relaySub[i] # "none") => Held(up'[s], i, TRUE)
        BY HeldMore
      <4>4. QED
        BY <3>1, <3>2, <3>4, <4>2, <4>3
    <3>5. QED
      BY <3>3, <3>4
  <2>3. CASE Home(i) # s
    BY <1>0, <1>1, <2>1, <2>3, HomeSame DEF WillHold
  <2>4. QED
    BY <2>2, <2>3
<1>5. ASSUME NEW i \in Fetch, Home(i) = s
      PROVE  /\ Once(up'[s], Msg("REQ", i))
             /\ Msg("REQ", i) \in ToSet(up'[s]) => relaySub'[i] = "none"
             /\ Msg("CLOSED", i) \in ToSet(down'[s]) => ~WillHold(i)'
  <2>1. i \in SubId /\ up'[s] \in Seq(Request)
    BY DEF SubId, TypeOK
  <2>2. Msg("REQ", i) \in ToSet(up'[s]) => relaySub'[i] = "none"
    BY <1>0, <1>1, <1>5 DEF WireInv, AskedOnce
  <2>3. CASE i = m.id
    <3>1. Msg("REQ", i) \notin ToSet(up'[s]) /\ relaySub[i] = "none"
      BY <1>1, <1>2, <1>5, <2>3 DEF WireInv, AskedOnce
    <3>2. \A k \in DOMAIN up'[s] : up'[s][k].id = i => up'[s][k].type # "REQ"
      <4> TAKE k \in DOMAIN up'[s]
      <4>1. up'[s][k] \in Request /\ up'[s][k] \in ToSet(up'[s])
        BY <2>1, ElementOfSeq, LenProperties DEF ToSet
      <4>2. up'[s][k] = Msg(up'[s][k].type, up'[s][k].id)
        BY <4>1, RequestKinds
      <4>3. QED
        BY <3>1, <4>1, <4>2
    <3>3. ~Held(up'[s], i, FALSE)
      BY <3>2, HeldQuiet
    <3>4. (relaySub'[i] # "none") = FALSE
      BY <1>0, <3>1
    <3>5. WillHold(i)' <=> Held(up'[s], i, relaySub'[i] # "none")
      BY <1>5, HomeSame
    <3>6. QED
      BY <1>1, <1>5, <2>2, <3>3, <3>4, <3>5
  <2>4. CASE i # m.id
    <3>1. Msg("CLOSED", i) # Msg("CLOSED", m.id)
      BY <2>4 DEF Msg
    <3>2. Msg("CLOSED", i) \in ToSet(down'[s]) => ~WillHold(i)'
      BY <1>3, <1>4, <1>5, <2>1, <2>4, <3>1 DEF WireInv, AskedOnce
    <3>3. QED
      BY <1>1, <1>5, <2>2, <3>2
  <2>5. QED
    BY <2>3, <2>4
<1>6. AskedOnce'
  BY <1>0, <1>1, <1>3, <1>5, AskedFrom
<1>7. \A l \in LiveSub : WillHold(l) => WillHold(l)' \/ Msg("CLOSED", l) \in ToSet(down'[Live])
  <2> TAKE l \in LiveSub
  <2>1. l \in SubId /\ Home(l) = Live
    BY DEF SubId, Home
  <2>2. QED
    BY <1>1, <1>3, <1>4, <2>1
<1>8. \A i \in SubId : relaySub'[i] # "none" => i \in made
  BY <1>0 DEF WireInv, OnItsSocket
<1>9. QED
  BY <1>0, <1>1, <1>3, <1>4, <1>6, <1>7, <1>8, RelayWireFrom

(* The relay answers a subscription it holds. *)
LEMMA HoldingWire ==
  ASSUME TypeOK, TypeOK', WireInv, CallsAlone, UNCHANGED <<link, resub>>,
         NEW i \in SubId, NEW m \in Answer, NEW st \in {"asked", "sent", "live"},
         m.type \in {"EVENT", "EOSE"}, m.id = i, Reply(Home(i), m),
         relaySub[i] # "none", relaySub' = [relaySub EXCEPT ![i] = st], UNCHANGED up
  PROVE  WireInv'
<1> DEFINE s == Home(i)
<1>0. s \in Socket
  BY HomeType
<1>1. Connected(s) /\ i \in made
  BY <1>0 DEF WireInv, Quiet, OnItsSocket
<1>2. /\ DownGrows(s)
      /\ \A t \in Socket \ {s} : down'[t] = down[t]
      /\ ToSet(down'[s]) = ToSet(down[s]) \cup {m}
  BY <1>0, <1>1, RepliesWire, GrowsReply
<1>3. \A j \in SubId : /\ relaySub'[j] # "none" <=> relaySub[j] # "none"
                       /\ j # i => relaySub'[j] = relaySub[j]
  BY DEF TypeOK
<1>4. ASSUME NEW j \in SubId
      PROVE  WillHold(j)' <=> WillHold(j)
  <2>1. Home(j)' = Home(j)
    BY DEF CallsAlone, Home
  <2>2. (relaySub'[j] # "none") = (relaySub[j] # "none")
    BY <1>3
  <2>3. QED
    BY <2>1, <2>2 DEF WillHold
<1> HIDE DEF s
<1>5. ASSUME NEW j \in Fetch, Home(j) = s
      PROVE  /\ Once(up'[s], Msg("REQ", j))
             /\ Msg("REQ", j) \in ToSet(up'[s]) => relaySub'[j] = "none"
             /\ Msg("CLOSED", j) \in ToSet(down'[s]) => ~WillHold(j)'
  <2>1. j \in SubId /\ m # Msg("CLOSED", j)
    BY DEF SubId, Msg
  <2>2. /\ Once(up[s], Msg("REQ", j))
        /\ Msg("REQ", j) \in ToSet(up[s]) => relaySub[j] = "none"
        /\ Msg("CLOSED", j) \in ToSet(down[s]) => ~WillHold(j)
    BY <1>5 DEF WireInv, AskedOnce
  <2>3. QED
    BY <1>2, <1>3, <1>4, <2>1, <2>2
<1>6. \A j \in SubId : Home(j) # s => relaySub'[j] = relaySub[j]
  BY <1>3 DEF s
<1>7. AskedOnce'
  BY <1>0, <1>2, <1>5, <1>6, AskedFrom
<1>8. \A j \in SubId : relaySub'[j] # "none" => j \in made
  BY <1>3 DEF WireInv, OnItsSocket
<1>9. QED
  BY <1>0, <1>1, <1>2, <1>4, <1>6, <1>7, <1>8, RelayWireFrom DEF SubId

LEMMA RelayWire ==
  ASSUME TypeOK, TypeOK', WireInv, RelayActs
  PROVE  WireInv'
<1>0. CallsAlone /\ UNCHANGED <<link, resub>>
  BY RelayLeavesCalls
<1>1. ASSUME NEW s \in Socket, RelayReq(s) \/ RelayClose(s) PROVE WireInv'
  BY <1>0, <1>1, ReqCloseWire
<1>2. ASSUME NEW s \in Socket, RelayRefuses(s) PROVE WireInv'
  BY <1>0, <1>2, RefusesWire
<1>3. ASSUME NEW s \in Socket, RelayCount(s) PROVE WireInv'
  <2>1. RelayTakes(s, "COUNT") /\ UNCHANGED relaySub /\ Reply(s, Msg("COUNT", Head(up[s]).id))
    BY <1>3 DEF RelayCount
  <2>2. Head(up[s]).id \in Count
    BY <2>1, RelayTakesType, RequestKinds
  <2>3. Msg("COUNT", Head(up[s]).id) \in Answer /\ Msg("COUNT", Head(up[s]).id).type = "COUNT"
    BY <2>2, AnswerTypes DEF Msg
  <2>4. QED
    BY <1>0, <2>1, <2>3, CountPublishWire
<1>4. ASSUME NEW s \in Socket, NEW v \in {"ok", "rate", "refused"}, RelayPublish(s, v) PROVE WireInv'
  <2> DEFINE m == [type |-> "OK", id |-> Head(up[s]).id, says |-> v]
  <2>1. RelayTakes(s, "EVENT") /\ UNCHANGED relaySub /\ Reply(s, m)
    BY <1>4 DEF RelayPublish
  <2>2. Head(up[s]).id \in Event
    BY <2>1, RelayTakesType, RequestKinds
  <2>3. m \in Answer /\ m.type = "OK"
    BY <2>2, AnswerTypes
  <2> HIDE DEF m
  <2>4. QED
    BY <1>0, <2>1, <2>3, CountPublishWire
<1>5. ASSUME NEW i \in SubId, RelayStored(i) \/ RelayEose(i) \/ RelayNews(i) PROVE WireInv'
  <2>0. relaySub \in [SubId -> {"none", "asked", "sent", "live"}]
    BY DEF TypeOK
  <2>1. CASE RelayStored(i)
    <3> DEFINE m == [type |-> "EVENT", id |-> i, says |-> "stored"]
    <3>1. m \in Answer /\ m.type = "EVENT" /\ m.id = i
      BY AnswerTypes
    <3>2. Reply(Home(i), m) /\ relaySub[i] # "none" /\ relaySub' = [relaySub EXCEPT ![i] = "sent"]
          /\ UNCHANGED up
      BY <2>1 DEF RelayStored
    <3> HIDE DEF m
    <3>3. QED
      BY <1>0, <3>1, <3>2, HoldingWire
  <2>2. CASE RelayEose(i)
    <3> DEFINE m == Msg("EOSE", i)
    <3>1. m \in Answer /\ m.type = "EOSE" /\ m.id = i
      BY AnswerTypes DEF Msg
    <3>2. Reply(Home(i), m) /\ relaySub[i] # "none" /\ relaySub' = [relaySub EXCEPT ![i] = "live"]
          /\ UNCHANGED up
      BY <2>2 DEF RelayEose
    <3> HIDE DEF m
    <3>3. QED
      BY <1>0, <3>1, <3>2, HoldingWire
  <2>3. CASE RelayNews(i)
    <3> DEFINE m == [type |-> "EVENT", id |-> i, says |-> "new"]
    <3>1. m \in Answer /\ m.type = "EVENT" /\ m.id = i
      BY AnswerTypes
    <3>2. Reply(Home(i), m) /\ relaySub[i] # "none" /\ UNCHANGED relaySub /\ UNCHANGED up
      BY <2>3 DEF RelayNews
    <3>3. relaySub' = [relaySub EXCEPT ![i] = relaySub[i]] /\ relaySub[i] \in {"asked", "sent", "live"}
      BY <2>0, <3>2
    <3>4. PICK st \in {"asked", "sent", "live"} : st = relaySub[i]
      BY <3>3
    <3>5. relaySub' = [relaySub EXCEPT ![i] = st]
      BY <3>3, <3>4
    <3> HIDE DEF m
    <3>6. QED
      BY <1>0, <3>1, <3>2, <3>5, HoldingWire
  <2>4. QED
    BY <1>5, <2>1, <2>2, <2>3
<1>6. QED
  BY <1>1, <1>2, <1>3, <1>4, <1>5 DEF RelayActs

LEMMA WireStep ==
  ASSUME TypeOK, TypeOK', CallInv, WireInv, [Next]_vars
  PROVE  WireInv'
<1>1. CASE CallSteps
  BY <1>1, AskWire, AskTimeoutWire, PublishWire, OkTimeoutWire DEF CallSteps
<1>2. CASE LiveSteps
  BY <1>2, LiveWire DEF LiveSteps
<1>3. CASE \E s \in Socket : Route(s)
  BY <1>3, RouteWire
<1>4. CASE LinkSteps
  BY <1>4, LinkWire
<1>5. CASE RelayActs
  BY <1>5, RelayWire
<1>6. CASE UNCHANGED vars
  <2>1. /\ UNCHANGED <<link, up, relaySub, down, liveSubs, resub, pending, made, sock>>
    BY <1>6 DEF vars, wire, callVars, liveVars
  <2>2. HomesStay
    BY <2>1 DEF HomesStay, Home
  <2>3. QED
    BY <2>1, <2>2, EventsWire
<1>7. QED
  BY <1>1, <1>2, <1>3, <1>4, <1>5, <1>6, StepCases

LEMMA InitWire == Init => WireInv
<1> SUFFICES ASSUME Init PROVE WireInv
  OBVIOUS
<1>1. /\ \A s \in Socket : up[s] = << >> /\ down[s] = << >>
      /\ \A i \in SubId : relaySub[i] = "none"
      /\ liveSubs = {}
  BY DEF Init
<1>2. TypeOK
  BY InitType
<1>3. \A i \in SubId : Home(i) \in Socket
  BY <1>2, HomeType
<1>4. \A i \in SubId : ~WillHold(i)
  BY <1>1, <1>3, HeldEmpty DEF WillHold
<1>5. Quiet
  BY <1>1 DEF Quiet
<1>6. OnItsSocket
  BY <1>1, EmptyElements DEF OnItsSocket
<1>7. AskedOnce
  <2> SUFFICES ASSUME NEW i \in Fetch
               PROVE  /\ Once(up[Home(i)], Msg("REQ", i))
                      /\ Msg("REQ", i) \in ToSet(up[Home(i)]) => relaySub[i] = "none"
                      /\ Msg("CLOSED", i) \in ToSet(down[Home(i)]) => ~WillHold(i)
    BY DEF AskedOnce
  <2>1. i \in SubId
    BY DEF SubId
  <2>2. up[Home(i)] = << >>
    BY <1>1, <1>3, <2>1
  <2>3. QED
    BY <1>1, <1>4, <2>1, <2>2, OnceEmpty
<1>8. SubscriptionsAgree
  BY <1>1, <1>4 DEF SubscriptionsAgree
<1>9. QED
  BY <1>5, <1>6, <1>7, <1>8 DEF WireInv

-----------------------------------------------------------------------------
(* The answers. *)
LEMMA BeforeEmpty == ASSUME NEW i PROVE EventBeforeEose(<< >>, i)
BY DEF EventBeforeEose

LEMMA BeforeHead ==
  ASSUME NEW S, NEW q \in Seq(S), q # << >>, NEW i, EventBeforeEose(q, i)
  PROVE  Head(q) # Msg("EOSE", i)
<1>1. 1 \in DOMAIN q /\ Head(q) = q[1]
  BY TailElements
<1>2. \A j \in 1 .. 1 - 1 : FALSE
  OBVIOUS
<1>3. QED
  BY <1>1, <1>2 DEF EventBeforeEose

LEMMA BeforeTail ==
  ASSUME NEW S, NEW q \in Seq(S), q # << >>, NEW i, EventBeforeEose(q, i), Head(q) # StoredOf(i)
  PROVE  EventBeforeEose(Tail(q), i)
<1> DEFINE t == Tail(q)
<1>1. /\ Head(q) = q[1] /\ Len(q) \in Nat \ {0} /\ DOMAIN q = 1 .. Len(q)
      /\ DOMAIN t = 1 .. Len(q) - 1
      /\ \A k \in 1 .. Len(q) - 1 : t[k] = q[k + 1]
  BY TailElements
<1> HIDE DEF t
<1>2. ASSUME NEW k \in DOMAIN t, t[k] = Msg("EOSE", i)
      PROVE  \E j \in 1 .. k - 1 : t[j] = StoredOf(i)
  <2>1. k \in Int /\ k + 1 \in DOMAIN q /\ q[k + 1] = Msg("EOSE", i)
    BY <1>1, <1>2
  <2>2. PICK j \in 1 .. (k + 1) - 1 : q[j] = StoredOf(i)
    BY <2>1 DEF EventBeforeEose
  <2>3. j # 1
    BY <1>1, <2>2
  <2>4. j - 1 \in 1 .. k - 1 /\ j - 1 \in 1 .. Len(q) - 1 /\ (j - 1) + 1 = j
    BY <1>1, <1>2, <2>1, <2>3
  <2>5. t[j - 1] = StoredOf(i)
    BY <1>1, <2>2, <2>4
  <2>6. QED
    BY <2>4, <2>5
<1>3. QED
  BY <1>2 DEF EventBeforeEose, t

LEMMA BeforeAppend ==
  ASSUME NEW S, NEW q \in Seq(S), NEW m \in S, NEW i, EventBeforeEose(q, i),
         m # Msg("EOSE", i) \/ StoredOf(i) \in ToSet(q)
  PROVE  EventBeforeEose(Append(q, m), i)
<1> DEFINE t == Append(q, m)
<1>1. /\ Len(q) \in Nat /\ DOMAIN q = 1 .. Len(q) /\ DOMAIN t = 1 .. Len(q) + 1
      /\ \A k \in 1 .. Len(q) : t[k] = q[k]
      /\ t[Len(q) + 1] = m
  BY AppendElements
<1> HIDE DEF t
<1>2. ASSUME NEW k \in DOMAIN t, t[k] = Msg("EOSE", i)
      PROVE  \E j \in 1 .. k - 1 : t[j] = StoredOf(i)
  <2>1. CASE k \in 1 .. Len(q)
    <3>1. PICK j \in 1 .. k - 1 : q[j] = StoredOf(i)
      BY <1>1, <1>2, <2>1 DEF EventBeforeEose
    <3>2. j \in 1 .. Len(q)
      BY <1>1, <2>1
    <3>3. QED
      BY <1>1, <3>1, <3>2
  <2>2. CASE k = Len(q) + 1
    <3>1. StoredOf(i) \in ToSet(q)
      BY <1>1, <1>2, <2>2
    <3>2. PICK j \in DOMAIN q : q[j] = StoredOf(i)
      BY <3>1 DEF ToSet
    <3>3. j \in 1 .. k - 1 /\ t[j] = StoredOf(i)
      BY <1>1, <2>2, <3>2
    <3>4. QED
      BY <3>3
  <2>3. QED
    BY <1>1, <2>1, <2>2
<1>3. QED
  BY <1>2 DEF EventBeforeEose, t

Comes(i) ==
  \/ "stored" \in got[i]
  \/ /\ EventBeforeEose(down[Home(i)], i)
     /\ relaySub[i] = "sent" => StoredOf(i) \in ToSet(down[Home(i)])

OksTrue == \A s \in Socket : \A m \in ToSet(down[s]) : m.type = "OK" /\ m.says = "ok" => m.id \in stored

AllTruthful == \A c \in Call : outcome[c] = "answered" => Truthful(c)

LEMMA AnswerParts ==
  /\ AnswerInv <=> (\A i \in Fetch \cap pending : Comes(i)) /\ OksTrue /\ AllTruthful
  /\ AnswerInv' <=> (\A i \in Fetch \cap pending' : Comes(i)') /\ OksTrue' /\ AllTruthful'
BY DEF AnswerInv, AnswerComes, Comes, OksTrue, AllTruthful

(* Nothing collected or stored is forgotten. *)
AnswersGrow == (\A i \in Fetch : got[i] \subseteq got'[i]) /\ stored \subseteq stored'

LEMMA TruthfulFrom ==
  ASSUME AnswerInv, AnswersGrow,
         \A c \in Call : outcome'[c] = "answered" /\ outcome[c] # "answered" => Truthful(c)'
  PROVE  AllTruthful'
<1>1. \A c \in Call : Truthful(c) => Truthful(c)'
  BY DEF Truthful, AnswersGrow
<1>2. QED
  BY <1>1 DEF AllTruthful, AnswerInv

LEMMA OksFrom ==
  ASSUME AnswerInv, stored \subseteq stored',
         \A s \in Socket : \A m \in ToSet(down'[s]) \ ToSet(down[s]) :
           m.type = "OK" /\ m.says = "ok" => m.id \in stored'
  PROVE  OksTrue'
BY DEF AnswerInv, OksTrue

(* The queue of a pending fetch is as it was, or empty, or has lost another *)
(* message, or got one that does not end its stored answer.                 *)
LEMMA ComesFrom ==
  ASSUME TypeOK, AnswerInv, NEW i \in Fetch \cap pending,
         Home(i)' = Home(i), got[i] \subseteq got'[i],
         relaySub'[i] = "sent" => relaySub[i] = "sent",
         \/ down'[Home(i)] = down[Home(i)]
         \/ down'[Home(i)] = << >> /\ relaySub'[i] = "none"
         \/ /\ down[Home(i)] # << >> /\ down'[Home(i)] = Tail(down[Home(i)])
            /\ Head(down[Home(i)]) = StoredOf(i) => "stored" \in got'[i]
         \/ \E m \in Answer : m # Msg("EOSE", i) /\ down'[Home(i)] = Append(down[Home(i)], m)
  PROVE  Comes(i)'
<1> DEFINE q == down[Home(i)]
<1>1. Comes(i)' <=> \/ "stored" \in got'[i]
                    \/ /\ EventBeforeEose(down'[Home(i)], i)
                       /\ relaySub'[i] = "sent" => StoredOf(i) \in ToSet(down'[Home(i)])
  BY DEF Comes
<1>2. Comes(i)
  BY AnswerParts
<1>3. CASE "stored" \in got'[i]
  BY <1>1, <1>3
<1>4. CASE "stored" \notin got'[i]
  <2>1. /\ EventBeforeEose(q, i) /\ (relaySub[i] = "sent" => StoredOf(i) \in ToSet(q))
    BY <1>2, <1>4 DEF Comes
  <2>2. q \in Seq(Answer) /\ i \in SubId
    BY HomeType DEF TypeOK, SubId
  <2>3. CASE down'[Home(i)] = q
    BY <1>1, <2>1, <2>3
  <2>4. CASE down'[Home(i)] = << >> /\ relaySub'[i] = "none"
    BY <1>1, <2>4, BeforeEmpty
  <2>5. CASE q # << >> /\ down'[Home(i)] = Tail(q) /\ Head(q) # StoredOf(i)
    <3>1. EventBeforeEose(Tail(q), i)
      BY <2>1, <2>2, <2>5, BeforeTail
    <3>2. StoredOf(i) \in ToSet(q) => StoredOf(i) \in ToSet(Tail(q))
      <4> SUFFICES ASSUME StoredOf(i) \in ToSet(q) PROVE StoredOf(i) \in ToSet(Tail(q))
        OBVIOUS
      <4>1. PICK k \in DOMAIN q : q[k] = StoredOf(i)
        BY DEF ToSet
      <4> DEFINE t == Tail(q)
      <4>2. /\ DOMAIN q = 1 .. Len(q) /\ Len(q) \in Nat /\ Head(q) = q[1]
            /\ DOMAIN t = 1 .. Len(q) - 1 /\ \A n \in 1 .. Len(q) - 1 : t[n] = q[n + 1]
        BY <2>2, <2>5, TailElements
      <4> HIDE DEF t, q
      <4>3. k # 1 /\ k - 1 \in 1 .. Len(q) - 1 /\ (k - 1) + 1 = k
        <5>1. k # 1
          BY <2>5, <4>1, <4>2, Zenon
        <5>2. Len(q) \in Nat /\ k \in 1 .. Len(q)
          BY <4>2
        <5>3. QED
          BY <5>1, <5>2
      <4>4. t[k - 1] = StoredOf(i) /\ k - 1 \in DOMAIN t
        BY <4>1, <4>2, <4>3
      <4>5. StoredOf(i) \in ToSet(t)
        BY <4>4 DEF ToSet
      <4>6. QED
        BY <4>5 DEF t
    <3>3. QED
      BY <1>1, <2>1, <2>5, <3>1, <3>2
  <2>6. ASSUME NEW m \in Answer, m # Msg("EOSE", i), down'[Home(i)] = Append(q, m)
        PROVE  Comes(i)'
    <3>1. EventBeforeEose(Append(q, m), i)
      BY <2>1, <2>2, <2>6, BeforeAppend
    <3>2. ToSet(q) \subseteq ToSet(Append(q, m))
      BY <2>2, AppendElements
    <3>3. QED
      BY <1>1, <2>1, <2>6, <3>1, <3>2
  <2>7. QED
    BY <1>4, <2>3, <2>4, <2>5, <2>6
<1>5. QED
  BY <1>3, <1>4

(* A step that settles nothing with an answer and hears nothing. *)
LEMMA NothingAnswered ==
  ASSUME TypeOK, AnswerInv, UNCHANGED <<got, down, relaySub, stored>>,
         \A i \in Fetch \cap pending' : i \in pending /\ Home(i)' = Home(i),
         \A c \in Call : outcome'[c] = "answered" => outcome[c] = "answered"
  PROVE  AnswerInv'
<1>1. \A i \in Fetch \cap pending' : Comes(i)'
  <2> TAKE i \in Fetch \cap pending'
  <2>1. i \in Fetch \cap pending /\ Home(i)' = Home(i)
    OBVIOUS
  <2>2. QED
    BY <2>1, ComesFrom
<1>2. OksTrue'
  BY OksFrom
<1>3. AllTruthful'
  BY TruthfulFrom DEF AnswersGrow
<1>4. QED
  BY <1>1, <1>2, <1>3, AnswerParts

LEMMA CallAnswers ==
  ASSUME TypeOK, CallInv, WireInv, AnswerInv, CallSteps
  PROVE  AnswerInv'
<1>1. ASSUME NEW c \in Fetch \cup Count, Ask(c) PROVE AnswerInv'
  <2>1. /\ UNCHANGED <<got, down, relaySub, stored>> /\ c \notin made
        /\ c \notin LiveSub /\ c \in Call /\ sock \in [Call -> Socket]
    BY <1>1, Apart DEF Ask, MayCall, Call, TypeOK
  <2>2. \A o \in Call : outcome'[o] = "answered" => outcome[o] = "answered"
    <3>1. CASE Pick = {}
      <4>1. Settle({c}, "failed")
        BY <1>1, <3>1 DEF Ask
      <4>2. QED
        BY <4>1, Settled
    <3>2. CASE Pick # {}
      BY <1>1, <3>2 DEF Ask
    <3>3. QED
      BY <3>1, <3>2
  <2>3. /\ pending' \subseteq pending \cup {c}
        /\ \A i \in Call \ {c} : sock'[i] = sock[i]
    <3>1. CASE Pick = {}
      BY <1>1, <3>1 DEF Ask
    <3>2. CASE Pick # {}
      <4>1. PICK s \in Pick : pending' = pending \cup {c} /\ sock' = [sock EXCEPT ![c] = s]
        BY <1>1, <3>2 DEF Ask
      <4>2. QED
        BY <2>1, <4>1
    <3>3. QED
      BY <3>1, <3>2
  <2>4. \A i \in Fetch \ {c} : Home(i)' = Home(i)
    BY <2>3 DEF Home, Call
  <2>5. ASSUME NEW i \in Fetch \cap pending' PROVE Comes(i)'
    <3>1. CASE i # c
      <4>1. i \in Fetch \cap pending /\ Home(i)' = Home(i)
        BY <2>3, <2>4, <3>1
      <4>2. QED
        BY <2>1, <4>1, ComesFrom
    <3>2. CASE i = c
      <4>1. i \in SubId /\ relaySub'[i] = "none"
        BY <2>1, <3>2 DEF SubId, WireInv, OnItsSocket
      <4>2. Home(i)' \in Socket
        <5>1. CASE Pick = {}
          <6>1. UNCHANGED sock
            BY <1>1, <5>1 DEF Ask
          <6>2. QED
            BY <2>1, <3>2, <6>1 DEF Home, Socket
        <5>2. CASE Pick # {}
          <6>1. PICK s \in Pick : sock' = [sock EXCEPT ![c] = s]
            BY <1>1, <5>2 DEF Ask
          <6>2. QED
            BY <2>1, <3>2, <6>1 DEF Home, Pick, Socket
        <5>3. QED
          BY <5>1, <5>2
      <4>3. \A s \in Socket : Msg("EOSE", i) \notin ToSet(down[s])
        <5>1. Msg("EOSE", i).type = "EOSE" /\ Msg("EOSE", i).id = i
          BY DEF Msg
        <5>2. QED
          BY <2>1, <3>2, <5>1 DEF WireInv, OnItsSocket
      <4>4. EventBeforeEose(down'[Home(i)'], i)
        BY <2>1, <4>2, <4>3 DEF EventBeforeEose, ToSet
      <4>5. QED
        BY <4>1, <4>4 DEF Comes
    <3>3. QED
      BY <3>1, <3>2
  <2>6. OksTrue'
    BY <2>1, OksFrom
  <2>7. AllTruthful'
    BY <2>1, <2>2, TruthfulFrom DEF AnswersGrow
  <2>8. QED
    BY <2>5, <2>6, <2>7, AnswerParts
<1>2. ASSUME NEW c \in Fetch \cup Count, AskTimeout(c) PROVE AnswerInv'
  <2>1. /\ UNCHANGED <<got, down, relaySub, stored, sock>> /\ pending' = pending \ {c}
        /\ Settle({c}, "failed")
    BY <1>2 DEF AskTimeout
  <2>2. \A o \in Call : outcome'[o] = "answered" => outcome[o] = "answered"
    BY <2>1, Settled
  <2>3. \A i \in Fetch \cap pending' : i \in pending /\ Home(i)' = Home(i)
    BY <2>1 DEF Home
  <2>4. QED
    BY <2>1, <2>2, <2>3, NothingAnswered
<1>3. ASSUME NEW p \in Publish, PublishEvent(p) PROVE AnswerInv'
  <2>1. UNCHANGED <<got, down, relaySub, stored, pending>> /\ p \notin Fetch /\ p \in Call
        /\ sock \in [Call -> Socket]
    BY <1>3, Apart DEF PublishEvent, Call, TypeOK
  <2>2. /\ \A o \in Call : outcome'[o] = "answered" => outcome[o] = "answered"
        /\ \A i \in Call \ {p} : sock'[i] = sock[i]
    <3>1. CASE Pick = {}
      <4>1. Settle({p}, "failed") /\ UNCHANGED sock
        BY <1>3, <3>1 DEF PublishEvent
      <4>2. QED
        BY <4>1, Settled
    <3>2. CASE Pick # {}
      <4>1. PICK s \in Pick : sock' = [sock EXCEPT ![p] = s] /\ UNCHANGED outcome
        BY <1>3, <3>2 DEF PublishEvent
      <4>2. QED
        BY <2>1, <4>1
    <3>3. QED
      BY <3>1, <3>2
  <2>3. \A i \in Fetch \cap pending' : i \in pending /\ Home(i)' = Home(i)
    BY <2>1, <2>2 DEF Home, Call
  <2>4. QED
    BY <2>1, <2>2, <2>3, NothingAnswered
<1>4. ASSUME NEW p \in Publish, Retry(p) PROVE AnswerInv'
  <2>1. UNCHANGED <<got, down, relaySub, stored, pending, sock>>
        /\ (UNCHANGED outcome \/ Settle({p}, "failed"))
    BY <1>4 DEF Retry
  <2>2. \A o \in Call : outcome'[o] = "answered" => outcome[o] = "answered"
    BY <2>1, Settled
  <2>3. \A i \in Fetch \cap pending' : i \in pending /\ Home(i)' = Home(i)
    BY <2>1 DEF Home
  <2>4. QED
    BY <2>1, <2>2, <2>3, NothingAnswered
<1>5. ASSUME NEW s \in Socket, NEW w \in Waiter, OkTimeout(s, w) PROVE AnswerInv'
  <2>1. UNCHANGED <<got, down, relaySub, stored, pending, sock>> /\ Settle({w[1]}, "failed")
    BY <1>5 DEF OkTimeout, wire
  <2>2. \A o \in Call : outcome'[o] = "answered" => outcome[o] = "answered"
    BY <2>1, Settled
  <2>3. \A i \in Fetch \cap pending' : i \in pending /\ Home(i)' = Home(i)
    BY <2>1 DEF Home
  <2>4. QED
    BY <2>1, <2>2, <2>3, NothingAnswered
<1>6. QED
  BY <1>1, <1>2, <1>3, <1>4, <1>5 DEF CallSteps

LEMMA LiveAnswers ==
  ASSUME TypeOK, AnswerInv, LiveSteps
  PROVE  AnswerInv'
<1>1. UNCHANGED <<got, down, relaySub, stored, pending, sock, outcome>>
  BY DEF LiveSteps, SubscribeLive, UnsubscribeLive, Resubscribe, callVars
<1>2. \A i \in Fetch \cap pending' : i \in pending /\ Home(i)' = Home(i)
  BY <1>1 DEF Home
<1>3. QED
  BY <1>1, <1>2, NothingAnswered

LEMMA LinkAnswers ==
  ASSUME TypeOK, AnswerInv, LinkSteps
  PROVE  AnswerInv'
<1>1. ASSUME NEW s \in Socket, Opened(s) \/ Reconnect(s) PROVE AnswerInv'
  <2>1. UNCHANGED <<got, down, relaySub, stored, pending, sock, outcome>>
    BY <1>1 DEF Opened, Reconnect, callVars, wire
  <2>2. \A i \in Fetch \cap pending' : i \in pending /\ Home(i)' = Home(i)
    BY <2>1 DEF Home
  <2>3. QED
    BY <2>1, <2>2, NothingAnswered
<1>2. ASSUME NEW S \in SUBSET Socket, FailAllPending(S),
             \A t \in S : down'[t] = << >>, \A t \in Socket \ S : down'[t] = down[t],
             \A i \in SubId : relaySub'[i] = IF Home(i) \in S THEN "none" ELSE relaySub[i],
             UNCHANGED <<got, stored, sock>>
      PROVE  AnswerInv'
  <2>1. /\ pending' \subseteq pending
        /\ \A o \in Call : outcome'[o] = "answered" => outcome[o] = "answered"
    <3>1. Settle({c \in pending : sock[c] \in S} \cup UNION {WaitingOn(s) : s \in S}, "failed")
      BY <1>2 DEF FailAllPending
    <3>2. QED
      BY <1>2, <3>1, Settled DEF FailAllPending
  <2>2. ASSUME NEW i \in Fetch \cap pending' PROVE Comes(i)'
    <3>1. i \in Fetch \cap pending /\ Home(i)' = Home(i) /\ Home(i) \in Socket /\ i \in SubId
      BY <1>2, <2>1, HomeType DEF Home, SubId
    <3>2. CASE Home(i) \in S
      BY <1>2, <3>1, <3>2, ComesFrom
    <3>3. CASE Home(i) \notin S
      BY <1>2, <3>1, <3>3, ComesFrom
    <3>4. QED
      BY <3>2, <3>3
  <2>3. OksTrue'
    <3>1. \A t \in Socket : ToSet(down'[t]) \subseteq ToSet(down[t])
      BY <1>2, EmptyElements
    <3>2. QED
      BY <1>2, <3>1, OksFrom
  <2>4. AllTruthful'
    BY <1>2, <2>1, TruthfulFrom DEF AnswersGrow
  <2>5. QED
    BY <2>2, <2>3, <2>4, AnswerParts
<1>3. ASSUME NEW s \in Socket, Lost(s) PROVE AnswerInv'
  <2>1. /\ \A t \in {s} : down'[t] = << >>
        /\ \A t \in Socket \ {s} : down'[t] = down[t]
        /\ \A i \in SubId : relaySub'[i] = IF Home(i) \in {s} THEN "none" ELSE relaySub[i]
        /\ FailAllPending({s}) /\ UNCHANGED <<got, stored, sock>>
    BY <1>3 DEF Lost, Cut, TypeOK, Home
  <2>2. \A t \in {s} : down'[t] = << >>
    BY <2>1
  <2>3. \A t \in Socket \ {s} : down'[t] = down[t]
    BY <2>1
  <2>4. QED
    BY <1>2, <2>1, <2>2, <2>3
<1>4. ASSUME Close PROVE AnswerInv'
  <2>1. /\ \A t \in Socket : down'[t] = << >>
        /\ \A i \in SubId : relaySub'[i] = IF Home(i) \in Socket THEN "none" ELSE relaySub[i]
        /\ FailAllPending(Socket) /\ UNCHANGED <<got, stored, sock>>
    BY <1>4, HomeType DEF Close
  <2>2. QED
    BY <1>2, <2>1
<1>5. QED
  BY <1>1, <1>3, <1>4 DEF LinkSteps

(* What the relay answers, and the order of it. *)
LEMMA RelayAnswers ==
  ASSUME TypeOK, WireInv, AnswerInv, RelayActs
  PROVE  AnswerInv'
<1>0. /\ UNCHANGED <<got, pending, sock, outcome>>
      /\ \A i \in Fetch \cap pending' : i \in Fetch \cap pending /\ Home(i)' = Home(i)
                                        /\ got[i] \subseteq got'[i] /\ i \in SubId
  BY RelayLeavesCalls DEF CallsAlone, Home, SubId
<1>1. ASSUME stored \subseteq stored', OksTrue', \A i \in Fetch \cap pending' : Comes(i)'
      PROVE  AnswerInv'
  <2>1. AllTruthful'
    BY <1>0, <1>1, TruthfulFrom DEF AnswersGrow
  <2>2. QED
    BY <1>1, <2>1, AnswerParts
<1>2. ASSUME NEW s \in Socket, NEW m \in Answer, Reply(s, m), UNCHANGED relaySub,
             m.type \in {"CLOSED", "COUNT", "OK"} \/ (m.type = "EVENT"),
             stored \subseteq stored', m.type = "OK" /\ m.says = "ok" => m.id \in stored'
      PROVE  AnswerInv'
  <2>1. /\ \A t \in Socket \ {s} : down'[t] = down[t]
        /\ ToSet(down'[s]) = ToSet(down[s]) \cup {m}
    BY <1>2, RepliesWire
  <2>2. OksTrue'
    BY <1>2, <2>1, OksFrom
  <2>3. ASSUME NEW i \in Fetch \cap pending' PROVE Comes(i)'
    <3>1. i \in SubId /\ Home(i) \in Socket /\ m # Msg("EOSE", i)
      BY <1>0, <1>2, HomeType DEF Msg
    <3>2. down'[Home(i)] = down[Home(i)] \/ down'[Home(i)] = Append(down[Home(i)], m)
      <4>1. down'[s] = Append(down[s], m)
        BY <1>2 DEF Reply, TypeOK
      <4>2. QED
        BY <2>1, <3>1, <4>1
    <3>3. QED
      BY <1>0, <1>2, <3>1, <3>2, ComesFrom
  <2>4. QED
    BY <1>1, <1>2, <2>2, <2>3
<1>3. ASSUME NEW s \in Socket, RelayReq(s) \/ RelayClose(s) PROVE AnswerInv'
  <2>1. /\ UNCHANGED <<down, stored>>
        /\ \A i \in SubId : relaySub'[i] = "sent" => relaySub[i] = "sent"
    BY <1>3 DEF RelayReq, RelayClose, TypeOK
  <2>2. OksTrue'
    BY <2>1, OksFrom
  <2>3. \A i \in Fetch \cap pending' : Comes(i)'
    <3> TAKE i \in Fetch \cap pending'
    <3>1. QED
      BY <1>0, <2>1, ComesFrom
  <2>4. QED
    BY <1>1, <2>1, <2>2, <2>3
<1>4. ASSUME NEW s \in Socket, RelayRefuses(s) PROVE AnswerInv'
  <2> DEFINE m == Msg("CLOSED", Head(up[s]).id)
  <2>1. Head(up[s]).id \in SubId
    BY <1>4, RelayTakesType, RequestKinds DEF RelayRefuses
  <2>2. m \in Answer /\ m.type = "CLOSED"
    BY <2>1, AnswerTypes DEF Msg
  <2>3. Reply(s, m) /\ UNCHANGED <<relaySub, stored>>
    BY <1>4 DEF RelayRefuses
  <2> HIDE DEF m
  <2>4. QED
    BY <1>2, <2>2, <2>3
<1>5. ASSUME NEW s \in Socket, RelayCount(s) PROVE AnswerInv'
  <2> DEFINE m == Msg("COUNT", Head(up[s]).id)
  <2>1. Head(up[s]).id \in Count
    BY <1>5, RelayTakesType, RequestKinds DEF RelayCount
  <2>2. m \in Answer /\ m.type = "COUNT"
    BY <2>1, AnswerTypes DEF Msg
  <2>3. Reply(s, m) /\ UNCHANGED <<relaySub, stored>>
    BY <1>5 DEF RelayCount
  <2> HIDE DEF m
  <2>4. QED
    BY <1>2, <2>2, <2>3
<1>6. ASSUME NEW s \in Socket, NEW v \in {"ok", "rate", "refused"}, RelayPublish(s, v) PROVE AnswerInv'
  <2> DEFINE m == [type |-> "OK", id |-> Head(up[s]).id, says |-> v]
  <2>1. Head(up[s]).id \in Event
    BY <1>6, RelayTakesType, RequestKinds DEF RelayPublish
  <2>2. m \in Answer /\ m.type = "OK" /\ m.says = v /\ m.id = Head(up[s]).id
    BY <2>1, AnswerTypes
  <2>3. /\ Reply(s, m) /\ UNCHANGED relaySub
        /\ stored' = IF v = "ok" THEN stored \cup {Head(up[s]).id} ELSE stored
    BY <1>6 DEF RelayPublish
  <2> HIDE DEF m
  <2>4. QED
    BY <1>2, <2>2, <2>3
<1>7. ASSUME NEW j \in SubId, RelayNews(j) PROVE AnswerInv'
  <2> DEFINE m == [type |-> "EVENT", id |-> j, says |-> "new"]
  <2>1. m \in Answer /\ m.type = "EVENT" /\ Home(j) \in Socket
    BY AnswerTypes, HomeType
  <2>2. Reply(Home(j), m) /\ UNCHANGED <<relaySub, stored>>
    BY <1>7 DEF RelayNews
  <2> HIDE DEF m
  <2>3. QED
    BY <1>2, <2>1, <2>2
<1>8. ASSUME NEW j \in SubId, RelayStored(j) \/ RelayEose(j) PROVE AnswerInv'
  <2> DEFINE s == Home(j)
  <2>0. s \in Socket /\ relaySub \in [SubId -> {"none", "asked", "sent", "live"}]
        /\ down \in [Socket -> Seq(Answer)]
    BY HomeType DEF TypeOK
  <2>1. PICK m \in Answer :
          /\ Reply(s, m) /\ UNCHANGED stored /\ m.type \in {"EVENT", "EOSE"}
          /\ \/ /\ m = StoredOf(j) /\ relaySub' = [relaySub EXCEPT ![j] = "sent"]
             \/ /\ m = Msg("EOSE", j) /\ relaySub[j] = "sent"
                /\ relaySub' = [relaySub EXCEPT ![j] = "live"]
    <3>1. CASE RelayStored(j)
      <4>1. StoredOf(j) \in Answer /\ StoredOf(j).type = "EVENT"
        BY AnswerTypes DEF StoredOf
      <4>2. /\ Reply(s, StoredOf(j)) /\ UNCHANGED stored
            /\ relaySub' = [relaySub EXCEPT ![j] = "sent"]
        BY <3>1 DEF RelayStored, StoredOf
      <4>3. QED
        BY <4>1, <4>2
    <3>2. CASE RelayEose(j)
      <4>1. Msg("EOSE", j) \in Answer /\ Msg("EOSE", j).type = "EOSE"
        BY AnswerTypes DEF Msg
      <4>2. /\ Reply(s, Msg("EOSE", j)) /\ UNCHANGED stored /\ relaySub[j] = "sent"
            /\ relaySub' = [relaySub EXCEPT ![j] = "live"]
        BY <3>2 DEF RelayEose
      <4>3. QED
        BY <4>1, <4>2
    <3>3. QED
      BY <1>8, <3>1, <3>2
  <2>2. /\ \A t \in Socket \ {s} : down'[t] = down[t]
        /\ ToSet(down'[s]) = ToSet(down[s]) \cup {m}
        /\ down'[s] = Append(down[s], m)
    BY <2>0, <2>1, RepliesWire DEF Reply
  <2>3. OksTrue'
    BY <2>1, <2>2, OksFrom
  <2>4. ASSUME NEW i \in Fetch \cap pending' PROVE Comes(i)'
    <3>1. i \in SubId /\ Home(i) \in Socket /\ i \in Fetch \cap pending /\ Home(i)' = Home(i)
      BY <1>0, HomeType
    <3>2. CASE i # j
      <4>1. relaySub'[i] = relaySub[i] /\ m # Msg("EOSE", i)
        BY <2>0, <2>1, <3>1, <3>2 DEF StoredOf, Msg
      <4>2. down'[Home(i)] = down[Home(i)] \/ down'[Home(i)] = Append(down[Home(i)], m)
        BY <2>2, <3>1
      <4>3. QED
        BY <1>0, <3>1, <4>1, <4>2, ComesFrom
    <3>3. CASE i = j
      <4>1. Comes(i) /\ down[s] \in Seq(Answer)
        BY <2>0, <3>1, AnswerParts
      <4>2. CASE "stored" \in got[i]
        BY <1>0, <4>2 DEF Comes
      <4>3. CASE "stored" \notin got[i]
        <5>1. /\ EventBeforeEose(down[s], i)
              /\ relaySub[i] = "sent" => StoredOf(i) \in ToSet(down[s])
          BY <3>3, <4>1, <4>3 DEF Comes
        <5>2. m # Msg("EOSE", i) \/ StoredOf(i) \in ToSet(down[s])
          BY <2>1, <3>3, <5>1 DEF StoredOf, Msg
        <5>3. EventBeforeEose(down'[s], i)
          BY <2>2, <4>1, <5>1, <5>2, BeforeAppend
        <5>4. relaySub'[i] = "sent" => StoredOf(i) \in ToSet(down'[s])
          BY <2>0, <2>1, <2>2, <3>3
        <5>5. QED
          BY <3>1, <3>3, <5>3, <5>4 DEF Comes
      <4>4. QED
        BY <4>2, <4>3
    <3>4. QED
      BY <3>2, <3>3
  <2>5. QED
    BY <1>1, <2>1, <2>3, <2>4
<1>9. QED
  BY <1>3, <1>4, <1>5, <1>6, <1>7, <1>8 DEF RelayActs

(* What the client makes of an answer. *)
LEMMA HearsFrom ==
  ASSUME TypeOK, AnswerInv, NEW s \in Socket, NEW type, Receives(s, type),
         UNCHANGED <<relaySub, stored, sock>>, pending' \subseteq pending,
         \A i \in Fetch : got[i] \subseteq got'[i],
         \A i \in Fetch \cap pending : Home(i) = s /\ Head(down[s]) = StoredOf(i)
                                         => "stored" \in got'[i],
         \A c \in Call : outcome'[c] = "answered" /\ outcome[c] # "answered" => Truthful(c)'
  PROVE  AnswerInv'
<1>1. /\ down[s] # << >> /\ down'[s] = Tail(down[s])
      /\ \A t \in Socket \ {s} : down'[t] = down[t]
  BY DEF Receives, TypeOK
<1>2. \A t \in Socket : ToSet(down'[t]) \subseteq ToSet(down[t])
  BY ReceivesWire DEF DownShrinks
<1>3. ASSUME NEW i \in Fetch \cap pending' PROVE Comes(i)'
  <2>1. i \in Fetch \cap pending /\ i \in SubId /\ Home(i)' = Home(i) /\ Home(i) \in Socket
    BY HomeType DEF SubId, Home
  <2>2. \/ down'[Home(i)] = down[Home(i)]
        \/ /\ down[Home(i)] # << >> /\ down'[Home(i)] = Tail(down[Home(i)])
           /\ Head(down[Home(i)]) = StoredOf(i) => "stored" \in got'[i]
    BY <1>1, <2>1
  <2>3. QED
    BY <2>1, <2>2, ComesFrom
<1>4. OksTrue'
  BY <1>2, OksFrom
<1>5. AllTruthful'
  BY TruthfulFrom DEF AnswersGrow
<1>6. QED
  BY <1>3, <1>4, <1>5, AnswerParts

LEMMA RouteAnswers ==
  ASSUME TypeOK, WaitInv, WireInv, AnswerInv, NEW s \in Socket, Route(s)
  PROVE  AnswerInv'
<1> DEFINE m == Head(down[s])
           i == m.id
<1>0. pending \subseteq Fetch \cup Count /\ got \in [Fetch -> SUBSET {"stored", "new"}]
  BY DEF TypeOK
<1>1. CASE RouteEvent(s)
  <2>1. Receives(s, "EVENT") /\ UNCHANGED <<relaySub, stored, sock, pending, outcome>>
    BY <1>1 DEF RouteEvent
  <2>2. m \in Answer /\ m.type = "EVENT"
    BY <2>1, ReceivesType
  <2>3. i \in SubId /\ m.says \in {"stored", "new"}
    BY <2>2, AnswerKinds
  <2>4. got' = IF i \in pending THEN [got EXCEPT ![i] = @ \cup {m.says}] ELSE got
    BY <1>1 DEF RouteEvent
  <2>5. \A j \in Fetch \cap pending : m = StoredOf(j) => i = j /\ m.says = "stored"
    BY DEF StoredOf
  <2> HIDE DEF i, m
  <2>6. \A j \in Fetch : got[j] \subseteq got'[j]
    BY <1>0, <2>4
  <2>7. \A j \in Fetch \cap pending : m = StoredOf(j) => "stored" \in got'[j]
    BY <1>0, <2>4, <2>5
  <2>8. QED
    BY <2>1, <2>6, <2>7, HearsFrom DEF m
<1>2. ASSUME NEW type \in {"EOSE", "CLOSED", "COUNT", "OK"}, Receives(s, type),
             UNCHANGED <<relaySub, stored, sock, got>>, pending' \subseteq pending,
             \A c \in Call : outcome'[c] = "answered" /\ outcome[c] # "answered" => Truthful(c)
      PROVE  AnswerInv'
  <2>1. \A j \in Fetch \cap pending : m # StoredOf(j)
    BY <1>2, ReceivesType DEF StoredOf
  <2>2. \A c \in Call : Truthful(c) => Truthful(c)'
    BY <1>2 DEF Truthful
  <2>3. QED
    BY <1>2, <2>1, <2>2, HearsFrom
<1>3. CASE RouteEose(s)
  <2>1. /\ Receives(s, "EOSE") /\ UNCHANGED <<relaySub, stored, sock, got>>
        /\ IF i \in pending THEN pending' = pending \ {i} /\ Settle({i}, "answered")
           ELSE UNCHANGED <<pending, outcome>>
    BY <1>3 DEF RouteEose
  <2>2. m \in Answer /\ m.type = "EOSE" /\ m \in ToSet(down[s])
    BY <2>1, ReceivesType, ReceivesWire
  <2>3. i \in SubId /\ m = Msg("EOSE", i) /\ Home(i) = s
    BY <2>2, AnswerKinds DEF WireInv, OnItsSocket
  <2>4. ASSUME i \in pending PROVE Truthful(i)
    <3>1. i \in Fetch /\ i \notin Publish
      BY <1>0, <2>3, <2>4, Apart DEF SubId
    <3>2. Comes(i)
      BY <2>4, <3>1, AnswerParts
    <3>3. ~EventBeforeEose(down[s], i)
      <4>1. down[s] \in Seq(Answer) /\ down[s] # << >>
        BY <2>1 DEF TypeOK, Receives
      <4>2. QED
        BY <2>3, <4>1, BeforeHead
    <3>4. QED
      BY <2>3, <3>1, <3>2, <3>3 DEF Comes, Truthful
  <2> HIDE DEF i
  <2>5. pending' \subseteq pending
    BY <2>1
  <2>6. \A c \in Call : outcome'[c] = "answered" /\ outcome[c] # "answered" => Truthful(c)
    <3>1. CASE i \in pending
      <4>1. \A c \in Call : outcome'[c] = IF c \in {i} /\ outcome[c] = "none" THEN "answered"
                                          ELSE outcome[c]
        BY <2>1, <3>1, Settled
      <4>2. QED
        BY <2>4, <3>1, <4>1
    <3>2. CASE i \notin pending
      BY <2>1, <3>2
    <3>3. QED
      BY <3>1, <3>2
  <2>7. QED
    BY <1>2, <2>1, <2>5, <2>6
<1>4. CASE RouteClosed(s)
  <2>1. /\ Receives(s, "CLOSED") /\ UNCHANGED <<relaySub, stored, sock, got>>
        /\ pending' = pending \ {i}
        /\ Settle({i}, "failed") \/ UNCHANGED outcome
    BY <1>4 DEF RouteClosed
  <2> HIDE DEF i
  <2>2. \A c \in Call : outcome'[c] = "answered" => outcome[c] = "answered"
    BY <2>1, Settled
  <2>3. QED
    BY <1>2, <2>1, <2>2
<1>5. CASE RouteCount(s)
  <2>1. /\ Receives(s, "COUNT") /\ UNCHANGED <<relaySub, stored, sock, got>>
        /\ pending' = pending \ {i}
        /\ Settle({i}, "answered") \/ UNCHANGED outcome
    BY <1>5 DEF RouteCount
  <2>2. m \in Answer /\ m.type = "COUNT"
    BY <2>1, ReceivesType
  <2>3. i \in Count
    BY <2>2, AnswerKinds
  <2> HIDE DEF i
  <2>4. Truthful(i)
    BY <2>3, Apart DEF Truthful
  <2>5. \A c \in Call : outcome'[c] = "answered" /\ outcome[c] # "answered" => Truthful(c)
    <3>1. CASE Settle({i}, "answered")
      <4>1. \A c \in Call : outcome'[c] = IF c \in {i} /\ outcome[c] = "none" THEN "answered"
                                          ELSE outcome[c]
        BY <3>1, Settled
      <4>2. QED
        BY <2>4, <4>1
    <3>2. QED
      BY <2>1, <3>1
  <2>6. QED
    BY <1>2, <2>1, <2>5
<1>6. CASE RouteOk(s)
  <2> DEFINE q == waiters[s][i]
             p == Head(q)[1]
  <2>1. /\ Receives(s, "OK") /\ UNCHANGED <<relaySub, stored, sock, got, pending>>
    BY <1>6 DEF RouteOk
  <2>2. m \in Answer /\ m.type = "OK" /\ m \in ToSet(down[s])
    BY <2>1, ReceivesType, ReceivesWire
  <2>3. i \in Event /\ (m.says = "ok" => i \in stored)
    BY <2>2, AnswerKinds, AnswerParts DEF OksTrue
  <2>4. \/ UNCHANGED outcome
        \/ q # << >> /\ Settle({p}, IF m.says = "ok" THEN "answered" ELSE "failed")
    BY <1>6 DEF RouteOk
  <2>5. ASSUME q # << >> PROVE p \in Publish /\ EventOf[p] = i
    <3>1. q \in Seq(Waiter)
      BY <2>3 DEF TypeOK
    <3>2. Head(q) = q[1] /\ 1 \in DOMAIN q
      BY <2>5, <3>1, TailElements
    <3>3. q[1][1] \in Publish /\ WaiterHolds(s, i, q[1])
      BY <2>3, <3>2, WaiterOfQueue
    <3>4. QED
      BY <3>2, <3>3 DEF WaiterHolds
  <2>6. ASSUME q # << >>, m.says = "ok" PROVE Truthful(p)
    BY <2>3, <2>5, <2>6, Apart DEF Truthful
  <2> HIDE DEF q, p, i, m
  <2>7. \A c \in Call : outcome'[c] = "answered" /\ outcome[c] # "answered" => Truthful(c)
    <3>1. CASE q # << >> /\ Settle({p}, IF m.says = "ok" THEN "answered" ELSE "failed")
      <4>1. \A c \in Call : outcome'[c] = IF c \in {p} /\ outcome[c] = "none"
                                          THEN IF m.says = "ok" THEN "answered" ELSE "failed"
                                          ELSE outcome[c]
        BY <3>1, Settled
      <4>2. QED
        BY <2>6, <3>1, <4>1
    <3>2. QED
      BY <2>4, <3>1
  <2>8. QED
    BY <1>2, <2>1, <2>7
<1>7. QED
  BY <1>1, <1>3, <1>4, <1>5, <1>6 DEF Route

LEMMA AnswerStep ==
  ASSUME TypeOK, CallInv, WaitInv, WireInv, AnswerInv, [Next]_vars
  PROVE  AnswerInv'
<1>1. CASE CallSteps
  BY <1>1, CallAnswers
<1>2. CASE LiveSteps
  BY <1>2, LiveAnswers
<1>3. CASE \E s \in Socket : Route(s)
  BY <1>3, RouteAnswers
<1>4. CASE LinkSteps
  BY <1>4, LinkAnswers
<1>5. CASE RelayActs
  BY <1>5, RelayAnswers
<1>6. CASE UNCHANGED vars
  <2>1. UNCHANGED <<got, down, relaySub, stored, pending, sock, outcome>>
    BY <1>6 DEF vars, wire, callVars
  <2>2. \A i \in Fetch \cap pending' : i \in pending /\ Home(i)' = Home(i)
    BY <2>1 DEF Home
  <2>3. QED
    BY <2>1, <2>2, NothingAnswered
<1>7. QED
  BY <1>1, <1>2, <1>3, <1>4, <1>5, <1>6, StepCases

LEMMA InitAnswers == Init => AnswerInv
<1> SUFFICES ASSUME Init PROVE AnswerInv
  OBVIOUS
<1>1. /\ \A s \in Socket : ToSet(down[s]) = {}
      /\ pending = {} /\ \A c \in Call : outcome[c] = "none"
  BY EmptyElements DEF Init
<1>2. QED
  BY <1>1 DEF AnswerInv, AnswerComes

-----------------------------------------------------------------------------
LEMMA InitUpstream == Init => UpstreamInv
BY InitType, InitCalls, InitWire, InitAnswers DEF UpstreamInv

LEMMA UpstreamStep == UpstreamInv /\ [Next]_vars => UpstreamInv'
<1> SUFFICES ASSUME UpstreamInv, [Next]_vars PROVE UpstreamInv'
  OBVIOUS
<1>1. TypeOK'
  BY TypeStep DEF UpstreamInv
<1>2. CallInv' /\ WaitInv'
  BY CallStep DEF UpstreamInv
<1>3. WireInv'
  BY <1>1, WireStep DEF UpstreamInv
<1>4. AnswerInv'
  BY AnswerStep DEF UpstreamInv
<1>5. QED
  BY <1>1, <1>2, <1>3, <1>4 DEF UpstreamInv

LEMMA UpstreamInvariant == Spec => []UpstreamInv
<1>1. Init => UpstreamInv
  BY InitUpstream
<1>2. UpstreamInv /\ [Next]_vars => UpstreamInv'
  BY UpstreamStep
<1>3. QED
  BY <1>1, <1>2, PTL DEF Spec

(***************************************************************************)
(* Every variable of the client, and every message in flight, has its type *)
(* whatever the calls, faults and timers: in particular an OK answers an   *)
(* event, and a subscription message a subscription (RelayClient.route).   *)
(***************************************************************************)
THEOREM UpstreamTypeCorrect == Spec => []TypeOK
<1>1. UpstreamInv => TypeOK
  BY DEF UpstreamInv
<1>2. QED
  BY <1>1, UpstreamInvariant, PTL

(***************************************************************************)
(* No interleaving of answers, refusals, timeouts, lost connections and    *)
(* resubscription timers leaves the relay with a subscription nobody waits *)
(* for, or a live subscription dark on an open socket (query's finish,     *)
(* route, scheduleLiveResubscribe and the ws 'open' handler).              *)
(***************************************************************************)
THEOREM NoSubscriptionLeaks == Spec => []SubscriptionsAgree
<1>1. UpstreamInv => SubscriptionsAgree
  BY DEF UpstreamInv, WireInv
<1>2. QED
  BY <1>1, UpstreamInvariant, PTL

(***************************************************************************)
(* A waiter in okWaiters whose publish is settled is that of a retry which *)
(* found its socket down, and its publish failed (publish, publishOnce).   *)
(***************************************************************************)
THEOREM OnlyRetriesLeaveWaiters == Spec => []OrphansOnlyFromRetries
<1>1. UpstreamInv => OrphansOnlyFromRetries
  <2> SUFFICES ASSUME UpstreamInv, NEW s \in Socket, NEW p \in WaitingOn(s)
               PROVE  outcome[p] # "none" => attempt[p] > 0 /\ outcome[p] = "failed"
    BY DEF OrphansOnlyFromRetries
  <2>1. QED
    BY Waits DEF UpstreamInv
<1>2. QED
  BY <1>1, UpstreamInvariant, PTL

-----------------------------------------------------------------------------
(* The client implements Calls: what a step may do to the outcomes. *)
LEMMA SettleKeeps ==
  ASSUME TypeOK, NEW D, NEW r, Settle(D, r) \/ UNCHANGED outcome
  PROVE  \A o \in Call : outcome[o] # "none" => outcome'[o] = outcome[o]
BY Settled

Begins(c) ==
  /\ c \notin made /\ made' = made \cup {c}
  /\ UNCHANGED outcome \/ Settle({c}, "failed")

Settles ==
  /\ \A c \in Call : c \in made' <=> c \in made
  /\ \A o \in Call : outcome[o] # "none" => outcome'[o] = outcome[o]

LEMMA OutcomeStep ==
  ASSUME TypeOK, [Next]_vars
  PROVE  (\E c \in Call : Begins(c)) \/ Settles
<1>1. CASE CallSteps
  <2>1. ASSUME NEW c \in Fetch \cup Count, Ask(c) PROVE c \in Call /\ Begins(c)
    <3>1. CASE Pick = {}
      BY <2>1, <3>1 DEF Ask, MayCall, Begins, Call
    <3>2. CASE Pick # {}
      BY <2>1, <3>2 DEF Ask, MayCall, Begins, Call
    <3>3. QED
      BY <3>1, <3>2
  <2>2. ASSUME NEW p \in Publish, PublishEvent(p) PROVE p \in Call /\ Begins(p)
    <3>1. CASE Pick = {}
      BY <2>2, <3>1 DEF PublishEvent, MayCall, Begins, Call
    <3>2. CASE Pick # {}
      BY <2>2, <3>2 DEF PublishEvent, MayCall, Begins, Call
    <3>3. QED
      BY <3>1, <3>2
  <2>3. ASSUME NEW D, UNCHANGED made, Settle(D, "failed") \/ UNCHANGED outcome PROVE Settles
    BY <2>3, SettleKeeps DEF Settles
  <2>4. ASSUME NEW c \in Fetch \cup Count, AskTimeout(c) PROVE Settles
    BY <2>3, <2>4 DEF AskTimeout
  <2>5. ASSUME NEW p \in Publish, Retry(p) PROVE Settles
    <3>1. UNCHANGED made /\ (Settle({p}, "failed") \/ UNCHANGED outcome)
      BY <2>5 DEF Retry
    <3>2. QED
      BY <2>3, <3>1
  <2>6. ASSUME NEW s \in Socket, NEW w \in Waiter, OkTimeout(s, w) PROVE Settles
    BY <2>3, <2>6 DEF OkTimeout
  <2>7. QED
    BY <1>1, <2>1, <2>2, <2>4, <2>5, <2>6 DEF CallSteps
<1>2. CASE LiveSteps
  <2>1. PICK l \in LiveSub : SubscribeLive(l) \/ UnsubscribeLive(l) \/ Resubscribe(l)
    BY <1>2 DEF LiveSteps
  <2>2. UNCHANGED outcome /\ (made' = made \/ made' = made \cup {l}) /\ l \notin Call
    BY <2>1, UpstreamAssumption DEF SubscribeLive, UnsubscribeLive, Resubscribe, callVars
  <2>3. QED
    BY <2>2 DEF Settles
<1>3. CASE \E s \in Socket : Route(s)
  <2>1. PICK s \in Socket : Route(s)
    BY <1>3
  <2>2. UNCHANGED made
    BY <2>1 DEF Route, RouteEvent, RouteEose, RouteClosed, RouteCount, RouteOk
  <2>3. \E D : \E r : Settle(D, r) \/ UNCHANGED outcome
    BY <2>1 DEF Route, RouteEvent, RouteEose, RouteClosed, RouteCount, RouteOk
  <2>4. QED
    BY <2>2, <2>3, SettleKeeps DEF Settles
<1>4. CASE LinkSteps
  <2>1. UNCHANGED made
    BY <1>4 DEF LinkSteps, Opened, Lost, Reconnect, Close
  <2>2. \E D : \E r : Settle(D, r) \/ UNCHANGED outcome
    BY <1>4 DEF LinkSteps, Opened, Lost, Reconnect, Close, FailAllPending, callVars
  <2>3. QED
    BY <2>1, <2>2, SettleKeeps DEF Settles
<1>5. CASE RelayActs
  BY <1>5, RelayLeavesCalls DEF CallsAlone, Settles
<1>6. CASE UNCHANGED vars
  BY <1>6 DEF vars, callVars, Settles
<1>7. QED
  BY <1>1, <1>2, <1>3, <1>4, <1>5, <1>6, StepCases

(* As answers are truthful, a call's status is just how it was settled. *)
StatusOf(c) ==
  IF c \notin made THEN "idle" ELSE IF outcome[c] = "none" THEN "pending" ELSE outcome[c]

LEMMA StatusIs ==
  ASSUME UpstreamInv
  PROVE  CallStatus = [c \in Call |-> StatusOf(c)]
BY DEF UpstreamInv, AnswerInv, CallStatus, StatusOf

LEMMA StatusNext ==
  ASSUME UpstreamInv'
  PROVE  CallStatus' = [c \in Call |-> StatusOf(c)']
BY DEF UpstreamInv, AnswerInv, CallStatus, StatusOf

LEMMA CallsStep ==
  ASSUME UpstreamInv, UpstreamInv', [Next]_vars
  PROVE  [C!Next]_CallStatus
<1>1. /\ CallStatus = [c \in Call |-> StatusOf(c)]
      /\ CallStatus' = [c \in Call |-> StatusOf(c)']
  BY StatusIs, StatusNext
<1>2. /\ \A c \in Call : outcome[c] \in {"none", "answered", "failed"}
                         /\ outcome'[c] \in {"none", "answered", "failed"}
      /\ \A c \in Call : c \notin made => outcome[c] = "none"
      /\ \A c \in Call : c \notin made' => outcome'[c] = "none"
      /\ TypeOK
  BY DEF UpstreamInv, TypeOK, CallInv
<1> DEFINE now == CallStatus
           next == CallStatus'
<1>3. ASSUME NEW c \in Call, Begins(c)
      PROVE  C!Next
  <2>1. \A o \in Call : outcome'[o] = IF o = c THEN outcome'[c] ELSE outcome[o]
    BY <1>2, <1>3, Settled DEF Begins
  <2>2. outcome'[c] \in {"none", "failed"}
    BY <1>2, <1>3, Settled DEF Begins
  <2>3. /\ StatusOf(c) = "idle" /\ StatusOf(c)' \in {"pending", "failed"}
        /\ \A o \in Call \ {c} : StatusOf(o)' = StatusOf(o)
    BY <1>3, <2>1, <2>2 DEF Begins, StatusOf
  <2>4. /\ now[c] = "idle" /\ next[c] \in {"pending", "failed"}
        /\ next = [now EXCEPT ![c] = next[c]]
    BY <1>1, <2>3
  <2>5. C!Issue(c)
    BY <2>4 DEF C!Issue
  <2>6. QED
    BY <2>5 DEF C!Next
<1>4. ASSUME Settles
      PROVE  C!Next \/ next = now
  <2>1. \A o \in Call : \/ StatusOf(o)' = StatusOf(o)
                        \/ StatusOf(o) = "pending" /\ StatusOf(o)' \in {"answered", "failed"}
    BY <1>2, <1>4 DEF Settles, StatusOf
  <2> DEFINE D == {o \in Call : StatusOf(o)' # StatusOf(o)}
             r == [o \in D |-> StatusOf(o)']
  <2>2. /\ D \subseteq Call /\ \A o \in D : now[o] = "pending"
        /\ r \in [D -> {"answered", "failed"}]
        /\ next = [o \in Call |-> IF o \in D THEN r[o] ELSE now[o]]
    BY <1>1, <2>1
  <2>3. CASE D = {}
    BY <1>1, <2>3
  <2>4. CASE D # {}
    <3> HIDE DEF D, r
    <3>1. C!Settle(D)
      BY <2>2, <2>4 DEF C!Settle
    <3>2. QED
      BY <2>2, <3>1 DEF C!Next
  <2>5. QED
    BY <2>3, <2>4
<1>5. QED
  BY <1>2, <1>3, <1>4, OutcomeStep

LEMMA CallsInit == Init => C!Init
<1> SUFFICES ASSUME Init PROVE C!Init
  OBVIOUS
<1>1. \A c \in Call : c \notin made
  BY DEF Init
<1>2. QED
  BY <1>1 DEF CallStatus, C!Init

(***************************************************************************)
(* The client implements the safety part of Calls: an answer is truthful,  *)
(* and a call's status changes only as a verb that awaits it expects,      *)
(* whatever happens to the sockets (query, count, publish and route).      *)
(***************************************************************************)
THEOREM CallsImplemented == Spec => C!Spec
<1>1. Init => C!Init
  BY CallsInit
<1>2. UpstreamInv /\ UpstreamInv' /\ [Next]_vars => [C!Next]_CallStatus
  BY CallsStep
<1>3. QED
  BY <1>1, <1>2, UpstreamInvariant, PTL DEF Spec, C!Spec
=============================================================================
