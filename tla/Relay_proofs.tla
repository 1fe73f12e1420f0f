---------------------------- MODULE Relay_proofs ----------------------------
(***************************************************************************)
(* Proofs about one peer's copy of a base (Replica) and about the          *)
(* WebSocket side over it (Relay), for every log that other peers may      *)
(* write, every cap of the announcement LRU and any number of clients.     *)
(***************************************************************************)
EXTENDS Relay, StoreView_proofs, SequenceTheorems

(* The elements of a sequence that grows or shrinks at an end. *)
LEMMA ElementsOfAppend ==
  ASSUME NEW S, NEW s \in Seq(S), NEW e \in S
  PROVE  ToSet(Append(s, e)) = ToSet(s) \cup {e}
<1> DEFINE t == Append(s, e)
<1>1. /\ t \in Seq(S)
      /\ Len(t) = Len(s) + 1
      /\ \A i \in 1 .. Len(s) : t[i] = s[i]
      /\ t[Len(s) + 1] = e
  BY AppendProperties
<1>2. Len(s) \in Nat /\ DOMAIN s = 1 .. Len(s) /\ DOMAIN t = 1 .. Len(s) + 1
  BY <1>1, LenProperties
<1> HIDE DEF t
<1>3. ToSet(t) \subseteq ToSet(s) \cup {e}
  BY <1>1, <1>2 DEF ToSet
<1>4. ToSet(s) \subseteq ToSet(t)
  BY <1>1, <1>2 DEF ToSet
<1>5. e \in ToSet(t)
  BY <1>1, <1>2 DEF ToSet
<1>6. QED
  BY <1>3, <1>4, <1>5 DEF t

LEMMA ElementsOfTail ==
  ASSUME NEW S, NEW s \in Seq(S), s # << >>
  PROVE  ToSet(s) = ToSet(Tail(s)) \cup {Head(s)}
<1>1. /\ Tail(s) \in Seq(S)
      /\ Len(Tail(s)) = Len(s) - 1
      /\ \A i \in 1 .. Len(Tail(s)) : Tail(s)[i] = s[i + 1]
  BY HeadTailProperties
<1>2. Len(s) \in Nat /\ Len(s) # 0 /\ DOMAIN s = 1 .. Len(s) /\ Head(s) = s[1]
  BY EmptySeq, LenProperties
<1>3. DOMAIN Tail(s) = 1 .. Len(s) - 1
  BY <1>1, LenProperties
<1>4. ASSUME NEW i \in 1 .. Len(s)
      PROVE  s[i] \in ToSet(Tail(s)) \cup {Head(s)}
  <2>1. CASE i = 1
    BY <1>2, <2>1
  <2>2. CASE i # 1
    <3>1. i - 1 \in 1 .. Len(Tail(s)) /\ (i - 1) + 1 = i
      BY <1>1, <1>2, <2>2
    <3>2. Tail(s)[i - 1] = s[i]
      BY <1>1, <3>1
    <3>3. QED
      BY <1>1, <1>3, <3>1, <3>2 DEF ToSet
  <2>3. QED
    BY <2>1, <2>2
<1>5. ASSUME NEW i \in 1 .. Len(s) - 1
      PROVE  Tail(s)[i] \in ToSet(s)
  <2>1. i + 1 \in 1 .. Len(s) /\ i \in 1 .. Len(Tail(s))
    BY <1>1, <1>2
  <2>2. QED
    BY <1>1, <1>2, <2>1 DEF ToSet
<1>6. ToSet(s) \subseteq ToSet(Tail(s)) \cup {Head(s)}
  BY <1>2, <1>4 DEF ToSet
<1>7. ToSet(Tail(s)) \subseteq ToSet(s)
  BY <1>3, <1>5 DEF ToSet
<1>8. Head(s) \in ToSet(s)
  BY <1>2 DEF ToSet
<1>9. QED
  BY <1>6, <1>7, <1>8

(* A prefix of a sequence. *)
LEMMA Prefix ==
  ASSUME NEW S, NEW s \in Seq(S), NEW n \in 0 .. Len(s)
  PROVE  /\ SubSeq(s, 1, n) \in Seq(S)
         /\ Len(SubSeq(s, 1, n)) = n
         /\ \A i \in 1 .. n : SubSeq(s, 1, n)[i] = s[i]
         /\ ToSet(SubSeq(s, 1, n)) \subseteq ToSet(s)
<1> DEFINE t == SubSeq(s, 1, n)
<1>1. Len(s) \in Nat /\ DOMAIN s = 1 .. Len(s) /\ \A i \in 1 .. n : s[i] \in S
  BY LenProperties, ElementOfSeq
<1>2. /\ t \in Seq(S)
      /\ Len(t) = IF 1 <= n THEN n - 1 + 1 ELSE 0
      /\ \A i \in 1 .. n - 1 + 1 : t[i] = s[1 + i - 1]
  BY <1>1, SubSeqProperties
<1> HIDE DEF t
<1>3. Len(t) = n /\ \A i \in 1 .. n : t[i] = s[i]
  BY <1>1, <1>2
<1>4. DOMAIN t = 1 .. n
  BY <1>2, <1>3, LenProperties
<1>5. ToSet(t) \subseteq ToSet(s)
  BY <1>1, <1>3, <1>4 DEF ToSet
<1>6. QED
  BY <1>2, <1>3, <1>5 DEF t

(* A suffix of a sequence. *)
LEMMA Suffix ==
  ASSUME NEW S, NEW s \in Seq(S), NEW m \in 1 .. Len(s) + 1
  PROVE  /\ SubSeq(s, m, Len(s)) \in Seq(S)
         /\ Len(SubSeq(s, m, Len(s))) = Len(s) - m + 1
         /\ \A i \in 1 .. Len(s) - m + 1 : SubSeq(s, m, Len(s))[i] = s[m + i - 1]
<1>1. Len(s) \in Nat /\ \A i \in m .. Len(s) : s[i] \in S
  BY LenProperties, ElementOfSeq
<1>2. QED
  BY <1>1, SubSeqProperties
(* What lies where after an insertion or a removal. *)
LEMMA InsertAtElements ==
  ASSUME NEW S, NEW s \in Seq(S), NEW e \in S, NEW p \in 1 .. Len(s) + 1
  PROVE  /\ InsertAt(s, p, e) \in Seq(S)
         /\ Len(InsertAt(s, p, e)) = Len(s) + 1
         /\ \A i \in 1 .. p - 1 : InsertAt(s, p, e)[i] = s[i]
         /\ InsertAt(s, p, e)[p] = e
         /\ \A i \in p .. Len(s) : InsertAt(s, p, e)[i + 1] = s[i]
<1> DEFINE a == SubSeq(s, 1, p - 1)
           b == SubSeq(s, p, Len(s))
           c == a \o <<e>>
           t == c \o b
<1>1. Len(s) \in Nat /\ p \in Nat /\ p - 1 \in 0 .. Len(s)
  BY LenProperties
<1>2. a \in Seq(S) /\ Len(a) = p - 1 /\ \A i \in 1 .. p - 1 : a[i] = s[i]
  BY <1>1, Prefix
<1>3. /\ b \in Seq(S) /\ Len(b) = Len(s) - p + 1
      /\ \A i \in 1 .. Len(s) - p + 1 : b[i] = s[p + i - 1]
  BY Suffix
<1>4. <<e>> \in Seq(S) /\ Len(<<e>>) = 1 /\ <<e>>[1] = e
  OBVIOUS
<1> HIDE DEF a, b
<1>5. /\ c \in Seq(S)
      /\ Len(c) = Len(a) + Len(<<e>>)
      /\ \A i \in 1 .. Len(a) + Len(<<e>>) : c[i] = IF i <= Len(a) THEN a[i] ELSE <<e>>[i - Len(a)]
  BY <1>2, <1>4, ConcatProperties
<1> HIDE DEF c
<1>6. /\ Len(c) = p
      /\ \A i \in 1 .. p - 1 : c[i] = s[i]
      /\ c[p] = e
  BY <1>1, <1>2, <1>4, <1>5
<1>7. /\ t \in Seq(S)
      /\ Len(t) = Len(c) + Len(b)
      /\ \A i \in 1 .. Len(c) + Len(b) : t[i] = IF i <= Len(c) THEN c[i] ELSE b[i - Len(c)]
  <2>1. c \in Seq(S) /\ b \in Seq(S)
    BY <1>3, <1>5
  <2>2. QED
    BY <2>1, ConcatProperties
<1>8. t = InsertAt(s, p, e)
  BY DEF InsertAt, a, b, c
<1> HIDE DEF t
<1>9. Len(t) = Len(s) + 1
  BY <1>1, <1>3, <1>6, <1>7
<1>10. (\A i \in 1 .. p - 1 : t[i] = s[i]) /\ t[p] = e
  BY <1>1, <1>3, <1>6, <1>7
<1>11. ASSUME NEW i \in p .. Len(s)
       PROVE  t[i + 1] = s[i]
  <2>1. i + 1 \in 1 .. Len(c) + Len(b) /\ ~(i + 1 <= Len(c))
    BY <1>1, <1>3, <1>6
  <2>2. t[i + 1] = b[(i + 1) - p]
    BY <1>6, <1>7, <2>1
  <2>3. (i + 1) - p \in 1 .. Len(s) - p + 1 /\ p + ((i + 1) - p) - 1 = i
    BY <1>1
  <2>4. QED
    BY <1>3, <2>2, <2>3
<1>12. QED
  BY <1>7, <1>8, <1>9, <1>10, <1>11

LEMMA RemoveAtElements ==
  ASSUME NEW S, NEW s \in Seq(S), NEW p \in 1 .. Len(s)
  PROVE  /\ RemoveAt(s, p) \in Seq(S)
         /\ Len(RemoveAt(s, p)) = Len(s) - 1
         /\ \A i \in 1 .. p - 1 : RemoveAt(s, p)[i] = s[i]
         /\ \A i \in p .. Len(s) - 1 : RemoveAt(s, p)[i] = s[i + 1]
<1> DEFINE a == SubSeq(s, 1, p - 1)
           b == SubSeq(s, p + 1, Len(s))
           t == a \o b
<1>1. Len(s) \in Nat /\ p \in Nat /\ p - 1 \in 0 .. Len(s) /\ p + 1 \in 1 .. Len(s) + 1
  BY LenProperties
<1>2. a \in Seq(S) /\ Len(a) = p - 1 /\ \A i \in 1 .. p - 1 : a[i] = s[i]
  BY <1>1, Prefix
<1>3. /\ b \in Seq(S) /\ Len(b) = Len(s) - (p + 1) + 1
      /\ \A i \in 1 .. Len(s) - (p + 1) + 1 : b[i] = s[p + 1 + i - 1]
  BY <1>1, Suffix
<1> HIDE DEF a, b
<1>4. /\ t \in Seq(S)
      /\ Len(t) = Len(a) + Len(b)
      /\ \A i \in 1 .. Len(a) + Len(b) : t[i] = IF i <= Len(a) THEN a[i] ELSE b[i - Len(a)]
  BY <1>2, <1>3, ConcatProperties
<1>5. t = RemoveAt(s, p)
  BY DEF RemoveAt, a, b
<1> HIDE DEF t
<1>6. Len(t) = Len(s) - 1
  BY <1>1, <1>2, <1>3, <1>4
<1>7. ASSUME NEW i \in 1 .. p - 1
      PROVE  t[i] = s[i]
  <2>1. i \in 1 .. Len(a) + Len(b) /\ i <= Len(a)
    BY <1>1, <1>2, <1>3
  <2>2. QED
    BY <1>2, <1>4, <2>1
<1>8. ASSUME NEW i \in p .. Len(s) - 1
      PROVE  t[i] = s[i + 1]
  <2>1. i \in 1 .. Len(a) + Len(b) /\ ~(i <= Len(a))
    BY <1>1, <1>2, <1>3
  <2>2. t[i] = b[i - (p - 1)]
    BY <1>2, <1>4, <2>1
  <2>3. i - (p - 1) \in 1 .. Len(s) - (p + 1) + 1 /\ p + 1 + (i - (p - 1)) - 1 = i + 1
    BY <1>1
  <2>4. QED
    BY <1>3, <2>2, <2>3
<1>9. QED
  BY <1>4, <1>5, <1>6, <1>7, <1>8

(* Moving an element to the end keeps the elements. *)
LEMMA ElementsOfRefresh ==
  ASSUME NEW S, NEW s \in Seq(S), NEW p \in 1 .. Len(s)
  PROVE  /\ Append(RemoveAt(s, p), s[p]) \in Seq(S)
         /\ Len(Append(RemoveAt(s, p), s[p])) = Len(s)
         /\ ToSet(Append(RemoveAt(s, p), s[p])) = ToSet(s)
<1> DEFINE r == RemoveAt(s, p)
<1>1. /\ r \in Seq(S)
      /\ Len(r) = Len(s) - 1
      /\ \A i \in 1 .. p - 1 : r[i] = s[i]
      /\ \A i \in p .. Len(s) - 1 : r[i] = s[i + 1]
  BY RemoveAtElements
<1>2. Len(s) \in Nat /\ DOMAIN s = 1 .. Len(s) /\ s[p] \in S
  BY LenProperties, ElementOfSeq
<1>3. DOMAIN r = 1 .. Len(s) - 1
  BY <1>1, LenProperties
<1> HIDE DEF r
<1>4. /\ Append(r, s[p]) \in Seq(S)
      /\ Len(Append(r, s[p])) = Len(r) + 1
      /\ ToSet(Append(r, s[p])) = ToSet(r) \cup {s[p]}
  BY <1>1, <1>2, AppendProperties, ElementsOfAppend
<1>5. ASSUME NEW i \in 1 .. Len(s) - 1
      PROVE  r[i] \in ToSet(s)
  <2>1. CASE i < p
    BY <1>1, <1>2, <2>1 DEF ToSet
  <2>2. CASE i >= p
    <3>1. i + 1 \in 1 .. Len(s) /\ i \in p .. Len(s) - 1
      BY <1>2, <2>2
    <3>2. QED
      BY <1>1, <1>2, <3>1 DEF ToSet
  <2>3. QED
    BY <1>2, <2>1, <2>2
<1>6. ASSUME NEW i \in 1 .. Len(s)
      PROVE  s[i] \in ToSet(r) \cup {s[p]}
  <2>1. CASE i < p
    <3>1. i \in 1 .. Len(s) - 1 /\ i \in 1 .. p - 1
      BY <1>2, <2>1
    <3>2. QED
      BY <1>1, <1>3, <3>1 DEF ToSet
  <2>2. CASE i = p
    BY <2>2
  <2>3. CASE i > p
    <3>1. i - 1 \in 1 .. Len(s) - 1 /\ i - 1 \in p .. Len(s) - 1 /\ (i - 1) + 1 = i
      BY <1>2, <2>3
    <3>2. r[i - 1] = s[i]
      BY <1>1, <3>1
    <3>3. QED
      BY <1>3, <3>1, <3>2 DEF ToSet
  <2>4. QED
    BY <1>2, <2>1, <2>2, <2>3
<1>7. ToSet(r) \subseteq ToSet(s)
  BY <1>3, <1>5 DEF ToSet
<1>8. ToSet(s) \subseteq ToSet(r) \cup {s[p]}
  BY <1>2, <1>6 DEF ToSet
<1>9. s[p] \in ToSet(s)
  BY <1>2 DEF ToSet
<1>10. QED
  BY <1>1, <1>2, <1>4, <1>7, <1>8, <1>9 DEF r

(* A sequence has at most as many elements as positions. *)
LEMMA ElementsAreFinite ==
  ASSUME NEW S, NEW s \in Seq(S)
  PROVE  /\ IsFiniteSet(ToSet(s))
         /\ Cardinality(ToSet(s)) \in Nat
         /\ Cardinality(ToSet(s)) <= Len(s)
<1>1. /\ Len(s) \in Nat
      /\ s \in [1 .. Len(s) -> S]
      /\ DOMAIN s = 1 .. Len(s)
  BY LenProperties
<1>2. IsFiniteSet(1 .. Len(s)) /\ Cardinality(1 .. Len(s)) = Len(s)
  BY <1>1, FS_Interval
<1>3. s \in Surjection(1 .. Len(s), ToSet(s))
  BY <1>1 DEF Surjection, ToSet
<1>4. QED
  BY <1>1, <1>2, <1>3, FS_Surjection, FS_CardinalityType
-----------------------------------------------------------------------------
(***************************************************************************)
(* apply's dispatch: a consistent view gives a consistent one, and the     *)
(* only event that a node adds is the one it carries.                      *)
(***************************************************************************)
LEMMA NodeCases ==
  ASSUME NEW n \in Node
  PROVE  \/ n.type = "put" /\ n.event \in Id
         \/ n.type = "optimistic" /\ n.event \in Id
         \/ n.type = "delete" /\ n.event \in Id
         \/ n.type = "add_writer" /\ n.key \in Key
         \/ n.type = "expiry_delete"
         \/ n.type = "prune_delete"
         \/ n.type = "set_config" /\ n.value \in BOOLEAN
BY DEF Node

LEMMA ApplyOpKeepsInv ==
  ASSUME NEW v, ViewInv(v), NEW n \in Node, Acked(v, n)
  PROVE  ViewInv(ApplyOp(v, n))
<1>1. CASE n.type = "put"
  <2>1. n.event \in Id
    BY <1>1, NodeCases
  <2>2. ApplyOp(v, n) = ApplyPut(v, n.event)
    BY <1>1 DEF ApplyOp
  <2>3. QED
    BY <2>1, <2>2, ApplyPutKeepsInv
<1>2. CASE n.type = "optimistic"
  <2>1. n.event \in Id
    BY <1>2, NodeCases
  <2>2. ApplyOp(v, n) = ApplyOptimistic(v, n.event)
    BY <1>2 DEF ApplyOp
  <2>3. QED
    BY <2>1, <2>2, OptimisticKeepsInv
<1>3. CASE n.type = "delete"
  <2>1. n.event \in Id
    BY <1>3, NodeCases
  <2>2. ApplyOp(v, n) = ApplyDelete(v, n.event)
    BY <1>3 DEF ApplyOp
  <2>3. QED
    BY <2>1, <2>2, ApplyDeleteKeepsInv
<1>4. CASE n.type = "add_writer"
  <2>1. n.key \in Key /\ n.from \in MayWrite(v)
    BY <1>4, NodeCases DEF Acked
  <2>2. ApplyOp(v, n) = ApplyAddWriter(v, n.from, n.key)
    BY <1>4 DEF ApplyOp
  <2>3. QED
    BY <2>1, <2>2, AddWriterKeepsInv
<1>5. CASE n.type = "expiry_delete"
  <2>1. ApplyOp(v, n) = ApplyExpiryDelete(v, n.from, n.ids)
    BY <1>5 DEF ApplyOp
  <2>2. QED
    BY <2>1, ExpiryDeleteKeepsInv
<1>6. CASE n.type = "prune_delete"
  <2>1. ApplyOp(v, n) = ApplyPruneDelete(v, n.from, n.ids)
    BY <1>6 DEF ApplyOp
  <2>2. QED
    BY <2>1, PruneDeleteKeepsInv
<1>7. CASE n.type = "set_config"
  <2>1. n.value \in BOOLEAN
    BY <1>7, NodeCases
  <2>2. ApplyOp(v, n) = ApplySetConfig(v, n.from, n.value)
    BY <1>7 DEF ApplyOp
  <2>3. QED
    BY <2>1, <2>2, SetConfigKeepsInv
<1>8. QED
  BY <1>1, <1>2, <1>3, <1>4, <1>5, <1>6, <1>7, NodeCases

LEMMA PutAddsOnly ==
  ASSUME NEW v, ViewInv(v), NEW e \in Id
  PROVE  ApplyPut(v, e).events \subseteq v.events \cup {e}
<1>1. CASE PutStores(v, e)
  BY <1>1, ApplyPutEffect
<1>2. CASE ~PutStores(v, e)
  BY <1>2 DEF ApplyPut
<1>3. QED
  BY <1>1, <1>2

LEMMA DeleteAddsOnly ==
  ASSUME NEW v, ViewInv(v), NEW e \in Id
  PROVE  ApplyDelete(v, e).events \subseteq v.events \cup {e}
<1>1. CASE Ev[e].valid
  <2>1. PICK u : /\ ViewInv(u)
                 /\ u.events = v.events \ Deletable(v, e)
                 /\ ApplyDelete(v, e) = ApplyPut(u, e)
    BY <1>1, DeleteSplits
  <2>2. QED
    BY <2>1, PutAddsOnly
<1>2. CASE ~Ev[e].valid
  BY <1>2 DEF ApplyDelete
<1>3. QED
  BY <1>1, <1>2

LEMMA RemovalAddsNothing ==
  ASSUME NEW v, ViewInv(v), NEW S \in SUBSET v.events
  PROVE  RemoveEvents(v, S).events \subseteq v.events
<1>1. v \in View /\ S \in SUBSET Id
  BY DEF ViewInv, View
<1>2. RemoveEvents(v, S).events = v.events \ S
  BY <1>1, RemoveEventsFields
<1>3. QED
  BY <1>2

(* The nodes after which emitStored may be called. *)
CarriesEvent(n) == n.type \in {"put", "optimistic", "delete"}

LEMMA ApplyOpAddsOnly ==
  ASSUME NEW v, ViewInv(v), NEW n \in Node
  PROVE  /\ CarriesEvent(n) => n.event \in Id
         /\ CarriesEvent(n) => ApplyOp(v, n).events \subseteq v.events \cup {n.event}
         /\ ~CarriesEvent(n) => ApplyOp(v, n).events \subseteq v.events
<1>1. CASE n.type = "put"
  <2>1. n.event \in Id
    BY <1>1, NodeCases
  <2>2. ApplyOp(v, n) = ApplyPut(v, n.event)
    BY <1>1 DEF ApplyOp
  <2>3. QED
    BY <1>1, <2>1, <2>2, PutAddsOnly DEF CarriesEvent
<1>2. CASE n.type = "optimistic"
  <2>1. n.event \in Id
    BY <1>2, NodeCases
  <2>2. ApplyOp(v, n) = v \/ ApplyOp(v, n) = ApplyPut(v, n.event)
    BY <1>2 DEF ApplyOp, ApplyOptimistic
  <2>3. QED
    BY <1>2, <2>1, <2>2, PutAddsOnly DEF CarriesEvent
<1>3. CASE n.type = "delete"
  <2>1. n.event \in Id
    BY <1>3, NodeCases
  <2>2. ApplyOp(v, n) = ApplyDelete(v, n.event)
    BY <1>3 DEF ApplyOp
  <2>3. QED
    BY <1>3, <2>1, <2>2, DeleteAddsOnly DEF CarriesEvent
<1>4. CASE n.type = "add_writer"
  <2>1. ApplyOp(v, n).events = v.events
    BY <1>4 DEF ApplyOp, ApplyAddWriter, ViewInv, View
  <2>2. QED
    BY <1>4, <2>1 DEF CarriesEvent
<1>5. CASE n.type = "expiry_delete"
  <2>1. {e \in n.ids \cap v.events : Expires(e)} \in SUBSET v.events
    OBVIOUS
  <2>2. RemoveEvents(v, {e \in n.ids \cap v.events : Expires(e)}).events \subseteq v.events
    BY <2>1, RemovalAddsNothing
  <2>3. QED
    BY <1>5, <2>2 DEF CarriesEvent, ApplyOp, ApplyExpiryDelete
<1>6. CASE n.type = "prune_delete"
  <2>1. n.ids \cap v.events \in SUBSET v.events
    OBVIOUS
  <2>2. RemoveEvents(v, n.ids \cap v.events).events \subseteq v.events
    BY <2>1, RemovalAddsNothing
  <2>3. QED
    BY <1>6, <2>2 DEF CarriesEvent, ApplyOp, ApplyPruneDelete
<1>7. CASE n.type = "set_config"
  <2>1. ApplyOp(v, n).events = v.events
    BY <1>7 DEF ApplyOp, ApplySetConfig, ViewInv, View
  <2>2. QED
    BY <1>7, <2>1 DEF CarriesEvent
<1>8. QED
  BY <1>1, <1>2, <1>3, <1>4, <1>5, <1>6, <1>7, NodeCases
-----------------------------------------------------------------------------
(***************************************************************************)
(* The inductive invariant of Replica.  Every version, and not the newest  *)
(* one only, must be sound and announced: an insertion makes an older one  *)
(* the newest again.  The LRU forgets an id only once more than LruMax     *)
(* distinct ones have been announced.                                      *)
(***************************************************************************)
Announced == pushed \cup ToSet(queue)
Views     == ToSet(versions) \cup {view}

LruFollows ==
  /\ ToSet(emitted) \subseteq Announced
  /\ Cardinality(ToSet(emitted)) = Len(emitted)
  /\ IsFiniteSet(Announced)
  /\ Cardinality(Announced) <= LruMax => Announced \subseteq ToSet(emitted)

ReplicaInv ==
  /\ TypeOK
  /\ \A v \in Views : ViewInv(v)
  /\ ViewFollowsOrder
  /\ \A v \in Views : v.events \subseteq Announced
  /\ LruFollows

(* What the type invariant says of the versions. *)
LEMMA VersionFacts ==
  ASSUME TypeOK
  PROVE  /\ Len(order) \in Nat /\ Len(versions) \in Nat /\ indexed \in Nat
         /\ Applied \in Nat /\ indexed <= Applied /\ Applied <= Len(order)
         /\ DOMAIN versions = 1 .. Len(versions) /\ DOMAIN order = 1 .. Len(order)
         /\ Tip \in ToSet(versions)
         /\ \A i \in 1 .. Len(versions) : versions[i] \in ToSet(versions)
<1>1. /\ Len(order) \in Nat /\ Len(versions) \in Nat
      /\ DOMAIN versions = 1 .. Len(versions) /\ DOMAIN order = 1 .. Len(order)
  BY LenProperties DEF TypeOK
<1>2. indexed \in Nat /\ indexed + 1 <= Len(versions) /\ Len(versions) <= Len(order) + 1
  BY <1>1 DEF TypeOK
<1>3. \A i \in 1 .. Len(versions) : versions[i] \in ToSet(versions)
  BY <1>1 DEF ToSet
<1>4. QED
  BY <1>1, <1>2, <1>3 DEF Applied, Tip

LEMMA ReplicaInitInv == Init => ReplicaInv
<1> SUFFICES ASSUME Init PROVE ReplicaInv
  OBVIOUS
<1>1. ViewInv(EmptyView({})) /\ EmptyView({}).events = {}
  BY EmptyViewInv DEF EmptyView
<1>2. /\ Len(versions) = 1 /\ versions[1] = EmptyView({}) /\ DOMAIN versions = {1}
      /\ Len(order) = 0 /\ versions \in Seq(View) /\ order \in Seq(Node)
  BY <1>1 DEF Init, ViewInv
<1>3. ToSet(versions) = {EmptyView({})}
  BY <1>2 DEF ToSet
<1>4. emitted \in Seq(Id) /\ Len(emitted) = 0 /\ ToSet(emitted) = {} /\ queue \in Seq(Id) /\ ToSet(queue) = {}
  BY DEF Init, ToSet
<1>5. TypeOK
  BY <1>1, <1>2, <1>4, ReplicaAssumption DEF Init, TypeOK, ViewInv
<1>6. ViewFollowsOrder
  BY <1>2 DEF ViewFollowsOrder, Applied
<1>7. LruFollows
  BY <1>4, FS_EmptySet DEF LruFollows, Announced, Init
<1>8. \A v \in Views : ViewInv(v) /\ v.events \subseteq Announced
  BY <1>1, <1>3 DEF Views, Init
<1>9. QED
  BY <1>5, <1>6, <1>7, <1>8 DEF ReplicaInv

(* An arrival leaves a prefix of the versions, the signed ones included. *)
LEMMA InsertNodeKeepsInv ==
  ASSUME ReplicaInv, NEW n \in Node, NEW i \in indexed + 1 .. Len(order) + 1,
         InsertNode(n, i), UNCHANGED <<indexed, view, emitVars>>
  PROVE  ReplicaInv'
<1> DEFINE m == IF Applied < i THEN Applied + 1 ELSE i
<1>1. TypeOK /\ ViewFollowsOrder
  BY DEF ReplicaInv
<1>2. /\ Len(order) \in Nat /\ Len(versions) \in Nat /\ indexed \in Nat
      /\ Applied \in Nat /\ indexed <= Applied /\ Applied <= Len(order)
      /\ Applied = Len(versions) - 1
  BY <1>1, VersionFacts DEF Applied
<1>3. /\ m \in 0 .. Len(versions) /\ indexed + 1 <= m /\ m <= i /\ m <= Len(versions)
      /\ i \in 1 .. Len(order) + 1
  BY <1>2
<1>4. /\ order' = InsertAt(order, i, n)
      /\ versions' = SubSeq(versions, 1, m)
  BY DEF InsertNode
<1> HIDE DEF m
<1>5. /\ order' \in Seq(Node)
      /\ Len(order') = Len(order) + 1
      /\ \A j \in 1 .. i - 1 : order'[j] = order[j]
  <2>1. order \in Seq(Node)
    BY <1>1 DEF TypeOK
  <2>2. QED
    BY <1>3, <1>4, <2>1, InsertAtElements
<1>6. /\ versions' \in Seq(View)
      /\ Len(versions') = m
      /\ \A j \in 1 .. m : versions'[j] = versions[j]
      /\ ToSet(versions') \subseteq ToSet(versions)
  BY <1>1, <1>3, <1>4, Prefix DEF TypeOK
<1>7. TypeOK'
  <2>1. (indexed \in 0 .. Len(order))' /\ (Len(versions) \in indexed + 1 .. Len(order) + 1)'
    BY <1>2, <1>3, <1>5, <1>6
  <2>2. QED
    BY <1>1, <1>5, <1>6, <2>1 DEF TypeOK, emitVars
<1>8. ViewFollowsOrder'
  <2>1. versions'[1] = EmptyView({})
    BY <1>1, <1>2, <1>3, <1>6 DEF ViewFollowsOrder
  <2>2. ASSUME NEW j \in 1 .. m - 1
        PROVE  Acked(versions[j], order[j])' /\ versions'[j + 1] = ApplyOp(versions[j], order[j])'
    <3>1. j \in 1 .. Applied /\ j \in 1 .. m /\ j + 1 \in 1 .. m /\ j \in 1 .. i - 1
      BY <1>2, <1>3
    <3>2. Acked(versions[j], order[j]) /\ versions[j + 1] = ApplyOp(versions[j], order[j])
      BY <1>1, <3>1 DEF ViewFollowsOrder
    <3>3. order'[j] = order[j] /\ versions'[j] = versions[j] /\ versions'[j + 1] = versions[j + 1]
      BY <1>5, <1>6, <3>1
    <3>4. QED
      BY <3>2, <3>3
  <2>3. QED
    BY <1>6, <2>1, <2>2 DEF ViewFollowsOrder, Applied
<1>9. Views' \subseteq Views /\ Announced' = Announced
  BY <1>6 DEF Views, Announced, emitVars
<1>10. LruFollows'
  BY <1>9 DEF ReplicaInv, LruFollows, emitVars
<1>11. QED
  BY <1>7, <1>8, <1>9, <1>10 DEF ReplicaInv

-----------------------------------------------------------------------------
(***************************************************************************)
(* emitStored keeps the LRU behind what was announced: it evicts only when *)
(* it holds LruMax other ids, all of them announced.                       *)
(***************************************************************************)
LEMMA EmitStoredKeepsLru ==
  ASSUME TypeOK, LruFollows, NEW e \in Id, EmitStored(e), pushed' = pushed
  PROVE  /\ emitted' \in Seq(Id) /\ Len(emitted') <= LruMax
         /\ queue' \in Seq(Id)
         /\ Announced' = Announced \cup {e}
         /\ LruFollows'
         /\ AnnouncedOnceBelowBound
<1>1. /\ emitted \in Seq(Id) /\ Len(emitted) \in Nat /\ Len(emitted) <= LruMax
      /\ DOMAIN emitted = 1 .. Len(emitted)
      /\ queue \in Seq(Id) /\ Len(queue) \in Nat
      /\ LruMax \in Nat
  BY LenProperties, ReplicaAssumption DEF TypeOK
<1>2. CASE \E i \in DOMAIN emitted :
             /\ emitted[i] = e
             /\ emitted' = Append(RemoveAt(emitted, i), e)
             /\ queue' = queue
  <2>1. PICK i \in 1 .. Len(emitted) :
               emitted[i] = e /\ emitted' = Append(RemoveAt(emitted, i), e) /\ queue' = queue
    BY <1>1, <1>2
  <2>2. /\ emitted' \in Seq(Id)
        /\ Len(emitted') = Len(emitted)
        /\ ToSet(emitted') = ToSet(emitted)
    BY <1>1, <2>1, ElementsOfRefresh
  <2>3. e \in ToSet(emitted)
    BY <1>1, <2>1 DEF ToSet
  <2>4. Announced' = Announced /\ e \in Announced
    BY <2>1, <2>3 DEF Announced, LruFollows
  <2>5. LruFollows'
    BY <2>2, <2>4 DEF LruFollows
  <2>6. AnnouncedOnceBelowBound
    BY <1>1, <2>1 DEF AnnouncedOnceBelowBound
  <2>7. QED
    BY <1>1, <2>1, <2>2, <2>4, <2>5, <2>6
<1>3. CASE LET lru == Append(emitted, e) IN
             /\ ~Contains(emitted, e)
             /\ emitted' = IF Len(lru) > LruMax THEN Tail(lru) ELSE lru
             /\ queue' = Append(queue, e)
  <2> DEFINE lru == Append(emitted, e)
  <2>1. e \notin ToSet(emitted)
    BY <1>1, <1>3 DEF Contains, ToSet
  <2>2. /\ lru \in Seq(Id) /\ lru # << >>
        /\ Len(lru) = Len(emitted) + 1
        /\ ToSet(lru) = ToSet(emitted) \cup {e}
    BY <1>1, AppendProperties, ElementsOfAppend
  <2>3. /\ queue' \in Seq(Id)
        /\ ToSet(queue') = ToSet(queue) \cup {e}
        /\ Len(queue') = Len(queue) + 1
        /\ queue'[Len(queue')] = e
    BY <1>1, <1>3, AppendProperties, ElementsOfAppend
  <2>4. emitted' = IF Len(lru) > LruMax THEN Tail(lru) ELSE lru
    BY <1>3
  <2> HIDE DEF lru
  <2>5. Announced' = Announced \cup {e}
    BY <2>3 DEF Announced
  <2>6. /\ IsFiniteSet(ToSet(emitted)) /\ Cardinality(ToSet(emitted)) \in Nat
        /\ Cardinality(ToSet(lru)) = Len(lru)
    <3>1. IsFiniteSet(ToSet(emitted)) /\ Cardinality(ToSet(emitted)) \in Nat
      BY <1>1, ElementsAreFinite
    <3>2. Cardinality(ToSet(lru)) = Cardinality(ToSet(emitted)) + 1
      BY <2>1, <2>2, <3>1, FS_AddElement
    <3>3. QED
      BY <2>2, <3>1, <3>2 DEF LruFollows
  <2>7. /\ emitted' \in Seq(Id)
        /\ Len(emitted') <= LruMax
        /\ Cardinality(ToSet(emitted')) = Len(emitted')
        /\ ToSet(emitted') \subseteq ToSet(emitted) \cup {e}
    <3>1. CASE Len(lru) > LruMax
      <4>1. emitted' = Tail(lru)
        BY <2>4, <3>1
      <4>2. /\ Tail(lru) \in Seq(Id) /\ Len(Tail(lru)) = Len(lru) - 1
            /\ ToSet(lru) = ToSet(Tail(lru)) \cup {Head(lru)}
        BY <2>2, HeadTailProperties, ElementsOfTail
      <4>3. /\ IsFiniteSet(ToSet(Tail(lru)))
            /\ Cardinality(ToSet(Tail(lru))) \in Nat
            /\ Cardinality(ToSet(Tail(lru))) <= Len(Tail(lru))
        BY <4>2, ElementsAreFinite
      <4>4. Head(lru) \notin ToSet(Tail(lru))
        <5>1. CASE Head(lru) \in ToSet(Tail(lru))
          <6>1. ToSet(lru) = ToSet(Tail(lru))
            BY <4>2, <5>1
          <6>2. Len(lru) <= Len(lru) - 1
            BY <2>6, <4>2, <4>3, <6>1
          <6>3. QED
            BY <1>1, <2>2, <6>2
        <5>2. QED
          BY <5>1
      <4>5. Cardinality(ToSet(lru)) = Cardinality(ToSet(Tail(lru))) + 1
        BY <4>2, <4>3, <4>4, FS_AddElement
      <4>6. Cardinality(ToSet(Tail(lru))) = Len(Tail(lru)) /\ Len(Tail(lru)) <= LruMax
        BY <1>1, <2>2, <2>6, <4>2, <4>3, <4>5
      <4>7. ToSet(Tail(lru)) \subseteq ToSet(emitted) \cup {e}
        BY <2>2, <4>2
      <4>8. QED
        BY <4>1, <4>2, <4>6, <4>7, Zenon
    <3>2. CASE ~(Len(lru) > LruMax)
      <4>1. emitted' = lru
        BY <2>4, <3>2
      <4>2. Len(lru) <= LruMax
        BY <1>1, <2>2, <3>2
      <4>3. QED
        BY <2>2, <2>6, <4>1, <4>2, Zenon
    <3>3. QED
      BY <3>1, <3>2
  <2>8. IsFiniteSet(Announced) /\ IsFiniteSet(Announced')
    BY <2>5, FS_AddElement DEF LruFollows
  <2>9. ASSUME Cardinality(Announced') <= LruMax
        PROVE  Announced' \subseteq ToSet(emitted')
    <3>1. Cardinality(Announced) \in Nat /\ Cardinality(Announced') \in Nat
      BY <2>8, FS_CardinalityType
    <3>2. Announced \subseteq Announced' /\ Cardinality(Announced) <= Cardinality(Announced')
      BY <2>5, <2>8, FS_Subset
    <3>3. Announced = ToSet(emitted)
      <4>1. Cardinality(Announced) <= LruMax
        BY <1>1, <2>9, <3>1, <3>2
      <4>2. QED
        BY <4>1 DEF LruFollows
    <3>4. Cardinality(Announced') = Len(lru)
      BY <2>1, <2>2, <2>5, <2>6, <3>3
    <3>5. emitted' = lru
      BY <1>1, <2>2, <2>4, <2>9, <3>4
    <3>6. QED
      BY <2>2, <2>5, <3>3, <3>5
  <2>10. LruFollows'
    <3>1. ToSet(emitted') \subseteq Announced'
      BY <2>5, <2>7 DEF LruFollows
    <3>2. QED
      BY <2>7, <2>8, <2>9, <3>1 DEF LruFollows
  <2>11. AnnouncedOnceBelowBound
    <3>1. SUFFICES ASSUME e \in Announced
                   PROVE  Cardinality(Announced) > LruMax
      BY <2>3 DEF AnnouncedOnceBelowBound, Announced, Last
    <3>2. Cardinality(Announced) \in Nat
      BY <2>8, FS_CardinalityType
    <3>3. QED
      BY <1>1, <2>1, <3>1, <3>2 DEF LruFollows
  <2>12. QED
    BY <2>3, <2>5, <2>7, <2>10, <2>11
<1>4. QED
  BY <1>2, <1>3, Zenon DEF EmitStored

-----------------------------------------------------------------------------
(***************************************************************************)
(* ApplyNext adds a sound version, and announces what it adds.             *)
(***************************************************************************)
LEMMA ApplyNextKeepsInv ==
  ASSUME ReplicaInv, ApplyNext
  PROVE  /\ ReplicaInv'
         /\ AnnouncedOnceBelowBound
<1> DEFINE n == order[Applied + 1]
           w == ApplyOp(Tip, n)
           Adds == n.type \in {"put", "optimistic", "delete"} /\ n.event \in w.events \ Tip.events
<1>1. TypeOK /\ ViewFollowsOrder /\ LruFollows
  BY DEF ReplicaInv
<1>2. /\ Len(order) \in Nat /\ Len(versions) \in Nat /\ indexed \in Nat
      /\ Applied \in Nat /\ indexed <= Applied /\ Applied < Len(order)
      /\ Applied = Len(versions) - 1
      /\ Tip \in Views /\ Tip = versions[Applied + 1]
  BY <1>1, VersionFacts DEF Applied, Tip, Views, ApplyNext
<1>3. /\ Acked(Tip, n)
      /\ versions' = Append(versions, w)
      /\ IF Adds THEN EmitStored(n.event) ELSE UNCHANGED <<emitted, queue>>
      /\ UNCHANGED <<order, indexed, view, pushed>>
  BY DEF ApplyNext
<1>4. n \in Node
  <2>1. order \in Seq(Node) /\ Applied + 1 \in 1 .. Len(order)
    BY <1>1, <1>2 DEF TypeOK
  <2>2. QED
    BY <2>1, ElementOfSeq
<1>5. ViewInv(Tip) /\ Tip.events \subseteq Announced
  BY <1>2 DEF ReplicaInv
<1> HIDE DEF n
<1>6. ViewInv(w)
  BY <1>3, <1>4, <1>5, ApplyOpKeepsInv
<1>7. /\ CarriesEvent(n) => n.event \in Id
      /\ CarriesEvent(n) => w.events \subseteq Tip.events \cup {n.event}
      /\ ~CarriesEvent(n) => w.events \subseteq Tip.events
  BY <1>4, <1>5, ApplyOpAddsOnly
<1>8. /\ emitted' \in Seq(Id) /\ Len(emitted') <= LruMax
      /\ queue' \in Seq(Id)
      /\ Announced \subseteq Announced'
      /\ w.events \subseteq Announced'
      /\ LruFollows'
      /\ AnnouncedOnceBelowBound
  <2>1. CASE Adds
    <3>1. EmitStored(n.event) /\ n.event \in Id /\ pushed' = pushed
      BY <1>3, <1>7, <2>1 DEF CarriesEvent
    <3>2. w.events \subseteq Tip.events \cup {n.event}
      BY <1>7, <2>1 DEF CarriesEvent
    <3>3. /\ emitted' \in Seq(Id) /\ Len(emitted') <= LruMax
          /\ queue' \in Seq(Id)
          /\ Announced' = Announced \cup {n.event}
          /\ LruFollows'
          /\ AnnouncedOnceBelowBound
      BY <1>1, <3>1, EmitStoredKeepsLru
    <3>4. QED
      BY <1>5, <3>2, <3>3
  <2>2. CASE ~Adds
    <3>1. UNCHANGED <<emitted, queue, pushed>>
      BY <1>3, <2>2
    <3>2. w.events \subseteq Tip.events
      BY <1>7, <2>2 DEF CarriesEvent
    <3>3. Announced' = Announced
      BY <3>1 DEF Announced
    <3>4. LruFollows'
      BY <1>1, <3>1, <3>3 DEF LruFollows
    <3>5. AnnouncedOnceBelowBound
      <4>1. Len(queue) \in Nat
        BY <1>1, LenProperties DEF TypeOK
      <4>2. QED
        BY <3>1, <4>1 DEF AnnouncedOnceBelowBound
    <3>6. QED
      BY <1>1, <1>5, <3>1, <3>2, <3>3, <3>4, <3>5 DEF TypeOK
  <2>3. QED
    BY <2>1, <2>2
<1> HIDE DEF w, Adds
<1>9. /\ versions' \in Seq(View)
      /\ Len(versions') = Len(versions) + 1
      /\ \A i \in 1 .. Len(versions) : versions'[i] = versions[i]
      /\ versions'[Len(versions) + 1] = w
      /\ ToSet(versions') = ToSet(versions) \cup {w}
  <2>1. versions \in Seq(View) /\ w \in View
    BY <1>1, <1>6 DEF TypeOK, ViewInv
  <2>2. QED
    BY <1>3, <2>1, AppendProperties, ElementsOfAppend
<1>10. TypeOK'
  <2>1. (indexed \in 0 .. Len(order))' /\ (Len(versions) \in indexed + 1 .. Len(order) + 1)'
    BY <1>2, <1>3, <1>9
  <2>2. QED
    BY <1>1, <1>3, <1>8, <1>9, <2>1 DEF TypeOK
<1>11. ViewFollowsOrder'
  <2>1. versions'[1] = EmptyView({})
    BY <1>1, <1>2, <1>9 DEF ViewFollowsOrder
  <2>2. ASSUME NEW j \in 1 .. Applied + 1
        PROVE  /\ Acked(versions'[j], order'[j])
               /\ versions'[j + 1] = ApplyOp(versions'[j], order'[j])
    <3>1. CASE j \in 1 .. Applied
      <4>1. Acked(versions[j], order[j]) /\ versions[j + 1] = ApplyOp(versions[j], order[j])
        BY <1>1, <3>1 DEF ViewFollowsOrder
      <4>2. j \in 1 .. Len(versions) /\ j + 1 \in 1 .. Len(versions)
        BY <1>2, <3>1
      <4>3. order'[j] = order[j] /\ versions'[j] = versions[j] /\ versions'[j + 1] = versions[j + 1]
        BY <1>3, <1>9, <4>2
      <4>4. QED
        BY <4>1, <4>3
    <3>2. CASE j = Applied + 1
      <4>1. j \in 1 .. Len(versions) /\ j + 1 = Len(versions) + 1
        BY <1>2, <3>2
      <4>2. order'[j] = n /\ versions'[j] = Tip /\ versions'[j + 1] = w
        BY <1>2, <1>3, <1>9, <3>2, <4>1 DEF n
      <4>3. QED
        BY <1>3, <4>2 DEF w
    <3>3. QED
      BY <1>2, <3>1, <3>2
  <2>3. Applied' = Applied + 1
    BY <1>2, <1>9 DEF Applied
  <2>4. QED
    BY <2>1, <2>2, <2>3 DEF ViewFollowsOrder
<1>12. Views' = Views \cup {w}
  BY <1>3, <1>9 DEF Views
<1>13. QED
  BY <1>6, <1>8, <1>10, <1>11, <1>12 DEF ReplicaInv

LEMMA RollBackKeepsInv ==
  ASSUME ReplicaInv, RollBack
  PROVE  ReplicaInv'
<1>1. TypeOK /\ ViewFollowsOrder
  BY DEF ReplicaInv
<1>2. /\ Len(order) \in Nat /\ Len(versions) \in Nat /\ indexed \in Nat
      /\ Applied \in Nat /\ indexed <= Applied /\ Applied < Len(order)
      /\ Applied = Len(versions) - 1
  BY <1>1, VersionFacts DEF Applied, RollBack
<1>3. order' = RemoveAt(order, Applied + 1) /\ UNCHANGED <<indexed, versions, view, emitVars>>
  BY DEF RollBack
<1>4. /\ order' \in Seq(Node)
      /\ Len(order') = Len(order) - 1
      /\ \A i \in 1 .. Applied : order'[i] = order[i]
  <2>1. order \in Seq(Node) /\ Applied + 1 \in 1 .. Len(order) /\ (Applied + 1) - 1 = Applied
    BY <1>1, <1>2 DEF TypeOK
  <2>2. QED
    BY <1>3, <2>1, RemoveAtElements
<1>5. TypeOK'
  <2>1. (indexed \in 0 .. Len(order))' /\ (Len(versions) \in indexed + 1 .. Len(order) + 1)'
    BY <1>2, <1>3, <1>4
  <2>2. QED
    BY <1>1, <1>3, <1>4, <2>1 DEF TypeOK, emitVars
<1>6. ViewFollowsOrder'
  BY <1>1, <1>3, <1>4 DEF ViewFollowsOrder, Applied
<1>7. Views' = Views /\ Announced' = Announced
  BY <1>3 DEF Views, Announced, emitVars
<1>8. LruFollows'
  BY <1>3, <1>7 DEF ReplicaInv, LruFollows, emitVars
<1>9. QED
  BY <1>5, <1>6, <1>7, <1>8 DEF ReplicaInv

LEMMA FlushKeepsInv ==
  ASSUME ReplicaInv, Flush
  PROVE  ReplicaInv'
<1>1. TypeOK /\ Tip \in ToSet(versions)
  BY VersionFacts DEF ReplicaInv
<1>2. view' = Tip /\ UNCHANGED <<order, indexed, versions, emitVars>>
  BY DEF Flush
<1>3. Views' \subseteq Views /\ Announced' = Announced /\ Tip \in Views
  BY <1>1, <1>2 DEF Views, Announced, emitVars
<1>4. Tip \in View
  BY <1>3 DEF ReplicaInv, ViewInv
<1>5. TypeOK'
  BY <1>1, <1>2, <1>4 DEF TypeOK, emitVars
<1>6. ViewFollowsOrder'
  BY <1>2 DEF ReplicaInv, ViewFollowsOrder, Applied
<1>7. LruFollows'
  BY <1>2, <1>3 DEF ReplicaInv, LruFollows, emitVars
<1>8. QED
  BY <1>3, <1>5, <1>6, <1>7 DEF ReplicaInv

LEMMA CheckpointKeepsInv ==
  ASSUME ReplicaInv, Checkpoint
  PROVE  ReplicaInv'
<1>1. /\ TypeOK
      /\ Len(order) \in Nat /\ Len(versions) \in Nat /\ indexed \in Nat
      /\ Applied \in Nat /\ Applied <= Len(order) /\ Applied = Len(versions) - 1
  BY VersionFacts DEF ReplicaInv, Applied
<1>2. indexed' \in indexed + 1 .. Applied /\ UNCHANGED <<order, versions, view, emitVars>>
  BY DEF Checkpoint
<1>3. (indexed \in 0 .. Len(order))' /\ (Len(versions) \in indexed + 1 .. Len(order) + 1)'
  BY <1>1, <1>2
<1>4. TypeOK'
  BY <1>1, <1>2, <1>3 DEF TypeOK, emitVars
<1>5. Views' = Views /\ Announced' = Announced
  BY <1>2 DEF Views, Announced, emitVars
<1>6. ViewFollowsOrder' /\ LruFollows'
  BY <1>2, <1>5 DEF ReplicaInv, ViewFollowsOrder, LruFollows, Applied, emitVars
<1>7. QED
  BY <1>4, <1>5, <1>6 DEF ReplicaInv

LEMMA EmitKeepsInv ==
  ASSUME ReplicaInv, NEW e \in Id, Emit(e)
  PROVE  ReplicaInv' /\ Announced' = Announced
<1>1. TypeOK /\ queue \in Seq(Id) /\ queue # << >> /\ Head(queue) = e
  BY DEF ReplicaInv, TypeOK, Emit
<1>2. queue' = Tail(queue) /\ pushed' = pushed \cup {e} /\ UNCHANGED <<order, indexed, versions, view, emitted>>
  BY DEF Emit
<1>3. Tail(queue) \in Seq(Id) /\ ToSet(queue) = ToSet(Tail(queue)) \cup {Head(queue)}
  BY <1>1, HeadTailProperties, ElementsOfTail
<1>4. Announced' = Announced /\ Views' = Views
  BY <1>1, <1>2, <1>3 DEF Announced, Views
<1>5. TypeOK'
  BY <1>1, <1>2, <1>3 DEF TypeOK
<1>6. ViewFollowsOrder' /\ LruFollows'
  BY <1>2, <1>4 DEF ReplicaInv, ViewFollowsOrder, LruFollows, Applied
<1>7. QED
  BY <1>4, <1>5, <1>6 DEF ReplicaInv

(* A local node of this peer follows every node. *)
LEMMA AppendLocalKeepsInv ==
  ASSUME ReplicaInv, NEW n \in Node, AppendLocal(n)
  PROVE  ReplicaInv'
<1>1. Len(order) \in Nat /\ indexed \in Nat /\ indexed <= Len(order)
  BY VersionFacts DEF ReplicaInv
<1>2. Len(order) + 1 \in indexed + 1 .. Len(order) + 1
  BY <1>1
<1>3. QED
  BY <1>2, InsertNodeKeepsInv DEF AppendLocal

LEMMA EventNodes ==
  ASSUME NEW e \in Id
  PROVE  /\ [type |-> IF writable THEN "put" ELSE "optimistic", from |-> Self, event |-> e] \in Node
         /\ [type |-> "delete", from |-> Self, event |-> e] \in Node
BY ReplicaAssumption DEF Node

LEMMA ReplicaStep ==
  ASSUME ReplicaInv, [Next]_vars
  PROVE  ReplicaInv'
<1>1. CASE \E n \in Remote, i \in 1 .. MaxNodes : Receive(n, i)
  <2>1. PICK n \in Remote, i \in 1 .. MaxNodes : Receive(n, i)
    BY <1>1
  <2>2. n \in Node
    BY ReplicaAssumption
  <2>3. QED
    BY <2>1, <2>2, InsertNodeKeepsInv DEF Receive
<1>2. CASE \E e \in Id : PutEvent(e)
  <2>1. PICK e \in Id : PutEvent(e)
    BY <1>2
  <2>2. QED
    BY <2>1, EventNodes, AppendLocalKeepsInv DEF PutEvent
<1>3. CASE \E e \in Id : DeleteEvent(e)
  <2>1. PICK e \in Id : DeleteEvent(e)
    BY <1>3
  <2>2. QED
    BY <2>1, EventNodes, AppendLocalKeepsInv DEF DeleteEvent
<1>4. CASE ApplyNext
  BY <1>4, ApplyNextKeepsInv
<1>5. CASE RollBack
  BY <1>5, RollBackKeepsInv
<1>6. CASE Flush
  BY <1>6, FlushKeepsInv
<1>7. CASE Checkpoint
  BY <1>7, CheckpointKeepsInv
<1>8. CASE \E e \in Id : Emit(e)
  BY <1>8, EmitKeepsInv
<1>9. CASE UNCHANGED vars
  <2>1. UNCHANGED <<order, indexed, versions, view, emitted, queue, pushed>>
    BY <1>9 DEF vars
  <2>2. TypeOK' /\ ViewFollowsOrder' /\ LruFollows' /\ Views' = Views /\ Announced' = Announced
    BY <2>1 DEF ReplicaInv, TypeOK, ViewFollowsOrder, LruFollows, Views, Announced, Applied
  <2>3. QED
    BY <2>2 DEF ReplicaInv
<1>10. QED
  BY <1>1, <1>2, <1>3, <1>4, <1>5, <1>6, <1>7, <1>8, <1>9 DEF Next

LEMMA ReplicaInvAlways == Spec => []ReplicaInv
<1>1. Init => ReplicaInv
  BY ReplicaInitInv
<1>2. ReplicaInv /\ [Next]_vars => ReplicaInv'
  BY ReplicaStep
<1>3. QED
  BY <1>1, <1>2, PTL DEF Spec

(***************************************************************************)
(* Every variable has its type, for every log and every bound.             *)
(***************************************************************************)
THEOREM ReplicaTypeCorrect == Spec => []TypeOK
<1>1. ReplicaInv => TypeOK
  BY DEF ReplicaInv
<1>2. QED
  BY <1>1, ReplicaInvAlways, PTL

(***************************************************************************)
(* Whatever order the nodes of other peers arrive in, no version of the    *)
(* view that a reader may be served breaks an invariant of the store       *)
(* (apply in store.ts, re-run after every reorder).                        *)
(***************************************************************************)
THEOREM EveryVersionIsSound == Spec => []EveryViewSound
<1>1. ReplicaInv => EveryViewSound
  BY DEF ReplicaInv, EveryViewSound, Views, ViewInv
<1>2. QED
  BY <1>1, ReplicaInvAlways, PTL

(***************************************************************************)
(* The views are a function of the order of the log: truncation and        *)
(* re-application leave no trace of the orders a peer has been through.    *)
(***************************************************************************)
THEOREM OrderDecidesViews == Spec => []ViewFollowsOrder
<1>1. ReplicaInv => ViewFollowsOrder
  BY DEF ReplicaInv
<1>2. QED
  BY <1>1, ReplicaInvAlways, PTL

(***************************************************************************)
(* emitStored's LRU never swallows the only announcement of an event a     *)
(* reader can be served.                                                   *)
(***************************************************************************)
THEOREM NothingStoredSilently == Spec => []StoredIsAnnounced
<1>1. ReplicaInv => StoredIsAnnounced
  <2>1. SUFFICES ASSUME ReplicaInv PROVE StoredIsAnnounced
    OBVIOUS
  <2>2. Tip \in Views /\ view \in Views
    BY <2>1, VersionFacts DEF ReplicaInv, Views
  <2>3. QED
    BY <2>1, <2>2 DEF ReplicaInv, StoredIsAnnounced, Announced
<1>2. QED
  BY <1>1, ReplicaInvAlways, PTL

(***************************************************************************)
(* Below STORED_EMIT_LRU_MAX distinct events, re-applying the log          *)
(* announces none of them twice.                                           *)
(***************************************************************************)
LEMMA QuietQueue ==
  ASSUME ReplicaInv, queue' = queue
  PROVE  AnnouncedOnceBelowBound
<1>1. Len(queue) \in Nat
  BY LenProperties DEF ReplicaInv, TypeOK
<1>2. QED
  BY <1>1 DEF AnnouncedOnceBelowBound

LEMMA ReplicaStepAnnounces ==
  ASSUME ReplicaInv, [Next]_vars
  PROVE  AnnouncedOnceBelowBound
<1>1. CASE ApplyNext
  BY <1>1, ApplyNextKeepsInv
<1>2. CASE \E e \in Id : Emit(e)
  <2>1. queue \in Seq(Id) /\ queue # << >> /\ queue' = Tail(queue)
    BY <1>2 DEF ReplicaInv, TypeOK, Emit
  <2>2. Len(queue) \in Nat /\ Len(Tail(queue)) = Len(queue) - 1
    BY <2>1, LenProperties, HeadTailProperties
  <2>3. QED
    BY <2>1, <2>2 DEF AnnouncedOnceBelowBound
<1>3. CASE \/ \E n \in Remote, i \in 1 .. MaxNodes : Receive(n, i)
           \/ \E e \in Id : PutEvent(e)
           \/ \E e \in Id : DeleteEvent(e)
           \/ RollBack \/ Flush \/ Checkpoint \/ UNCHANGED vars
  <2>1. queue' = queue
    BY <1>3 DEF Receive, PutEvent, DeleteEvent, AppendLocal, RollBack, Flush, Checkpoint, emitVars, vars
  <2>2. QED
    BY <2>1, QuietQueue
<1>4. QED
  BY <1>1, <1>2, <1>3 DEF Next

(***************************************************************************)
(* A second announcement of an event takes more than STORED_EMIT_LRU_MAX   *)
(* distinct ids: below the bound a reorder announces nothing again.        *)
(***************************************************************************)
THEOREM AnnouncedOnce == Spec => NoDuplicatePush
<1>1. ReplicaInv /\ [Next]_vars => [AnnouncedOnceBelowBound]_vars
  BY ReplicaStepAnnounces
<1>2. QED
  BY <1>1, ReplicaInvAlways, PTL DEF Spec, NoDuplicatePush

-----------------------------------------------------------------------------
(***************************************************************************)
(* Who may write at each place of the log.  A reorder takes views back, so *)
(* the writers of the versions applied so far say nothing of the nodes     *)
(* that wait.  A chain of admissions does: s[i] are keys that nodes before *)
(* the i-th, applied or waiting, lead to from the founder, the cap left    *)
(* aside.  An arrival shifts it and a rollback cuts it where the cap is    *)
(* full, so no induction over the log is needed.                           *)
(***************************************************************************)
Full(W)    == Cardinality(W) >= MaxWriters
Seated(W)  == Self \in W \cup {Founder} \/ Full(W)
Durable(n) == n.from = Self /\ n.type # "optimistic"

Chain(q, s) ==
  /\ s \in [1 .. Len(q) + 1 -> SUBSET Key]
  /\ \A i, l \in 1 .. Len(q) + 1 : i <= l => s[i] \subseteq s[l]
  /\ \A i \in 1 .. Len(q) : \A k \in s[i + 1] \ s[i] :
       /\ q[i].type = "add_writer" /\ q[i].key = k /\ k # Founder
       /\ q[i].from \in s[i] \cup {Founder}

(* What apply has admitted is in the chain, and the rest of the chain is   *)
(* missing only from a view whose cap is full.                             *)
Tracks(vs, s) ==
  \A i \in 1 .. Len(vs) :
    /\ Writers(vs[i]) \subseteq s[i]
    /\ s[i] \subseteq Writers(vs[i]) \/ Full(Writers(vs[i]))

OwnSeated(q, s)      == \A i \in 1 .. Len(q) : Durable(q[i]) => Seated(s[i])
ViewSeated(q, vw, s) == Writers(vw) \subseteq s[Len(q) + 1] \/ Full(s[Len(q) + 1])

Seats(q, vs, vw, s) ==
  /\ Chain(q, s)
  /\ Tracks(vs, s)
  /\ OwnSeated(q, s)
  /\ ViewSeated(q, vw, s)

WritersGrow ==
  \A i, l \in 1 .. Len(versions) : i <= l => Writers(versions[i]) \subseteq Writers(versions[l])

SeatInv == WritersGrow /\ \E s : Seats(order, versions, view, s)

LEMMA FullGrows ==
  ASSUME NEW W, NEW X \in SUBSET Key, W \subseteq X
  PROVE  /\ Cardinality(W) \in Nat /\ Cardinality(X) \in Nat
         /\ Cardinality(W) <= Cardinality(X)
         /\ Full(W) => Full(X)
         /\ Seated(W) => Seated(X)
<1>1. IsFiniteSet(X)
  BY StoreAssumption, FS_Subset
<1>2. IsFiniteSet(W) /\ Cardinality(W) <= Cardinality(X)
  BY <1>1, FS_Subset
<1>3. Cardinality(W) \in Nat /\ Cardinality(X) \in Nat
  BY <1>1, <1>2, FS_CardinalityType
<1>4. Full(W) => Full(X)
  BY <1>2, <1>3, StoreAssumption DEF Full
<1>5. QED
  BY <1>2, <1>3, <1>4 DEF Seated

(* Of the ops only add_writer touches the writers sub. *)
LEMMA EventOpsAdmitNobody ==
  ASSUME NEW v, ViewInv(v), NEW e \in Id
  PROVE  /\ Writers(ApplyPut(v, e)) = Writers(v)
         /\ Writers(ApplyDelete(v, e)) = Writers(v)
<1>1. ApplyPut(v, e).addedBy = v.addedBy
  <2>1. CASE PutStores(v, e)
    BY <2>1, ApplyPutEffect
  <2>2. CASE ~PutStores(v, e)
    BY <2>2 DEF ApplyPut
  <2>3. QED
    BY <2>1, <2>2
<1>2. ApplyDelete(v, e).addedBy = v.addedBy
  <2> DEFINE r == RemoveEvents(v, Deletable(v, e))
             u == Entomb(r, e)
  <2>1. v \in View /\ Deletable(v, e) \in SUBSET Id
    BY DEF ViewInv, View, Deletable
  <2>2. r \in View /\ r.addedBy = v.addedBy
    BY <2>1, RemoveEventsFields
  <2> HIDE DEF r
  <2>3. u \in View /\ u.addedBy = r.addedBy
    BY <2>2, EntombFields
  <2> HIDE DEF u
  <2>4. Previous(u, e) \in SUBSET Id
    BY <2>3 DEF Previous, View
  <2>5. Store(RemoveIndexes(u, Previous(u, e)), e).addedBy = u.addedBy
    BY <2>3, <2>4, StoreFields
  <2>6. ApplyPut(u, e).addedBy = u.addedBy
    BY <2>5 DEF ApplyPut
  <2>7. QED
    BY <2>2, <2>3, <2>6 DEF ApplyDelete, r, u
<1>3. QED
  BY <1>1, <1>2 DEF Writers

LEMMA OnlyAddWriterAdmits ==
  ASSUME NEW v, ViewInv(v), NEW n \in Node, n.type # "add_writer"
  PROVE  Writers(ApplyOp(v, n)) = Writers(v)
<1>1. v \in View
  BY DEF ViewInv
<1>2. CASE n.type = "put"
  BY <1>2, NodeCases, EventOpsAdmitNobody DEF ApplyOp
<1>3. CASE n.type = "optimistic"
  BY <1>3, NodeCases, EventOpsAdmitNobody DEF ApplyOp, ApplyOptimistic
<1>4. CASE n.type = "delete"
  BY <1>4, NodeCases, EventOpsAdmitNobody DEF ApplyOp
<1>5. CASE n.type = "expiry_delete"
  <2>1. {e \in n.ids \cap v.events : Expires(e)} \in SUBSET Id
    BY <1>1 DEF View
  <2>2. ApplyOp(v, n) = ApplyExpiryDelete(v, n.from, n.ids)
    BY <1>5 DEF ApplyOp
  <2>3. RemoveEvents(v, {e \in n.ids \cap v.events : Expires(e)}).addedBy = v.addedBy
    BY <1>1, <2>1, RemoveEventsFields
  <2>4. ApplyOp(v, n).addedBy = v.addedBy
    BY <2>2, <2>3 DEF ApplyExpiryDelete
  <2>5. QED
    BY <2>4 DEF Writers
<1>6. CASE n.type = "prune_delete"
  <2>1. n.ids \cap v.events \in SUBSET Id
    BY <1>1 DEF View
  <2>2. ApplyOp(v, n) = ApplyPruneDelete(v, n.from, n.ids)
    BY <1>6 DEF ApplyOp
  <2>3. RemoveEvents(v, n.ids \cap v.events).addedBy = v.addedBy
    BY <1>1, <2>1, RemoveEventsFields
  <2>4. ApplyOp(v, n).addedBy = v.addedBy
    BY <2>2, <2>3 DEF ApplyPruneDelete
  <2>5. QED
    BY <2>4 DEF Writers
<1>7. CASE n.type = "set_config"
  <2>1. ApplyOp(v, n).addedBy = v.addedBy
    BY <1>1, <1>7 DEF ApplyOp, ApplySetConfig, View
  <2>2. QED
    BY <2>1 DEF Writers
<1>8. QED
  BY <1>2, <1>3, <1>4, <1>5, <1>6, <1>7, NodeCases

LEMMA AddWriterAdmits ==
  ASSUME NEW v, ViewInv(v), NEW n \in Node, n.type = "add_writer", Acked(v, n)
  PROVE  Writers(ApplyOp(v, n)) =
           IF /\ n.key # Founder /\ n.key \notin Writers(v)
              /\ Cardinality(Writers(v)) < MaxWriters
           THEN Writers(v) \cup {n.key} ELSE Writers(v)
<1> DEFINE w == [v EXCEPT !.addedBy[n.key] = n.from]
<1>1. v \in View /\ n.key \in Key /\ n.from \in Key /\ n.from # None
  BY StoreAssumption DEF ViewInv, Node
<1>2. ApplyOp(v, n) = ApplyAddWriter(v, n.from, n.key)
  BY DEF ApplyOp
<1>3. \A k \in Key : w.addedBy[k] = IF k = n.key THEN n.from ELSE v.addedBy[k]
  BY <1>1 DEF View
<1> HIDE DEF w
<1>4. Writers(w) = Writers(v) \cup {n.key}
  BY <1>1, <1>3 DEF Writers
<1>5. QED
  BY <1>2, <1>4 DEF ApplyAddWriter, w

(* The writers only grow, and apply honours each link of a chain unless    *)
(* the cap is full.                                                        *)
LEMMA ApplyFollowsChain ==
  ASSUME NEW v, ViewInv(v), NEW n \in Node, Acked(v, n)
  PROVE  /\ Writers(v) \subseteq Writers(ApplyOp(v, n))
         /\ \A k \in Writers(ApplyOp(v, n)) \ Writers(v) :
              /\ n.type = "add_writer" /\ n.key = k /\ k # Founder
              /\ n.from \in MayWrite(v)
         /\ n.type = "add_writer" /\ n.key # Founder =>
              n.key \in Writers(ApplyOp(v, n)) \/ Full(Writers(v))
<1>1. CASE n.type # "add_writer"
  BY <1>1, OnlyAddWriterAdmits
<1>2. CASE n.type = "add_writer"
  <2>1. n.from \in MayWrite(v)
    BY <1>2 DEF Acked
  <2>2. Cardinality(Writers(v)) \in Nat
    BY FullGrows DEF Writers
  <2>3. ~(Cardinality(Writers(v)) < MaxWriters) => Full(Writers(v))
    BY <2>2, StoreAssumption DEF Full
  <2>4. QED
    BY <1>2, <2>1, <2>3, AddWriterAdmits
<1>3. QED
  BY <1>1, <1>2

LEMMA SeatsAtInit == Init => SeatInv
<1> SUFFICES ASSUME Init PROVE SeatInv
  OBVIOUS
<1>1. /\ Len(order) = 0 /\ Len(versions) = 1
      /\ versions[1] = EmptyView({}) /\ view = EmptyView({})
  BY DEF Init
<1>2. Writers(EmptyView({})) = {}
  BY DEF Writers, EmptyView
<1>3. PICK s : s = [i \in 1 .. 1 |-> {}]
  OBVIOUS
<1>4. s \in [1 .. 1 -> SUBSET Key] /\ s[1] = {}
  BY <1>3
<1>5. Chain(order, s) /\ Tracks(versions, s) /\ OwnSeated(order, s) /\ ViewSeated(order, view, s)
  BY <1>1, <1>2, <1>4 DEF Chain, Tracks, OwnSeated, ViewSeated
<1>6. WritersGrow
  BY <1>1 DEF WritersGrow
<1>7. QED
  BY <1>5, <1>6 DEF SeatInv, Seats

(* An arrival shifts the chain behind it; a durable node of this peer has  *)
(* its seat when it is logged.                                             *)
LEMMA SeatsAfterInsert ==
  ASSUME NEW q \in Seq(Node), NEW vs, NEW vw, NEW s, Seats(q, vs, vw, s),
         NEW n \in Node, NEW p \in 1 .. Len(q) + 1,
         Durable(n) => p = Len(q) + 1 /\ Self \in MayWrite(vw),
         NEW ws, Len(ws) \in Nat, Len(ws) <= p,
         Len(vs) \in Nat, Len(ws) <= Len(vs), \A i \in 1 .. Len(ws) : ws[i] = vs[i]
  PROVE  \E t : Seats(InsertAt(q, p, n), ws, vw, t)
<1>1. PICK o : o = InsertAt(q, p, n)
  OBVIOUS
<1>2. /\ Len(q) \in Nat /\ Len(o) = Len(q) + 1
      /\ \A i \in 1 .. p - 1 : o[i] = q[i]
      /\ o[p] = n
      /\ \A i \in p .. Len(q) : o[i + 1] = q[i]
  BY <1>1, LenProperties, InsertAtElements
<1>3. PICK t : t = [i \in 1 .. Len(o) + 1 |-> IF i <= p THEN s[i] ELSE s[i - 1]]
  OBVIOUS
<1>4. /\ s \in [1 .. Len(q) + 1 -> SUBSET Key]
      /\ \A i, l \in 1 .. Len(q) + 1 : i <= l => s[i] \subseteq s[l]
      /\ \A i \in 1 .. Len(q) : \A k \in s[i + 1] \ s[i] :
           /\ q[i].type = "add_writer" /\ q[i].key = k /\ k # Founder
           /\ q[i].from \in s[i] \cup {Founder}
  BY DEF Seats, Chain
<1>5. /\ t \in [1 .. Len(o) + 1 -> SUBSET Key]
      /\ \A i \in 1 .. p : t[i] = s[i]
      /\ \A i \in p .. Len(q) + 1 : t[i + 1] = s[i]
  <2>1. ASSUME NEW i \in 1 .. Len(o) + 1
        PROVE  (IF i <= p THEN s[i] ELSE s[i - 1]) \in SUBSET Key
    <3>1. CASE i <= p
      <4>1. i \in 1 .. Len(q) + 1
        BY <3>1
      <4>2. QED
        BY <1>4, <3>1, <4>1
    <3>2. CASE ~(i <= p)
      <4>1. i - 1 \in 1 .. Len(q) + 1
        BY <1>2, <3>2
      <4>2. QED
        BY <1>4, <3>2, <4>1
    <3>3. QED
      BY <3>1, <3>2
  <2>2. t \in [1 .. Len(o) + 1 -> SUBSET Key]
    BY <1>3, <2>1
  <2>3. \A i \in 1 .. p : i \in 1 .. Len(o) + 1 /\ t[i] = s[i]
    BY <1>2, <1>3
  <2>4. ASSUME NEW i \in p .. Len(q) + 1
        PROVE  t[i + 1] = s[i]
    <3>1. i + 1 \in 1 .. Len(o) + 1 /\ ~(i + 1 <= p) /\ (i + 1) - 1 = i
      BY <1>2
    <3>2. QED
      BY <1>3, <3>1
  <2>5. QED
    BY <2>2, <2>3, <2>4
<1>6. ASSUME NEW i \in 1 .. Len(o) + 1
      PROVE  \E a \in 1 .. Len(q) + 1 :
               /\ t[i] = s[a]
               /\ a = IF i <= p THEN i ELSE i - 1
  <2>1. CASE i <= p
    BY <1>2, <1>5, <2>1
  <2>2. CASE ~(i <= p)
    <3>1. i - 1 \in p .. Len(q) + 1 /\ (i - 1) + 1 = i /\ i - 1 \in 1 .. Len(q) + 1
      BY <1>2, <2>2
    <3>2. t[i] = s[i - 1]
      BY <1>5, <3>1
    <3>3. QED
      BY <2>2, <3>1, <3>2
  <2>3. QED
    BY <2>1, <2>2
<1>7. ASSUME NEW i \in 1 .. Len(o) + 1, NEW l \in 1 .. Len(o) + 1, i <= l
      PROVE  t[i] \subseteq t[l]
  <2>1. PICK a \in 1 .. Len(q) + 1 : t[i] = s[a] /\ a = IF i <= p THEN i ELSE i - 1
    BY <1>6
  <2>2. PICK b \in 1 .. Len(q) + 1 : t[l] = s[b] /\ b = IF l <= p THEN l ELSE l - 1
    BY <1>6
  <2>3. a <= b
    BY <1>7, <2>1, <2>2
  <2>4. QED
    BY <1>4, <2>1, <2>2, <2>3
(* Where the nodes of the new log come from. *)
<1>8. ASSUME NEW i \in 1 .. Len(o), i # p
      PROVE  \E a \in 1 .. Len(q) : o[i] = q[a] /\ t[i] = s[a] /\ t[i + 1] = s[a + 1]
  <2>1. CASE i < p
    <3>1. i \in 1 .. p - 1 /\ i \in 1 .. p /\ i + 1 \in 1 .. p /\ i \in 1 .. Len(q)
      BY <1>2, <2>1
    <3>2. QED
      BY <1>2, <1>5, <3>1
  <2>2. CASE i > p
    <3>0. i - 1 \in 1 .. Len(q) /\ i = (i - 1) + 1 /\ i - 1 >= p
      BY <1>2, <2>2
    <3>1. PICK a \in 1 .. Len(q) : i = a + 1 /\ a >= p
      BY <3>0
    <3>2. a \in p .. Len(q) /\ a \in p .. Len(q) + 1 /\ a + 1 \in p .. Len(q) + 1
      BY <1>2, <3>1
    <3>3. o[a + 1] = q[a] /\ t[a + 1] = s[a] /\ t[(a + 1) + 1] = s[a + 1]
      BY <1>2, <1>5, <3>2
    <3>4. QED
      BY <3>1, <3>3
  <2>3. QED
    BY <1>2, <1>8, <2>1, <2>2
<1>9. t[p] = s[p] /\ t[p + 1] = s[p]
  BY <1>2, <1>5
<1>10. Chain(o, t)
  <2>1. ASSUME NEW i \in 1 .. Len(o), NEW k \in t[i + 1] \ t[i]
        PROVE  /\ o[i].type = "add_writer" /\ o[i].key = k /\ k # Founder
               /\ o[i].from \in t[i] \cup {Founder}
    <3>1. i # p
      BY <1>9, <2>1
    <3>2. PICK a \in 1 .. Len(q) : o[i] = q[a] /\ t[i] = s[a] /\ t[i + 1] = s[a + 1]
      BY <1>8, <3>1
    <3>3. QED
      BY <1>4, <2>1, <3>2
  <2>2. QED
    BY <1>5, <1>7, <2>1 DEF Chain
<1>11. Tracks(ws, t)
  <2>1. SUFFICES ASSUME NEW i \in 1 .. Len(ws)
                 PROVE  /\ Writers(ws[i]) \subseteq t[i]
                        /\ t[i] \subseteq Writers(ws[i]) \/ Full(Writers(ws[i]))
    BY DEF Tracks
  <2>2. i \in 1 .. Len(vs) /\ i \in 1 .. p
    OBVIOUS
  <2>3. ws[i] = vs[i] /\ t[i] = s[i]
    BY <1>5, <2>2
  <2>4. QED
    BY <2>2, <2>3 DEF Seats, Tracks
<1>12. OwnSeated(o, t)
  <2>1. SUFFICES ASSUME NEW i \in 1 .. Len(o), Durable(o[i])
                 PROVE  Seated(t[i])
    BY DEF OwnSeated
  <2>2. CASE i = p
    <3>1. p = Len(q) + 1 /\ Self \in MayWrite(vw)
      BY <1>2, <2>1, <2>2
    <3>2. t[i] = s[Len(q) + 1]
      BY <1>9, <2>2, <3>1
    <3>3. QED
      BY <3>1, <3>2 DEF Seats, ViewSeated, Seated, MayWrite
  <2>3. CASE i # p
    <3>1. PICK a \in 1 .. Len(q) : o[i] = q[a] /\ t[i] = s[a]
      BY <1>8, <2>3
    <3>2. QED
      BY <2>1, <3>1 DEF Seats, OwnSeated
  <2>4. QED
    BY <2>2, <2>3
<1>13. ViewSeated(o, vw, t)
  <2>1. t[Len(o) + 1] = s[Len(q) + 1]
    BY <1>2, <1>5
  <2>2. QED
    BY <2>1 DEF Seats, ViewSeated
<1>14. QED
  BY <1>1, <1>10, <1>11, <1>12, <1>13 DEF Seats

(* apply honours what is next in the chain or finds the cap full; what it  *)
(* honours that the chain passed over joins the chain behind it.           *)
LEMMA SeatsAfterApply ==
  ASSUME NEW q \in Seq(Node), NEW vs, NEW vw, NEW s, Seats(q, vs, vw, s),
         NEW a \in 1 .. Len(q), Len(vs) = a, ViewInv(vs[a]), Acked(vs[a], q[a]),
         NEW ws, Len(ws) = a + 1, \A i \in 1 .. a : ws[i] = vs[i],
         ws[a + 1] = ApplyOp(vs[a], q[a])
  PROVE  \E t : Seats(q, ws, vw, t)
<1>1. PICK D : D = Writers(ws[a + 1]) \ Writers(vs[a])
  OBVIOUS
<1>2. PICK t : t = [i \in 1 .. Len(q) + 1 |-> IF i <= a THEN s[i] ELSE s[i] \cup D]
  OBVIOUS
<1>3. /\ Len(q) \in Nat /\ a \in 1 .. Len(q) + 1 /\ a + 1 \in 1 .. Len(q) + 1
      /\ a <= a /\ ~(a + 1 <= a) /\ a <= a + 1
  BY LenProperties
<1>4. /\ s \in [1 .. Len(q) + 1 -> SUBSET Key]
      /\ \A i, l \in 1 .. Len(q) + 1 : i <= l => s[i] \subseteq s[l]
      /\ \A i \in 1 .. Len(q) : \A k \in s[i + 1] \ s[i] :
           /\ q[i].type = "add_writer" /\ q[i].key = k /\ k # Founder
           /\ q[i].from \in s[i] \cup {Founder}
  BY DEF Seats, Chain
<1>5. q[a] \in Node
  BY ElementOfSeq
<1>6. /\ Writers(vs[a]) \subseteq Writers(ws[a + 1])
      /\ \A k \in D : /\ q[a].type = "add_writer" /\ q[a].key = k /\ k # Founder
                      /\ q[a].from \in MayWrite(vs[a])
      /\ q[a].type = "add_writer" /\ q[a].key # Founder =>
           q[a].key \in Writers(ws[a + 1]) \/ Full(Writers(vs[a]))
  BY <1>1, <1>5, ApplyFollowsChain
<1>7. /\ Writers(vs[a]) \subseteq s[a]
      /\ s[a] \subseteq Writers(vs[a]) \/ Full(Writers(vs[a]))
  BY <1>3 DEF Seats, Tracks
<1>8. D \in SUBSET Key /\ Writers(ws[a + 1]) \in SUBSET Key
  BY <1>1 DEF Writers
<1>9. /\ t \in [1 .. Len(q) + 1 -> SUBSET Key]
      /\ \A i \in 1 .. Len(q) + 1 : t[i] = IF i <= a THEN s[i] ELSE s[i] \cup D
  BY <1>2, <1>4, <1>8
<1>10. \A i \in 1 .. Len(q) + 1 : s[i] \subseteq t[i] /\ s[i] \in SUBSET Key /\ t[i] \in SUBSET Key
  BY <1>4, <1>9
<1>11. ASSUME NEW i \in 1 .. Len(q) + 1, NEW l \in 1 .. Len(q) + 1, i <= l
       PROVE  t[i] \subseteq t[l]
  <2>1. s[i] \subseteq s[l]
    BY <1>4, <1>11
  <2>2. l <= a => i <= a
    BY <1>11
  <2>3. QED
    BY <1>9, <2>1, <2>2
<1>12. ASSUME NEW i \in 1 .. Len(q), NEW k \in t[i + 1] \ t[i]
       PROVE  /\ q[i].type = "add_writer" /\ q[i].key = k /\ k # Founder
              /\ q[i].from \in t[i] \cup {Founder}
  <2>1. i \in 1 .. Len(q) + 1 /\ i + 1 \in 1 .. Len(q) + 1
    BY <1>3
  <2>2. CASE k \in s[i + 1] \ s[i]
    BY <1>4, <1>10, <2>1, <2>2
  <2>3. CASE k \notin s[i + 1] \ s[i]
    <3>1. ~(i + 1 <= a) /\ i <= a /\ k \in D
      BY <1>9, <1>12, <2>1, <2>3
    <3>2. i = a
      BY <1>3, <3>1
    <3>3. q[a].from \in s[a] \cup {Founder}
      BY <1>6, <1>7, <3>1 DEF MayWrite
    <3>4. QED
      BY <1>6, <1>10, <2>1, <3>1, <3>2, <3>3
  <2>4. QED
    BY <2>2, <2>3
<1>13. Chain(q, t)
  BY <1>9, <1>11, <1>12 DEF Chain
<1>14. Tracks(ws, t)
  <2>1. SUFFICES ASSUME NEW i \in 1 .. a + 1
                 PROVE  /\ Writers(ws[i]) \subseteq t[i]
                        /\ t[i] \subseteq Writers(ws[i]) \/ Full(Writers(ws[i]))
    BY DEF Tracks
  <2>2. CASE i <= a
    <3>1. i \in 1 .. a /\ i \in 1 .. Len(q) + 1
      BY <1>3, <2>2
    <3>2. t[i] = s[i] /\ ws[i] = vs[i]
      BY <1>9, <2>2, <3>1
    <3>3. QED
      BY <3>1, <3>2 DEF Seats, Tracks
  <2>3. CASE i = a + 1
    <3>1. t[a + 1] = s[a + 1] \cup D
      BY <1>3, <1>9
    <3>2. s[a] \subseteq s[a + 1]
      BY <1>3, <1>4
    <3>3. Writers(ws[a + 1]) \subseteq t[a + 1]
      BY <1>1, <1>7, <3>1, <3>2
    <3>4. CASE Full(Writers(vs[a]))
      BY <1>6, <1>8, <2>3, <3>3, <3>4, FullGrows
    <3>5. CASE ~Full(Writers(vs[a]))
      <4>1. s[a] \subseteq Writers(ws[a + 1])
        BY <1>6, <1>7, <3>5
      <4>2. \A k \in s[a + 1] \ s[a] : k \in Writers(ws[a + 1])
        BY <1>4, <1>6, <3>5
      <4>3. D \subseteq Writers(ws[a + 1])
        BY <1>1
      <4>4. QED
        BY <2>3, <3>1, <3>3, <4>1, <4>2, <4>3
    <3>6. QED
      BY <3>4, <3>5
  <2>4. QED
    BY <1>3, <2>2, <2>3
<1>15. OwnSeated(q, t)
  <2>1. SUFFICES ASSUME NEW i \in 1 .. Len(q), Durable(q[i])
                 PROVE  Seated(t[i])
    BY DEF OwnSeated
  <2>2. Seated(s[i])
    BY <2>1 DEF Seats, OwnSeated
  <2>3. i \in 1 .. Len(q) + 1
    BY <1>3
  <2>4. QED
    BY <1>10, <2>2, <2>3, FullGrows
<1>16. ViewSeated(q, vw, t)
  <2>1. Len(q) + 1 \in 1 .. Len(q) + 1
    BY <1>3
  <2>2. s[Len(q) + 1] \subseteq t[Len(q) + 1] /\ t[Len(q) + 1] \in SUBSET Key
    BY <1>10, <2>1
  <2>3. Full(s[Len(q) + 1]) => Full(t[Len(q) + 1])
    BY <2>2, FullGrows
  <2>4. QED
    BY <2>2, <2>3 DEF Seats, ViewSeated
<1>17. QED
  BY <1>13, <1>14, <1>15, <1>16 DEF Seats

(* The block that apply does not honour is no link of the chain, or the    *)
(* cap is full: then the chain ends here, and so do the claims behind it.  *)
LEMMA SeatsAfterRollBack ==
  ASSUME NEW q \in Seq(Node), NEW vs, NEW vw, NEW s, Seats(q, vs, vw, s),
         NEW a \in 1 .. Len(q), Len(vs) = a, ~Acked(vs[a], q[a])
  PROVE  \E t : Seats(RemoveAt(q, a), vs, vw, t)
<1>1. PICK o : o = RemoveAt(q, a)
  OBVIOUS
<1>2. /\ Len(q) \in Nat /\ Len(o) = Len(q) - 1 /\ Len(o) \in Nat
      /\ \A i \in 1 .. a - 1 : o[i] = q[i]
      /\ \A i \in a .. Len(o) : o[i] = q[i + 1]
  BY <1>1, LenProperties, RemoveAtElements
<1>3. /\ s \in [1 .. Len(q) + 1 -> SUBSET Key]
      /\ \A i, l \in 1 .. Len(q) + 1 : i <= l => s[i] \subseteq s[l]
      /\ \A i \in 1 .. Len(q) : \A k \in s[i + 1] \ s[i] :
           /\ q[i].type = "add_writer" /\ q[i].key = k /\ k # Founder
           /\ q[i].from \in s[i] \cup {Founder}
  BY DEF Seats, Chain
<1>4. /\ Writers(vs[a]) \subseteq s[a]
      /\ s[a] \subseteq Writers(vs[a]) \/ Full(Writers(vs[a]))
      /\ s[a] \in SUBSET Key /\ s[a] \subseteq s[a + 1]
  <2>1. a \in 1 .. Len(vs) /\ a \in 1 .. Len(q) + 1 /\ a + 1 \in 1 .. Len(q) + 1 /\ a <= a + 1
    BY <1>2
  <2>2. QED
    BY <1>3, <2>1 DEF Seats, Tracks
<1>5. ASSUME s[a + 1] # s[a]
      PROVE  Full(s[a])
  <2>1. PICK k \in s[a + 1] \ s[a] : TRUE
    BY <1>4, <1>5
  <2>2. q[a].type = "add_writer" /\ q[a].from \in s[a] \cup {Founder}
    BY <1>3, <2>1
  <2>3. q[a].from \notin MayWrite(vs[a])
    BY <2>2 DEF Acked
  <2>4. Full(Writers(vs[a]))
    BY <1>4, <2>2, <2>3 DEF MayWrite
  <2>5. QED
    BY <1>4, <2>4, FullGrows
<1>6. CASE s[a + 1] = s[a]
  <2>1. PICK t : t = [i \in 1 .. Len(o) + 1 |-> IF i <= a THEN s[i] ELSE s[i + 1]]
    OBVIOUS
  <2>2. ASSUME NEW i \in 1 .. Len(o) + 1
        PROVE  \E b \in 1 .. Len(q) + 1 :
                 t[i] = s[b] /\ b = (IF i <= a THEN i ELSE i + 1)
    <3>1. i \in 1 .. Len(q) + 1 /\ i + 1 \in 1 .. Len(q) + 1
      BY <1>2
    <3>2. QED
      BY <2>1, <3>1
  <2>3. t \in [1 .. Len(o) + 1 -> SUBSET Key]
    <3>1. \A i \in 1 .. Len(o) + 1 : t[i] \in SUBSET Key
      BY <1>3, <2>2
    <3>2. QED
      BY <2>1, <3>1
  <2>4. ASSUME NEW i \in 1 .. Len(o) + 1, NEW l \in 1 .. Len(o) + 1, i <= l
        PROVE  t[i] \subseteq t[l]
    <3>1. PICK b \in 1 .. Len(q) + 1 : t[i] = s[b] /\ b = (IF i <= a THEN i ELSE i + 1)
      BY <2>2
    <3>2. PICK c \in 1 .. Len(q) + 1 : t[l] = s[c] /\ c = (IF l <= a THEN l ELSE l + 1)
      BY <2>2
    <3>3. b <= c
      BY <2>4, <3>1, <3>2
    <3>4. QED
      BY <1>3, <3>1, <3>2, <3>3
  <2>5. \A i \in 1 .. a : t[i] = s[i]
    BY <1>2, <2>1
  <2>6. ASSUME NEW i \in a .. Len(o) + 1
        PROVE  t[i] = s[i + 1]
    <3>1. i \in 1 .. Len(o) + 1
      BY <1>2
    <3>2. CASE i = a
      BY <1>6, <2>5, <3>2
    <3>3. CASE i # a
      BY <2>1, <3>1, <3>3
    <3>4. QED
      BY <3>2, <3>3
  <2>7. ASSUME NEW i \in 1 .. Len(o)
        PROVE  \E b \in 1 .. Len(q) : o[i] = q[b] /\ t[i] = s[b] /\ t[i + 1] = s[b + 1]
    <3>1. CASE i < a
      <4>1. i \in 1 .. a - 1 /\ i \in 1 .. a /\ i + 1 \in 1 .. a /\ i \in 1 .. Len(q)
        BY <1>2, <3>1
      <4>2. QED
        BY <1>2, <2>5, <4>1
    <3>2. CASE ~(i < a)
      <4>1. /\ i \in a .. Len(o) /\ i \in a .. Len(o) + 1 /\ i + 1 \in a .. Len(o) + 1
            /\ i + 1 \in 1 .. Len(q)
        BY <1>2, <3>2
      <4>2. QED
        BY <1>2, <2>6, <4>1
    <3>3. QED
      BY <3>1, <3>2
  <2>8. Chain(o, t)
    <3>1. ASSUME NEW i \in 1 .. Len(o), NEW k \in t[i + 1] \ t[i]
          PROVE  /\ o[i].type = "add_writer" /\ o[i].key = k /\ k # Founder
                 /\ o[i].from \in t[i] \cup {Founder}
      <4>1. PICK b \in 1 .. Len(q) : o[i] = q[b] /\ t[i] = s[b] /\ t[i + 1] = s[b + 1]
        BY <2>7
      <4>2. QED
        BY <1>3, <3>1, <4>1
    <3>2. QED
      BY <2>3, <2>4, <3>1 DEF Chain
  <2>9. Tracks(vs, t)
    BY <2>5 DEF Seats, Tracks
  <2>10. OwnSeated(o, t)
    BY <2>7 DEF Seats, OwnSeated
  <2>11. ViewSeated(o, vw, t)
    <3>1. Len(o) + 1 \in a .. Len(o) + 1 /\ (Len(o) + 1) + 1 = Len(q) + 1
      BY <1>2
    <3>2. t[Len(o) + 1] = s[Len(q) + 1]
      BY <2>6, <3>1
    <3>3. QED
      BY <3>2 DEF Seats, ViewSeated
  <2>12. QED
    BY <1>1, <2>8, <2>9, <2>10, <2>11 DEF Seats
<1>7. CASE s[a + 1] # s[a]
  <2>1. PICK t : t = [i \in 1 .. Len(o) + 1 |-> IF i <= a THEN s[i] ELSE s[a]]
    OBVIOUS
  <2>2. ASSUME NEW i \in 1 .. Len(o) + 1
        PROVE  \E b \in 1 .. Len(q) + 1 : t[i] = s[b] /\ b = (IF i <= a THEN i ELSE a)
    <3>1. i \in 1 .. Len(q) + 1 /\ a \in 1 .. Len(q) + 1
      BY <1>2
    <3>2. QED
      BY <2>1, <3>1
  <2>3. t \in [1 .. Len(o) + 1 -> SUBSET Key]
    <3>1. \A i \in 1 .. Len(o) + 1 : t[i] \in SUBSET Key
      BY <1>3, <2>2
    <3>2. QED
      BY <2>1, <3>1
  <2>4. ASSUME NEW i \in 1 .. Len(o) + 1, NEW l \in 1 .. Len(o) + 1, i <= l
        PROVE  t[i] \subseteq t[l]
    <3>1. PICK b \in 1 .. Len(q) + 1 : t[i] = s[b] /\ b = (IF i <= a THEN i ELSE a)
      BY <2>2
    <3>2. PICK c \in 1 .. Len(q) + 1 : t[l] = s[c] /\ c = (IF l <= a THEN l ELSE a)
      BY <2>2
    <3>3. b <= c
      BY <2>4, <3>1, <3>2
    <3>4. QED
      BY <1>3, <3>1, <3>2, <3>3
  <2>5. /\ \A i \in 1 .. a : t[i] = s[i]
        /\ \A i \in a .. Len(o) + 1 : t[i] = s[a]
    BY <1>2, <2>1
  <2>6. Full(s[a])
    BY <1>5, <1>7
  <2>7. ASSUME NEW i \in 1 .. Len(o)
        PROVE  \/ /\ i \in 1 .. Len(q) /\ o[i] = q[i]
                  /\ t[i] = s[i] /\ t[i + 1] = s[i + 1]
               \/ t[i] = s[a] /\ t[i + 1] = s[a]
    <3>1. CASE i < a
      <4>1. i \in 1 .. a - 1 /\ i \in 1 .. a /\ i + 1 \in 1 .. a /\ i \in 1 .. Len(q)
        BY <1>2, <3>1
      <4>2. QED
        BY <1>2, <2>5, <4>1
    <3>2. CASE ~(i < a)
      <4>1. i \in a .. Len(o) + 1 /\ i + 1 \in a .. Len(o) + 1
        BY <1>2, <3>2
      <4>2. QED
        BY <2>5, <4>1
    <3>3. QED
      BY <3>1, <3>2
  <2>8. Chain(o, t)
    <3>1. ASSUME NEW i \in 1 .. Len(o), NEW k \in t[i + 1] \ t[i]
          PROVE  /\ o[i].type = "add_writer" /\ o[i].key = k /\ k # Founder
                 /\ o[i].from \in t[i] \cup {Founder}
      <4>1. /\ i \in 1 .. Len(q) /\ o[i] = q[i]
            /\ t[i] = s[i] /\ t[i + 1] = s[i + 1]
        BY <2>7, <3>1
      <4>2. QED
        BY <1>3, <3>1, <4>1
    <3>2. QED
      BY <2>3, <2>4, <3>1 DEF Chain
  <2>9. Tracks(vs, t)
    BY <2>5 DEF Seats, Tracks
  <2>10. OwnSeated(o, t)
    BY <2>6, <2>7 DEF Seats, OwnSeated, Seated
  <2>11. ViewSeated(o, vw, t)
    <3>1. Len(o) + 1 \in a .. Len(o) + 1
      BY <1>2
    <3>2. t[Len(o) + 1] = s[a]
      BY <2>5, <3>1
    <3>3. QED
      BY <2>6, <3>2 DEF ViewSeated
  <2>12. QED
    BY <1>1, <2>8, <2>9, <2>10, <2>11 DEF Seats
<1>8. QED
  BY <1>6, <1>7

(* What the drain publishes is in the chain already. *)
LEMMA SeatsAfterFlush ==
  ASSUME NEW q, Len(q) \in Nat, NEW vs, NEW vw, NEW s, Seats(q, vs, vw, s),
         NEW a \in 1 .. Len(q) + 1, a \in 1 .. Len(vs)
  PROVE  Seats(q, vs, vs[a], s)
<1>1. Writers(vs[a]) \subseteq s[a]
  BY DEF Seats, Tracks
<1>2. Len(q) + 1 \in 1 .. Len(q) + 1 /\ a <= Len(q) + 1
  OBVIOUS
<1>3. s[a] \subseteq s[Len(q) + 1]
  BY <1>2 DEF Seats, Chain
<1>4. QED
  BY <1>1, <1>3 DEF Seats, ViewSeated

LEMMA InsertNodeKeepsSeats ==
  ASSUME ReplicaInv, SeatInv, NEW n \in Node, NEW i \in indexed + 1 .. Len(order) + 1,
         InsertNode(n, i), view' = view,
         Durable(n) => i = Len(order) + 1 /\ writable
  PROVE  SeatInv'
<1> DEFINE m == IF Applied < i THEN Applied + 1 ELSE i
<1>1. TypeOK
  BY DEF ReplicaInv
<1>2. /\ Len(order) \in Nat /\ Len(versions) \in Nat /\ indexed \in Nat
      /\ Applied \in Nat /\ Applied = Len(versions) - 1
      /\ order \in Seq(Node) /\ versions \in Seq(View)
  BY <1>1, VersionFacts DEF Applied, TypeOK
<1>3. m \in 0 .. Len(versions) /\ m <= i /\ m \in Nat /\ i \in 1 .. Len(order) + 1
  BY <1>2
<1>4. order' = InsertAt(order, i, n) /\ versions' = SubSeq(versions, 1, m)
  BY DEF InsertNode
<1> HIDE DEF m
<1>5. Len(versions') = m /\ \A j \in 1 .. m : versions'[j] = versions[j]
  BY <1>2, <1>3, <1>4, Prefix
<1>6. PICK s : Seats(order, versions, view, s)
  BY DEF SeatInv
<1>7. Durable(n) => i = Len(order) + 1 /\ Self \in MayWrite(view)
  BY DEF writable
<1>8. \E t : Seats(order', versions', view', t)
  <2>1. PICK ws : ws = versions'
    OBVIOUS
  <2>2. /\ Len(ws) \in Nat /\ Len(ws) <= i /\ Len(ws) <= Len(versions)
        /\ \A j \in 1 .. Len(ws) : ws[j] = versions[j]
    BY <1>3, <1>5, <2>1
  <2>3. \E t : Seats(InsertAt(order, i, n), ws, view, t)
    BY <1>2, <1>3, <1>6, <1>7, <2>2, SeatsAfterInsert
  <2>4. QED
    BY <1>4, <2>1, <2>3
<1>9. WritersGrow'
  <2>1. \A j \in 1 .. m : j \in 1 .. Len(versions)
    BY <1>2, <1>3
  <2>2. QED
    BY <1>5, <2>1 DEF SeatInv, WritersGrow
<1>10. QED
  BY <1>8, <1>9 DEF SeatInv

LEMMA ApplyNextKeepsSeats ==
  ASSUME ReplicaInv, SeatInv, ApplyNext
  PROVE  SeatInv'
<1> DEFINE a == Applied + 1
           w == ApplyOp(Tip, order[a])
<1>1. TypeOK
  BY DEF ReplicaInv
<1>2. /\ order \in Seq(Node) /\ versions \in Seq(View) /\ Len(order) \in Nat
      /\ Applied \in Nat /\ Applied < Len(order)
      /\ Len(versions) = a /\ Tip = versions[a] /\ Tip \in Views
  BY <1>1, VersionFacts DEF Applied, Tip, TypeOK, ApplyNext, Views
<1>3. a \in 1 .. Len(order) /\ a \in Nat
  BY <1>2
<1>4. /\ Acked(Tip, order[a]) /\ versions' = Append(versions, w)
      /\ order' = order /\ view' = view
  BY DEF ApplyNext
<1>5. ViewInv(versions[a])
  BY <1>2 DEF ReplicaInv
<1>6. order[a] \in Node
  BY <1>2, <1>3, ElementOfSeq
<1>7. w \in View
  BY <1>2, <1>4, <1>5, <1>6, ApplyOpKeepsInv DEF ViewInv
<1> HIDE DEF a
<1>8. /\ Len(versions') = a + 1
      /\ \A i \in 1 .. a : versions'[i] = versions[i]
      /\ versions'[a + 1] = ApplyOp(versions[a], order[a])
  BY <1>2, <1>4, <1>7, AppendProperties
<1> HIDE DEF w
<1>9. PICK s : Seats(order, versions, view, s)
  BY DEF SeatInv
<1>10. \E t : Seats(order', versions', view', t)
  <2>1. PICK ws : ws = versions'
    OBVIOUS
  <2>2. /\ Len(ws) = a + 1 /\ \A i \in 1 .. a : ws[i] = versions[i]
        /\ ws[a + 1] = ApplyOp(versions[a], order[a])
    BY <1>8, <2>1
  <2>3. Acked(versions[a], order[a])
    BY <1>2, <1>4
  <2>4. \E t : Seats(order, ws, view, t)
    BY <1>2, <1>3, <1>5, <1>9, <2>2, <2>3, SeatsAfterApply
  <2>5. QED
    BY <1>4, <2>1, <2>4
<1>11. WritersGrow'
  <2>1. Writers(versions[a]) \subseteq Writers(versions'[a + 1])
    BY <1>2, <1>4, <1>5, <1>6, <1>8, ApplyFollowsChain
  <2>2. \A i, l \in 1 .. a : i <= l => Writers(versions[i]) \subseteq Writers(versions[l])
    BY <1>2 DEF SeatInv, WritersGrow
  <2>3. ASSUME NEW i \in 1 .. a + 1, NEW l \in 1 .. a + 1, i <= l
        PROVE  Writers(versions'[i]) \subseteq Writers(versions'[l])
    <3>1. CASE l \in 1 .. a
      <4>1. i \in 1 .. a
        BY <1>3, <2>3, <3>1
      <4>2. QED
        BY <1>8, <2>2, <2>3, <3>1, <4>1
    <3>2. CASE i \in 1 .. a /\ l = a + 1
      <4>1. a \in 1 .. a /\ i <= a
        BY <1>3, <3>2
      <4>2. Writers(versions[i]) \subseteq Writers(versions[a])
        BY <2>2, <3>2, <4>1
      <4>3. QED
        BY <1>8, <2>1, <3>2, <4>2
    <3>3. CASE i = a + 1 /\ l = a + 1
      BY <3>3
    <3>4. QED
      BY <1>3, <2>3, <3>1, <3>2, <3>3
  <2>4. QED
    BY <1>8, <2>3 DEF WritersGrow
<1>12. QED
  BY <1>10, <1>11 DEF SeatInv

LEMMA RollBackKeepsSeats ==
  ASSUME ReplicaInv, SeatInv, RollBack
  PROVE  SeatInv'
<1> DEFINE a == Applied + 1
<1>1. TypeOK
  BY DEF ReplicaInv
<1>2. /\ order \in Seq(Node) /\ Len(order) \in Nat
      /\ Applied \in Nat /\ Applied < Len(order)
      /\ Len(versions) = a /\ Tip = versions[a]
  BY <1>1, VersionFacts DEF Applied, Tip, TypeOK, RollBack
<1>3. a \in 1 .. Len(order)
  BY <1>2
<1>4. /\ ~Acked(versions[a], order[a]) /\ order' = RemoveAt(order, a)
      /\ versions' = versions /\ view' = view
  BY <1>2 DEF RollBack
<1> HIDE DEF a
<1>5. PICK s : Seats(order, versions, view, s)
  BY DEF SeatInv
<1>6. \E t : Seats(RemoveAt(order, a), versions, view, t)
  BY <1>2, <1>3, <1>4, <1>5, SeatsAfterRollBack
<1>7. QED
  BY <1>4, <1>6 DEF SeatInv, WritersGrow

LEMMA SeatStep ==
  ASSUME ReplicaInv, SeatInv, [Next]_vars
  PROVE  SeatInv'
<1>0. /\ Len(order) \in Nat /\ indexed \in Nat /\ indexed <= Len(order)
      /\ Applied \in Nat /\ Applied <= Len(order)
      /\ Len(versions) = Applied + 1
  BY VersionFacts DEF ReplicaInv, Applied
<1>1. CASE \E n \in Remote, i \in 1 .. MaxNodes : Receive(n, i)
  <2>1. PICK n \in Remote, i \in 1 .. MaxNodes : Receive(n, i)
    BY <1>1
  <2>2. n \in Node /\ ~Durable(n)
    BY ReplicaAssumption DEF Durable
  <2>3. QED
    BY <2>1, <2>2, InsertNodeKeepsSeats DEF Receive
<1>2. CASE \E e \in Id : PutEvent(e) \/ DeleteEvent(e)
  <2>1. PICK n \in Node : AppendLocal(n) /\ (Durable(n) => writable)
    BY <1>2, EventNodes DEF PutEvent, DeleteEvent, Durable
  <2>2. Len(order) + 1 \in indexed + 1 .. Len(order) + 1
    BY <1>0
  <2>3. QED
    BY <2>1, <2>2, InsertNodeKeepsSeats DEF AppendLocal
<1>3. CASE ApplyNext
  BY <1>3, ApplyNextKeepsSeats
<1>4. CASE RollBack
  BY <1>4, RollBackKeepsSeats
<1>5. CASE Flush
  <2>1. order' = order /\ versions' = versions /\ view' = versions[Len(versions)]
    BY <1>5 DEF Flush, Tip
  <2>2. PICK s : Seats(order, versions, view, s)
    BY DEF SeatInv
  <2>3. Len(versions) \in 1 .. Len(order) + 1 /\ Len(versions) \in 1 .. Len(versions)
    BY <1>0
  <2>4. Seats(order, versions, versions[Len(versions)], s)
    BY <1>0, <2>2, <2>3, SeatsAfterFlush
  <2>5. QED
    BY <2>1, <2>4 DEF SeatInv, WritersGrow
<1>6. CASE Checkpoint \/ (\E e \in Id : Emit(e)) \/ UNCHANGED vars
  <2>1. UNCHANGED <<order, versions, view>>
    BY <1>6 DEF Checkpoint, Emit, vars
  <2>2. QED
    BY <2>1 DEF SeatInv, WritersGrow
<1>7. QED
  BY <1>1, <1>2, <1>3, <1>4, <1>5, <1>6 DEF Next

LEMMA SeatsAlways == Spec => []SeatInv
<1>1. Init => SeatInv
  BY SeatsAtInit
<1>2. ReplicaInv /\ SeatInv /\ [Next]_vars => SeatInv'
  BY SeatStep
<1>3. QED
  BY <1>1, <1>2, ReplicaInvAlways, PTL DEF Spec

-----------------------------------------------------------------------------
(***************************************************************************)
(* Relay: each of its steps is a step of Replica or leaves it alone, so    *)
(* what holds of the copy of the base holds under any clients.             *)
(***************************************************************************)
LEMMA RelayStepsReplica == RelayNext => [Next]_vars
<1> SUFFICES ASSUME RelayNext PROVE [Next]_vars
  OBVIOUS
<1>1. CASE BaseStep
  BY <1>1 DEF BaseStep, Next
<1>2. CASE FlushUnderQueries
  BY <1>2 DEF FlushUnderQueries, Next
<1>3. CASE \E e \in Id : \/ StoredNotice(e) \/ HandleEphemeral(e) \/ HandleEvent(e)
                         \/ OfferEvent(e) \/ ForwardEvent(e)
  <2>1. PICK e \in Id : \/ StoredNotice(e) \/ HandleEphemeral(e) \/ HandleEvent(e)
                        \/ OfferEvent(e) \/ ForwardEvent(e)
    BY <1>3
  <2>2. Emit(e) \/ PutEvent(e) \/ DeleteEvent(e) \/ UNCHANGED vars
    BY <2>1 DEF StoredNotice, HandleEphemeral, HandleEvent, OfferEvent, ForwardEvent
  <2>3. QED
    BY <2>2 DEF Next
<1>4. CASE \E x \in Slots : HandleClose(x) \/ \E F \in Filters : HandleReq(x, F)
  BY <1>4 DEF HandleClose, HandleReq
<1>5. CASE \E r \in reading : ReadIndex(r) \/ Answer(r)
  BY <1>5 DEF ReadIndex, Answer
<1>6. CASE \E c \in Conn : SocketError(c) \/ SocketClose(c)
  BY <1>6 DEF SocketError, SocketClose
<1>7. QED
  BY <1>1, <1>2, <1>3, <1>4, <1>5, <1>6 DEF RelayNext

-----------------------------------------------------------------------------
(***************************************************************************)
(* A put or a delete that passes the gates of handleEvent is decided by    *)
(* the view alone whenever apply reaches it.                               *)
(***************************************************************************)
LEMMA PutIsDecided ==
  ASSUME NEW v, ViewInv(v), NEW e \in Id, Admissible(e), ~Ephemeral(e)
  PROVE  \/ e \in ApplyPut(v, e).events
         \/ BlockedByTombstone(v, e)
         \/ \E p \in Previous(v, e) : ~ShouldReplace(p, e)
<1>1. CASE PutStores(v, e)
  BY <1>1, ApplyPutEffect
<1>2. CASE ~PutStores(v, e)
  <2>1. ApplyPut(v, e) = v
    BY <1>2 DEF ApplyPut
  <2>2. QED
    BY <1>2, <2>1 DEF PutStores
<1>3. QED
  BY <1>1, <1>2

LEMMA DeletionsHaveNoVersions ==
  ASSUME NEW e \in Id, IsDeletion(e)
  PROVE  e \notin Versioned
<1>1. Class(e) = "regular"
  BY DEF IsDeletion, Class, ClassifyKind
<1>2. QED
  BY <1>1 DEF Versioned

LEMMA DeleteIsDecided ==
  ASSUME NEW v, ViewInv(v), NEW e \in Id, Admissible(e), ~Ephemeral(e), IsDeletion(e)
  PROVE  e \in ApplyDelete(v, e).events \/ BlockedByTombstone(v, e)
<1> DEFINE r == RemoveEvents(v, Deletable(v, e))
           u == Entomb(r, e)
<1>1. Deletable(v, e) \in SUBSET v.events /\ v \in View /\ Deletable(v, e) \in SUBSET Id
  BY DEF Deletable, ViewInv, View
<1>2. r \in View /\ r.deletion = v.deletion
  BY <1>1, RemoveEventsFields
<1> HIDE DEF r
<1>3. \A t \in Id : u.deletion[t] = IF t \in Ev[e].etags THEN Ev[e].pubkey ELSE r.deletion[t]
  BY <1>2, EntombFields
<1>4. ApplyDelete(v, e) = ApplyPut(u, e)
  BY DEF ApplyDelete, Admissible, r
<1> HIDE DEF u
<1>5. u.deletion[e] = v.deletion[e]
  BY <1>2, <1>3, HashAssumption DEF Admissible
<1>6. CASE e \in u.events
  <2>1. ApplyPut(u, e) = u
    BY <1>6 DEF ApplyPut, PutStores
  <2>2. QED
    BY <1>4, <1>6, <2>1
<1>7. CASE BlockedByTombstone(u, e)
  BY <1>5, <1>7 DEF BlockedByTombstone
<1>8. CASE e \notin u.events /\ ~BlockedByTombstone(u, e)
  <2>1. Previous(u, e) = {}
    BY DeletionsHaveNoVersions DEF Previous
  <2>2. PutStores(u, e)
    BY <1>8, <2>1 DEF PutStores
  <2>3. ApplyPut(u, e) = Store(RemoveIndexes(u, Previous(u, e)), e)
    BY <2>2 DEF ApplyPut
  <2>4. QED
    BY <1>4, <2>3 DEF Store
<1>9. QED
  BY <1>6, <1>7, <1>8

-----------------------------------------------------------------------------
(***************************************************************************)
(* What the log keeps: arrivals shift its nodes, and only a block that     *)
(* Autobase does not honour is ever taken out.                             *)
(***************************************************************************)
InLog(n) == \E i \in 1 .. Len(order) : order[i] = n

LEMMA InsertionKeepsLog ==
  ASSUME ReplicaInv, NEW n \in Node, NEW p \in 1 .. Len(order) + 1, InsertNode(n, p)
  PROVE  /\ InLog(n)'
         /\ \A o : InLog(o) => InLog(o)'
<1>1. order \in Seq(Node) /\ Len(order) \in Nat /\ order' = InsertAt(order, p, n)
  BY LenProperties DEF ReplicaInv, TypeOK, InsertNode
<1>2. /\ Len(order') = Len(order) + 1
      /\ \A i \in 1 .. p - 1 : order'[i] = order[i]
      /\ order'[p] = n
      /\ \A i \in p .. Len(order) : order'[i + 1] = order[i]
  BY <1>1, InsertAtElements
<1>3. p \in 1 .. Len(order')
  BY <1>1, <1>2
<1>4. InLog(n)'
  BY <1>2, <1>3 DEF InLog
<1>5. ASSUME NEW o, NEW i \in 1 .. Len(order), order[i] = o
      PROVE  InLog(o)'
  <2>1. CASE i < p
    <3>1. i \in 1 .. p - 1 /\ i \in 1 .. Len(order')
      BY <1>1, <1>2, <2>1
    <3>2. QED
      BY <1>2, <1>5, <3>1 DEF InLog
  <2>2. CASE i >= p
    <3>1. i \in p .. Len(order) /\ i + 1 \in 1 .. Len(order')
      BY <1>1, <1>2, <2>2
    <3>2. QED
      BY <1>2, <1>5, <3>1 DEF InLog
  <2>3. QED
    BY <1>1, <2>1, <2>2
<1>6. QED
  BY <1>4, <1>5 DEF InLog

LEMMA RollBackKeepsOthers ==
  ASSUME ReplicaInv, RollBack, NEW o, InLog(o), o # order[Applied + 1]
  PROVE  InLog(o)'
<1>1. /\ order \in Seq(Node) /\ Len(order) \in Nat
      /\ Applied \in Nat /\ Applied < Len(order)
      /\ order' = RemoveAt(order, Applied + 1)
  BY LenProperties, VersionFacts DEF ReplicaInv, TypeOK, RollBack
<1>2. Applied + 1 \in 1 .. Len(order) /\ (Applied + 1) - 1 = Applied
  BY <1>1
<1>3. /\ Len(order') = Len(order) - 1
      /\ \A i \in 1 .. Applied : order'[i] = order[i]
      /\ \A i \in Applied + 1 .. Len(order) - 1 : order'[i] = order[i + 1]
  BY <1>1, <1>2, RemoveAtElements
<1>4. PICK i \in 1 .. Len(order) : order[i] = o
  BY DEF InLog
<1>5. i # Applied + 1
  BY <1>4
<1>6. CASE i <= Applied
  <2>1. i \in 1 .. Applied /\ i \in 1 .. Len(order')
    BY <1>1, <1>3, <1>6
  <2>2. QED
    BY <1>3, <1>4, <2>1 DEF InLog
<1>7. CASE i > Applied + 1
  <2>1. i - 1 \in Applied + 1 .. Len(order) - 1 /\ i - 1 \in 1 .. Len(order') /\ (i - 1) + 1 = i
    BY <1>1, <1>3, <1>7
  <2>2. order'[i - 1] = o
    BY <1>3, <1>4, <2>1
  <2>3. QED
    BY <2>1, <2>2 DEF InLog
<1>8. QED
  BY <1>1, <1>5, <1>6, <1>7

(* The step of the base under the relay's, seen from the log. *)
LEMMA LogKeeps ==
  ASSUME ReplicaInv, [Next]_vars, NEW o, InLog(o)
  PROVE  InLog(o)' \/ (RollBack /\ o = order[Applied + 1])
<1>0. Len(order) \in Nat /\ indexed \in Nat
  BY VersionFacts DEF ReplicaInv
<1>1. CASE \E n \in Remote, i \in 1 .. MaxNodes : Receive(n, i)
  <2>1. PICK n \in Remote, i \in 1 .. MaxNodes : Receive(n, i)
    BY <1>1
  <2>2. n \in Node /\ i \in 1 .. Len(order) + 1 /\ InsertNode(n, i)
    BY <1>0, <2>1, ReplicaAssumption DEF Receive
  <2>3. QED
    BY <2>2, InsertionKeepsLog
<1>2. CASE \E e \in Id : PutEvent(e) \/ DeleteEvent(e)
  <2>1. PICK n \in Node : AppendLocal(n)
    BY <1>2, EventNodes DEF PutEvent, DeleteEvent
  <2>2. Len(order) + 1 \in 1 .. Len(order) + 1 /\ InsertNode(n, Len(order) + 1)
    BY <1>0, <2>1 DEF AppendLocal
  <2>3. QED
    BY <2>2, InsertionKeepsLog
<1>3. CASE RollBack
  BY <1>3, RollBackKeepsOthers
<1>4. CASE ApplyNext \/ Flush \/ Checkpoint \/ (\E e \in Id : Emit(e)) \/ UNCHANGED vars
  <2>1. order' = order
    BY <1>4 DEF ApplyNext, Flush, Checkpoint, Emit, vars
  <2>2. QED
    BY <2>1 DEF InLog
<1>5. QED
  BY <1>1, <1>2, <1>3, <1>4 DEF Next

-----------------------------------------------------------------------------
(***************************************************************************)
(* The inductive invariant of Relay.  An answer may take what was readable *)
(* throughout the query out of early[x], since the query found it; that is *)
(* why the invariant relates the queries in flight to the view.            *)
(***************************************************************************)
FiniteSlots == IsFiniteSet(reading) /\ \A c \in Conn : IsFiniteSet(Open(c))

QueriesFollowView ==
  \A r \in reading :
    /\ r.readable \subseteq view.indexed
    /\ r.found # None => (r.filter \cap r.readable) \subseteq r.found
    /\ r.latest /\ subs[r.slot] # None => subs[r.slot] = r.filter

SentSoFar ==
  \A x \in Slots : x[1] \in connections /\ subs[x] # None =>
    (pushed \cap subs[x]) \subseteq got[x] \cup early[x]

AckedIsGated    == \A e \in acked : Admissible(e) /\ ~Ephemeral(e)
OfferedMayBePut == \A e \in offered : Admissible(e) /\ ~Ephemeral(e) /\ ~IsDeletion(e)

RelayInv ==
  /\ ReplicaInv
  /\ RelayTypeOK
  /\ FiniteSlots
  /\ QueriesFollowView
  /\ SentSoFar
  /\ AckedIsGated
  /\ OfferedMayBePut

(* The queries in flight never multiply. *)
LEMMA ImageBound ==
  ASSUME NEW R, IsFiniteSet(R), NEW g, DOMAIN g = R
  PROVE  /\ IsFiniteSet({g[r] : r \in R})
         /\ Cardinality({g[r] : r \in R}) \in Nat
         /\ Cardinality(R) \in Nat
         /\ Cardinality({g[r] : r \in R}) <= Cardinality(R)
<1>1. [r \in R |-> g[r]] \in Surjection(R, {g[r] : r \in R})
  BY DEF Surjection
<1>2. QED
  BY <1>1, FS_Surjection, FS_CardinalityType

LEMMA ReplaceBound ==
  ASSUME NEW R, IsFiniteSet(R), NEW r \in R, NEW q
  PROVE  /\ IsFiniteSet((R \ {r}) \cup {q})
         /\ Cardinality((R \ {r}) \cup {q}) <= Cardinality(R)
<1> DEFINE T == R \ {r}
           U == T \cup {q}
<1>1. /\ IsFiniteSet(T)
      /\ Cardinality(T) = Cardinality(R) - 1
      /\ Cardinality(R) \in Nat /\ Cardinality(T) \in Nat
  BY FS_RemoveElement, FS_CardinalityType
<1> HIDE DEF T
<1>2. CASE q \in T
  <2>1. U = T
    BY <1>2
  <2> HIDE DEF U
  <2>2. IsFiniteSet(U) /\ Cardinality(U) <= Cardinality(R)
    BY <1>1, <2>1
  <2>3. QED
    BY <2>2 DEF U, T
<1>3. CASE q \notin T
  <2>1. IsFiniteSet(U) /\ Cardinality(U) = Cardinality(T) + 1
    BY <1>1, <1>3, FS_AddElement
  <2> HIDE DEF U
  <2>2. IsFiniteSet(U) /\ Cardinality(U) <= Cardinality(R)
    BY <1>1, <2>1
  <2>3. QED
    BY <2>2 DEF U, T
<1>4. QED
  BY <1>2, <1>3

LEMMA RelayInitInv == RelayInit => RelayInv
<1> SUFFICES ASSUME RelayInit PROVE RelayInv
  OBVIOUS
<1>1. ReplicaInv
  BY ReplicaInitInv DEF RelayInit
<1>2. \A c \in Conn : Open(c) = {}
  BY DEF RelayInit, Open, Slots
<1>3. Cardinality({}) = 0 /\ IsFiniteSet({})
  BY FS_EmptySet
<1>4. ASSUME NEW c \in Conn
      PROVE  IsFiniteSet(Open(c)) /\ Cardinality(Open(c)) <= MaxSubs
  <2>1. Open(c) = {}
    BY <1>2
  <2>2. QED
    BY <1>3, <2>1, RelayAssumption
<1>5. reading = {} /\ Cardinality(reading) <= MaxReads /\ IsFiniteSet(reading)
  BY <1>3, RelayAssumption DEF RelayInit
<1>6. RelayTypeOK
  BY <1>1, <1>4, <1>5 DEF ReplicaInv, RelayInit, RelayTypeOK
<1>7. FiniteSlots
  BY <1>4, <1>5 DEF FiniteSlots
<1>8. QueriesFollowView
  BY <1>5 DEF QueriesFollowView
<1>9. SentSoFar /\ AckedIsGated /\ OfferedMayBePut
  BY DEF RelayInit, SentSoFar, AckedIsGated, OfferedMayBePut
<1>10. QED
  BY <1>1, <1>6, <1>7, <1>8, <1>9 DEF RelayInv

-----------------------------------------------------------------------------
(* What every step keeps, whatever else it does. *)
LEMMA BaseIsKept ==
  ASSUME RelayInv, [Next]_vars
  PROVE  /\ ReplicaInv'
         /\ TypeOK'
<1>1. ReplicaInv'
  BY ReplicaStep DEF RelayInv
<1>2. TypeOK'
  BY <1>1 DEF ReplicaInv
<1>3. QED
  BY <1>1, <1>2

(* When no event is newly acked. *)
LEMMA AckedStayGated ==
  ASSUME RelayInv, acked' = acked
  PROVE  AckedIsGated'
BY DEF RelayInv, AckedIsGated

LEMMA BaseStepKeepsInv ==
  ASSUME RelayInv, BaseStep
  PROVE  RelayInv'
<1>1. [Next]_vars
  BY DEF BaseStep, Next
<1>2. UNCHANGED <<view, pushed>>
  BY DEF BaseStep, Receive, ApplyNext, RollBack, Checkpoint, emitVars
<1>3. UNCHANGED <<connections, subs, reading, got, early, offered, acked>>
  BY DEF BaseStep, connVars
<1>4. RelayTypeOK' /\ FiniteSlots'
  BY <1>1, <1>3, BaseIsKept DEF RelayInv, RelayTypeOK, FiniteSlots, Open
<1>5. QueriesFollowView' /\ SentSoFar' /\ OfferedMayBePut'
  BY <1>2, <1>3 DEF RelayInv, QueriesFollowView, SentSoFar, OfferedMayBePut
<1>6. QED
  BY <1>1, <1>3, <1>4, <1>5, BaseIsKept, AckedStayGated DEF RelayInv

LEMMA FlushUnderQueriesKeepsInv ==
  ASSUME RelayInv, FlushUnderQueries
  PROVE  RelayInv'
<1> DEFINE g == [r \in reading |-> [r EXCEPT !.readable = @ \cap view'.indexed]]
<1>1. [Next]_vars /\ UNCHANGED <<pushed, connections, subs, offered, acked, got, early>>
  BY DEF FlushUnderQueries, Flush, Next, emitVars
<1>2. reading' = {g[r] : r \in reading}
  BY DEF FlushUnderQueries
<1>3. reading \subseteq Query /\ IsFiniteSet(reading) /\ Cardinality(reading) <= MaxReads
  BY DEF RelayInv, RelayTypeOK, FiniteSlots
<1>4. \A r \in reading :
        /\ g[r] \in Query
        /\ g[r].slot = r.slot /\ g[r].filter = r.filter /\ g[r].found = r.found
        /\ g[r].latest = r.latest
        /\ g[r].readable = r.readable \cap view'.indexed
  BY <1>3 DEF Query
<1>5. DOMAIN g = reading
  OBVIOUS
<1> HIDE DEF g
<1>6. IsFiniteSet(reading') /\ Cardinality(reading') <= MaxReads
  <2>1. /\ IsFiniteSet({g[r] : r \in reading})
        /\ Cardinality({g[r] : r \in reading}) \in Nat /\ Cardinality(reading) \in Nat
        /\ Cardinality({g[r] : r \in reading}) <= Cardinality(reading)
    BY <1>3, <1>5, ImageBound
  <2>2. QED
    BY <1>2, <1>3, <2>1, RelayAssumption
<1>7. RelayTypeOK' /\ FiniteSlots'
  <2>1. reading' \subseteq Query
    BY <1>2, <1>4
  <2>2. QED
    BY <1>1, <1>6, <2>1, BaseIsKept DEF RelayInv, RelayTypeOK, FiniteSlots, Open
<1>8. QueriesFollowView'
  <2>1. SUFFICES ASSUME NEW q \in reading'
                 PROVE  /\ q.readable \subseteq view'.indexed
                        /\ q.found # None => (q.filter \cap q.readable) \subseteq q.found
                        /\ q.latest /\ subs'[q.slot] # None => subs'[q.slot] = q.filter
    BY DEF QueriesFollowView
  <2>2. PICK r \in reading : q = g[r]
    BY <1>2
  <2>3. /\ r.readable \subseteq view.indexed
        /\ r.found # None => (r.filter \cap r.readable) \subseteq r.found
        /\ r.latest /\ subs[r.slot] # None => subs[r.slot] = r.filter
    BY DEF RelayInv, QueriesFollowView
  <2>4. /\ q.slot = r.slot /\ q.filter = r.filter /\ q.found = r.found
        /\ q.latest = r.latest /\ q.readable = r.readable \cap view'.indexed
    BY <1>4, <2>2
  <2>5. QED
    BY <1>1, <2>3, <2>4
<1>9. SentSoFar' /\ OfferedMayBePut'
  BY <1>1 DEF RelayInv, SentSoFar, OfferedMayBePut
<1>10. QED
  BY <1>1, <1>7, <1>8, <1>9, BaseIsKept, AckedStayGated DEF RelayInv

LEMMA BroadcastGrows ==
  ASSUME RelayInv, NEW e \in Id, Broadcast(e)
  PROVE  /\ UNCHANGED <<connections, subs, reading, early>>
         /\ got' \in [Slots -> SUBSET Id]
         /\ \A x \in Slots : got[x] \subseteq got'[x] /\ (Listens(x, e) => e \in got'[x])
<1>1. got \in [Slots -> SUBSET Id]
  BY DEF RelayInv, RelayTypeOK
<1>2. got' = [x \in Slots |-> IF Listens(x, e) THEN got[x] \cup {e} ELSE got[x]]
  BY DEF Broadcast
<1>3. QED
  BY <1>1, <1>2 DEF Broadcast

LEMMA StoredNoticeKeepsInv ==
  ASSUME RelayInv, NEW e \in Id, StoredNotice(e)
  PROVE  RelayInv'
<1>1. [Next]_vars /\ UNCHANGED <<view, offered, acked>> /\ pushed' = pushed \cup {e}
  BY DEF StoredNotice, Emit, Next
<1>2. /\ UNCHANGED <<connections, subs, reading, early>>
      /\ got' \in [Slots -> SUBSET Id]
      /\ \A x \in Slots : got[x] \subseteq got'[x] /\ (Listens(x, e) => e \in got'[x])
  BY BroadcastGrows DEF StoredNotice
<1>3. RelayTypeOK' /\ FiniteSlots'
  BY <1>1, <1>2, BaseIsKept DEF RelayInv, RelayTypeOK, FiniteSlots, Open
<1>4. QueriesFollowView' /\ OfferedMayBePut'
  BY <1>1, <1>2 DEF RelayInv, QueriesFollowView, OfferedMayBePut
<1>5. SentSoFar'
  BY <1>1, <1>2 DEF RelayInv, SentSoFar, Listens
<1>6. QED
  BY <1>1, <1>3, <1>4, <1>5, BaseIsKept, AckedStayGated DEF RelayInv

LEMMA HandleEphemeralKeepsInv ==
  ASSUME RelayInv, NEW e \in Id, HandleEphemeral(e)
  PROVE  RelayInv'
<1>1. [Next]_vars /\ UNCHANGED <<view, pushed, offered, acked>>
  BY DEF HandleEphemeral, vars
<1>2. /\ UNCHANGED <<connections, subs, reading, early>>
      /\ got' \in [Slots -> SUBSET Id]
      /\ \A x \in Slots : got[x] \subseteq got'[x]
  BY BroadcastGrows DEF HandleEphemeral
<1>3. RelayTypeOK' /\ FiniteSlots'
  BY <1>1, <1>2, BaseIsKept DEF RelayInv, RelayTypeOK, FiniteSlots, Open
<1>4. QueriesFollowView' /\ OfferedMayBePut' /\ SentSoFar'
  BY <1>1, <1>2 DEF RelayInv, QueriesFollowView, OfferedMayBePut, SentSoFar
<1>5. QED
  BY <1>1, <1>3, <1>4, BaseIsKept, AckedStayGated DEF RelayInv

(* A put or a delete of this peer is in the log at once. *)
LEMMA PutLogs ==
  ASSUME RelayInv, NEW e \in Id, PutEvent(e)
  PROVE  /\ UNCHANGED <<view, pushed>>
         /\ writable /\ ~IsDeletion(e) => InLog(OwnNode(e))'
<1>1. PICK n \in Node :
        /\ n = [type |-> IF writable THEN "put" ELSE "optimistic", from |-> Self, event |-> e]
        /\ AppendLocal(n)
  BY EventNodes DEF PutEvent
<1>2. Len(order) + 1 \in 1 .. Len(order) + 1 /\ InsertNode(n, Len(order) + 1)
  BY <1>1, VersionFacts DEF RelayInv, ReplicaInv, AppendLocal
<1>3. InLog(n)'
  BY <1>1, <1>2, InsertionKeepsLog DEF RelayInv
<1>4. UNCHANGED <<view, pushed>>
  BY <1>1 DEF AppendLocal, emitVars
<1>5. ASSUME writable, ~IsDeletion(e)
      PROVE  InLog(OwnNode(e))'
  <2>1. n = OwnNode(e)
    BY <1>1, <1>5 DEF OwnNode
  <2>2. QED
    BY <1>3, <2>1
<1>6. QED
  BY <1>4, <1>5

LEMMA DeleteLogs ==
  ASSUME RelayInv, NEW e \in Id, DeleteEvent(e)
  PROVE  /\ UNCHANGED <<view, pushed>>
         /\ IsDeletion(e) => InLog(OwnNode(e))'
<1> DEFINE n == [type |-> "delete", from |-> Self, event |-> e]
<1>1. n \in Node /\ AppendLocal(n)
  BY EventNodes DEF DeleteEvent
<1> HIDE DEF n
<1>2. Len(order) + 1 \in 1 .. Len(order) + 1 /\ InsertNode(n, Len(order) + 1)
  BY <1>1, VersionFacts DEF RelayInv, ReplicaInv, AppendLocal
<1>3. InLog(n)'
  BY <1>1, <1>2, InsertionKeepsLog DEF RelayInv
<1>4. UNCHANGED <<view, pushed>>
  BY <1>1 DEF AppendLocal, emitVars
<1>5. QED
  BY <1>3, <1>4 DEF n, OwnNode

LEMMA HandleEventKeepsInv ==
  ASSUME RelayInv, NEW e \in Id, HandleEvent(e)
  PROVE  RelayInv'
<1>1. /\ Acceptable(e) /\ ~Ephemeral(e) /\ writable
      /\ IF IsDeletion(e) THEN DeleteEvent(e) ELSE PutEvent(e)
      /\ acked' = acked \cup {e}
      /\ UNCHANGED <<connections, subs, reading, got, early, offered>>
  BY DEF HandleEvent, connVars
<1>2. [Next]_vars
  BY <1>1 DEF Next
<1>3. UNCHANGED <<view, pushed>>
  BY <1>1, DeleteLogs, PutLogs
<1>4. RelayTypeOK' /\ FiniteSlots'
  BY <1>1, <1>2, BaseIsKept DEF RelayInv, RelayTypeOK, FiniteSlots, Open
<1>5. QueriesFollowView' /\ SentSoFar' /\ OfferedMayBePut'
  BY <1>1, <1>3 DEF RelayInv, QueriesFollowView, SentSoFar, OfferedMayBePut
<1>6. AckedIsGated'
  BY <1>1 DEF RelayInv, AckedIsGated, Acceptable, Admissible
<1>7. QED
  BY <1>2, <1>4, <1>5, <1>6, BaseIsKept DEF RelayInv

LEMMA OfferEventKeepsInv ==
  ASSUME RelayInv, NEW e \in Id, OfferEvent(e)
  PROVE  RelayInv'
<1>1. /\ Acceptable(e) /\ ~Ephemeral(e) /\ ~IsDeletion(e)
      /\ offered' = offered \cup {e}
      /\ UNCHANGED <<connections, subs, reading, got, early, acked, view, pushed>>
      /\ UNCHANGED vars
  BY DEF OfferEvent, connVars, vars
<1>2. RelayTypeOK' /\ FiniteSlots'
  BY <1>1, BaseIsKept DEF RelayInv, RelayTypeOK, FiniteSlots, Open
<1>3. QueriesFollowView' /\ SentSoFar'
  BY <1>1 DEF RelayInv, QueriesFollowView, SentSoFar
<1>4. OfferedMayBePut'
  BY <1>1 DEF RelayInv, OfferedMayBePut, Acceptable, Admissible
<1>5. QED
  BY <1>1, <1>2, <1>3, <1>4, BaseIsKept, AckedStayGated DEF RelayInv

LEMMA ForwardEventKeepsInv ==
  ASSUME RelayInv, NEW e \in Id, ForwardEvent(e)
  PROVE  RelayInv'
<1>1. /\ e \in offered
      /\ offered' = offered \ {e}
      /\ UNCHANGED <<connections, subs, reading, got, early>>
  BY DEF ForwardEvent, connVars
<1>2. \/ PutEvent(e) /\ acked' = acked \cup (IF writable THEN {e} ELSE {})
      \/ UNCHANGED <<vars, acked>>
  BY DEF ForwardEvent
<1>3. [Next]_vars
  BY <1>2 DEF Next
<1>4. UNCHANGED <<view, pushed>>
  BY <1>2, PutLogs DEF vars
<1>5. RelayTypeOK' /\ FiniteSlots'
  <2>1. acked' \subseteq Id /\ offered' \subseteq Id
    BY <1>1, <1>2 DEF RelayInv, RelayTypeOK
  <2>2. QED
    BY <1>1, <1>3, <2>1, BaseIsKept DEF RelayInv, RelayTypeOK, FiniteSlots, Open
<1>6. QueriesFollowView' /\ SentSoFar' /\ OfferedMayBePut'
  BY <1>1, <1>4 DEF RelayInv, QueriesFollowView, SentSoFar, OfferedMayBePut
<1>7. AckedIsGated'
  BY <1>1, <1>2 DEF RelayInv, AckedIsGated, OfferedMayBePut
<1>8. QED
  BY <1>3, <1>5, <1>6, <1>7, BaseIsKept DEF RelayInv

-----------------------------------------------------------------------------
(***************************************************************************)
(* A REQ: the subscription takes a place of its connection, and what was   *)
(* announced before it is set aside.                                       *)
(***************************************************************************)
LEMMA HandleReqKeepsInv ==
  ASSUME RelayInv, NEW x \in Slots, NEW F \in Filters, HandleReq(x, F)
  PROVE  RelayInv'
<1> DEFINE g == [r \in reading |-> IF r.slot = x THEN [r EXCEPT !.latest = FALSE] ELSE r]
           q == [slot |-> x, filter |-> F, found |-> None,
                 readable |-> view.indexed, latest |-> TRUE]
<1>1. /\ x[1] \in connections /\ MaySubscribe(x)
      /\ Cardinality(reading) < MaxReads
      /\ subs' = [subs EXCEPT ![x] = F]
      /\ got' = [got EXCEPT ![x] = {}]
      /\ early' = [early EXCEPT ![x] = pushed]
      /\ UNCHANGED <<view, pushed, connections, offered, acked>>
      /\ UNCHANGED vars
  BY DEF HandleReq, vars
<1>2. reading' = {g[r] : r \in reading} \cup {q}
  BY DEF HandleReq
<1>3. /\ connections \subseteq Conn
      /\ subs \in [Slots -> Filters \cup {None}]
      /\ reading \subseteq Query /\ IsFiniteSet(reading)
      /\ got \in [Slots -> SUBSET Id] /\ early \in [Slots -> SUBSET Id]
      /\ offered \subseteq Id /\ acked \subseteq Id
      /\ \A c \in Conn : IsFiniteSet(Open(c)) /\ Cardinality(Open(c)) <= MaxSubs
  BY DEF RelayInv, RelayTypeOK, FiniteSlots
<1>4. view.indexed \subseteq Id /\ pushed \subseteq Id /\ F \subseteq Id /\ F # None
  BY RelayAssumption DEF RelayInv, ReplicaInv, TypeOK, View
<1>5. \A r \in reading :
        /\ g[r] \in Query
        /\ g[r].slot = r.slot /\ g[r].filter = r.filter /\ g[r].found = r.found
        /\ g[r].readable = r.readable
        /\ g[r].latest => r.latest /\ r.slot # x
  BY <1>3 DEF Query
<1>6. q \in Query
  <2>1. view.indexed \in SUBSET Id /\ None \in (SUBSET Id) \cup {None}
    BY <1>4
  <2>2. QED
    BY <2>1, Zenon DEF Query
<1>7. DOMAIN g = reading
  OBVIOUS
<1> HIDE DEF g
<1>8. IsFiniteSet(reading') /\ Cardinality(reading') <= MaxReads
  <2> DEFINE R == {g[r] : r \in reading}
  <2>1. /\ IsFiniteSet(R)
        /\ Cardinality(R) \in Nat /\ Cardinality(reading) \in Nat
        /\ Cardinality(R) <= Cardinality(reading)
    BY <1>3, <1>7, ImageBound
  <2>2. reading' = R \cup {q}
    BY <1>2
  <2> HIDE DEF R, q
  <2>3. CASE q \in R
    <3>1. reading' = R
      BY <2>2, <2>3
    <3>2. QED
      BY <1>1, <2>1, <3>1, RelayAssumption
  <2>4. CASE q \notin R
    <3>1. IsFiniteSet(R \cup {q}) /\ Cardinality(R \cup {q}) = Cardinality(R) + 1
      BY <2>1, <2>4, FS_AddElement
    <3>2. IsFiniteSet(reading') /\ Cardinality(reading') = Cardinality(R) + 1
      BY <2>2, <3>1
    <3>3. QED
      BY <1>1, <2>1, <3>2, RelayAssumption
  <2>5. QED
    BY <2>3, <2>4
<1>9. ASSUME NEW c \in Conn
      PROVE  IsFiniteSet(Open(c)') /\ Cardinality(Open(c)') <= MaxSubs
  <2>1. PICK d \in Conn, s \in SubId : x = <<d, s>>
    BY DEF Slots
  <2>2. \A t \in SubId : <<c, t>> \in Slots
    BY DEF Slots
  <2>3. CASE c # d \/ subs[x] # None
    <3>1. Open(c)' = Open(c)
      <4>1. \A t \in SubId : subs'[<<c, t>>] # None <=> subs[<<c, t>>] # None
        BY <1>1, <1>3, <1>4, <2>1, <2>2, <2>3
      <4>2. QED
        BY <4>1 DEF Open
    <3>2. QED
      BY <1>3, <3>1
  <2>4. CASE c = d /\ subs[x] = None
    <3>1. \A t \in SubId : subs'[<<c, t>>] # None <=> (t = s \/ subs[<<c, t>>] # None)
      BY <1>1, <1>3, <1>4, <2>1, <2>2, <2>4
    <3>2. Open(c)' = Open(c) \cup {s}
      BY <3>1 DEF Open
    <3>3. s \notin Open(c)
      BY <2>1, <2>4 DEF Open
    <3>4. Cardinality(Open(c)) < MaxSubs
      BY <1>1, <2>1, <2>4 DEF MaySubscribe
    <3>5. IsFiniteSet(Open(c)) /\ Cardinality(Open(c)) \in Nat
      BY <1>3, FS_CardinalityType
    <3>6. IsFiniteSet(Open(c) \cup {s}) /\ Cardinality(Open(c) \cup {s}) = Cardinality(Open(c)) + 1
      BY <3>3, <3>5, FS_AddElement
    <3>7. IsFiniteSet(Open(c)') /\ Cardinality(Open(c)') = Cardinality(Open(c)) + 1
      BY <3>2, <3>6
    <3>8. QED
      BY <3>4, <3>5, <3>7, RelayAssumption
  <2>5. QED
    BY <2>3, <2>4
<1>10. reading' \subseteq Query
  <2> HIDE DEF q
  <2>1. QED
    BY <1>2, <1>5, <1>6
<1>11. /\ subs' \in [Slots -> Filters \cup {None}]
       /\ got' \in [Slots -> SUBSET Id] /\ early' \in [Slots -> SUBSET Id]
  BY <1>1, <1>3, <1>4
<1>12. RelayTypeOK' /\ FiniteSlots'
  BY <1>1, <1>3, <1>8, <1>9, <1>10, <1>11, BaseIsKept DEF RelayTypeOK, FiniteSlots
<1>13. QueriesFollowView'
  <2>1. SUFFICES ASSUME NEW p \in reading'
                 PROVE  /\ p.readable \subseteq view'.indexed
                        /\ p.found # None => (p.filter \cap p.readable) \subseteq p.found
                        /\ p.latest /\ subs'[p.slot] # None => subs'[p.slot] = p.filter
    BY DEF QueriesFollowView
  <2>2. CASE p = q
    BY <1>1, <1>3, <2>2
  <2>3. ASSUME NEW r \in reading, p = g[r]
        PROVE  /\ p.readable \subseteq view'.indexed
               /\ p.found # None => (p.filter \cap p.readable) \subseteq p.found
               /\ p.latest /\ subs'[p.slot] # None => subs'[p.slot] = p.filter
    <3>1. /\ r.readable \subseteq view.indexed
          /\ r.found # None => (r.filter \cap r.readable) \subseteq r.found
          /\ r.latest /\ subs[r.slot] # None => subs[r.slot] = r.filter
      BY DEF RelayInv, QueriesFollowView
    <3>2. /\ p.slot = r.slot /\ p.filter = r.filter /\ p.found = r.found
          /\ p.readable = r.readable
          /\ p.latest => r.latest /\ r.slot # x
      BY <1>5, <2>3
    <3>3. r.slot \in Slots
      BY <1>3 DEF Query
    <3>4. p.latest => subs'[p.slot] = subs[r.slot]
      BY <1>1, <1>3, <3>2, <3>3
    <3>5. QED
      BY <1>1, <3>1, <3>2, <3>4
  <2>4. QED
    BY <1>2, <2>2, <2>3
<1>14. SentSoFar'
  <2>1. SUFFICES ASSUME NEW y \in Slots, y[1] \in connections', subs'[y] # None
                 PROVE  (pushed' \cap subs'[y]) \subseteq got'[y] \cup early'[y]
    BY DEF SentSoFar
  <2>2. CASE y = x
    BY <1>1, <1>3, <2>2
  <2>3. CASE y # x
    <3>1. subs'[y] = subs[y] /\ got'[y] = got[y] /\ early'[y] = early[y]
      BY <1>1, <1>3, <2>3
    <3>2. QED
      BY <1>1, <2>1, <3>1 DEF RelayInv, SentSoFar
  <2>4. QED
    BY <2>2, <2>3
<1>15. OfferedMayBePut'
  BY <1>1 DEF RelayInv, OfferedMayBePut
<1>16. QED
  BY <1>1, <1>12, <1>13, <1>14, <1>15, BaseIsKept, AckedStayGated DEF RelayInv

LEMMA ReadIndexKeepsInv ==
  ASSUME RelayInv, NEW r \in reading, ReadIndex(r)
  PROVE  RelayInv'
<1> DEFINE q == [r EXCEPT !.found = r.filter \cap view.indexed]
<1>1. /\ reading' = (reading \ {r}) \cup {q}
      /\ UNCHANGED <<view, pushed, connections, subs, offered, acked, got, early>>
      /\ UNCHANGED vars
  BY DEF ReadIndex, vars
<1>2. /\ reading \subseteq Query /\ IsFiniteSet(reading) /\ Cardinality(reading) <= MaxReads
      /\ view.indexed \subseteq Id
  BY DEF RelayInv, RelayTypeOK, FiniteSlots, ReplicaInv, TypeOK, View
<1>3. /\ q \in Query
      /\ q.slot = r.slot /\ q.filter = r.filter /\ q.latest = r.latest /\ q.readable = r.readable
      /\ q.found = r.filter \cap view.indexed
  BY <1>2 DEF Query
<1> HIDE DEF q
<1>4. IsFiniteSet(reading') /\ Cardinality(reading') <= MaxReads
  <2>1. /\ IsFiniteSet((reading \ {r}) \cup {q})
        /\ Cardinality((reading \ {r}) \cup {q}) <= Cardinality(reading)
    BY <1>2, ReplaceBound
  <2>2. IsFiniteSet(reading') /\ Cardinality(reading') <= Cardinality(reading)
    BY <1>1, <2>1
  <2>3. Cardinality(reading') \in Nat /\ Cardinality(reading) \in Nat
    BY <1>2, <2>2, FS_CardinalityType
  <2>4. QED
    BY <1>2, <2>2, <2>3, RelayAssumption
<1>5. RelayTypeOK' /\ FiniteSlots'
  <2>1. reading' \subseteq Query
    BY <1>1, <1>2, <1>3
  <2>2. QED
    BY <1>1, <1>4, <2>1, BaseIsKept DEF RelayInv, RelayTypeOK, FiniteSlots, Open
<1>6. QueriesFollowView'
  BY <1>1, <1>3 DEF RelayInv, QueriesFollowView
<1>7. SentSoFar' /\ OfferedMayBePut'
  BY <1>1 DEF RelayInv, SentSoFar, OfferedMayBePut
<1>8. QED
  BY <1>1, <1>5, <1>6, <1>7, BaseIsKept, AckedStayGated DEF RelayInv

(***************************************************************************)
(* The answer: what was readable throughout was found, and is still stored *)
(* when the ids are resolved, so it was sent.                              *)
(***************************************************************************)
LEMMA AnswerKeepsInv ==
  ASSUME RelayInv, NEW r \in reading, Answer(r)
  PROVE  RelayInv'
<1>1. /\ r.found # None
      /\ reading' = reading \ {r}
      /\ got' = IF r.slot[1] \in connections /\ subs[r.slot] # None
                THEN [got EXCEPT ![r.slot] = @ \cup (r.found \cap view.events)]
                ELSE got
      /\ early' = IF r.latest THEN [early EXCEPT ![r.slot] = @ \ r.readable] ELSE early
      /\ UNCHANGED <<view, pushed, connections, subs, offered, acked>>
      /\ UNCHANGED vars
  BY DEF Answer, vars
<1>2. /\ reading \subseteq Query /\ IsFiniteSet(reading) /\ Cardinality(reading) <= MaxReads
      /\ got \in [Slots -> SUBSET Id] /\ early \in [Slots -> SUBSET Id]
      /\ r.slot \in Slots
  BY DEF RelayInv, RelayTypeOK, FiniteSlots, Query
<1>3. view.events \subseteq Id /\ view.indexed \subseteq view.events
  BY DEF RelayInv, ReplicaInv, TypeOK, View, Views, ViewInv, IndexesAgree
<1>4. /\ r.readable \subseteq view.indexed
      /\ (r.filter \cap r.readable) \subseteq r.found
      /\ r.latest /\ subs[r.slot] # None => subs[r.slot] = r.filter
  BY <1>1 DEF RelayInv, QueriesFollowView
<1>5. IsFiniteSet(reading') /\ Cardinality(reading') <= MaxReads
  <2>1. /\ IsFiniteSet(reading') /\ Cardinality(reading') = Cardinality(reading) - 1
        /\ Cardinality(reading) \in Nat
    BY <1>1, <1>2, FS_RemoveElement, FS_CardinalityType
  <2>2. QED
    BY <1>2, <2>1, RelayAssumption
<1>6. got' \in [Slots -> SUBSET Id] /\ early' \in [Slots -> SUBSET Id]
  BY <1>1, <1>2, <1>3
<1>7. RelayTypeOK' /\ FiniteSlots'
  <2>1. reading' \subseteq Query
    BY <1>1, <1>2
  <2>2. QED
    BY <1>1, <1>5, <1>6, <2>1, BaseIsKept DEF RelayInv, RelayTypeOK, FiniteSlots, Open
<1>8. QueriesFollowView' /\ OfferedMayBePut'
  BY <1>1 DEF RelayInv, QueriesFollowView, OfferedMayBePut
<1>9. SentSoFar'
  <2>1. SUFFICES ASSUME NEW y \in Slots, y[1] \in connections, subs[y] # None
                 PROVE  (pushed \cap subs[y]) \subseteq got'[y] \cup early'[y]
    BY <1>1 DEF SentSoFar
  <2>2. (pushed \cap subs[y]) \subseteq got[y] \cup early[y]
    BY <2>1 DEF RelayInv, SentSoFar
  <2>3. CASE y = r.slot
    <3>1. got'[y] = got[y] \cup (r.found \cap view.events)
      BY <1>1, <1>2, <2>1, <2>3
    <3>2. CASE r.latest
      <4>1. early'[y] = early[y] \ r.readable
        BY <1>1, <1>2, <2>3, <3>2
      <4>2. subs[y] = r.filter
        BY <1>4, <2>1, <2>3, <3>2
      <4>3. QED
        BY <1>3, <1>4, <2>2, <3>1, <4>1, <4>2
    <3>3. CASE ~r.latest
      <4>1. early' = early
        BY <1>1, <3>3
      <4>2. QED
        BY <2>2, <3>1, <4>1
    <3>4. QED
      BY <3>2, <3>3
  <2>4. CASE y # r.slot
    <3>1. got'[y] = got[y] /\ early'[y] = early[y]
      BY <1>1, <1>2, <2>4
    <3>2. QED
      BY <2>2, <3>1
  <2>5. QED
    BY <2>3, <2>4
<1>10. QED
  BY <1>1, <1>7, <1>8, <1>9, BaseIsKept, AckedStayGated DEF RelayInv

-----------------------------------------------------------------------------
(* CLOSE and the two endings of a socket. *)
LEMMA ForgetKeepsTypes ==
  ASSUME RelayInv, NEW X \in SUBSET Slots, Forget(X)
  PROVE  /\ got' \in [Slots -> SUBSET Id] /\ early' \in [Slots -> SUBSET Id]
         /\ \A y \in Slots \ X : got'[y] = got[y] /\ early'[y] = early[y]
BY DEF RelayInv, RelayTypeOK, Forget

(* Closing keeps or empties each slot; a listening slot is untouched. *)
LEMMA ClosingKeepsInv ==
  ASSUME RelayInv, UNCHANGED <<vars, reading, offered, acked>>,
         connections' \subseteq connections,
         subs' \in [Slots -> Filters \cup {None}],
         \A y \in Slots : subs'[y] \in {subs[y], None},
         NEW X \in SUBSET Slots, Forget(X),
         \A y \in X : y[1] \notin connections' \/ subs'[y] = None
  PROVE  RelayInv'
<1>1. UNCHANGED <<view, pushed, reading, offered, acked>> /\ UNCHANGED vars
  BY DEF vars
<1>2. /\ got' \in [Slots -> SUBSET Id] /\ early' \in [Slots -> SUBSET Id]
      /\ \A y \in Slots \ X : got'[y] = got[y] /\ early'[y] = early[y]
  BY ForgetKeepsTypes
<1>3. ASSUME NEW c \in Conn
      PROVE  IsFiniteSet(Open(c)') /\ Cardinality(Open(c)') <= MaxSubs
  <2>1. Open(c)' \subseteq Open(c)
    BY DEF Open, Slots
  <2>2. IsFiniteSet(Open(c)) /\ Cardinality(Open(c)) <= MaxSubs
    BY DEF RelayInv, RelayTypeOK, FiniteSlots
  <2>3. IsFiniteSet(Open(c)') /\ Cardinality(Open(c)') <= Cardinality(Open(c))
    BY <2>1, <2>2, FS_Subset
  <2>4. Cardinality(Open(c)') \in Nat /\ Cardinality(Open(c)) \in Nat
    BY <2>2, <2>3, FS_CardinalityType
  <2>5. QED
    BY <2>2, <2>3, <2>4, RelayAssumption
<1>4. RelayTypeOK' /\ FiniteSlots'
  BY <1>1, <1>2, <1>3, BaseIsKept DEF RelayInv, RelayTypeOK, FiniteSlots
<1>5. QueriesFollowView' /\ OfferedMayBePut'
  <2>1. \A r \in reading : r.slot \in Slots
    BY DEF RelayInv, RelayTypeOK, Query
  <2>2. QED
    BY <1>1, <2>1 DEF RelayInv, QueriesFollowView, OfferedMayBePut
<1>6. SentSoFar'
  <2>1. SUFFICES ASSUME NEW y \in Slots, y[1] \in connections', subs'[y] # None
                 PROVE  (pushed' \cap subs'[y]) \subseteq got'[y] \cup early'[y]
    BY DEF SentSoFar
  <2>2. y \notin X /\ y[1] \in connections /\ subs'[y] = subs[y] /\ subs[y] # None
    BY <2>1
  <2>3. QED
    BY <1>1, <1>2, <2>2 DEF RelayInv, SentSoFar
<1>7. QED
  BY <1>1, <1>4, <1>5, <1>6, BaseIsKept, AckedStayGated DEF RelayInv

LEMMA HandleCloseKeepsInv ==
  ASSUME RelayInv, NEW x \in Slots, HandleClose(x)
  PROVE  RelayInv'
<1>1. /\ subs' = [subs EXCEPT ![x] = None] /\ Forget({x})
      /\ UNCHANGED <<vars, connections, reading, offered, acked>>
  BY DEF HandleClose
<1>2. subs \in [Slots -> Filters \cup {None}]
  BY DEF RelayInv, RelayTypeOK
<1>3. /\ subs' \in [Slots -> Filters \cup {None}]
      /\ \A y \in Slots : subs'[y] \in {subs[y], None}
      /\ subs'[x] = None
  BY <1>1, <1>2
<1>4. QED
  BY <1>1, <1>3, ClosingKeepsInv

LEMMA SocketErrorKeepsInv ==
  ASSUME RelayInv, NEW c \in Conn, SocketError(c)
  PROVE  RelayInv'
<1>1. /\ connections' = connections \ {c} /\ Forget({c} \X SubId)
      /\ UNCHANGED <<vars, subs, reading, offered, acked>>
  BY DEF SocketError
<1>2. subs \in [Slots -> Filters \cup {None}]
  BY DEF RelayInv, RelayTypeOK
<1>3. {c} \X SubId \subseteq Slots /\ \A y \in {c} \X SubId : y[1] = c
  BY DEF Slots
<1>4. QED
  BY <1>1, <1>2, <1>3, ClosingKeepsInv

LEMMA SocketCloseKeepsInv ==
  ASSUME RelayInv, NEW c \in Conn, SocketClose(c)
  PROVE  RelayInv'
<1>1. /\ connections' = connections \ {c} /\ Forget({c} \X SubId)
      /\ subs' = [x \in Slots |-> IF x[1] = c THEN None ELSE subs[x]]
      /\ UNCHANGED <<vars, reading, offered, acked>>
  BY DEF SocketClose
<1>2. subs \in [Slots -> Filters \cup {None}]
  BY DEF RelayInv, RelayTypeOK
<1>3. {c} \X SubId \subseteq Slots /\ \A y \in {c} \X SubId : y[1] = c
  BY DEF Slots
<1>4. /\ subs' \in [Slots -> Filters \cup {None}]
      /\ \A y \in Slots : subs'[y] \in {subs[y], None}
  BY <1>1, <1>2
<1>5. QED
  BY <1>1, <1>3, <1>4, ClosingKeepsInv

LEMMA RelayStep ==
  ASSUME RelayInv, [RelayNext]_relayVars
  PROVE  RelayInv'
<1>1. CASE BaseStep
  BY <1>1, BaseStepKeepsInv
<1>2. CASE FlushUnderQueries
  BY <1>2, FlushUnderQueriesKeepsInv
<1>3. CASE \E e \in Id : \/ StoredNotice(e) \/ HandleEphemeral(e) \/ HandleEvent(e)
                         \/ OfferEvent(e) \/ ForwardEvent(e)
  BY <1>3, StoredNoticeKeepsInv, HandleEphemeralKeepsInv, HandleEventKeepsInv,
     OfferEventKeepsInv, ForwardEventKeepsInv
<1>4. CASE \E x \in Slots : HandleClose(x) \/ \E F \in Filters : HandleReq(x, F)
  BY <1>4, HandleCloseKeepsInv, HandleReqKeepsInv
<1>5. CASE \E r \in reading : ReadIndex(r) \/ Answer(r)
  BY <1>5, ReadIndexKeepsInv, AnswerKeepsInv
<1>6. CASE \E c \in Conn : SocketError(c) \/ SocketClose(c)
  BY <1>6, SocketErrorKeepsInv, SocketCloseKeepsInv
<1>7. CASE UNCHANGED relayVars
  <2>1. UNCHANGED <<vars, connections, subs, reading, offered, acked, got, early>>
    BY <1>7 DEF relayVars
  <2>2. UNCHANGED <<view, pushed, connections, subs, reading, offered, acked, got, early>>
    BY <2>1 DEF vars
  <2>3. RelayTypeOK' /\ FiniteSlots'
    BY <2>1, <2>2, BaseIsKept DEF RelayInv, RelayTypeOK, FiniteSlots, Open
  <2>4. QueriesFollowView' /\ SentSoFar' /\ OfferedMayBePut'
    BY <2>2 DEF RelayInv, QueriesFollowView, SentSoFar, OfferedMayBePut
  <2>5. QED
    BY <2>1, <2>2, <2>3, <2>4, BaseIsKept, AckedStayGated DEF RelayInv
<1>8. QED
  BY <1>1, <1>2, <1>3, <1>4, <1>5, <1>6, <1>7, Zenon DEF RelayNext

LEMMA RelayInvAlways == RelaySpec => []RelayInv
<1>1. RelayInit => RelayInv
  BY RelayInitInv
<1>2. RelayInv /\ [RelayNext]_relayVars => RelayInv'
  BY RelayStep
<1>3. QED
  BY <1>1, <1>2, PTL DEF RelaySpec

(***************************************************************************)
(* Every variable has its type, and no connection ever holds more than     *)
(* maxSubscriptionsPerConn subscriptions, for any number of clients.       *)
(***************************************************************************)
THEOREM RelayTypeCorrect == RelaySpec => []RelayTypeOK
<1>1. RelayInv => RelayTypeOK
  BY DEF RelayInv
<1>2. QED
  BY <1>1, RelayInvAlways, PTL

(***************************************************************************)
(* handleReq registers before it queries: what an open subscription was    *)
(* never sent had been announced before its REQ and was not readable all   *)
(* through the query.                                                      *)
(***************************************************************************)
THEOREM OnlyInFlightGaps == RelaySpec => []GapsOnlyInFlight
<1>1. RelayInv => GapsOnlyInFlight
  <2>1. SUFFICES ASSUME RelayInv, NEW x \in Slots, Quiet(x)
                 PROVE  (view.indexed \cap subs[x]) \subseteq got[x] \cup early[x]
    BY DEF GapsOnlyInFlight
  <2>2. x[1] \in connections /\ subs[x] # None /\ queue = << >>
    BY <2>1 DEF Quiet, Drained
  <2>3. view.indexed \subseteq view.events /\ view.events \subseteq Announced
    BY <2>1 DEF RelayInv, ReplicaInv, Views, ViewInv, IndexesAgree
  <2>4. Announced = pushed
    BY <2>2 DEF Announced, ToSet
  <2>5. QED
    BY <2>1, <2>2, <2>3, <2>4 DEF RelayInv, SentSoFar
<1>2. QED
  BY <1>1, RelayInvAlways, PTL

(***************************************************************************)
(* Relay implements Replica: no client makes a peer's copy of the base do  *)
(* what the store alone would not (handler.ts over store.ts).              *)
(***************************************************************************)
THEOREM RelayImplementsReplica == RelaySpec => Spec
<1>1. RelayInit => Init
  BY DEF RelayInit
<1>2. [RelayNext]_relayVars => [Next]_vars
  BY RelayStepsReplica DEF relayVars
<1>3. QED
  BY <1>1, <1>2, PTL DEF RelaySpec, Spec

-----------------------------------------------------------------------------
(***************************************************************************)
(* What OK true means.  The log takes a node of this peer out only at the  *)
(* place where apply reaches it and the view does not admit this peer; by  *)
(* SeatInv the cap is full there, and by the growth of the writers no      *)
(* signed version admits this peer either.                                 *)
(***************************************************************************)
LEMMA OwnOpIsDecided ==
  ASSUME NEW v, ViewInv(v), NEW e \in Id, Admissible(e), ~Ephemeral(e)
  PROVE  \/ e \in ApplyOp(v, OwnNode(e)).events
         \/ BlockedByTombstone(v, e)
         \/ \E p \in Previous(v, e) : ~ShouldReplace(p, e)
<1>1. CASE IsDeletion(e)
  <2>1. ApplyOp(v, OwnNode(e)) = ApplyDelete(v, e)
    BY <1>1 DEF OwnNode, ApplyOp
  <2>2. QED
    BY <1>1, <2>1, DeleteIsDecided
<1>2. CASE ~IsDeletion(e)
  <2>1. ApplyOp(v, OwnNode(e)) = ApplyPut(v, e)
    BY <1>2 DEF OwnNode, ApplyOp
  <2>2. QED
    BY <2>1, PutIsDecided
<1>3. QED
  BY <1>1, <1>2

(* An op of this peer in the log passes its gates when it is applied. *)
LEMMA LoggedIsKept ==
  ASSUME ReplicaInv', NEW e \in Id, Admissible(e), ~Ephemeral(e), InLog(OwnNode(e))'
  PROVE  Kept(e)'
<1>1. /\ order' \in Seq(Node) /\ versions' \in Seq(View)
      /\ ViewFollowsOrder'
      /\ \A v \in Views' : ViewInv(v)
  BY DEF ReplicaInv, TypeOK
<1>2. /\ Len(versions') \in Nat /\ DOMAIN versions' = 1 .. Len(versions')
      /\ DOMAIN order' = 1 .. Len(order')
  BY <1>1, LenProperties
<1>3. PICK i \in 1 .. Len(order') : order'[i] = OwnNode(e)
  BY DEF InLog
<1>4. ASSUME i <= Len(versions') - 1
      PROVE  \/ e \in versions'[i + 1].events
             \/ BlockedByTombstone(versions'[i], e)
             \/ \E p \in Previous(versions'[i], e) : ~ShouldReplace(p, e)
  <2>1. i \in 1 .. Len(versions') - 1 /\ i \in DOMAIN versions'
    BY <1>2, <1>4
  <2>2. versions'[i + 1] = ApplyOp(versions'[i], OwnNode(e))
    BY <1>1, <1>3, <2>1 DEF ViewFollowsOrder, Applied
  <2>3. versions'[i] \in Views'
    BY <2>1 DEF Views, ToSet
  <2>4. ViewInv(versions'[i])
    BY <1>1, <2>3
  <2>5. QED
    BY <2>2, <2>4, OwnOpIsDecided
<1>5. QED
  BY <1>2, <1>3, <1>4 DEF Kept, Applied

LEMMA DroppedIsUnseated ==
  ASSUME ReplicaInv, SeatInv, RollBack, NEW e, order[Applied + 1] = OwnNode(e)
  PROVE  Unseated
<1> DEFINE a == Applied + 1
           n == order[a]
<1>1. TypeOK
  BY DEF ReplicaInv
<1>2. /\ Len(order) \in Nat /\ Applied \in Nat /\ Applied < Len(order)
      /\ indexed \in Nat /\ indexed <= Applied
      /\ Len(versions) = a /\ Tip = versions[a] /\ Tip \in Views
  BY <1>1, VersionFacts DEF Applied, Tip, RollBack, Views
<1>3. a \in 1 .. Len(order) /\ a \in 1 .. Len(versions) /\ indexed + 1 \in 1 .. Len(versions)
      /\ indexed + 1 <= a
  BY <1>2
<1>4. Durable(n) /\ ~Acked(Tip, n)
  BY DEF Durable, OwnNode, RollBack
<1>5. Self \notin MayWrite(Tip)
  BY <1>4 DEF Durable, Acked
<1> HIDE DEF n, a
<1>6. PICK s : Seats(order, versions, view, s)
  BY DEF SeatInv
<1>7. Seated(s[a])
  BY <1>3, <1>4, <1>6 DEF Seats, OwnSeated, n
<1>8. s[a] \subseteq Writers(Tip) \/ Full(Writers(Tip))
  BY <1>2, <1>3, <1>6 DEF Seats, Tracks
<1>9. Writers(Tip) \in SUBSET Key
  BY DEF Writers
<1>10. Full(Writers(Tip))
  <2>1. CASE s[a] \subseteq Writers(Tip)
    <3>1. Seated(Writers(Tip))
      BY <1>7, <1>9, <2>1, FullGrows
    <3>2. QED
      BY <1>5, <3>1 DEF Seated, MayWrite
  <2>2. QED
    BY <1>8, <2>1
<1>11. Cardinality(Writers(Tip)) = MaxWriters
  <2>1. Cardinality(Writers(Tip)) <= MaxWriters
    BY <1>2 DEF ReplicaInv, ViewInv, AdmissionsRooted
  <2>2. Cardinality(Writers(Tip)) \in Nat
    BY <1>9, FullGrows
  <2>3. QED
    BY <1>10, <2>1, <2>2, StoreAssumption DEF Full
<1>12. Self \notin MayWrite(versions[indexed + 1])
  <2>1. Writers(versions[indexed + 1]) \subseteq Writers(versions[a])
    BY <1>3 DEF SeatInv, WritersGrow
  <2>2. QED
    BY <1>2, <1>5, <2>1 DEF MayWrite
<1>13. QED
  BY <1>5, <1>11, <1>12 DEF Unseated

(* What is newly answered is logged by the same step. *)
LEMMA NewlyAckedIsLogged ==
  ASSUME RelayInv, [RelayNext]_relayVars, NEW e \in acked' \ acked
  PROVE  e \in Id /\ InLog(OwnNode(e))'
<1>1. CASE \E o \in Id : HandleEvent(o)
  <2>1. PICK o \in Id : HandleEvent(o)
    BY <1>1
  <2>2. e = o /\ writable /\ IF IsDeletion(e) THEN DeleteEvent(e) ELSE PutEvent(e)
    BY <2>1 DEF HandleEvent
  <2>3. QED
    BY <2>2, DeleteLogs, PutLogs
<1>2. CASE \E o \in Id : ForwardEvent(o)
  <2>1. PICK o \in Id : ForwardEvent(o)
    BY <1>2
  <2>2. e = o /\ e \in offered /\ writable /\ PutEvent(e)
    BY <2>1 DEF ForwardEvent
  <2>3. ~IsDeletion(e)
    BY <2>2 DEF RelayInv, OfferedMayBePut
  <2>4. QED
    BY <2>2, <2>3, PutLogs
<1>3. CASE \/ BaseStep \/ FlushUnderQueries \/ UNCHANGED relayVars
           \/ \E o \in Id : StoredNotice(o) \/ HandleEphemeral(o) \/ OfferEvent(o)
  BY <1>3 DEF BaseStep, FlushUnderQueries, StoredNotice, HandleEphemeral, OfferEvent, relayVars
<1>4. CASE \E x \in Slots : HandleClose(x) \/ \E F \in Filters : HandleReq(x, F)
  BY <1>4 DEF HandleClose, HandleReq
<1>5. CASE \E r \in reading : ReadIndex(r) \/ Answer(r)
  BY <1>5 DEF ReadIndex, Answer
<1>6. CASE \E c \in Conn : SocketError(c) \/ SocketClose(c)
  BY <1>6 DEF SocketError, SocketClose
<1>7. QED
  BY <1>1, <1>2, <1>3, <1>4, <1>5, <1>6 DEF RelayNext

LEMMA AcceptStep ==
  ASSUME RelayInv, SeatInv, [RelayNext]_relayVars
  PROVE  /\ \A e \in acked' \ acked : Kept(e)'
         /\ \A e \in acked : Kept(e) => Kept(e)' \/ Unseated
<1>1. RelayInv' /\ ReplicaInv /\ ReplicaInv'
  BY RelayStep DEF RelayInv
<1>2. [Next]_vars
  BY RelayStepsReplica DEF relayVars
<1>3. ASSUME NEW e \in acked' \ acked
      PROVE  Kept(e)'
  <2>1. Admissible(e) /\ ~Ephemeral(e)
    BY <1>1 DEF RelayInv, AckedIsGated
  <2>2. QED
    BY <1>1, <2>1, NewlyAckedIsLogged, LoggedIsKept
<1>4. ASSUME NEW e \in acked, Kept(e)
      PROVE  Kept(e)' \/ Unseated
  <2>1. e \in Id /\ Admissible(e) /\ ~Ephemeral(e)
    BY DEF RelayInv, RelayTypeOK, AckedIsGated
  <2>2. InLog(OwnNode(e))
    <3>1. DOMAIN order = 1 .. Len(order)
      BY <1>1, VersionFacts DEF ReplicaInv
    <3>2. QED
      BY <1>4, <3>1 DEF Kept, InLog
  <2>3. CASE InLog(OwnNode(e))'
    BY <1>1, <2>1, <2>3, LoggedIsKept
  <2>4. CASE RollBack /\ OwnNode(e) = order[Applied + 1]
    BY <1>1, <2>4, DroppedIsUnseated
  <2>5. QED
    BY <1>1, <1>2, <2>2, <2>3, <2>4, LogKeeps
<1>5. QED
  BY <1>3, <1>4

(***************************************************************************)
(* "Never accept-then-drop", for every log, every cap and any number of    *)
(* writers that admit others at once: what this peer answered with OK true *)
(* as a writer stays in its log and passes the gates of apply.  It is lost *)
(* only when a reorder undoes an admission that the founder has not signed *)
(* and others have taken all the places.                                   *)
(***************************************************************************)
THEOREM AcceptedIsKept == RelaySpec => NeverAcceptThenDrop
<1>1. RelayInv /\ SeatInv /\ [RelayNext]_relayVars =>
        [/\ \A e \in acked' \ acked : Kept(e)'
         /\ \A e \in acked : Kept(e) => Kept(e)' \/ Unseated]_relayVars
  BY AcceptStep
<1>2. RelaySpec => []SeatInv
  BY RelayImplementsReplica, SeatsAlways, PTL
<1>3. QED
  BY <1>1, <1>2, RelayInvAlways, PTL DEF RelaySpec, NeverAcceptThenDrop
=============================================================================
