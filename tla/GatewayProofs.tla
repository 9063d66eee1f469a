----------------------------- MODULE GatewayProofs ----------------------------
(***************************************************************************)
(* The gateway and the sidecar, for any number of handlers and backends,   *)
(* any requests, chain and liars: what is cached is what a request with    *)
(* its key asks for, what is served as verified is true, every answer fits *)
(* its request, no absence is said that a backend may contradict, and the  *)
(* cache keeps its account.  The rate limiter in front of the gateway has  *)
(* a specification of its own, whose theorems come last.                   *)
(***************************************************************************)
EXTENDS Sidecar, TokenBucket, HeaderTrustProofs, SequenceTheorems

(* ------------------------------- the cache ----------------------------- *)

Elements(q) == {q[i] : i \in DOMAIN q}

LEMMA ElementsType ==
  ASSUME NEW T, NEW q \in Seq(T)
  PROVE  q \in Seq(Elements(q)) /\ Elements(q) \subseteq T
BY DEF Elements

LEMMA LeastOfNaturals ==
  ASSUME NEW T \in SUBSET Nat, T # {}
  PROVE  Min(T) \in T
BY LeastNatural DEF Min

\* Eviction spares the newest entry, and stops within the budget or there.
LEMMA DroppedFits ==
  ASSUME NEW T, NEW q \in Seq(T), q # << >>, NEW bytes
  PROVE  /\ Dropped(q, bytes) \in 0 .. Len(q) - 1
         /\ \/ bytes - BytesOf(SubSeq(q, 1, Dropped(q, bytes))) <= CacheMaxBytes
            \/ Dropped(q, bytes) = Len(q) - 1
<1> DEFINE newest == Len(q) - 1
           enough == {n \in 0 .. newest :
                        bytes - BytesOf(SubSeq(q, 1, n)) <= CacheMaxBytes \/ n = newest}
<1>1. newest \in Nat
  OBVIOUS
<1>2. enough \in SUBSET Nat /\ newest \in enough
  BY <1>1
<1>3. Dropped(q, bytes) = Min(enough)
  BY DEF Dropped
<1> HIDE DEF newest, enough
<1>4. Min(enough) \in enough
  BY <1>2, LeastOfNaturals
<1> QED BY <1>3, <1>4 DEF enough, newest

\* What is looked up is there, and taking it out leaves only what was there.
LEMMA LruParts ==
  ASSUME NEW lru, NEW T, lru.entries \in Seq(T), NEW key
  PROVE  /\ Holds(lru, key) => Of(lru, key) \in T /\ Of(lru, key).key = key
                               /\ Place(lru, key) \in DOMAIN lru.entries
         /\ Others(lru, key) \in Seq(T)
<1>1. Holds(lru, key) => /\ Place(lru, key) \in DOMAIN lru.entries
                         /\ lru.entries[Place(lru, key)].key = key
  BY DEF Holds, Place
<1>2. Holds(lru, key) => Of(lru, key) \in T
  BY <1>1 DEF Of
<1>3. CASE ~Holds(lru, key)
  BY <1>3 DEF Others
<1>4. CASE Holds(lru, key)
  <2> DEFINE q == lru.entries
             i == Place(lru, key)
  <2>1. i \in 1 .. Len(q) /\ q \in Seq(T)
    BY <1>1, <1>4
  <2> HIDE DEF q, i
  <2>2. SubSeq(q, 1, i - 1) \in Seq(T) /\ SubSeq(q, i + 1, Len(q)) \in Seq(T)
    BY <2>1, SubSeqProperties
  <2>3. RemoveAt(q, i) \in Seq(T)
    BY <2>2 DEF RemoveAt
  <2> QED BY <1>1, <1>2, <1>4, <2>3 DEF Others, Of, q, i
<1> QED BY <1>1, <1>2, <1>3, <1>4 DEF Of

LEMMA LruGetKeeps ==
  ASSUME NEW lru, NEW T, lru.entries \in Seq(T), NEW key, Holds(lru, key)
  PROVE  LruGet(lru, key).entries \in Seq(T)
BY LruParts DEF LruGet

LEMMA LruSetKeeps ==
  ASSUME NEW lru, NEW T, lru.entries \in Seq(T), NEW key, NEW value,
         [key |-> key, value |-> value] \in T
  PROVE  LruSet(lru, key, value).entries \in Seq(T)
<1> DEFINE q == Append(Others(lru, key), [key |-> key, value |-> value])
           existing == IF Holds(lru, key) THEN Found(lru, key).size ELSE 0
           bytes == lru.bytes - existing + value.size
           n == Dropped(q, bytes)
<1>1. CASE value.size > CacheMaxEntry
  BY <1>1 DEF LruSet
<1>2. CASE ~(value.size > CacheMaxEntry)
  <2>1. q \in Seq(T) /\ q # << >>
    <3> DEFINE others == Others(lru, key)
               new == [key |-> key, value |-> value]
    <3>1. others \in Seq(T) /\ new \in T
      BY LruParts
    <3> HIDE DEF others, new
    <3>2. Append(others, new) \in Seq(T) /\ Append(others, new) # << >>
      BY <3>1, AppendProperties
    <3> QED BY <3>2 DEF others, new
  <2>2. LruSet(lru, key, value).entries = SubSeq(q, n + 1, Len(q))
    BY <1>2 DEF LruSet
  <2> HIDE DEF q, bytes
  <2>3. n \in 0 .. Len(q) - 1
    BY <2>1, DroppedFits
  <2>4. SubSeq(q, n + 1, Len(q)) \in Seq(T)
    <3> HIDE DEF n
    <3> QED BY <2>1, <2>3, SubSeqProperties
  <2> QED BY <2>2, <2>4
<1> QED BY <1>1, <1>2

(* ------------------------ what the cache's bytes are ------------------- *)

Sized(T) == \A e \in T : e.value.size \in Nat

\* f[n] is the bytes of the first n entries of q.
Totals(f, q) ==
  /\ f \in [0 .. Len(q) -> Nat]
  /\ f[0] = 0
  /\ \A n \in 1 .. Len(q) : f[n] = f[n - 1] + q[n].value.size

\* Induction over the naturals, of a set instead of a predicate.
LEMMA InductionBySet ==
  ASSUME NEW S, 0 \in S, \A n \in Nat : n \in S => n + 1 \in S
  PROVE  Nat \subseteq S
<1> DEFINE T == Nat \ S
<1> SUFFICES ASSUME T # {} PROVE FALSE
  OBVIOUS
<1>1. PICK x \in T : \A y \in T : x <= y
  BY LeastNatural
<1>2. x - 1 \in Nat /\ x - 1 + 1 = x
  OBVIOUS
<1>3. x - 1 \in S
  BY <1>1, <1>2
<1> QED BY <1>2, <1>3

\* A recursive function is what its equation says, here as far as m.
LEMMA TotalsUpTo ==
  ASSUME NEW T, NEW q \in Seq(T), Sized(T), NEW m \in 0 .. Len(q)
  PROVE  \E f \in [0 .. m -> Nat] :
           f = [n \in 0 .. m |-> IF n = 0 THEN 0 ELSE f[n - 1] + q[n].value.size]
<1> DEFINE Eqn(f, k) == f = [n \in 0 .. k |-> IF n = 0 THEN 0 ELSE f[n - 1] + q[n].value.size]
           S == {k \in Nat : k <= Len(q) => \E f \in [0 .. k -> Nat] : Eqn(f, k)}
<1>1. 0 \in S
  <2>1. Eqn([n \in 0 .. 0 |-> 0], 0) /\ [n \in 0 .. 0 |-> 0] \in [0 .. 0 -> Nat]
    OBVIOUS
  <2> QED BY <2>1
<1>2. ASSUME NEW k \in Nat, k \in S PROVE k + 1 \in S
  <2> HIDE DEF Eqn
  <2> SUFFICES ASSUME k + 1 <= Len(q) PROVE \E f \in [0 .. k + 1 -> Nat] : Eqn(f, k + 1)
    OBVIOUS
  <2> USE DEF Eqn
  <2>1. PICK g \in [0 .. k -> Nat] : Eqn(g, k)
    BY <1>2
  <2>2. q[k + 1].value.size \in Nat
    BY DEF Sized
  <2> DEFINE f == [n \in 0 .. k + 1 |-> IF n = k + 1 THEN g[k] + q[k + 1].value.size ELSE g[n]]
  <2>3. f \in [0 .. k + 1 -> Nat]
    BY <2>2
  <2>4. ASSUME NEW n \in 0 .. k + 1
        PROVE  f[n] = IF n = 0 THEN 0 ELSE f[n - 1] + q[n].value.size
    <3>1. CASE n = k + 1
      BY <3>1
    <3>2. CASE n # k + 1
      <4>1. n \in 0 .. k /\ g[n] = IF n = 0 THEN 0 ELSE g[n - 1] + q[n].value.size
        BY <2>1, <3>2
      <4> QED BY <3>2, <4>1
    <3> QED BY <3>1, <3>2
  <2>5. Eqn(f, k + 1)
    BY <2>4
  <2> QED BY <2>3, <2>5
<1> HIDE DEF S
<1>3. Nat \subseteq S
  BY <1>1, <1>2, InductionBySet
<1>4. m \in S /\ m <= Len(q)
  BY <1>3
<1> HIDE DEF Eqn
<1>5. \E f \in [0 .. m -> Nat] : Eqn(f, m)
  BY <1>4 DEF S
<1> QED BY <1>5 DEF Eqn

LEMMA BytesAreTotals ==
  ASSUME NEW T, NEW q \in Seq(T), Sized(T)
  PROVE  \E f : Totals(f, q) /\ BytesOf(q) = f[Len(q)]
<1> DEFINE N == Len(q)
           Eqn(f) == f = [n \in 0 .. N |-> IF n = 0 THEN 0 ELSE f[n - 1] + q[n].value.size]
           h == CHOOSE f : Eqn(f)
<1>1. N \in Nat
  OBVIOUS
<1>2. BytesOf(q) = h[N]
  BY DEF BytesOf
<1>3. PICK g \in [0 .. N -> Nat] : Eqn(g)
  BY <1>1, TotalsUpTo
<1>4. Eqn(h)
  BY <1>3
<1>5. \A n \in 0 .. N : h[n] = IF n = 0 THEN 0 ELSE h[n - 1] + q[n].value.size
  <2> HIDE DEF h
  <2> QED BY <1>4
<1> HIDE DEF h
<1> DEFINE S == {n \in Nat : n <= N => h[n] \in Nat}
<1>6. 0 \in S
  BY <1>1, <1>5
<1>7. ASSUME NEW k \in Nat, k \in S PROVE k + 1 \in S
  <2> SUFFICES ASSUME k + 1 <= N PROVE h[k + 1] \in Nat
    OBVIOUS
  <2>1. q[k + 1].value.size \in Nat
    BY DEF Sized
  <2>2. h[k + 1] = h[k] + q[k + 1].value.size
    BY <1>5
  <2> QED BY <1>7, <2>1, <2>2
<1> HIDE DEF S
<1>8. Nat \subseteq S
  BY <1>6, <1>7, InductionBySet
<1>9. \A n \in 0 .. N : h[n] \in Nat
  BY <1>8, <1>1 DEF S
<1>10. h = [n \in 0 .. N |-> h[n]]
  BY <1>4
<1>11. Totals(h, q)
  BY <1>1, <1>5, <1>9, <1>10 DEF Totals
<1> QED BY <1>2, <1>11

\* The totals of a segment are those of the whole, less what goes before it.
LEMMA SegmentTotals ==
  ASSUME NEW T, Sized(T), NEW q \in Seq(T), NEW p \in Seq(T), NEW f, NEW g,
         Totals(f, q), Totals(g, p), NEW k \in Nat, k + Len(p) <= Len(q),
         \A i \in 1 .. Len(p) : p[i] = q[k + i]
  PROVE  f[k + Len(p)] = f[k] + g[Len(p)]
<1> DEFINE S == {n \in Nat : n <= Len(p) => f[k + n] = f[k] + g[n]}
<1>1. /\ \A n \in 0 .. Len(q) : f[n] \in Nat
      /\ \A n \in 0 .. Len(p) : g[n] \in Nat
      /\ g[0] = 0
  BY DEF Totals
<1>2. 0 \in S
  BY <1>1
<1>3. ASSUME NEW n \in Nat, n \in S PROVE n + 1 \in S
  <2> SUFFICES ASSUME n + 1 <= Len(p) PROVE f[k + (n + 1)] = f[k] + g[n + 1]
    OBVIOUS
  <2>1. p[n + 1] = q[k + (n + 1)] /\ p[n + 1] \in T
    OBVIOUS
  <2>2. f[k + (n + 1)] = f[k + n] + q[k + (n + 1)].value.size
    <3>1. k + (n + 1) \in 1 .. Len(q) /\ (k + (n + 1)) - 1 = k + n
      OBVIOUS
    <3> QED BY <3>1 DEF Totals
  <2>3. g[n + 1] = g[n] + p[n + 1].value.size
    <3>1. n + 1 \in 1 .. Len(p) /\ (n + 1) - 1 = n
      OBVIOUS
    <3> QED BY <3>1 DEF Totals
  <2>4. f[k + n] = f[k] + g[n]
    BY <1>3
  <2>5. p[n + 1].value.size \in Nat
    BY <2>1 DEF Sized
  <2>6. k \in 0 .. Len(q) /\ n \in 0 .. Len(p)
    OBVIOUS
  <2> QED BY <1>1, <2>1, <2>2, <2>3, <2>4, <2>5, <2>6
<1> HIDE DEF S
<1>4. Nat \subseteq S
  BY <1>2, <1>3, InductionBySet
<1>5. Len(p) \in S
  BY <1>4
<1> QED BY <1>5 DEF S

LEMMA SegmentBytes ==
  ASSUME NEW T, Sized(T), NEW q \in Seq(T), NEW f, Totals(f, q),
         NEW p \in Seq(T), NEW k \in Nat, k + Len(p) <= Len(q),
         \A i \in 1 .. Len(p) : p[i] = q[k + i]
  PROVE  BytesOf(p) = f[k + Len(p)] - f[k]
<1>1. PICK g : Totals(g, p) /\ BytesOf(p) = g[Len(p)]
  BY BytesAreTotals
<1>2. f[k + Len(p)] = f[k] + g[Len(p)]
  BY <1>1, SegmentTotals
<1>3. f[k] \in Nat /\ g[Len(p)] \in Nat
  <2>1. k \in 0 .. Len(q) /\ Len(p) \in 0 .. Len(p)
    OBVIOUS
  <2> QED BY <1>1, <2>1 DEF Totals
<1> QED BY <1>1, <1>2, <1>3

LEMMA AppendBytes ==
  ASSUME NEW T, Sized(T), NEW q \in Seq(T), NEW e \in T
  PROVE  BytesOf(q) \in Nat /\ BytesOf(Append(q, e)) = BytesOf(q) + e.value.size
<1> DEFINE r == Append(q, e)
<1>1. /\ r \in Seq(T) /\ Len(r) = Len(q) + 1 /\ r[Len(q) + 1] = e
      /\ \A i \in 1 .. Len(q) : r[i] = q[i]
  BY AppendProperties
<1> HIDE DEF r
<1>2. PICK f : Totals(f, r) /\ BytesOf(r) = f[Len(r)]
  BY <1>1, BytesAreTotals
<1>3. BytesOf(q) = f[Len(q)] - f[0]
  <2>1. 0 + Len(q) = Len(q) /\ Len(q) <= Len(r) /\ \A i \in 1 .. Len(q) : q[i] = r[0 + i]
    BY <1>1
  <2>2. \A k \in Nat : k + Len(q) <= Len(r) /\ (\A i \in 1 .. Len(q) : q[i] = r[k + i])
                      => BytesOf(q) = f[k + Len(q)] - f[k]
    BY <1>1, <1>2, SegmentBytes
  <2> QED BY <2>1, <2>2
<1>4. /\ f[0] = 0 /\ f[Len(q)] \in Nat
      /\ f[Len(q) + 1] = f[(Len(q) + 1) - 1] + r[Len(q) + 1].value.size
  BY <1>1, <1>2 DEF Totals
<1>5. (Len(q) + 1) - 1 = Len(q)
  OBVIOUS
<1> QED BY <1>1, <1>2, <1>3, <1>4, <1>5 DEF r

LEMMA SplitBytes ==
  ASSUME NEW T, Sized(T), NEW q \in Seq(T), NEW n \in 0 .. Len(q)
  PROVE  BytesOf(SubSeq(q, n + 1, Len(q))) = BytesOf(q) - BytesOf(SubSeq(q, 1, n))
<1> DEFINE a == SubSeq(q, 1, n)
           b == SubSeq(q, n + 1, Len(q))
<1>1. /\ a \in Seq(T) /\ Len(a) = n
      /\ b \in Seq(T) /\ Len(b) = Len(q) - n
      /\ \A i \in 1 .. n : a[i] = q[i]
      /\ \A i \in 1 .. Len(q) - n : b[i] = q[n + i]
  OBVIOUS
<1> HIDE DEF a, b
<1>2. PICK f : Totals(f, q) /\ BytesOf(q) = f[Len(q)]
  BY BytesAreTotals
<1>3. \A p \in Seq(T), k \in Nat :
        k + Len(p) <= Len(q) /\ (\A i \in 1 .. Len(p) : p[i] = q[k + i])
        => BytesOf(p) = f[k + Len(p)] - f[k]
  BY <1>2, SegmentBytes
<1>4. BytesOf(a) = f[0 + n] - f[0]
  BY <1>1, <1>3
<1>5. BytesOf(b) = f[n + (Len(q) - n)] - f[n]
  <2>1. n \in Nat /\ n + (Len(q) - n) <= Len(q)
    OBVIOUS
  <2>2. /\ b \in Seq(T) /\ n + Len(b) <= Len(q)
        /\ \A i \in 1 .. Len(b) : b[i] = q[n + i]
    BY <1>1, <2>1, Zenon
  <2>3. BytesOf(b) = f[n + Len(b)] - f[n]
    BY <1>3, <2>1, <2>2
  <2> QED BY <1>1, <2>3, Zenon
<1>6. f[0] = 0 /\ f[n] \in Nat /\ f[Len(q)] \in Nat /\ 0 + n = n /\ n + (Len(q) - n) = Len(q)
  BY <1>2 DEF Totals
<1> QED BY <1>2, <1>4, <1>5, <1>6 DEF a, b

LEMMA RemovedParts ==
  ASSUME NEW T, NEW q \in Seq(T), NEW i \in 1 .. Len(q)
  PROVE  /\ RemoveAt(q, i) \in Seq(T) /\ Len(RemoveAt(q, i)) = Len(q) - 1
         /\ \A j \in 1 .. Len(q) - 1 :
              RemoveAt(q, i)[j] = IF j < i THEN q[j] ELSE q[j + 1]
<1> DEFINE a == SubSeq(q, 1, i - 1)
           b == SubSeq(q, i + 1, Len(q))
<1>1. /\ a \in Seq(T) /\ Len(a) = i - 1
      /\ b \in Seq(T) /\ Len(b) = Len(q) - i
      /\ \A j \in 1 .. i - 1 : a[j] = q[j]
      /\ \A j \in 1 .. Len(q) - i : b[j] = q[i + j]
  OBVIOUS
<1>2. RemoveAt(q, i) = a \o b
  BY DEF RemoveAt
<1> HIDE DEF a, b
<1>3. /\ a \o b \in Seq(T) /\ Len(a \o b) = Len(q) - 1
      /\ \A j \in 1 .. Len(q) - 1 : (a \o b)[j] = IF j <= i - 1 THEN a[j] ELSE b[j - (i - 1)]
  <2>1. /\ a \o b \in Seq(T) /\ Len(a \o b) = Len(a) + Len(b)
        /\ \A j \in 1 .. Len(a) + Len(b) :
             (a \o b)[j] = IF j <= Len(a) THEN a[j] ELSE b[j - Len(a)]
    BY <1>1, ConcatProperties
  <2> DEFINE c == a \o b
  <2> HIDE DEF c
  <2>2. Len(a) + Len(b) = Len(q) - 1
    BY <1>1
  <2> QED BY <1>1, <2>1, <2>2
<1>4. ASSUME NEW j \in 1 .. Len(q) - 1
      PROVE  (a \o b)[j] = IF j < i THEN q[j] ELSE q[j + 1]
  <2>1. CASE j < i
    BY <1>1, <1>3, <2>1
  <2>2. CASE ~(j < i)
    <3>1. (a \o b)[j] = b[j - (i - 1)]
      BY <1>3, <2>2
    <3>2. j - (i - 1) \in 1 .. Len(q) - i /\ i + (j - (i - 1)) = j + 1
      BY <2>2
    <3> QED BY <1>1, <2>2, <3>1, <3>2
  <2> QED BY <2>1, <2>2
<1> QED BY <1>2, <1>3, <1>4

LEMMA RemovedBytes ==
  ASSUME NEW T, Sized(T), NEW q \in Seq(T), NEW i \in 1 .. Len(q)
  PROVE  BytesOf(RemoveAt(q, i)) = BytesOf(q) - q[i].value.size
<1> DEFINE r == RemoveAt(q, i)
           b == SubSeq(q, i + 1, Len(q))
<1>1. /\ r \in Seq(T) /\ Len(r) = Len(q) - 1
      /\ \A j \in 1 .. Len(q) - 1 : r[j] = IF j < i THEN q[j] ELSE q[j + 1]
  BY RemovedParts
<1>2. SubSeq(r, 1, i - 1) = SubSeq(q, 1, i - 1)
  <2> HIDE DEF r
  <2>1. /\ SubSeq(r, 1, i - 1) \in Seq(T) /\ SubSeq(q, 1, i - 1) \in Seq(T)
        /\ Len(SubSeq(r, 1, i - 1)) = i - 1 /\ Len(SubSeq(q, 1, i - 1)) = i - 1
        /\ \A j \in 1 .. i - 1 : SubSeq(r, 1, i - 1)[j] = SubSeq(q, 1, i - 1)[j]
    BY <1>1
  <2> QED BY <2>1, SeqEqual
<1>3. SubSeq(r, i, Len(r)) = b
  <2> HIDE DEF r
  <2>1. /\ SubSeq(r, i, Len(r)) \in Seq(T) /\ b \in Seq(T)
        /\ Len(SubSeq(r, i, Len(r))) = Len(q) - i /\ Len(b) = Len(q) - i
        /\ \A j \in 1 .. Len(q) - i : SubSeq(r, i, Len(r))[j] = b[j]
    BY <1>1
  <2> QED BY <2>1, SeqEqual
<1> HIDE DEF r, b
<1>4. BytesOf(b) = BytesOf(r) - BytesOf(SubSeq(q, 1, i - 1))
  <2>1. i - 1 \in 0 .. Len(r) /\ (i - 1) + 1 = i
    BY <1>1
  <2>2. \A n \in 0 .. Len(r) : BytesOf(SubSeq(r, n + 1, Len(r))) = BytesOf(r) - BytesOf(SubSeq(r, 1, n))
    BY <1>1, SplitBytes
  <2> QED BY <1>2, <1>3, <2>1, <2>2
<1>5. BytesOf(b) = BytesOf(q) - BytesOf(SubSeq(q, 1, i))
  <2>1. i \in 0 .. Len(q)
    OBVIOUS
  <2> QED BY <2>1, SplitBytes DEF b
<1>6. SubSeq(q, 1, i) = Append(SubSeq(q, 1, i - 1), q[i])
  OBVIOUS
<1>7. SubSeq(q, 1, i - 1) \in Seq(T) /\ q[i] \in T
  OBVIOUS
<1>8. /\ BytesOf(SubSeq(q, 1, i - 1)) \in Nat
      /\ BytesOf(SubSeq(q, 1, i)) = BytesOf(SubSeq(q, 1, i - 1)) + q[i].value.size
  BY <1>6, <1>7, AppendBytes
<1>9. BytesOf(r) \in Nat /\ BytesOf(q) \in Nat /\ q[i].value.size \in Nat
  BY <1>1, <1>7, AppendBytes DEF Sized
<1> QED BY <1>4, <1>5, <1>8, <1>9 DEF r

(* ------------------------- the cache's account ------------------------- *)

KeysOnce(q) == \A i, j \in DOMAIN q : q[i].key = q[j].key => i = j

Account(lru) ==
  /\ lru.entries \in Seq(Elements(lru.entries)) /\ Sized(Elements(lru.entries))
  /\ lru.bytes = BytesOf(lru.entries)
  /\ KeysOnce(lru.entries)
  /\ lru.bytes <= CacheMaxBytes \/ Len(lru.entries) = 1

\* The entries of the other keys, without the bytes of this one.
LEMMA OthersParts ==
  ASSUME NEW lru, NEW T, Sized(T), lru.entries \in Seq(T), KeysOnce(lru.entries), NEW key
  PROVE  LET o == Others(lru, key)
             held == Holds(lru, key)
         IN /\ o \in Seq(T) /\ KeysOnce(o) /\ \A i \in DOMAIN o : o[i].key # key
            /\ BytesOf(o) = BytesOf(lru.entries) - IF held THEN Found(lru, key).size ELSE 0
            /\ Len(o) = Len(lru.entries) - IF held THEN 1 ELSE 0
<1> DEFINE q == lru.entries
           i == Place(lru, key)
<1>1. CASE ~Holds(lru, key)
  <2>1. Others(lru, key) = q
    BY <1>1 DEF Others
  <2>2. BytesOf(q) \in Nat
    <3>1. CASE q = << >>
      <4>1. PICK f : Totals(f, q) /\ BytesOf(q) = f[Len(q)]
        BY BytesAreTotals
      <4> QED BY <4>1 DEF Totals
    <3>2. CASE q # << >>
      BY <3>2, AppendBytes
    <3> QED BY <3>1, <3>2
  <2> QED BY <1>1, <2>1, <2>2 DEF Holds
<1>2. CASE Holds(lru, key)
  <2>1. i \in DOMAIN q /\ q[i].key = key
    BY <1>2 DEF Holds, Place
  <2>2. i \in 1 .. Len(q) /\ Found(lru, key) = q[i].value
    BY <2>1 DEF Found, Of
  <2> DEFINE o == RemoveAt(q, i)
  <2>3. Others(lru, key) = o
    BY <1>2 DEF Others
  <2> HIDE DEF i, q
  <2>4. /\ o \in Seq(T) /\ Len(o) = Len(q) - 1
        /\ \A j \in 1 .. Len(q) - 1 : o[j] = IF j < i THEN q[j] ELSE q[j + 1]
    BY <2>2, RemovedParts DEF q
  <2>5. BytesOf(o) = BytesOf(q) - q[i].value.size
    BY <2>2, RemovedBytes DEF q
  <2> HIDE DEF o
  <2>6. /\ DOMAIN o = 1 .. Len(q) - 1 /\ DOMAIN q = 1 .. Len(q) /\ Len(q) \in Nat
        /\ \A j, k \in 1 .. Len(q) : q[j].key = q[k].key => j = k
    BY <2>4 DEF KeysOnce, q
  <2>7. \A j \in DOMAIN o :
           \E k \in 1 .. Len(q) : o[j] = q[k] /\ k # i /\ k = IF j < i THEN j ELSE j + 1
    <3> TAKE j \in DOMAIN o
    <3>1. j \in 1 .. Len(q) /\ j + 1 \in 1 .. Len(q)
      BY <2>6
    <3>2. CASE j < i
      BY <2>4, <2>6, <3>1, <3>2
    <3>3. CASE ~(j < i)
      <4>1. o[j] = q[j + 1] /\ j + 1 # i
        BY <2>2, <2>4, <2>6, <3>3
      <4> QED BY <3>1, <3>3, <4>1
    <3> QED BY <3>2, <3>3
  <2>8. \A j \in DOMAIN o : o[j].key # key
    BY <2>1, <2>2, <2>6, <2>7
  <2>9. KeysOnce(o)
    <3> SUFFICES ASSUME NEW j \in DOMAIN o, NEW k \in DOMAIN o, o[j].key = o[k].key
                 PROVE  j = k
      BY DEF KeysOnce
    <3>1. PICK m \in 1 .. Len(q) : o[j] = q[m] /\ m # i /\ m = IF j < i THEN j ELSE j + 1
      BY <2>7
    <3>2. PICK n \in 1 .. Len(q) : o[k] = q[n] /\ n # i /\ n = IF k < i THEN k ELSE k + 1
      BY <2>7
    <3>3. m = n
      BY <2>6, <3>1, <3>2
    <3>4. j \in Nat /\ k \in Nat /\ i \in Nat
      BY <2>2, <2>6
    <3> QED BY <3>1, <3>2, <3>3, <3>4
  <2> QED BY <1>2, <2>2, <2>3, <2>4, <2>5, <2>8, <2>9 DEF q
<1> QED BY <1>1, <1>2

LEMMA AppendParts ==
  ASSUME NEW T, NEW o \in Seq(T), KeysOnce(o), NEW e \in T,
         \A i \in DOMAIN o : o[i].key # e.key
  PROVE  KeysOnce(Append(o, e))
<1> DEFINE q == Append(o, e)
<1>1. /\ Len(q) = Len(o) + 1 /\ q[Len(o) + 1] = e /\ \A i \in 1 .. Len(o) : q[i] = o[i]
      /\ DOMAIN q = 1 .. Len(o) + 1 /\ DOMAIN o = 1 .. Len(o) /\ Len(o) \in Nat
  BY AppendProperties
<1> HIDE DEF q
<1> SUFFICES ASSUME NEW i \in DOMAIN q, NEW j \in DOMAIN q, q[i].key = q[j].key PROVE i = j
  BY DEF KeysOnce, q
<1>2. i \in 1 .. Len(o) \/ i = Len(o) + 1
  BY <1>1
<1>3. j \in 1 .. Len(o) \/ j = Len(o) + 1
  BY <1>1
<1> QED BY <1>1, <1>2, <1>3 DEF KeysOnce

\* The account of entries that are in the cache or new to it.
LEMMA AccountParts ==
  ASSUME NEW T, Sized(T), NEW lru, lru.entries \in Seq(T),
         lru.bytes = BytesOf(lru.entries), KeysOnce(lru.entries),
         lru.bytes <= CacheMaxBytes \/ Len(lru.entries) = 1
  PROVE  Account(lru)
BY ElementsType DEF Account, Sized

LEMMA GetAccounted ==
  ASSUME NEW lru, Account(lru), NEW key, Holds(lru, key)
  PROVE  Account(LruGet(lru, key))
<1> DEFINE T == Elements(lru.entries)
           o == Others(lru, key)
           e == Of(lru, key)
           q == Append(o, e)
<1>1. Sized(T) /\ lru.entries \in Seq(T) /\ KeysOnce(lru.entries) /\ lru.bytes = BytesOf(lru.entries)
  BY DEF Account
<1>2. e \in T /\ e.key = key /\ Found(lru, key) = e.value
  BY <1>1, LruParts DEF Found
<1>3. /\ o \in Seq(T) /\ KeysOnce(o) /\ \A i \in DOMAIN o : o[i].key # key
      /\ BytesOf(o) = BytesOf(lru.entries) - e.value.size
      /\ Len(o) = Len(lru.entries) - 1
  BY <1>1, <1>2, OthersParts
<1>4. LruGet(lru, key).entries = q /\ LruGet(lru, key).bytes = lru.bytes
  BY DEF LruGet
<1> HIDE DEF T, o, e
<1>5. q \in Seq(T) /\ Len(q) = Len(o) + 1 /\ KeysOnce(q)
  BY <1>2, <1>3, AppendParts, AppendProperties
<1>6. BytesOf(o) \in Nat /\ BytesOf(q) = BytesOf(o) + e.value.size /\ e.value.size \in Nat
  BY <1>1, <1>2, <1>3, AppendBytes DEF Sized
<1> HIDE DEF q
<1>7. BytesOf(q) = lru.bytes
  <2>1. BytesOf(lru.entries) \in Nat
    BY <1>1, <1>2, AppendBytes
  <2> QED BY <1>1, <1>3, <1>6, <2>1
<1>8. Len(q) = Len(lru.entries)
  BY <1>1, <1>3, <1>5
<1> QED BY <1>1, <1>4, <1>5, <1>7, <1>8, AccountParts DEF Account

LEMMA SetAccounted ==
  ASSUME NEW lru, Account(lru), NEW key, NEW value, value.size \in Nat
  PROVE  Account(LruSet(lru, key, value))
<1> DEFINE e == [key |-> key, value |-> value]
           T == Elements(lru.entries) \cup {e}
           o == Others(lru, key)
           existing == IF Holds(lru, key) THEN Found(lru, key).size ELSE 0
           q == Append(o, e)
           bytes == lru.bytes - existing + value.size
           n == Dropped(q, bytes)
           left == SubSeq(q, n + 1, Len(q))
<1>1. Sized(T) /\ lru.entries \in Seq(T) /\ KeysOnce(lru.entries) /\ lru.bytes = BytesOf(lru.entries)
  BY DEF Account, Sized
<1>2. e \in T /\ e.key = key /\ e.value.size = value.size
  OBVIOUS
<1>3. CASE value.size > CacheMaxEntry
  BY <1>3 DEF LruSet
<1>4. CASE ~(value.size > CacheMaxEntry)
  <2>1. /\ o \in Seq(T) /\ KeysOnce(o) /\ \A i \in DOMAIN o : o[i].key # key
        /\ BytesOf(o) = BytesOf(lru.entries) - existing
    <3> HIDE DEF T
    <3> QED BY <1>1, OthersParts
  <2>2. /\ LruSet(lru, key, value).entries = left
        /\ LruSet(lru, key, value).bytes = bytes - BytesOf(SubSeq(q, 1, n))
    BY <1>4 DEF LruSet
  <2> HIDE DEF T, o, e, existing
  <2>3. q \in Seq(T) /\ q # << >> /\ KeysOnce(q) /\ Len(q) \in Nat \ {0}
    BY <1>2, <2>1, AppendParts, AppendProperties
  <2>4. BytesOf(q) = bytes
    BY <1>1, <1>2, <2>1, AppendBytes
  <2> HIDE DEF q, bytes
  <2>5. /\ n \in 0 .. Len(q) - 1
        /\ bytes - BytesOf(SubSeq(q, 1, n)) <= CacheMaxBytes \/ n = Len(q) - 1
    BY <2>3, DroppedFits
  <2> HIDE DEF n
  <2>6. BytesOf(left) = bytes - BytesOf(SubSeq(q, 1, n))
    <3>1. n \in 0 .. Len(q)
      BY <2>3, <2>5
    <3> QED BY <1>1, <2>3, <2>4, <3>1, SplitBytes
  <2>7. /\ left \in Seq(T) /\ Len(left) = Len(q) - n
        /\ \A i \in 1 .. Len(q) - n : left[i] = q[n + i]
    BY <2>3, <2>5
  <2> HIDE DEF left
  <2>8. KeysOnce(left)
    <3> SUFFICES ASSUME NEW i \in DOMAIN left, NEW j \in DOMAIN left, left[i].key = left[j].key
                 PROVE  i = j
      BY DEF KeysOnce
    <3>1. DOMAIN left = 1 .. Len(q) - n /\ DOMAIN q = 1 .. Len(q)
      BY <2>3, <2>7
    <3>2. n + i \in DOMAIN q /\ n + j \in DOMAIN q /\ left[i] = q[n + i] /\ left[j] = q[n + j]
      BY <2>3, <2>5, <2>7, <3>1
    <3>3. n + i = n + j
      BY <2>3, <3>2 DEF KeysOnce
    <3>4. n \in Nat
      BY <2>3, <2>5
    <3>5. \A k \in 1 .. Len(q) - n : k \in Int
      OBVIOUS
    <3>6. i \in Int /\ j \in Int
      BY <3>1, <3>5
    <3> QED BY <3>3, <3>4, <3>6
  <2>9. BytesOf(left) <= CacheMaxBytes \/ Len(left) = 1
    <3>1. n = Len(q) - 1 => Len(left) = 1
      BY <2>3, <2>7
    <3> QED BY <2>5, <2>6, <3>1
  <2> DEFINE set == LruSet(lru, key, value)
  <2>10. set.entries = left /\ set.bytes = BytesOf(left)
    BY <2>2, <2>6
  <2> HIDE DEF set
  <2>11. Account(set)
    BY <1>1, <2>7, <2>8, <2>9, <2>10, AccountParts
  <2> QED BY <2>11 DEF set
<1> QED BY <1>3, <1>4

(* ----------------------------- the invariant --------------------------- *)

IsTrue(b) ==
  /\ b.block = Chain[b.id].block /\ b.height = b.block /\ b.block <= top
  /\ b.content \in IF b.level = "L3" THEN {Chain[b.id].revealed} ELSE Committed(b.id)

\* A bundle, and that of its delegate if there is one.
Delegation(bundles, id) ==
  /\ bundles \in Seq(Bundles) /\ Len(bundles) \in 1 .. 2
  /\ bundles[1].id = id
  /\ \A i \in DOMAIN bundles : bundles[i].level = world.config.level /\ Verified(bundles[i], top)
  /\ Len(bundles) = 2 => /\ bundles[1].content.delegate # NoId
                          /\ bundles[2].id = bundles[1].content.delegate

TrueUpTo(bundles, n) == LiarsOutvoted => \A i \in 1 .. n : IsTrue(bundles[i])

\* What is kept is what a request with its key asks for.
KeptProof(key, value) ==
  /\ key.route = "proof"
  /\ \E b \in Bundles : /\ value.body = <<b>> /\ b.id = key.id /\ b.level = key.level
                        /\ Verified(b, top) /\ CheckpointsAllow(b)

KeptContent(key, value) ==
  /\ Verifies(key)
  /\ Delegation(value.body, key.id)
  /\ Len(value.body) = 1 => value.body[1].content.delegate = NoId
  /\ TrueUpTo(value.body, Len(value.body))
  /\ value.coded = Last(value.body).content.coded

KeptUpstream(key, value) ==
  /\ key.route = "content" /\ ~Verifies(key)
  /\ value.body = <<[of |-> key.id]>>

Genuine(e) ==
  \/ KeptProof(e.key, e.value)
  \/ KeptContent(e.key, e.value)
  \/ KeptUpstream(e.key, e.value)

\* A server that may say absent, at some time since the chain was this high.
AbsenceExcused(server, id, height) ==
  \/ server \in world.partial \/ server \in world.liars
  \/ server \notin world.down /\ Chain[id].block > height

CausesAreTrue(w) ==
  /\ Len(w.causes) < Len(Backends)
  /\ \A i \in DOMAIN w.causes :
       w.causes[i] = "absent" => AbsenceExcused(ServerOf[Backends[i]], w.id, w.top)

WaitsForProof(w) ==
  /\ w.req.route = "proof" /\ w.req.id \in Ids /\ w.id = w.req.id
  /\ CausesAreTrue(w)

WaitsForContent(w) ==
  /\ Verifies(w.req) /\ w.id \in Ids
  /\ CausesAreTrue(w)
  /\ \/ w.bundles = << >> /\ w.id = w.req.id
     \/ /\ Len(w.bundles) = 1 /\ Delegation(w.bundles, w.req.id)
        /\ w.bundles[1].content.delegate = w.id /\ w.id # NoId
        /\ TrueUpTo(w.bundles, 1)

WaitsForAnchor(w) ==
  /\ Verifies(w.req) /\ w.causes = << >>
  /\ Delegation(w.bundles, w.req.id)
  /\ TrueUpTo(w.bundles, Len(w.bundles) - 1)
  /\ \E i \in DOMAIN Backends : w.source = Backends[i]
  /\ ServerOf[w.source] \notin world.liars =>
       Last(w.bundles) = TrueBundle(Last(w.bundles).id, Last(w.bundles).level)

WaitsForUpstream(w) ==
  /\ w.req.route \in {"content", "tip"} /\ ~Verifies(w.req)
  /\ w.version <= version

SlotOK(w) ==
  /\ w.phase = "proof" => WaitsForProof(w)
  /\ w.phase = "content" => WaitsForContent(w)
  /\ w.phase = "anchor" => WaitsForAnchor(w)
  /\ w.phase = "upstream" => WaitsForUpstream(w)
  /\ w.phase = "health" => w.req.route = "health"

SlotType ==
  [phase : {"idle", "proof", "content", "anchor", "upstream", "health"},
   req : [route : Routes, id : Ids \cup {Malformed}, level : Levels, accepts : BOOLEAN],
   top : Nat, version : Nat, id : Ids \cup {Malformed, NoId},
   causes : Seq(Causes), bundles : Seq(Bundles), source : Endpoints \cup {NoId}]

Typed ==
  /\ world \in PossibleWorlds
  /\ top \in Heights /\ version \in Nat
  /\ slot \in [Slots -> SlotType]
  /\ \A s \in Slots : slot[s].top <= top

Inv ==
  /\ Typed
  /\ cache.entries \in Seq(Elements(cache.entries))
  /\ \A e \in Elements(cache.entries) : Genuine(e)
  /\ \A s \in Slots : SlotOK(slot[s])
  /\ AnswersFitRequests
  /\ NoFalseAbsence

-----------------------------------------------------------------------------
(* What the chain's growth leaves true.                                    *)

LEMMA WorldType ==
  ASSUME Typed
  PROVE  /\ world.config \in [mode : {"proxy", "verify", "sidecar"}, level : Levels]
         /\ world.requests \subseteq [route : Routes, id : Ids \cup {Malformed},
                                     level : Levels, accepts : BOOLEAN]
         /\ world.liars \subseteq Servers /\ world.liars \cap world.down = {}
<1>1. world \in Worlds /\ world.liars \cap world.down = {}
  BY DEF Typed, PossibleWorlds
<1>2. world.config \in Configs /\ world.requests \in Workloads /\ world.liars \subseteq Servers
  BY <1>1 DEF Worlds
<1> QED BY <1>1, <1>2, GatewayAssumption DEF GatewayAssumption

LEMMA ChainType ==
  /\ \A id \in Ids : /\ Chain[id].block \in Nat /\ Chain[id].revealed \in Contents
                     /\ Committed(id) \subseteq Contents
  /\ Heights \subseteq Nat \ {0} /\ Heights \subseteq Blocks /\ Easy \notin Heights
  /\ \A c \in Contents : c.delegate \in Ids \cup {NoId} /\ c.size \in Nat
<1>1. MaxHeight \in Nat
  BY TrustAssumption DEF TrustAssumption
<1> QED BY <1>1, ProofAssumption DEF ProofAssumption, Committed, Heights, Blocks, Easy

Ahead == world' = world /\ top' \in Nat /\ top <= top' /\ version' \in Nat /\ version <= version'

LEMMA VerifiesSame == ASSUME Ahead, NEW r PROVE Verifies(r)' <=> Verifies(r)
BY DEF Ahead, Verifies

LEMMA OutvotedSame == ASSUME Ahead PROVE LiarsOutvoted' <=> LiarsOutvoted
BY DEF Ahead, LiarsOutvoted, LyingAttesters

LEMMA VerifiedStays ==
  ASSUME NEW b \in Bundles, NEW t \in Nat, NEW u \in Nat, t <= u, Verified(b, t)
  PROVE  Verified(b, u)
<1>1. b.block \in Heights => b.block \in Nat /\ b.block <= t /\ b.block <= u
  BY ChainType DEF Verified, Bundles
<1> QED BY <1>1 DEF Verified

LEMMA TrueStays ==
  ASSUME Ahead, Typed, NEW b \in Bundles, IsTrue(b)
  PROVE  IsTrue(b)'
<1>1. Chain[b.id].block \in Nat /\ top \in Nat
  BY ChainType DEF Bundles, Typed
<1> QED BY <1>1 DEF Ahead, IsTrue

LEMMA DelegationStays ==
  ASSUME Ahead, Typed, NEW bundles, NEW id, Delegation(bundles, id)
  PROVE  Delegation(bundles, id)'
<1>1. top \in Nat /\ \A i \in DOMAIN bundles : bundles[i] \in Bundles
  BY ChainType DEF Typed, Delegation
<1>2. \A i \in DOMAIN bundles : Verified(bundles[i], top')
  BY <1>1, VerifiedStays DEF Ahead, Delegation
<1> QED BY <1>2 DEF Ahead, Delegation

LEMMA TrueUpToStays ==
  ASSUME Ahead, Typed, NEW bundles \in Seq(Bundles), NEW n \in 0 .. Len(bundles),
         TrueUpTo(bundles, n)
  PROVE  TrueUpTo(bundles, n)'
<1> SUFFICES ASSUME LiarsOutvoted', NEW i \in 1 .. n PROVE IsTrue(bundles[i])'
  BY DEF TrueUpTo
<1>1. bundles[i] \in Bundles /\ IsTrue(bundles[i])
  BY OutvotedSame DEF TrueUpTo
<1> QED BY <1>1, TrueStays

LEMMA GenuineStays ==
  ASSUME Ahead, Typed, NEW e, Genuine(e)
  PROVE  Genuine(e)'
<1>1. CASE KeptProof(e.key, e.value)
  <2>1. PICK b \in Bundles : /\ e.value.body = <<b>> /\ b.id = e.key.id /\ b.level = e.key.level
                            /\ Verified(b, top) /\ CheckpointsAllow(b)
    BY <1>1 DEF KeptProof
  <2>2. Verified(b, top')
    BY <2>1, VerifiedStays, ChainType DEF Ahead, Typed
  <2> QED BY <1>1, <2>1, <2>2 DEF KeptProof, Genuine
<1>2. CASE KeptContent(e.key, e.value)
  <2> DEFINE body == e.value.body
  <2>1. Delegation(body, e.key.id) /\ body \in Seq(Bundles)
    BY <1>2 DEF KeptContent, Delegation
  <2>2. Delegation(body, e.key.id)' /\ TrueUpTo(body, Len(body))'
    <3>1. Len(body) \in 0 .. Len(body) /\ TrueUpTo(body, Len(body))
      BY <1>2, <2>1 DEF KeptContent
    <3> HIDE DEF body
    <3> QED BY <2>1, <3>1, DelegationStays, TrueUpToStays
  <2> QED BY <1>2, <2>2, VerifiesSame DEF KeptContent, Genuine
<1>3. CASE KeptUpstream(e.key, e.value)
  BY <1>3, VerifiesSame DEF KeptUpstream, Genuine
<1> QED BY <1>1, <1>2, <1>3 DEF Genuine

LEMMA CausesStay == ASSUME Ahead, NEW w, CausesAreTrue(w) PROVE CausesAreTrue(w)'
BY DEF Ahead, CausesAreTrue, AbsenceExcused

LEMMA SlotStays ==
  ASSUME Ahead, Typed, NEW w \in SlotType, SlotOK(w)
  PROVE  SlotOK(w)'
<1>1. WaitsForProof(w) => WaitsForProof(w)'
  BY CausesStay DEF WaitsForProof
<1>2. WaitsForContent(w) => WaitsForContent(w)'
  <2> SUFFICES ASSUME WaitsForContent(w) PROVE WaitsForContent(w)'
    OBVIOUS
  <2>1. w.bundles \in Seq(Bundles)
    BY DEF SlotType
  <2>2. CASE w.bundles = << >> /\ w.id = w.req.id
    BY <2>2, VerifiesSame, CausesStay DEF WaitsForContent
  <2>3. CASE /\ Len(w.bundles) = 1 /\ Delegation(w.bundles, w.req.id)
             /\ w.bundles[1].content.delegate = w.id /\ w.id # NoId
             /\ TrueUpTo(w.bundles, 1)
    <3>1. Delegation(w.bundles, w.req.id)' /\ TrueUpTo(w.bundles, 1)'
      BY <2>1, <2>3, DelegationStays, TrueUpToStays
    <3> QED BY <2>3, <3>1, VerifiesSame, CausesStay DEF WaitsForContent
  <2> QED BY <2>2, <2>3 DEF WaitsForContent
<1>3. WaitsForAnchor(w) => WaitsForAnchor(w)'
  <2> SUFFICES ASSUME WaitsForAnchor(w) PROVE WaitsForAnchor(w)'
    OBVIOUS
  <2> DEFINE n == Len(w.bundles) - 1
  <2>1. w.bundles \in Seq(Bundles) /\ n \in 0 .. Len(w.bundles)
    BY DEF SlotType, WaitsForAnchor, Delegation
  <2>2. TrueUpTo(w.bundles, n)'
    <3>1. TrueUpTo(w.bundles, n)
      BY DEF WaitsForAnchor
    <3> HIDE DEF n
    <3> QED BY <2>1, <3>1, TrueUpToStays
  <2>3. Delegation(w.bundles, w.req.id)'
    BY DelegationStays DEF WaitsForAnchor
  <2>4. world' = world
    BY DEF Ahead
  <2> QED BY <2>2, <2>3, <2>4, VerifiesSame DEF WaitsForAnchor
<1>4. WaitsForUpstream(w) => WaitsForUpstream(w)'
  <2>1. w.version \in Nat /\ version \in Nat
    BY DEF SlotType, Typed
  <2> QED BY <2>1, VerifiesSame DEF WaitsForUpstream, Ahead
<1> QED BY <1>1, <1>2, <1>3, <1>4 DEF SlotOK
-----------------------------------------------------------------------------
(* What a step does to the parts of the invariant.                         *)

CacheOK ==
  /\ cache.entries \in Seq(Elements(cache.entries))
  /\ \A e \in Elements(cache.entries) : Genuine(e)

SlotsOK ==
  /\ slot \in [Slots -> SlotType]
  /\ \A s \in Slots : slot[s].top <= top /\ SlotOK(slot[s])

AnswerOK == AnswersFitRequests /\ NoFalseAbsence

LEMMA ExternalIsAhead ==
  ASSUME Typed, External
  PROVE  Ahead /\ world' = world /\ top' = top /\ version' = version /\ top \in Nat
BY ChainType DEF Typed, External, Ahead

LEMMA CacheStays ==
  ASSUME Inv, Ahead, UNCHANGED cache
  PROVE  CacheOK'
BY GenuineStays DEF Inv, CacheOK, Elements

LEMMA CacheHit ==
  ASSUME Inv, Ahead, NEW key, Holds(cache, key), cache' = LruGet(cache, key)
  PROVE  CacheOK'
<1> DEFINE T == Elements(cache.entries)
<1>1. cache.entries \in Seq(T) /\ \A e \in T : Genuine(e)
  BY DEF Inv
<1>2. \A e \in T : Genuine(e)'
  BY <1>1, GenuineStays DEF Inv
<1> HIDE DEF T
<1>3. cache'.entries \in Seq(T)
  BY <1>1, LruGetKeeps
<1>4. cache'.entries \in Seq(Elements(cache'.entries)) /\ Elements(cache'.entries) \subseteq T
  BY <1>3, ElementsType
<1> QED BY <1>2, <1>4 DEF CacheOK

LEMMA CacheMiss ==
  ASSUME Inv, Ahead, NEW key, NEW value, cache' = LruSet(cache, key, value),
         Genuine([key |-> key, value |-> value])
  PROVE  CacheOK'
<1> DEFINE new == [key |-> key, value |-> value]
           T == Elements(cache.entries) \cup {new}
<1>1. cache.entries \in Seq(Elements(cache.entries)) /\ \A e \in T : Genuine(e)
  BY DEF Inv
<1>2. \A e \in T : Genuine(e)'
  BY <1>1, GenuineStays DEF Inv
<1>3. cache.entries \in Seq(T) /\ new \in T
  BY <1>1
<1> HIDE DEF T
<1>4. cache'.entries \in Seq(T)
  BY <1>3, LruSetKeeps
<1>5. cache'.entries \in Seq(Elements(cache'.entries)) /\ Elements(cache'.entries) \subseteq T
  BY <1>4, ElementsType
<1> QED BY <1>2, <1>5 DEF CacheOK

LEMMA SlotsStay ==
  ASSUME Inv, Ahead, UNCHANGED slot
  PROVE  SlotsOK'
<1>1. \A s \in Slots : slot[s] \in SlotType /\ slot[s].top <= top /\ SlotOK(slot[s])
  BY DEF Inv, Typed
<1>2. \A s \in Slots : slot[s].top <= top' /\ SlotOK(slot[s])'
  <2> TAKE s \in Slots
  <2>1. slot[s].top \in Nat /\ top \in Nat
    BY <1>1, ChainType DEF SlotType, Inv, Typed
  <2> QED BY <1>1, <2>1, SlotStays DEF Ahead, Inv
<1> QED BY <1>1, <1>2 DEF SlotsOK, Inv, Typed

LEMMA SlotSet ==
  ASSUME Inv, External, NEW s \in Slots, NEW w \in SlotType, w.top <= top, SlotOK(w),
         slot' = [slot EXCEPT ![s] = w]
  PROVE  SlotsOK'
<1>1. Ahead /\ Typed /\ top' = top
  BY ExternalIsAhead DEF Inv
<1>2. \A r \in Slots : slot[r] \in SlotType /\ slot[r].top <= top /\ SlotOK(slot[r])
  BY DEF Inv, Typed
<1>3. slot' \in [Slots -> SlotType]
        /\ \A r \in Slots : slot'[r] = IF r = s THEN w ELSE slot[r]
  BY DEF Inv, Typed
<1>4. \A r \in Slots : slot'[r].top <= top'
  BY <1>1, <1>2, <1>3
<1>5. SlotOK(w)' /\ \A r \in Slots : SlotOK(slot[r])'
  <2>1. \A x \in SlotType : SlotOK(x) => SlotOK(x)'
    BY <1>1, SlotStays
  <2> QED BY <1>2, <2>1
<1>6. ASSUME NEW r \in Slots PROVE SlotOK(slot[r])'
  <2>1. CASE r = s
    BY <1>3, <1>5, <2>1
  <2>2. CASE r # s
    BY <1>2, <1>1, <1>3, <2>2, SlotStays
  <2> QED BY <2>1, <2>2
<1> QED BY <1>3, <1>4, <1>6 DEF SlotsOK

LEMMA IdleType ==
  /\ Idle \in SlotType
  /\ \A w : w.phase = "idle" => SlotOK(w)
<1>1. NoRequest \in [route : Routes, id : Ids \cup {Malformed}, level : Levels, accepts : BOOLEAN]
  BY DEF NoRequest, Routes, Levels
<1>2. << >> \in Seq(Causes) /\ << >> \in Seq(Bundles)
  OBVIOUS
<1>3. Idle \in SlotType
  BY <1>1, <1>2 DEF Idle, SlotType
<1> QED BY <1>3 DEF SlotOK

LEMMA SlotFreed ==
  ASSUME Inv, External, NEW s \in Slots, slot' = [slot EXCEPT ![s] = Idle]
  PROVE  SlotsOK'
<1>1. Idle \in SlotType /\ Idle.phase = "idle" /\ Idle.top = 0 /\ 0 <= top
  BY IdleType, ExternalIsAhead DEF Inv, Idle
<1>2. SlotOK(Idle)
  BY <1>1, IdleType
<1> HIDE DEF Idle
<1> QED BY <1>1, <1>2, SlotSet

LEMMA ErrorAnswers ==
  ASSUME answer' = NoAnswer \/ \E status : answer' = Error(status) /\ status # 200
  PROVE  AnswerOK'
BY DEF NoAnswer, Error, AnswerOK, AnswersFitRequests, NoFalseAbsence, SaidAbsent

\* What an answer to w may be.
Fits(w, body) ==
  CASE w.req.route = "tip"   -> body[1].at >= w.version
    [] w.req.route = "proof" -> body[1].id = w.req.id /\ body[1].level = w.req.level
    [] Verifies(w.req) ->
         body[1].id = w.req.id /\ (Last(body).content.coded => w.req.accepts)
    [] OTHER -> body[1].of = w.req.id

LEMMA OkAnswers ==
  ASSUME Ahead, NEW w, NEW body, answer' = Ok(w, body),
         w.req.route = "health" \/ Fits(w, body)
  PROVE  AnswerOK'
<1>1. /\ answer'.status = 200 /\ answer'.req = w.req /\ answer'.body = body
      /\ answer'.version = w.version
  BY DEF Ok
<1>2. Verifies(w.req)' <=> Verifies(w.req)
  BY VerifiesSame
<1>3. CASE w.req.route = "health"
  BY <1>1, <1>3 DEF AnswerOK, AnswersFitRequests, NoFalseAbsence, SaidAbsent
<1>4. CASE Fits(w, body)
  BY <1>1, <1>2, <1>4 DEF Fits, AnswerOK, AnswersFitRequests, NoFalseAbsence, SaidAbsent, Verifies
<1> QED BY <1>3, <1>4

LEMMA AbsentAnswers ==
  ASSUME Ahead, Typed, NEW w, answer' = Absent(w),
         \A i \in Consulted :
           LET server == ServerOf[Backends[i]]
           IN  server \notin world.partial =>
                 /\ server \notin world.down
                 /\ server \in world.liars \/ ~(Chain[w.id].block <= w.top)
  PROVE  AnswerOK'
<1>1. answer'.status = 404 /\ answer'.about = w.id /\ answer'.top = w.top
  BY DEF Absent
<1>2. Consulted' = Consulted /\ world' = world
  BY DEF Ahead, Consulted
<1> QED BY <1>1, <1>2 DEF AnswerOK, AnswersFitRequests, NoFalseAbsence, MayHave

\* The parts make the whole.
LEMMA PartsKeepInv ==
  ASSUME Inv, Ahead, top' \in Heights, CacheOK', SlotsOK', AnswerOK'
  PROVE  Inv'
BY DEF Inv, Ahead, Typed, CacheOK, SlotsOK, AnswerOK

LEMMA ExternalKeepsInv ==
  ASSUME Inv, External, CacheOK', SlotsOK', AnswerOK'
  PROVE  Inv'
<1>1. Ahead /\ top' \in Heights
  BY ExternalIsAhead DEF Inv, Typed
<1> QED BY <1>1, PartsKeepInv
-----------------------------------------------------------------------------
(* Arrivals.                                                               *)

LEMMA RequestType ==
  ASSUME Typed, NEW req \in world.requests
  PROVE  req \in [route : Routes, id : Ids \cup {Malformed}, level : Levels, accepts : BOOLEAN]
BY WorldType

LEMMA ReceivedParts ==
  ASSUME Typed, NEW req \in world.requests
  PROVE  /\ Received(req).phase = FirstPhase(req) /\ Received(req).req = req
         /\ Received(req).id = req.id
         /\ Received(req).top \in {0, top}
         /\ Received(req).version = IF req.route = "tip" THEN version ELSE 0
         /\ Received(req).causes = << >> /\ Received(req).bundles = << >>
         /\ Received(req).source = NoId
BY DEF Received, Idle

LEMMA ReceivedType ==
  ASSUME Typed, NEW req \in world.requests
  PROVE  Received(req) \in SlotType /\ Received(req).top <= top
<1>1. FirstPhase(req) \in {"proof", "content", "upstream"}
  BY DEF FirstPhase
<1>2. top \in Nat /\ version \in Nat
  BY ChainType DEF Typed
<1>3. DOMAIN Received(req) = DOMAIN Idle
  BY DEF Received
<1>4. /\ [Idle EXCEPT !.phase = FirstPhase(req)] \in SlotType
  BY <1>1, IdleType DEF SlotType
<1>5. Received(req) \in SlotType
  <2> DEFINE height == IF FirstPhase(req) = "upstream" THEN 0 ELSE top
             since == IF req.route = "tip" THEN version ELSE 0
  <2>1. height \in Nat /\ since \in Nat
    BY <1>2
  <2>2. Received(req) = [Idle EXCEPT !.phase = FirstPhase(req), !.req = req, !.id = req.id,
                                     !.top = height, !.version = since]
    BY DEF Received
  <2>3. req \in [route : Routes, id : Ids \cup {Malformed}, level : Levels, accepts : BOOLEAN]
    BY RequestType
  <2>4. req.id \in Ids \cup {Malformed, NoId}
    BY <2>3
  <2> HIDE DEF height, since
  <2> QED BY <1>1, <2>1, <2>2, <2>3, <2>4, IdleType DEF SlotType
<1> QED BY <1>2, <1>5, ReceivedParts

LEMMA ReceivedWaits ==
  ASSUME Typed, NEW req \in world.requests, req.route \notin {"health", "unknown"},
         req.id # Malformed \/ FirstPhase(req) = "upstream"
  PROVE  SlotOK(Received(req))
<1> DEFINE w == Received(req)
<1>1. /\ w.phase = FirstPhase(req) /\ w.req = req /\ w.id = req.id
      /\ w.version = IF req.route = "tip" THEN version ELSE 0
      /\ w.causes = << >> /\ w.bundles = << >>
  BY ReceivedParts
<1>2. req \in [route : Routes, id : Ids \cup {Malformed}, level : Levels, accepts : BOOLEAN]
  BY RequestType
<1>3. CausesAreTrue(w)
  BY <1>1, ProofAssumption DEF CausesAreTrue, ProofAssumption
<1> HIDE DEF w
<1>4. CASE req.route = "proof"
  <2>1. FirstPhase(req) = "proof"
    <3>1. ~Verifies(req)
      BY <1>4 DEF Verifies
    <3> QED BY <1>4, <3>1, Zenon DEF FirstPhase
  <2>2. req.id \in Ids
    BY <1>2, <2>1
  <2> QED BY <1>1, <1>3, <1>4, <2>1, <2>2 DEF SlotOK, WaitsForProof, w
<1>5. CASE Verifies(req)
  <2>1. FirstPhase(req) = "content" /\ req.id \in Ids
    BY <1>2, <1>5 DEF FirstPhase, Verifies
  <2> QED BY <1>1, <1>3, <1>5, <2>1 DEF SlotOK, WaitsForContent, w
<1>6. CASE req.route # "proof" /\ ~Verifies(req)
  <2>1. FirstPhase(req) = "upstream" /\ req.route \in {"content", "tip"}
    BY <1>2, <1>6 DEF FirstPhase, Verifies, Routes
  <2>2. version \in Nat
    BY DEF Typed
  <2> QED BY <1>1, <1>6, <2>1, <2>2 DEF SlotOK, WaitsForUpstream, w
<1> QED BY <1>4, <1>5, <1>6

\* A hit answers as a miss would have been answered.
LEMMA HitAnswers ==
  ASSUME Inv, Ahead, NEW req \in world.requests, Holds(cache, KeyFor(req)),
         answer' = HitResponse(req, Found(cache, KeyFor(req)))
  PROVE  AnswerOK'
<1> DEFINE key == KeyFor(req)
           e == Of(cache, key)
           value == e.value
<1>1. Genuine(e) /\ e.key = key
  BY LruParts DEF Inv
<1>2. key.route = req.route /\ key.id = req.id /\ (req.route = "proof" => key.level = req.level)
  BY DEF KeyFor
<1>3. Verifies(key) <=> Verifies(req)
  BY <1>2 DEF Verifies
<1>4. answer' = HitResponse(req, value)
  BY DEF Found
<1>5. CASE RefusedEncoding(req, value)
  <2>1. answer' = Error(406) /\ 406 # 200
    BY <1>4, <1>5 DEF HitResponse
  <2> QED BY <2>1, ErrorAnswers
<1>6. CASE ~RefusedEncoding(req, value)
  <2> DEFINE w == Received(req)
  <2>1. answer' = Ok(w, value.body)
    BY <1>4, <1>6 DEF HitResponse
  <2>2. w.req = req
    BY ReceivedParts DEF Inv
  <2> SUFFICES Fits(w, value.body)
    BY <2>1, OkAnswers
  <2>3. KeptProof(key, value) \/ KeptContent(key, value) \/ KeptUpstream(key, value)
    <3> HIDE DEF key
    <3> QED BY <1>1, Zenon DEF Genuine
  <2> HIDE DEF w, e, key, value
  <2>4. CASE KeptProof(key, value)
    <3>1. value.body[1].id = req.id /\ value.body[1].level = req.level /\ req.route = "proof"
      BY <1>2, <2>4 DEF KeptProof
    <3>2. req.route # "tip" /\ ~Verifies(req)
      BY <3>1 DEF Verifies
    <3> QED BY <2>2, <3>1, <3>2, Zenon DEF Fits
  <2>5. CASE KeptContent(key, value)
    <3>1. Verifies(req) /\ req.route \notin {"tip", "proof"}
      BY <1>2, <1>3, <2>5 DEF KeptContent, Verifies
    <3>2. value.body[1].id = req.id /\ (Last(value.body).content.coded => req.accepts)
      BY <1>2, <1>6, <2>5 DEF KeptContent, Delegation, RefusedEncoding
    <3>3. req.route # "tip" /\ req.route # "proof"
      BY <3>1
    <3> QED BY <2>2, <3>1, <3>2, <3>3, Zenon DEF Fits
  <2>6. CASE KeptUpstream(key, value)
    <3>1. req.route = "content" /\ ~Verifies(req) /\ value.body[1].of = req.id
      BY <1>2, <1>3, <2>6 DEF KeptUpstream
    <3>2. req.route # "tip" /\ req.route # "proof"
      BY <3>1
    <3> QED BY <2>2, <3>1, <3>2, Zenon DEF Fits
  <2> QED BY <2>3, <2>4, <2>5, <2>6
<1> QED BY <1>5, <1>6

LEMMA ArriveKeepsInv ==
  ASSUME Inv, NEW s \in Slots, NEW req \in world.requests, Arrive(s, req)
  PROVE  Inv'
<1>1. External /\ Ahead /\ Typed
  BY ExternalIsAhead DEF Arrive, Inv
<1>2. CASE Waits(s, Received(req)) /\ req.route \notin {"health", "unknown"}
           /\ (req.id # Malformed \/ FirstPhase(req) = "upstream")
  <2>1. SlotsOK'
    BY <1>1, <1>2, ReceivedType, ReceivedWaits, SlotSet DEF Waits
  <2>2. CacheOK' /\ AnswerOK'
    BY <1>1, <1>2, CacheStays, ErrorAnswers DEF Waits
  <2> QED BY <1>1, <2>1, <2>2, ExternalKeepsInv
<1>3. CASE UNCHANGED <<cache, slot>> /\ answer' \in {Error(429), Error(404), Error(400)}
  <2>1. AnswerOK'
    BY <1>3, ErrorAnswers
  <2> QED BY <1>1, <1>3, <2>1, CacheStays, SlotsStay, ExternalKeepsInv
<1>4. CASE UNCHANGED <<cache, slot>> /\ req.route = "health" /\ answer' = Ok(Received(req), << >>)
  <2>1. AnswerOK'
    <3>1. Received(req).req.route = "health"
      BY <1>1, <1>4, ReceivedParts
    <3> QED BY <1>1, <1>4, <3>1, OkAnswers
  <2> QED BY <1>1, <1>4, <2>1, CacheStays, SlotsStay, ExternalKeepsInv
<1>5. CASE /\ Holds(cache, KeyFor(req)) /\ cache' = LruGet(cache, KeyFor(req))
           /\ answer' = HitResponse(req, Found(cache, KeyFor(req))) /\ UNCHANGED slot
  <2>1. CacheOK' /\ AnswerOK' /\ SlotsOK'
    BY <1>1, <1>5, CacheHit, HitAnswers, SlotsStay
  <2> QED BY <1>1, <2>1, ExternalKeepsInv
<1> QED BY <1>2, <1>3, <1>4, <1>5 DEF Arrive
-----------------------------------------------------------------------------
(* The loops over the backends.                                            *)

LEMMA SlotParts ==
  ASSUME Inv, NEW s \in Slots
  PROVE  /\ slot[s] \in SlotType /\ slot[s].top \in Nat /\ slot[s].top <= top
         /\ top \in Nat /\ SlotOK(slot[s])
BY ChainType DEF Inv, Typed, SlotType

LEMMA AskedIsBackend ==
  ASSUME Inv, NEW s \in Slots, slot[s].phase \in {"proof", "content"}
  PROVE  /\ CausesAreTrue(slot[s]) /\ slot[s].id \in Ids
         /\ Len(slot[s].causes) + 1 \in DOMAIN Backends
         /\ slot[s].causes \in Seq(Causes)
         /\ Asked(s) \in Endpoints /\ ServerOf[Asked(s)] \in Servers
<1>1. CausesAreTrue(slot[s]) /\ slot[s].id \in Ids
  BY SlotParts DEF SlotOK, WaitsForProof, WaitsForContent
<1>2. slot[s].causes \in Seq(Causes)
  BY SlotParts DEF SlotType
<1>3. Len(slot[s].causes) + 1 \in DOMAIN Backends
  BY <1>1, <1>2, ProofAssumption DEF CausesAreTrue, ProofAssumption
<1>4. Asked(s) \in Endpoints /\ ServerOf[Asked(s)] \in Servers
  BY <1>3, ProofAssumption, TrustAssumption DEF Asked, ProofAssumption, TrustAssumption
<1> QED BY <1>1, <1>2, <1>3, <1>4

LEMMA CauseIsTrue ==
  ASSUME Typed, NEW server, NEW id, NEW level,
         NEW cause \in BuildFailures(server, id, level, world, top)
  PROVE  cause \in Causes /\ (cause = "absent" => AbsenceExcused(server, id, top))
<1>1. CASE server \in world.liars
  BY <1>1 DEF BuildFailures, AbsenceExcused
<1>2. CASE server \in world.down \ world.liars
  <2>1. cause = "other"
    BY <1>2 DEF BuildFailures
  <2>2. "other" \in Causes /\ "other" # "absent"
    BY DEF Causes
  <2> QED BY <2>1, <2>2
<1>3. CASE server \notin world.liars /\ server \notin world.down
  <2>1. cause = "absent" /\ (Chain[id].block > top \/ server \in world.partial)
    BY <1>3 DEF BuildFailures
  <2>2. "absent" \in Causes
    BY DEF Causes
  <2> QED BY <1>3, <2>1, <2>2 DEF AbsenceExcused
<1> QED BY <1>1, <1>2, <1>3

LEMMA BuiltType ==
  ASSUME Typed
  PROVE  \A server : \A id \in Ids, level \in Levels :
           \A b \in Built(server, id, level, world, top) :
             /\ b \in Bundles /\ b.id = id /\ b.level = level
             /\ server \notin world.liars => b = TrueBundle(id, level)
<1> SUFFICES ASSUME NEW server, NEW id \in Ids, NEW level \in Levels,
                    NEW b \in Built(server, id, level, world, top)
             PROVE  /\ b \in Bundles /\ b.id = id /\ b.level = level
                    /\ server \notin world.liars => b = TrueBundle(id, level)
  OBVIOUS
<1>1. CASE server \in world.liars
  BY <1>1 DEF Built
<1>2. CASE server \notin world.liars
  <2>1. BuildFailures(server, id, level, world, top) = {} /\ b = TrueBundle(id, level)
    BY <1>2 DEF Built
  <2>2. ~(Chain[id].block > top)
    <3> SUFFICES ASSUME Chain[id].block > top PROVE FALSE
      OBVIOUS
    <3>1. \E cause : cause \in BuildFailures(server, id, level, world, top)
      <4>1. CASE server \in world.down
        BY <1>2, <4>1 DEF BuildFailures
      <4>2. CASE server \notin world.down
        BY <1>2, <4>2 DEF BuildFailures
      <4> QED BY <4>1, <4>2
    <3> QED BY <2>1, <3>1
  <2>3. Chain[id].block \in Heights
    BY <2>2, ProofAssumption, TrustAssumption
    DEF ProofAssumption, TrustAssumption, Typed, Heights
  <2>4. /\ Chain[id].block \in Blocks /\ Chain[id].revealed \in Contents
    BY <2>3, ChainType
  <2> QED BY <1>2, <2>1, <2>3, <2>4 DEF TrueBundle, Bundles
<1> QED BY <1>1, <1>2

\* A slot with one more cause.
LEMMA CauseAdded ==
  ASSUME Inv, NEW s \in Slots, slot[s].phase \in {"proof", "content"}, NEW cause \in Causes,
         cause = "absent" => AbsenceExcused(ServerOf[Asked(s)], slot[s].id, top),
         NEW causes, causes = Append(slot[s].causes, cause)
  PROVE  /\ causes \in Seq(Causes)
         /\ Len(causes) = Len(slot[s].causes) + 1 /\ Len(causes) \in DOMAIN Backends
         /\ \A i \in DOMAIN causes :
              causes[i] = "absent" =>
                AbsenceExcused(ServerOf[Backends[i]], slot[s].id, slot[s].top)
<1> DEFINE w == slot[s]
<1>1. CausesAreTrue(w) /\ w.causes \in Seq(Causes) /\ w.id \in Ids
      /\ Len(w.causes) + 1 \in DOMAIN Backends
  BY AskedIsBackend
<1>2. causes \in Seq(Causes) /\ Len(causes) = Len(w.causes) + 1
  BY <1>1
<1>3. ASSUME NEW i \in DOMAIN causes, causes[i] = "absent"
      PROVE  AbsenceExcused(ServerOf[Backends[i]], w.id, w.top)
  <2>1. CASE i \in DOMAIN w.causes
    <3>1. w.causes[i] = "absent"
      BY <1>1, <1>3, <2>1
    <3> QED BY <1>1, <2>1, <3>1 DEF CausesAreTrue, AbsenceExcused
  <2>2. CASE i = Len(w.causes) + 1
    <3>1. Backends[i] = Asked(s) /\ causes[i] = cause
      BY <1>1, <2>2 DEF Asked
    <3>2. AbsenceExcused(ServerOf[Backends[i]], w.id, top)
      BY <1>3, <3>1
    <3>3. w.top <= top /\ w.top \in Nat /\ top \in Nat /\ Chain[w.id].block \in Nat
      BY <1>1, SlotParts, ChainType
    <3> QED BY <3>2, <3>3 DEF AbsenceExcused
  <2> QED BY <1>1, <1>2, <1>3, <2>1, <2>2
<1> QED BY <1>1, <1>2, <1>3

LEMMA AttemptFailsKeepsInv ==
  ASSUME Inv, NEW s \in Slots, AttemptFails(s)
  PROVE  Inv'
<1> DEFINE w == slot[s]
<1>1. External /\ Ahead /\ Typed
  BY ExternalIsAhead DEF AttemptFails, Inv
<1>2. w.phase \in {"proof", "content"}
  BY DEF AttemptFails
<1>3. PICK cause \in BuildFailures(ServerOf[Asked(s)], w.id, Wanted(s), world, top) :
        LET causes == Append(w.causes, cause)
        IN IF Len(causes) < Len(Backends)
           THEN Waits(s, [w EXCEPT !.causes = causes])
           ELSE LoopFails(s, causes)
  BY DEF AttemptFails
<1> DEFINE causes == Append(w.causes, cause)
<1>4. cause \in Causes /\ (cause = "absent" => AbsenceExcused(ServerOf[Asked(s)], w.id, top))
  BY <1>1, CauseIsTrue
<1>5. /\ causes \in Seq(Causes) /\ Len(causes) \in DOMAIN Backends
      /\ \A i \in DOMAIN causes :
           causes[i] = "absent" => AbsenceExcused(ServerOf[Backends[i]], w.id, w.top)
  BY <1>2, <1>4, CauseAdded
<1>6. w \in SlotType /\ w.top <= top /\ SlotOK(w)
  BY SlotParts
<1>7. CASE Len(causes) < Len(Backends)
  <2> DEFINE v == [w EXCEPT !.causes = causes]
  <2>1. Waits(s, v)
    BY <1>3, <1>7
  <2> HIDE DEF causes
  <2>2. v \in SlotType /\ v.causes = causes
    BY <1>5, <1>6 DEF SlotType
  <2>3. /\ v.phase = w.phase /\ v.req = w.req /\ v.id = w.id /\ v.top = w.top
        /\ v.bundles = w.bundles
    BY <1>6 DEF SlotType
  <2>4. CausesAreTrue(v)
    BY <1>5, <1>7, <2>2, <2>3 DEF CausesAreTrue, AbsenceExcused
  <2> HIDE DEF v
  <2>5. SlotOK(v)
    BY <1>2, <1>6, <2>3, <2>4 DEF SlotOK, WaitsForProof, WaitsForContent
  <2>6. SlotsOK'
    BY <1>1, <1>6, <2>1, <2>2, <2>3, <2>5, SlotSet DEF Waits
  <2>7. CacheOK' /\ AnswerOK'
    BY <1>1, <2>1, CacheStays, ErrorAnswers DEF Waits
  <2> QED BY <1>1, <2>6, <2>7, ExternalKeepsInv
<1>8. CASE ~(Len(causes) < Len(Backends))
  <2> HIDE DEF causes
  <2>1. LoopFails(s, causes)
    BY <1>3, <1>8 DEF causes
  <2>2. SlotsOK' /\ CacheOK'
    BY <1>1, <2>1, SlotFreed, CacheStays DEF LoopFails, Fails, Replies
  <2>3. CASE AbsentToAll(causes)
    <3>1. answer' = Absent(w)
      BY <2>1, <2>3 DEF LoopFails, Fails, Replies
    <3>2. DOMAIN causes = DOMAIN Backends /\ Consulted \subseteq DOMAIN Backends
      BY <1>5, <1>8, ProofAssumption DEF ProofAssumption, Consulted
    <3>3. \A i \in Consulted : AbsenceExcused(ServerOf[Backends[i]], w.id, w.top)
      BY <1>5, <2>3, <3>2 DEF AbsentToAll
    <3>4. ASSUME NEW i \in Consulted, ServerOf[Backends[i]] \notin world.partial
          PROVE  /\ ServerOf[Backends[i]] \notin world.down
                 /\ ServerOf[Backends[i]] \in world.liars \/ ~(Chain[w.id].block <= w.top)
      <4>1. world.liars \cap world.down = {}
        BY <1>1, WorldType
      <4>2. Chain[w.id].block \in Nat /\ w.top \in Nat
        BY <1>2, AskedIsBackend, SlotParts, ChainType
      <4> QED BY <3>3, <3>4, <4>1, <4>2 DEF AbsenceExcused
    <3>5. AnswerOK'
      <4> HIDE DEF w
      <4> QED BY <1>1, <3>1, <3>4, AbsentAnswers
    <3> QED BY <1>1, <2>2, <3>5, ExternalKeepsInv
  <2>4. CASE ~AbsentToAll(causes)
    <3>1. answer' = Error(502)
      BY <2>1, <2>4 DEF LoopFails, Fails, Replies
    <3> QED BY <1>1, <2>2, <3>1, ErrorAnswers, ExternalKeepsInv
  <2> QED BY <2>3, <2>4
<1> QED BY <1>7, <1>8
-----------------------------------------------------------------------------
(* What is sent, and what is kept.                                         *)

LEMMA FailureKeepsInv ==
  ASSUME Inv, External, NEW s \in Slots, NEW status, status # 200, Fails(s, Error(status))
  PROVE  Inv'
<1>1. Ahead
  BY ExternalIsAhead DEF Inv
<1>2. SlotsOK' /\ CacheOK' /\ AnswerOK'
  BY <1>1, SlotFreed, CacheStays, ErrorAnswers DEF Fails, Replies
<1> QED BY <1>2, ExternalKeepsInv

LEMMA WaitingKeepsInv ==
  ASSUME Inv, External, NEW s \in Slots, NEW w \in SlotType, w.top <= top, SlotOK(w), Waits(s, w)
  PROVE  Inv'
<1>1. Ahead
  BY ExternalIsAhead DEF Inv
<1>2. SlotsOK' /\ CacheOK' /\ AnswerOK'
  BY <1>1, SlotSet, CacheStays, ErrorAnswers DEF Waits
<1> QED BY <1>2, ExternalKeepsInv

LEMMA OkKeepsInv ==
  ASSUME Inv, External, NEW s \in Slots, NEW body, Fails(s, Ok(slot[s], body)),
         slot[s].req.route = "health" \/ Fits(slot[s], body)
  PROVE  Inv'
<1>1. Ahead
  BY ExternalIsAhead DEF Inv
<1>2. SlotsOK' /\ CacheOK' /\ AnswerOK'
  BY <1>1, SlotFreed, CacheStays, OkAnswers DEF Fails, Replies
<1> QED BY <1>2, ExternalKeepsInv

LEMMA CachingKeepsInv ==
  ASSUME Inv, External, NEW s \in Slots, NEW value, SendsCached(s, value),
         Genuine([key |-> KeyFor(slot[s].req), value |-> value]), Fits(slot[s], value.body)
  PROVE  Inv'
<1>1. Ahead
  BY ExternalIsAhead DEF Inv
<1>2. SlotsOK' /\ AnswerOK'
  BY <1>1, SlotFreed, OkAnswers DEF SendsCached, Replies
<1>3. CacheOK'
  <2> DEFINE key == KeyFor(slot[s].req)
  <2>1. cache' = LruSet(cache, key, value) /\ Genuine([key |-> key, value |-> value])
    BY DEF SendsCached
  <2> HIDE DEF key
  <2> QED BY <1>1, <2>1, CacheMiss
<1> QED BY <1>2, <1>3, ExternalKeepsInv

LEMMA KeyParts ==
  ASSUME NEW req
  PROVE  /\ KeyFor(req).route = req.route /\ KeyFor(req).id = req.id
         /\ req.route = "proof" => KeyFor(req).level = req.level
         /\ Verifies(KeyFor(req)) <=> Verifies(req)
BY DEF KeyFor, Verifies

\* The proof route of the gateway and of the sidecar.
LEMMA ProofSentKeepsInv ==
  ASSUME Inv, External, NEW s \in Slots, slot[s].phase = "proof", NEW server,
         NEW b \in Built(server, slot[s].id, slot[s].req.level, world, top),
         Verified(b, top), CheckpointsAllow(b),
         SendsCached(s, [body |-> <<b>>, size |-> 1, coded |-> FALSE])
  PROVE  Inv'
<1> DEFINE w == slot[s]
           value == [body |-> <<b>>, size |-> 1, coded |-> FALSE]
           key == KeyFor(w.req)
<1>1. w \in SlotType /\ WaitsForProof(w)
  BY SlotParts DEF SlotOK
<1>2. b \in Bundles /\ b.id = w.req.id /\ b.level = w.req.level
  <2>1. /\ w.req.level \in Levels /\ w.id \in Ids /\ w.id = w.req.id
        /\ b \in Built(server, w.id, w.req.level, world, top)
    BY <1>1 DEF WaitsForProof, SlotType
  <2> HIDE DEF w
  <2>2. Typed
    BY DEF Inv
  <2>3. \A id \in Ids, level \in Levels :
          b \in Built(server, id, level, world, top) =>
            b \in Bundles /\ b.id = id /\ b.level = level
    BY <2>2, BuiltType
  <2> QED BY <2>1, <2>3
<1>3. w.req.route = "proof"
  BY <1>1 DEF WaitsForProof
<1>4. value.body = <<b>>
  OBVIOUS
<1>5. key.route = "proof" /\ key.id = w.req.id /\ key.level = w.req.level
  BY <1>3, KeyParts
<1> HIDE DEF value, key
<1>6. KeptProof(key, value)
  BY <1>2, <1>4, <1>5 DEF KeptProof
<1>7. Fits(w, value.body)
  <2>1. value.body[1] = b
    BY <1>4
  <2>2. w.req.route # "tip" /\ ~Verifies(w.req)
    BY <1>3 DEF Verifies
  <2> QED BY <1>2, <1>3, <2>1, <2>2, Zenon DEF Fits
<1>8. Genuine([key |-> key, value |-> value])
  BY <1>6 DEF Genuine
<1>9. SendsCached(s, value)
  BY DEF value
<1> QED BY <1>7, <1>8, <1>9, CachingKeepsInv DEF key

LEMMA ProofBuiltKeepsInv ==
  ASSUME Inv, NEW s \in Slots, ProofBuilt(s)
  PROVE  Inv'
<1>1. External /\ slot[s].phase = "proof"
  BY DEF ProofBuilt
<1>2. Wanted(s) = slot[s].req.level
  BY <1>1 DEF Wanted
<1>3. PICK b \in Built(ServerOf[Asked(s)], slot[s].id, slot[s].req.level, world, top) :
        IF Verified(b, top) /\ CheckpointsAllow(b)
        THEN SendsCached(s, [body |-> <<b>>, size |-> 1, coded |-> FALSE])
        ELSE Fails(s, Error(502))
  BY <1>2 DEF ProofBuilt
<1>4. CASE Verified(b, top) /\ CheckpointsAllow(b)
  BY <1>1, <1>3, <1>4, ProofSentKeepsInv
<1>5. CASE ~(Verified(b, top) /\ CheckpointsAllow(b))
  BY <1>1, <1>3, <1>5, FailureKeepsInv
<1> QED BY <1>4, <1>5

LEMMA ContentBuiltKeepsInv ==
  ASSUME Inv, NEW s \in Slots, ContentBuilt(s)
  PROVE  Inv'
<1> DEFINE w == slot[s]
<1>1. External /\ Typed /\ w.phase = "content"
  BY DEF ContentBuilt, Inv
<1>2. Wanted(s) = world.config.level
  BY <1>1 DEF Wanted
<1>3. PICK b \in Built(ServerOf[Asked(s)], w.id, world.config.level, world, top) :
        IF Verified(b, top)
        THEN Waits(s, [w EXCEPT !.phase = "anchor", !.source = Asked(s), !.causes = << >>,
                                !.bundles = Append(@, b)])
        ELSE Fails(s, Error(502))
  BY <1>2 DEF ContentBuilt
<1>4. CASE ~Verified(b, top)
  BY <1>1, <1>3, <1>4, FailureKeepsInv
<1>5. CASE Verified(b, top)
  <2> DEFINE q == w.bundles
             p == Append(q, b)
             none == << >>
             v == [w EXCEPT !.phase = "anchor", !.source = Asked(s), !.causes = none, !.bundles = p]
  <2>1. Waits(s, v)
    BY <1>3, <1>5
  <2>2. w \in SlotType /\ w.top <= top /\ WaitsForContent(w) /\ w.id \in Ids /\ Asked(s) \in Endpoints
        /\ Len(w.causes) + 1 \in DOMAIN Backends
    BY <1>1, SlotParts, AskedIsBackend DEF SlotOK
  <2>3. /\ b \in Bundles /\ b.id = w.id /\ b.level = world.config.level
        /\ ServerOf[Asked(s)] \notin world.liars => b = TrueBundle(b.id, b.level)
    <3>1. world.config.level \in Levels
      BY <1>1, WorldType
    <3>2. b \in Built(ServerOf[Asked(s)], w.id, world.config.level, world, top)
      BY <1>3
    <3> HIDE DEF w
    <3>3. \A id \in Ids, level \in Levels :
            b \in Built(ServerOf[Asked(s)], id, level, world, top) =>
              /\ b \in Bundles /\ b.id = id /\ b.level = level
              /\ ServerOf[Asked(s)] \notin world.liars => b = TrueBundle(id, level)
      BY <1>1, BuiltType
    <3> QED BY <2>2, <3>1, <3>2, <3>3
  <2>4. q \in Seq(Bundles)
    BY <2>2 DEF SlotType
  <2>5. /\ p \in Seq(Bundles) /\ Len(p) = Len(q) + 1 /\ p[Len(p)] = b
        /\ \A i \in 1 .. Len(q) : p[i] = q[i]
    BY <2>3, <2>4
  <2>6. none \in Seq(Causes)
    OBVIOUS
  <2>7. Last(p) = b
    BY <2>5 DEF Last
  <2>8. q = << >> => Len(q) = 0
    OBVIOUS
  <2> HIDE DEF p, none, q
  <2>9. /\ v \in SlotType /\ v.phase = "anchor" /\ v.req = w.req /\ v.top = w.top
        /\ v.causes = none /\ v.bundles = p /\ v.source = Asked(s)
    BY <2>2, <2>5, <2>6 DEF SlotType
  <2>10. /\ Delegation(p, w.req.id) /\ TrueUpTo(p, Len(p) - 1)
    <3>1. CASE q = << >> /\ w.id = w.req.id
      <4>1. Len(p) = 1 /\ p[1] = b
        BY <2>5, <2>8, <3>1
      <4> QED BY <1>5, <2>3, <2>5, <3>1, <4>1 DEF Delegation, TrueUpTo
    <3>2. CASE /\ Len(q) = 1 /\ Delegation(q, w.req.id)
               /\ q[1].content.delegate = w.id /\ w.id # NoId /\ TrueUpTo(q, 1)
      <4>1. Len(p) = 2 /\ p[1] = q[1] /\ p[2] = b
        BY <2>5, <3>2
      <4> QED BY <1>5, <2>3, <2>5, <3>2, <4>1 DEF Delegation, TrueUpTo
    <3> QED BY <2>2, <3>1, <3>2 DEF WaitsForContent, q
  <2> HIDE DEF v
  <2>11. WaitsForAnchor(v)
    <3>1. Verifies(w.req)
      BY <2>2 DEF WaitsForContent
    <3>2. v.source = Backends[Len(w.causes) + 1]
      BY <2>9 DEF Asked
    <3> QED BY <2>2, <2>3, <2>7, <2>9, <2>10, <3>1, <3>2 DEF WaitsForAnchor, none
  <2>12. SlotOK(v)
    BY <2>9, <2>11 DEF SlotOK
  <2> QED BY <1>1, <2>1, <2>2, <2>9, <2>12, WaitingKeepsInv
<1> QED BY <1>4, <1>5
-----------------------------------------------------------------------------
(* The anchor and the body.                                                *)

\* The bundle a handler would have anchored, and which backend built it.
LEMMA LastOfWaiting ==
  ASSUME Inv, NEW s \in Slots, slot[s].phase = "anchor"
  PROVE  /\ WaitsForAnchor(slot[s]) /\ slot[s].bundles \in Seq(Bundles)
         /\ Len(slot[s].bundles) \in 1 .. 2
         /\ Last(slot[s].bundles) = slot[s].bundles[Len(slot[s].bundles)]
         /\ Last(slot[s].bundles) \in Bundles /\ Verified(Last(slot[s].bundles), top)
<1>1. WaitsForAnchor(slot[s])
  BY SlotParts DEF SlotOK
<1>2. slot[s].bundles \in Seq(Bundles) /\ Len(slot[s].bundles) \in 1 .. 2
  BY <1>1 DEF WaitsForAnchor, Delegation
<1>3. Last(slot[s].bundles) = slot[s].bundles[Len(slot[s].bundles)]
  BY DEF Last
<1>4. Len(slot[s].bundles) \in DOMAIN slot[s].bundles
  BY <1>2
<1> QED BY <1>1, <1>2, <1>3, <1>4 DEF WaitsForAnchor, Delegation

\* A header that its backend may not vouch for, and that too few liars can.
LEMMA AnchoredIsTrue ==
  ASSUME Inv, NEW s \in Slots, slot[s].phase = "anchor", LiarsOutvoted,
         NEW b, b = Last(slot[s].bundles),
         MayAnchor(b.block, b.height, ProofSource(s), world, top)
  PROVE  IsTrue(b)
<1> DEFINE w == slot[s]
<1>1. b \in Bundles /\ Verified(b, top) /\ WaitsForAnchor(w)
  BY LastOfWaiting
<1>2. b.block = b.height
  <2>1. CASE ServerOf[w.source] \in world.liars
    <3>1. PICK i \in DOMAIN Backends : w.source = Backends[i]
      BY <1>1 DEF WaitsForAnchor
    <3>2. Cardinality(LyingAttesters({w.source}, world)) < MinAgreement
      BY <2>1, <3>1 DEF LiarsOutvoted
    <3>3. b.block \in Blocks /\ b.height \in Heights /\ world.liars \subseteq Servers
      BY <1>1, WorldType DEF Bundles, Inv
    <3>4. MayAnchor(b.block, b.height, {w.source}, world, top)
      BY DEF ProofSource
    <3> QED BY <3>2, <3>3, <3>4, QuorumNamesTheBlock
  <2>2. CASE ServerOf[w.source] \notin world.liars
    <3>1. b = TrueBundle(b.id, b.level)
      BY <1>1, <2>2 DEF WaitsForAnchor
    <3> QED BY <3>1 DEF TrueBundle
  <2> QED BY <2>1, <2>2
<1>3. b.block \in Heights
  BY <1>1, <1>2 DEF Bundles
<1>4. b.block = Chain[b.id].block /\ b.block <= top
  BY <1>1, <1>3 DEF Verified
<1>5. CASE b.level = "L3"
  <2>1. b.level # "L2"
    BY <1>5
  <2>2. b.content = Chain[b.id].revealed
    BY <1>1, <1>3, <1>5, <2>1, Zenon DEF Verified
  <2> QED BY <1>2, <1>4, <1>5, <2>2 DEF IsTrue
<1>6. CASE b.level = "L2"
  <2>1. b.level # "L3"
    BY <1>6
  <2>2. b.content \in Committed(b.id)
    BY <1>1, <1>6, <2>1, Zenon DEF Verified
  <2> QED BY <1>2, <1>4, <1>6, <2>1, <2>2 DEF IsTrue
<1> QED BY <1>1, <1>5, <1>6 DEF Bundles, Levels

LEMMA RefusedKeepsInv ==
  ASSUME Inv, NEW s \in Slots, Refused(s)
  PROVE  Inv'
BY FailureKeepsInv DEF Refused

\* With the last bundle anchored, all of them are true.
LEMMA AllAreTrue ==
  ASSUME Inv, NEW s \in Slots, slot[s].phase = "anchor",
         LET b == Last(slot[s].bundles)
         IN MayAnchor(b.block, b.height, ProofSource(s), world, top)
  PROVE  TrueUpTo(slot[s].bundles, Len(slot[s].bundles))
<1> DEFINE q == slot[s].bundles
<1> SUFFICES ASSUME LiarsOutvoted, NEW i \in 1 .. Len(q) PROVE IsTrue(q[i])
  BY DEF TrueUpTo
<1>1. WaitsForAnchor(slot[s]) /\ Len(q) \in 1 .. 2 /\ Last(q) = q[Len(q)]
  BY LastOfWaiting
<1>2. CASE i = Len(q)
  BY <1>1, <1>2, AnchoredIsTrue
<1>3. CASE i # Len(q)
  <2>1. i \in 1 .. (Len(q) - 1)
    BY <1>1, <1>3
  <2> QED BY <1>1, <2>1 DEF WaitsForAnchor, TrueUpTo
<1> QED BY <1>2, <1>3

LEMMA BodyKeepsInv ==
  ASSUME Inv, External, NEW s \in Slots, slot[s].phase = "anchor",
         TrueUpTo(slot[s].bundles, Len(slot[s].bundles)),
         Len(slot[s].bundles) = 1 => Last(slot[s].bundles).content.delegate = NoId,
         SendsBody(s, slot[s].bundles)
  PROVE  Inv'
<1> DEFINE w == slot[s]
           q == w.bundles
           content == Last(q).content
           value == [body |-> q, size |-> content.size, coded |-> content.coded]
           key == KeyFor(w.req)
<1>1. WaitsForAnchor(w) /\ Last(q) = q[Len(q)]
  BY LastOfWaiting
<1>2. Verifies(w.req) /\ Delegation(q, w.req.id)
  BY <1>1 DEF WaitsForAnchor
<1>3. CASE content.size = 0
  <2>1. Fails(s, Error(404))
    BY <1>3 DEF SendsBody
  <2> QED BY <2>1, FailureKeepsInv
<1>4. CASE content.size # 0 /\ RefusedEncoding(w.req, value)
  <2>1. Fails(s, Error(406))
    BY <1>4 DEF SendsBody
  <2> QED BY <2>1, FailureKeepsInv
<1>5. CASE content.size # 0 /\ ~RefusedEncoding(w.req, value)
  <2>1. SendsCached(s, value)
    BY <1>5 DEF SendsBody
  <2>2. value.body = q /\ value.coded = Last(q).content.coded
    OBVIOUS
  <2>3. Verifies(key) /\ key.id = w.req.id
    BY <1>2, KeyParts
  <2>4. Len(q) = 1 => q[1].content.delegate = NoId
    BY <1>1
  <2> HIDE DEF value, key, q
  <2>5. KeptContent(key, value)
    BY <1>2, <2>2, <2>3, <2>4 DEF KeptContent, q
  <2>6. Genuine([key |-> key, value |-> value])
    BY <2>5 DEF Genuine
  <2>7. Fits(w, value.body)
    <3>1. w.req.route # "tip" /\ w.req.route # "proof"
      BY <1>2 DEF Verifies
    <3>2. q[1].id = w.req.id /\ (Last(q).content.coded => w.req.accepts)
      BY <1>2, <1>5, <2>2 DEF Delegation, RefusedEncoding
    <3> HIDE DEF w
    <3> QED BY <1>2, <2>2, <3>1, <3>2, Zenon DEF Fits
  <2> QED BY <2>1, <2>6, <2>7, CachingKeepsInv DEF key
<1> QED BY <1>3, <1>4, <1>5

LEMMA AnchoredKeepsInv ==
  ASSUME Inv, NEW s \in Slots, Anchored(s)
  PROVE  Inv'
<1> DEFINE w == slot[s]
           q == w.bundles
           b == Last(q)
<1>1. External /\ w.phase = "anchor" /\ MayAnchor(b.block, b.height, ProofSource(s), world, top)
  BY DEF Anchored
<1>2. TrueUpTo(q, Len(q)) /\ WaitsForAnchor(w) /\ q \in Seq(Bundles) /\ b = q[Len(q)] /\ b \in Bundles
  BY <1>1, AllAreTrue, LastOfWaiting
<1>3. w \in SlotType /\ w.top <= top
  BY SlotParts
<1>4. CASE Len(q) = 1 /\ b.content.delegate # NoId
  <2> DEFINE id == b.content.delegate
             v == [w EXCEPT !.phase = "content", !.id = id]
  <2>1. Waits(s, v)
    BY <1>4 DEF Anchored
  <2>2. id \in Ids
    BY <1>2, <1>4, ChainType DEF Bundles
  <2>3. q[1].content.delegate = id /\ id # NoId
    BY <1>2, <1>4
  <2> HIDE DEF id
  <2>4. /\ v \in SlotType /\ v.phase = "content" /\ v.id = id /\ v.req = w.req
        /\ v.top = w.top /\ v.causes = w.causes /\ v.bundles = q
    BY <1>3, <2>2 DEF SlotType
  <2>5. CausesAreTrue(v)
    <3>1. v.causes = << >>
      BY <1>2, <2>4 DEF WaitsForAnchor
    <3>2. Len(v.causes) = 0 /\ DOMAIN v.causes = {}
      BY <3>1
    <3> QED BY <3>2, ProofAssumption DEF CausesAreTrue, ProofAssumption
  <2>6. Verifies(w.req) /\ Delegation(q, w.req.id)
    BY <1>2 DEF WaitsForAnchor
  <2> HIDE DEF v
  <2>7. SlotOK(v)
    BY <1>2, <1>4, <2>2, <2>3, <2>4, <2>5, <2>6 DEF SlotOK, WaitsForContent
  <2> QED BY <1>1, <1>3, <2>1, <2>4, <2>7, WaitingKeepsInv
<1>5. CASE ~(Len(q) = 1 /\ b.content.delegate # NoId)
  <2>1. SendsBody(s, q)
    BY <1>5 DEF Anchored
  <2> QED BY <1>1, <1>2, <1>5, <2>1, BodyKeepsInv
<1> QED BY <1>4, <1>5

-----------------------------------------------------------------------------
(* The upstream and the chain.                                             *)

LEMMA UpstreamFits ==
  ASSUME Inv, NEW s \in Slots, slot[s].phase = "upstream"
  PROVE  Fits(slot[s], UpstreamBody(slot[s].req))
<1> DEFINE w == slot[s]
           body == UpstreamBody(w.req)
<1>1. /\ w.req.route \in {"content", "tip"} /\ ~Verifies(w.req) /\ w.version <= version
  BY SlotParts DEF SlotOK, WaitsForUpstream
<1>2. version \in Nat /\ w.version \in Nat
  BY SlotParts DEF Inv, Typed, SlotType
<1>3. CASE w.req.route = "content"
  <2>1. body = <<[of |-> w.req.id]>>
    BY <1>3 DEF UpstreamBody
  <2>2. w.req.route # "tip" /\ w.req.route # "proof" /\ body[1].of = w.req.id
    BY <1>3, <2>1
  <2> HIDE DEF body, w
  <2> QED BY <1>1, <2>2, Zenon DEF Fits, w, body
<1>4. CASE w.req.route = "tip"
  <2>1. body = <<[at |-> version]>>
    BY <1>4 DEF UpstreamBody
  <2>2. body[1].at >= w.version
    BY <1>1, <1>2, <2>1
  <2>3. w.req.route # "proof"
    BY <1>4
  <2> HIDE DEF body, w
  <2> QED BY <1>1, <1>4, <2>2, <2>3, Zenon DEF Fits, w, body
<1> QED BY <1>1, <1>3, <1>4

LEMMA UpstreamAnswersKeepsInv ==
  ASSUME Inv, NEW s \in Slots, UpstreamAnswers(s)
  PROVE  Inv'
<1> DEFINE w == slot[s]
           body == UpstreamBody(w.req)
<1>1. External /\ w.phase = "upstream"
  BY DEF UpstreamAnswers
<1>2. Fits(w, body) /\ ~Verifies(w.req)
  BY <1>1, UpstreamFits, SlotParts DEF SlotOK, WaitsForUpstream
<1>3. PICK r \in UpstreamResponses :
        \/ Fails(s, Error(502))
        \/ /\ SendsCached(s, [body |-> body, size |-> r.size, coded |-> FALSE])
           /\ Immutable(w.req)
        \/ Fails(s, IF r.status = 200 THEN Ok(w, body) ELSE Error(r.status))
  <2> DEFINE MayCache(r) == Immutable(w.req) /\ ~r.forbids
             Buffered(r) == (MayCache(r) /\ r.fits) \/ r.size = 0
  <2>1. PICK r \in UpstreamResponses :
          IF Buffered(r) /\ r.size > CacheMaxEntry
          THEN Fails(s, Error(502))
          ELSE IF Buffered(r) /\ MayCache(r) /\ r.status = 200
          THEN SendsCached(s, [body |-> body, size |-> r.size, coded |-> FALSE])
          ELSE Fails(s, IF r.status = 200 THEN Ok(w, body) ELSE Error(r.status))
    BY Zenon DEF UpstreamAnswers
  <2> HIDE DEF body, w, Buffered
  <2>2. CASE Buffered(r) /\ r.size > CacheMaxEntry
    BY <2>1, <2>2
  <2>3. CASE ~(Buffered(r) /\ r.size > CacheMaxEntry) /\ Buffered(r) /\ MayCache(r) /\ r.status = 200
    <3>1. SendsCached(s, [body |-> body, size |-> r.size, coded |-> FALSE])
      BY <2>1, <2>3
    <3>2. Immutable(w.req)
      BY <2>3
    <3> QED BY <3>1, <3>2, Zenon
  <2>4. CASE /\ ~(Buffered(r) /\ r.size > CacheMaxEntry)
             /\ ~(Buffered(r) /\ MayCache(r) /\ r.status = 200)
    BY <2>1, <2>4
  <2> QED BY <2>2, <2>3, <2>4
<1>4. CASE Fails(s, Error(502))
  BY <1>1, <1>4, FailureKeepsInv
<1>5. CASE /\ SendsCached(s, [body |-> body, size |-> r.size, coded |-> FALSE])
           /\ Immutable(w.req)
  <2> DEFINE value == [body |-> body, size |-> r.size, coded |-> FALSE]
             key == KeyFor(w.req)
  <2>1. w.req.route = "content" /\ body = <<[of |-> w.req.id]>>
    BY <1>5 DEF Immutable, UpstreamBody
  <2>2. value.body = body
    OBVIOUS
  <2>3. key.route = "content" /\ key.id = w.req.id /\ ~Verifies(key)
    BY <1>2, <2>1, KeyParts
  <2>4. SendsCached(s, value)
    BY <1>5
  <2> HIDE DEF value, key, body
  <2>5. KeptUpstream(key, value)
    BY <2>1, <2>2, <2>3 DEF KeptUpstream
  <2>6. Genuine([key |-> key, value |-> value])
    BY <2>5 DEF Genuine
  <2> QED BY <1>1, <1>2, <2>2, <2>4, <2>6, CachingKeepsInv DEF key
<1>6. CASE Fails(s, IF r.status = 200 THEN Ok(w, body) ELSE Error(r.status))
  <2>1. CASE r.status = 200
    <3>1. Fails(s, Ok(w, body))
      BY <1>6, <2>1
    <3> HIDE DEF body
    <3> QED BY <1>1, <1>2, <3>1, OkKeepsInv
  <2>2. CASE r.status # 200
    <3>1. Fails(s, Error(r.status))
      BY <1>6, <2>2
    <3> QED BY <1>1, <2>2, <3>1, FailureKeepsInv
  <2> QED BY <2>1, <2>2
<1> QED BY <1>3, <1>4, <1>5, <1>6

LEMMA UpstreamFailsKeepsInv ==
  ASSUME Inv, NEW s \in Slots, UpstreamFails(s)
  PROVE  Inv'
BY FailureKeepsInv DEF UpstreamFails

LEMMA ChainKeepsInv ==
  ASSUME Inv, Grow \/ TipMoves
  PROVE  Inv'
<1>1. top \in Heights /\ version \in Nat
  BY DEF Inv, Typed
<1>2. Ahead /\ top' \in Heights /\ UNCHANGED <<cache, slot>> /\ answer' = NoAnswer
  BY <1>1, TrustAssumption DEF Grow, TipMoves, Ahead, Heights, TrustAssumption
<1>3. CacheOK' /\ SlotsOK' /\ AnswerOK'
  BY <1>2, CacheStays, SlotsStay, ErrorAnswers
<1> QED BY <1>2, <1>3, PartsKeepInv
-----------------------------------------------------------------------------
(* The sidecar.                                                            *)

LEMMA HealthWaits ==
  ASSUME Inv, NEW req \in world.requests, req.route = "health"
  PROVE  LET w == [Idle EXCEPT !.phase = "health", !.req = req]
         IN  w \in SlotType /\ w.top <= top /\ SlotOK(w)
<1> DEFINE w == [Idle EXCEPT !.phase = "health", !.req = req]
<1>1. req \in [route : Routes, id : Ids \cup {Malformed}, level : Levels, accepts : BOOLEAN]
  BY RequestType DEF Inv
<1>2. top \in Nat
  BY ChainType DEF Inv, Typed
<1>3. w \in SlotType
  BY <1>1, IdleType DEF SlotType
<1>4. w.phase = "health" /\ w.req = req /\ w.top = 0
  BY DEF Idle
<1> HIDE DEF w
<1>5. SlotOK(w) /\ w.top <= top
  BY <1>2, <1>4 DEF SlotOK
<1> QED BY <1>3, <1>5 DEF w

LEMMA SidecarArriveKeepsInv ==
  ASSUME Inv, NEW s \in Slots, NEW req \in world.requests, SidecarArrive(s, req)
  PROVE  Inv'
<1>1. External /\ Ahead /\ Typed
  BY ExternalIsAhead DEF SidecarArrive, Inv
<1>2. CASE /\ req.route = "health"
           /\ Waits(s, [Idle EXCEPT !.phase = "health", !.req = req])
  <2> DEFINE w == [Idle EXCEPT !.phase = "health", !.req = req]
  <2>1. Waits(s, w) /\ w \in SlotType /\ w.top <= top /\ SlotOK(w)
    BY <1>2, HealthWaits
  <2> HIDE DEF w
  <2> QED BY <1>1, <2>1, WaitingKeepsInv
<1>3. CASE req.route = "proof" /\ req.id # Malformed /\ Waits(s, Received(req))
  <2>1. Received(req) \in SlotType /\ Received(req).top <= top /\ SlotOK(Received(req))
    BY <1>1, <1>3, ReceivedType, ReceivedWaits
  <2> QED BY <1>1, <1>3, <2>1, WaitingKeepsInv
<1>4. CASE UNCHANGED <<cache, slot>> /\ answer' \in {Error(429), Error(404), Error(400)}
  <2>1. AnswerOK'
    BY <1>4, ErrorAnswers
  <2> QED BY <1>1, <1>4, <2>1, CacheStays, SlotsStay, ExternalKeepsInv
<1>5. CASE /\ Holds(cache, KeyFor(req)) /\ cache' = LruGet(cache, KeyFor(req))
           /\ answer' = HitResponse(req, Found(cache, KeyFor(req))) /\ UNCHANGED slot
  <2>1. CacheOK' /\ AnswerOK' /\ SlotsOK'
    BY <1>1, <1>5, CacheHit, HitAnswers, SlotsStay
  <2> QED BY <1>1, <2>1, ExternalKeepsInv
<1> QED BY <1>2, <1>3, <1>4, <1>5 DEF SidecarArrive

LEMMA HealthAnswersKeepsInv ==
  ASSUME Inv, NEW s \in Slots, HealthAnswers(s)
  PROVE  Inv'
<1>1. External /\ slot[s].phase = "health"
  BY DEF HealthAnswers
<1>2. slot[s].req.route = "health"
  BY <1>1, SlotParts DEF SlotOK
<1>3. Fails(s, Ok(slot[s], << >>)) \/ Fails(s, Error(502))
  BY DEF HealthAnswers
<1>4. CASE Fails(s, Ok(slot[s], << >>))
  <2> DEFINE none == << >>
  <2>1. Fails(s, Ok(slot[s], none))
    BY <1>4
  <2> HIDE DEF none
  <2> QED BY <1>1, <1>2, <2>1, OkKeepsInv
<1>5. CASE Fails(s, Error(502))
  BY <1>1, <1>5, FailureKeepsInv
<1> QED BY <1>3, <1>4, <1>5

LEMMA NodeIsExcused ==
  ASSUME Typed, NEW id \in Ids, "absent" \in NodeFailures(id)
  PROVE  AbsenceExcused(Node, id, top)
<1> DEFINE present == Chain[id].block <= top /\ Node \notin world.partial
<1>1. PICK end \in coreRpc(present) \ {"result"} :
        "absent" = IF end = "error" THEN "other" ELSE "absent"
  BY DEF NodeFailures
<1>2. end # "error"
  BY <1>1
<1>3. CASE Node \in world.liars
  BY <1>3 DEF AbsenceExcused
<1>4. CASE Node \notin world.liars /\ Node \in world.down
  <2>1. coreRpc(present) = {"error"}
    BY <1>4, Zenon DEF coreRpc
  <2> QED BY <1>1, <1>2, <2>1
<1>5. CASE Node \notin world.liars /\ Node \notin world.down
  <2>1. coreRpc(present) = {IF present THEN "result" ELSE "RPC_INVALID_ADDRESS_OR_KEY"}
    BY <1>5, Zenon DEF coreRpc
  <2>2. ~present
    <3> HIDE DEF present
    <3> QED BY <1>1, <2>1
  <2>3. Chain[id].block \in Nat /\ top \in Nat
    BY ChainType DEF Typed
  <2> QED BY <1>5, <2>2, <2>3 DEF AbsenceExcused
<1> QED BY <1>3, <1>4, <1>5

LEMMA SidecarFailsKeepsInv ==
  ASSUME Inv, world.config.mode = "sidecar", NEW s \in Slots, SidecarFails(s)
  PROVE  Inv'
<1> DEFINE w == slot[s]
<1>1. External /\ Ahead /\ Typed /\ w.phase = "proof"
  BY ExternalIsAhead DEF SidecarFails, Inv
<1>2. \/ "absent" \in NodeFailures(w.id) /\ Fails(s, Absent(w))
      \/ Fails(s, Error(502))
  BY DEF SidecarFails
<1>3. CASE Fails(s, Error(502))
  BY <1>1, <1>3, FailureKeepsInv
<1>4. CASE "absent" \in NodeFailures(w.id) /\ Fails(s, Absent(w))
  <2>1. SlotsOK' /\ CacheOK'
    BY <1>1, <1>4, SlotFreed, CacheStays DEF Fails, Replies
  <2>2. AbsenceExcused(Node, w.id, top) /\ world.liars \cap world.down = {}
    BY <1>1, <1>4, AskedIsBackend, NodeIsExcused, WorldType
  <2>3. Chain[w.id].block \in Nat /\ w.top \in Nat /\ top \in Nat /\ w.top <= top
    BY <1>1, AskedIsBackend, SlotParts, ChainType
  <2>4. ASSUME NEW i \in Consulted, ServerOf[Backends[i]] \notin world.partial
        PROVE  /\ ServerOf[Backends[i]] \notin world.down
               /\ ServerOf[Backends[i]] \in world.liars \/ ~(Chain[w.id].block <= w.top)
    <3>1. ServerOf[Backends[i]] = Node
      BY DEF Consulted, Node
    <3> QED BY <2>2, <2>3, <2>4, <3>1 DEF AbsenceExcused
  <2>5. answer' = Absent(w)
    BY <1>4 DEF Fails, Replies
  <2>6. AnswerOK'
    <3> HIDE DEF w
    <3> QED BY <1>1, <2>4, <2>5, AbsentAnswers
  <2> QED BY <1>1, <2>1, <2>6, ExternalKeepsInv
<1> QED BY <1>2, <1>3, <1>4

LEMMA SidecarBuiltKeepsInv ==
  ASSUME Inv, NEW s \in Slots, SidecarBuilt(s)
  PROVE  Inv'
<1>1. External /\ slot[s].phase = "proof"
  BY DEF SidecarBuilt
<1>2. PICK b \in Built(Node, slot[s].id, slot[s].req.level, world, top) :
        IF Verified(b, top) /\ CheckpointsAllow(b)
        THEN SendsCached(s, [body |-> <<b>>, size |-> 1, coded |-> FALSE])
        ELSE Fails(s, Error(502))
  BY DEF SidecarBuilt
<1>3. CASE Verified(b, top) /\ CheckpointsAllow(b)
  BY <1>1, <1>2, <1>3, ProofSentKeepsInv
<1>4. CASE ~(Verified(b, top) /\ CheckpointsAllow(b))
  BY <1>1, <1>2, <1>4, FailureKeepsInv
<1> QED BY <1>3, <1>4

-----------------------------------------------------------------------------
(* The whole.                                                              *)

LEMMA InitInv == Init => Inv
<1> SUFFICES ASSUME Init PROVE Inv
  OBVIOUS
<1>1. Idle \in SlotType /\ Idle.phase = "idle" /\ Idle.top = 0 /\ SlotOK(Idle)
  <2>1. Idle.phase = "idle" /\ Idle.top = 0
    BY DEF Idle
  <2> QED BY <2>1, IdleType
<1> HIDE DEF Idle
<1>2. Typed /\ \A s \in Slots : SlotOK(slot[s])
  BY <1>1, TrustAssumption DEF Init, Typed, Heights, TrustAssumption
<1>3. cache.entries \in Seq(Elements(cache.entries)) /\ Elements(cache.entries) = {}
  BY DEF Init, EmptyLru, Elements
<1>4. AnswersFitRequests /\ NoFalseAbsence
  BY DEF Init, NoAnswer, AnswersFitRequests, NoFalseAbsence, SaidAbsent
<1> QED BY <1>2, <1>3, <1>4 DEF Inv

LEMMA StepInv == Inv /\ [Serve]_vars => Inv'
<1> SUFFICES ASSUME Inv, [Serve]_vars PROVE Inv'
  OBVIOUS
<1>1. CASE UNCHANGED vars
  <2>1. Ahead /\ UNCHANGED <<cache, slot>> /\ top' \in Heights
    BY <1>1, ExternalIsAhead DEF vars, Inv, Typed, External
  <2>2. CacheOK' /\ SlotsOK'
    BY <2>1, CacheStays, SlotsStay
  <2>3. AnswerOK'
    BY <1>1 DEF vars, Inv, AnswerOK, AnswersFitRequests, NoFalseAbsence, SaidAbsent,
                Consulted, MayHave, Verifies
  <2> QED BY <2>1, <2>2, <2>3, PartsKeepInv
<1>2. CASE Next
  BY <1>2, ArriveKeepsInv, AttemptFailsKeepsInv, ProofBuiltKeepsInv, ContentBuiltKeepsInv,
     RefusedKeepsInv, AnchoredKeepsInv, UpstreamAnswersKeepsInv, UpstreamFailsKeepsInv,
     ChainKeepsInv DEF Next
<1>3. CASE world.config.mode = "sidecar" /\ SidecarNext
  BY <1>3, SidecarArriveKeepsInv, HealthAnswersKeepsInv, SidecarFailsKeepsInv,
     SidecarBuiltKeepsInv, ChainKeepsInv DEF SidecarNext
<1> QED BY <1>1, <1>2, <1>3 DEF Serve

THEOREM ServingKeepsInv == Serving => []Inv
BY InitInv, StepInv, PTL DEF Serving

\* Every handler waits for what its phase says, with the fields that go with
\* it, in a process whose chain only grows.
THEOREM GatewayTyped == Serving => []Typed
<1>1. Inv => Typed
  BY DEF Inv
<1> QED BY <1>1, ServingKeepsInv, PTL

\* What the cache holds under a key is what a request with that key asks for,
\* verified as that request would have it verified, whoever put it there.
THEOREM GatewayCacheHonest == Serving => []CacheHonest
<1>1. Inv => CacheHonest
  <2> SUFFICES ASSUME Inv, NEW e \in Kept
               PROVE  LET key == e.key
                          body == e.value.body
                      IN CASE key.route = "proof" ->
                                /\ body[1].id = key.id /\ body[1].level = key.level
                                /\ Verified(body[1], top) /\ CheckpointsAllow(body[1])
                           [] Verifies(key) ->
                                /\ \A n \in DOMAIN body :
                                     body[n].level = world.config.level /\ Verified(body[n], top)
                                /\ body[1].id = key.id
                                /\ IF body[1].content.delegate = NoId THEN Len(body) = 1
                                   ELSE Len(body) = 2 /\ body[2].id = body[1].content.delegate
                           [] OTHER -> key.route = "content" /\ body = <<[of |-> key.id]>>
    BY Zenon DEF CacheHonest
  <2> DEFINE key == e.key
             body == e.value.body
  <2>1. KeptProof(key, e.value) \/ KeptContent(key, e.value) \/ KeptUpstream(key, e.value)
    BY DEF Inv, Kept, Elements, Genuine
  <2>2. CASE KeptProof(key, e.value)
    <3>1. /\ key.route = "proof" /\ body[1].id = key.id /\ body[1].level = key.level
          /\ Verified(body[1], top) /\ CheckpointsAllow(body[1])
      BY <2>2 DEF KeptProof
    <3>2. ~Verifies(key)
      BY <3>1 DEF Verifies
    <3> QED BY <3>1, <3>2, Zenon
  <2>3. CASE KeptContent(key, e.value)
    <3>1. Verifies(key) /\ key.route # "proof"
      BY <2>3 DEF KeptContent, Verifies
    <3>2. /\ \A n \in DOMAIN body : body[n].level = world.config.level /\ Verified(body[n], top)
          /\ body[1].id = key.id
      BY <2>3 DEF KeptContent, Delegation
    <3>3. IF body[1].content.delegate = NoId THEN Len(body) = 1
          ELSE Len(body) = 2 /\ body[2].id = body[1].content.delegate
      BY <2>3 DEF KeptContent, Delegation
    <3> HIDE DEF body, key
    <3> QED BY <3>1, <3>2, <3>3, Zenon DEF body, key
  <2>4. CASE KeptUpstream(key, e.value)
    <3>1. key.route = "content" /\ ~Verifies(key) /\ body = <<[of |-> key.id]>>
      BY <2>4 DEF KeptUpstream
    <3>2. key.route # "proof"
      BY <3>1
    <3> HIDE DEF body, key
    <3> QED BY <3>1, <3>2, Zenon DEF body, key
  <2> QED BY <2>1, <2>2, <2>3, <2>4
<1> QED BY <1>1, ServingKeepsInv, PTL

\* While the liars that may vouch for a bundle are outvoted, verified content
\* is what was revealed in the block it says, or committed to, and so is its
\* delegate's.
THEOREM GatewayVerifiedIsTrue == Serving => []VerifiedIsTrue
<1>1. Inv => VerifiedIsTrue
  <2> SUFFICES ASSUME Inv, LiarsOutvoted, NEW e \in Kept, Verifies(e.key),
                      NEW i \in DOMAIN e.value.body
               PROVE  IsTrue(e.value.body[i])
    BY DEF VerifiedIsTrue, IsTrue
  <2>1. Genuine(e)
    BY DEF Inv, Kept, Elements
  <2>2. KeptContent(e.key, e.value)
    BY <2>1 DEF Genuine, KeptProof, KeptUpstream, Verifies
  <2>3. e.value.body \in Seq(Bundles)
    BY <2>2 DEF KeptContent, Delegation
  <2> QED BY <2>2, <2>3 DEF KeptContent, TrueUpTo
<1> QED BY <1>1, ServingKeepsInv, PTL

\* An answer is of the id and level asked for, in a coding that the request
\* admits, and no older than the request where it moves with the tip.
THEOREM GatewayAnswersFit == Serving => []AnswersFitRequests
<1>1. Inv => AnswersFitRequests
  BY DEF Inv
<1> QED BY <1>1, ServingKeepsInv, PTL

\* No request is told that an inscription is not there while a backend is down,
\* or one that is truthful and complete has had it since the request came.
THEOREM GatewayNoFalseAbsence == Serving => []NoFalseAbsence
<1>1. Inv => NoFalseAbsence
  BY DEF Inv
<1> QED BY <1>1, ServingKeepsInv, PTL

-----------------------------------------------------------------------------
(* The cache's account, in the whole.                                      *)

\* What a step may do to the cache.
CacheStep ==
  \/ cache' = cache
  \/ \E key : Holds(cache, key) /\ cache' = LruGet(cache, key)
  \/ \E key, value : value.size \in Nat /\ cache' = LruSet(cache, key, value)

LEMMA SendsOneStep ==
  ASSUME NEW s, NEW value, value.size \in Nat, SendsCached(s, value)
  PROVE  CacheStep
BY DEF SendsCached, CacheStep

LEMMA FailsOrWaits ==
  ASSUME NEW s, NEW x, Fails(s, x) \/ Waits(s, x)
  PROVE  CacheStep
BY DEF Fails, Waits, CacheStep

LEMMA OneCacheStep == Inv /\ [Serve]_vars => CacheStep
<1> SUFFICES ASSUME Inv, [Serve]_vars PROVE CacheStep
  OBVIOUS
<1>1. ASSUME NEW s \in Slots, NEW req, Arrive(s, req) \/ SidecarArrive(s, req) PROVE CacheStep
  BY <1>1, FailsOrWaits DEF Arrive, SidecarArrive, CacheStep
<1>2. ASSUME NEW s \in Slots, AttemptFails(s) PROVE CacheStep
  BY <1>2, FailsOrWaits DEF AttemptFails, LoopFails
<1>3. ASSUME NEW s \in Slots, ProofBuilt(s) \/ SidecarBuilt(s) PROVE CacheStep
  <2>1. \/ \E b : SendsCached(s, [body |-> <<b>>, size |-> 1, coded |-> FALSE])
        \/ Fails(s, Error(502))
    BY <1>3 DEF ProofBuilt, SidecarBuilt
  <2>2. ASSUME NEW b, SendsCached(s, [body |-> <<b>>, size |-> 1, coded |-> FALSE])
        PROVE  CacheStep
    BY <2>2, SendsOneStep
  <2> QED BY <2>1, <2>2, FailsOrWaits
<1>4. ASSUME NEW s \in Slots, ContentBuilt(s) PROVE CacheStep
  BY <1>4, FailsOrWaits DEF ContentBuilt
<1>5. ASSUME NEW s \in Slots, Refused(s) \/ UpstreamFails(s) \/ HealthAnswers(s) \/ SidecarFails(s)
      PROVE  CacheStep
  <2>1. \E x : Fails(s, x)
    <3>1. Refused(s) => Fails(s, Error(502))
      BY DEF Refused
    <3>2. UpstreamFails(s) => Fails(s, Error(502))
      BY DEF UpstreamFails
    <3>3. HealthAnswers(s) => \E x : Fails(s, x)
      BY DEF HealthAnswers
    <3>4. SidecarFails(s) => \E x : Fails(s, x)
      BY DEF SidecarFails
    <3> QED BY <1>5, <3>1, <3>2, <3>3, <3>4
  <2> QED BY <2>1, FailsOrWaits
<1>6. ASSUME NEW s \in Slots, Anchored(s) PROVE CacheStep
  <2> DEFINE q == slot[s].bundles
             content == Last(q).content
             value == [body |-> q, size |-> content.size, coded |-> content.coded]
  <2>1. content.size \in Nat
    BY <1>6, LastOfWaiting, ProofAssumption DEF Anchored, ProofAssumption, Bundles
  <2>2. \/ \E x : Fails(s, x) \/ Waits(s, x)
        \/ SendsCached(s, value)
    <3>1. Waits(s, [slot[s] EXCEPT !.phase = "content", !.id = Last(q).content.delegate])
          \/ SendsBody(s, q)
      BY <1>6 DEF Anchored
    <3>2. ASSUME SendsBody(s, q)
          PROVE  (\E x : Fails(s, x)) \/ SendsCached(s, value)
      BY <3>2, Zenon DEF SendsBody
    <3> HIDE DEF value
    <3> QED BY <3>1, <3>2
  <2>3. value.size \in Nat
    BY <2>1
  <2> HIDE DEF value
  <2> QED BY <2>2, <2>3, FailsOrWaits, SendsOneStep
<1>7. ASSUME NEW s \in Slots, UpstreamAnswers(s) PROVE CacheStep
  <2>1. PICK r \in UpstreamResponses :
          \/ \E body : SendsCached(s, [body |-> body, size |-> r.size, coded |-> FALSE])
          \/ \E x : Fails(s, x)
    BY <1>7, Zenon DEF UpstreamAnswers
  <2>2. r.size \in Nat
    BY CacheAssumption DEF UpstreamResponses, CacheAssumption
  <2>3. ASSUME NEW body, SendsCached(s, [body |-> body, size |-> r.size, coded |-> FALSE])
        PROVE  CacheStep
    BY <2>2, <2>3, SendsOneStep
  <2> QED BY <2>1, <2>3, FailsOrWaits
<1>8. ASSUME Grow \/ TipMoves \/ UNCHANGED vars PROVE CacheStep
  BY <1>8 DEF Grow, TipMoves, vars, CacheStep
<1> QED BY <1>1, <1>2, <1>3, <1>4, <1>5, <1>6, <1>7, <1>8 DEF Serve, Next, SidecarNext

LEMMA AccountKept == Account(cache) /\ CacheStep => Account(cache')
BY GetAccounted, SetAccounted DEF CacheStep

LEMMA AccountIsAccounted == Account(cache) => CacheAccounted
<1> SUFFICES ASSUME Account(cache) PROVE CacheAccounted
  OBVIOUS
<1> DEFINE q == cache.entries
           keys == {e.key : e \in Kept}
           f == [i \in 1 .. Len(q) |-> q[i].key]
<1>1. q \in Seq(Elements(q)) /\ KeysOnce(q) /\ DOMAIN q = 1 .. Len(q) /\ Len(q) \in Nat
  BY DEF Account
<1>2. keys = {q[i].key : i \in 1 .. Len(q)}
  BY <1>1 DEF Kept
<1>3. f \in Bijection(1 .. Len(q), keys)
  <2>1. f \in [1 .. Len(q) -> keys]
    BY <1>2
  <2>2. \A i, j \in 1 .. Len(q) : f[i] = f[j] => i = j
    BY <1>1 DEF KeysOnce
  <2>3. \A k \in keys : \E i \in 1 .. Len(q) : f[i] = k
    BY <1>2
  <2> HIDE DEF f, keys, q
  <2>4. f \in Injection(1 .. Len(q), keys) /\ f \in Surjection(1 .. Len(q), keys)
    BY <2>1, <2>2, <2>3 DEF Injection, Surjection, IsInjective
  <2> QED BY <2>4 DEF Bijection
<1>4. IsFiniteSet(1 .. Len(q)) /\ Cardinality(1 .. Len(q)) = Len(q)
  BY <1>1, FS_Interval
<1>5. Cardinality(keys) = Len(q)
  BY <1>3, <1>4, FS_Bijection DEF ExistsBijection
<1> QED BY <1>5 DEF Account, CacheAccounted

\* The running total is the bytes held, each key is held once, and the total
\* is within the budget but for a single entry, whichever handlers store what.
THEOREM GatewayCacheAccounted == Serving => []CacheAccounted
<1>1. Init => Account(cache)
  <2> SUFFICES ASSUME Init PROVE Account(cache)
    OBVIOUS
  <2>1. cache.entries = << >> /\ cache.bytes = 0 /\ Elements(cache.entries) = {}
    BY DEF Init, EmptyLru, Elements
  <2>2. PICK f : Totals(f, cache.entries) /\ BytesOf(cache.entries) = f[Len(cache.entries)]
    <3>1. cache.entries \in Seq({}) /\ Sized({})
      BY <2>1 DEF Sized
    <3> QED BY <3>1, BytesAreTotals
  <2>3. BytesOf(cache.entries) = 0
    BY <2>1, <2>2 DEF Totals
  <2>4. cache.entries \in Seq(Elements(cache.entries)) /\ DOMAIN cache.entries = {}
    BY <2>1
  <2>5. cache.bytes <= CacheMaxBytes
    BY <2>1, CacheAssumption DEF CacheAssumption
  <2> QED BY <2>1, <2>3, <2>4, <2>5 DEF Account, Sized, KeysOnce
<1>2. Account(cache) /\ Inv /\ [Serve]_vars => Account(cache)'
  BY OneCacheStep, AccountKept
<1>3. Account(cache) => CacheAccounted
  BY AccountIsAccounted
<1> QED BY <1>1, <1>2, <1>3, ServingKeepsInv, PTL DEF Serving

(***************************************************************************)
(* The rate limiter: what TokenBucket grants its Client, for any clients,  *)
(* rate, burst, cap and periods, and however long the clock runs.          *)
(***************************************************************************)

\* What the Client's bucket would hold if it were refilled now.
Worth ==
  LET tokens == bucket[Client].tokens + (clock - bucket[Client].last)
  IN IF tokens < Capacity THEN tokens ELSE Capacity

BucketTyped ==
  /\ clock \in Int /\ lastSweep \in Int
  /\ \A k \in DOMAIN bucket : bucket[k] \in [tokens : Int, last : Int]
  /\ window \in [from : Int, spent : Int] /\ window.from <= clock
  /\ due \in Int

\* The tokens left are part of what the window may still be granted; a bucket
\* that is gone counts as full.
Covered ==
  IF Client \in DOMAIN bucket
  THEN window.spent + Worth <= Capacity + (clock - window.from)
  ELSE window.spent <= clock - window.from

\* By the time the Client was told, its bucket has earned a token.
EarnedByDue ==
  due # Undue /\ Client \in DOMAIN bucket =>
    bucket[Client].tokens + (due - bucket[Client].last) >= Cost

BucketInv == BucketTyped /\ Covered /\ RateHolds /\ EarnedByDue

-----------------------------------------------------------------------------

\* A division rounded towards plus infinity covers its dividend.
LEMMA RoundedUp ==
  ASSUME NEW missing \in Int, NEW s \in Nat \ {0}
  PROVE  /\ -((-missing) \div s) \in Int
         /\ s * (-((-missing) \div s)) >= missing
  <1> DEFINE q == (-missing) \div s
  <1>1. /\ q \in Int
        /\ s * q <= -missing
    BY SMT
  <1>2. s * (-q) = -(s * q) /\ s * q \in Int
    BY <1>1, SMT
  <1> QED BY <1>1, <1>2, SMT

LEMMA BucketInitInv == BucketInit => BucketInv
  <1> SUFFICES ASSUME BucketInit PROVE BucketInv
    OBVIOUS
  <1>1. clock = 0 /\ lastSweep = 0 /\ bucket = << >> /\ due = -1
    BY DEF BucketInit, Undue
  <1>2. window.from = 0 /\ window.spent = 0 /\ window \in [from : Int, spent : Int]
    BY DEF BucketInit, FreshWindow
  <1>3. DOMAIN bucket = {}
    BY <1>1
  <1> QED
    BY <1>1, <1>2, <1>3, BucketAssumption
    DEF BucketAssumption, BucketInv, BucketTyped, Covered, RateHolds, EarnedByDue

LEMMA TickInv == BucketInv /\ Tick => BucketInv'
  BY BucketAssumption, SMT
  DEF BucketAssumption, Tick, BucketInv, BucketTyped, Covered, RateHolds, EarnedByDue, Worth

LEMMA StepBackInv == BucketInv /\ StepBack => BucketInv'
  <1> SUFFICES ASSUME BucketInv, StepBack PROVE BucketInv'
    OBVIOUS
  <1>1. /\ clock' \in Int /\ lastSweep' \in Int /\ bucket' = bucket /\ due' = Undue
        /\ window'.from = clock' /\ window'.spent = 0 /\ window' \in [from : Int, spent : Int]
    BY DEF StepBack, FreshWindow, BucketInv, BucketTyped
  <1>2. BucketTyped'
    BY <1>1 DEF BucketInv, BucketTyped, Undue
  <1>3. Capacity \in Int /\ Capacity >= 0
    BY BucketAssumption DEF BucketAssumption
  <1>4. ASSUME Client \in DOMAIN bucket'
        PROVE  Worth' \in Int /\ Worth' <= Capacity
    <2>1. bucket'[Client] \in [tokens : Int, last : Int]
      BY <1>2, <1>4 DEF BucketTyped
    <2> QED BY <1>1, <1>3, <2>1 DEF Worth
  <1>5. clock \in Int /\ clock' = clock - 1 /\ window'.from = clock - 1 /\ window'.spent = 0
    BY DEF StepBack, FreshWindow, BucketInv, BucketTyped
  <1>6. Covered'
    BY <1>3, <1>4, <1>5 DEF Covered
  <1>7. RateHolds'
    BY <1>3, <1>5 DEF RateHolds
  <1>8. EarnedByDue'
    BY <1>1 DEF EarnedByDue
  <1> QED BY <1>2, <1>6, <1>7, <1>8 DEF BucketInv

LEMMA OpenWindowInv == BucketInv /\ OpenWindow => BucketInv'
  BY BucketAssumption, SMT
  DEF BucketAssumption, OpenWindow, BucketInv, BucketTyped, Covered, RateHolds, EarnedByDue, Worth,
      FreshWindow

-----------------------------------------------------------------------------

\* What a refill leaves in the Client's bucket.
LEMMA RefilledWorth ==
  ASSUME BucketTyped
  PROVE  /\ \A k \in Keys : Refilled(k) \in [tokens : Int, last : Int]
         /\ Refilled(Client).last = clock
         /\ Client \in Swept => Refilled(Client).tokens = Worth
         /\ Client \notin Swept => Refilled(Client).tokens = Capacity
  <1>1. Swept \subseteq DOMAIN bucket
    BY DEF Swept
  <1> QED BY <1>1, BucketAssumption DEF BucketAssumption, BucketTyped, Refilled, Worth

\* The tokens about to be used, like those of the window, are paid for; a
\* bucket the sweep took was full.
LEMMA RefilledCovered ==
  ASSUME BucketInv
  PROVE  window.spent + Refilled(Client).tokens <= Capacity + (clock - window.from)
  <1>1. BucketTyped /\ Covered
    BY DEF BucketInv
  <1>2. CASE Client \in Swept
    <2>1. Client \in DOMAIN bucket
      BY <1>2 DEF Swept
    <2> QED BY <1>1, <1>2, <2>1, RefilledWorth DEF Covered
  <1>3. CASE Client \notin Swept /\ Client \in DOMAIN bucket
    <2>1. Stale(Client)
      BY <1>3 DEF Swept
    <2>2. Worth = Capacity
      BY <1>1, <1>3, <2>1, BucketAssumption DEF Stale, Worth, BucketTyped, BucketAssumption
    <2> QED BY <1>1, <1>3, <2>2, RefilledWorth DEF Covered
  <1>4. CASE Client \notin DOMAIN bucket
    <2>1. Client \notin Swept
      BY <1>4 DEF Swept
    <2>2. window.spent <= clock - window.from
      BY <1>1, <1>4 DEF Covered
    <2>3. Refilled(Client).tokens = Capacity
      BY <1>1, <2>1, RefilledWorth
    <2> QED
      BY <1>1, <2>2, <2>3, BucketAssumption DEF BucketAssumption, BucketTyped
  <1> QED BY <1>2, <1>3, <1>4

LEMMA TakeByClient == BucketInv /\ Take(Client) => BucketInv'
  <1> SUFFICES ASSUME BucketInv, Take(Client) PROVE BucketInv'
    OBVIOUS
  <1> DEFINE b == Refilled(Client)
             granted == b.tokens >= Cost
             after == IF granted THEN [b EXCEPT !.tokens = @ - Cost] ELSE b
  <1>1. BucketTyped /\ RateHolds
    BY DEF BucketInv
  <1>2. Cost \in Int /\ Cost > 0 /\ Capacity \in Int /\ Capacity >= Cost /\ Client \in Keys
        /\ Second \in Nat \ {0}
    BY BucketAssumption DEF BucketAssumption
  <1>3. b \in [tokens : Int, last : Int] /\ b.last = clock
    BY <1>1, <1>2, RefilledWorth
  <1>4. b.tokens <= Capacity
    BY <1>1, <1>2, RefilledWorth DEF Worth, BucketTyped
  <1>5. window.spent + b.tokens <= Capacity + (clock - window.from)
    BY RefilledCovered
  <1> HIDE DEF b
  <1>6. after \in [tokens : Int, last : Int] /\ after.last = clock
        /\ after.tokens = IF granted THEN b.tokens - Cost ELSE b.tokens
    BY <1>2, <1>3
  <1>7. /\ clock' = clock /\ lastSweep' \in Int
        /\ bucket' = [j \in StillTracked(Client) \cup {Client} |->
                        IF j = Client THEN after ELSE bucket[j]]
        /\ window' = IF Client \in Evicted(Client) THEN FreshWindow(clock)
                     ELSE IF granted THEN [window EXCEPT !.spent = @ + Cost] ELSE window
        /\ due' = IF granted THEN Undue ELSE clock + Second * RetryAfter(b.tokens)
    BY <1>1 DEF Take, b, BucketTyped
  <1> HIDE DEF after
  <1>8. StillTracked(Client) \subseteq DOMAIN bucket
    BY DEF StillTracked, Swept
  <1>9. Client \in DOMAIN bucket' /\ bucket'[Client] = after
    BY <1>7
  <1>10. /\ window' \in [from : Int, spent : Int] /\ window'.from <= clock
         /\ window'.spent <= Capacity + (clock - window'.from)
         /\ window'.spent + after.tokens <= Capacity + (clock - window'.from)
    <2>1. CASE Client \in Evicted(Client)
      <3>1. window'.from = clock /\ window'.spent = 0 /\ window' \in [from : Int, spent : Int]
        BY <2>1, <1>1, <1>7 DEF FreshWindow, BucketTyped
      <3> QED BY <3>1, <1>1, <1>2, <1>3, <1>4, <1>6 DEF BucketTyped
    <2>2. CASE Client \notin Evicted(Client) /\ granted
      <3>1. window' = [window EXCEPT !.spent = @ + Cost]
        BY <2>2, <1>7
      <3>2. /\ window'.from = window.from /\ window'.spent = window.spent + Cost
            /\ window' \in [from : Int, spent : Int]
        BY <3>1, <1>1, <1>2 DEF BucketTyped
      <3> QED BY <3>2, <2>2, <1>1, <1>2, <1>3, <1>5, <1>6 DEF BucketTyped
    <2>3. CASE Client \notin Evicted(Client) /\ ~granted
      <3>1. window' = window
        BY <2>3, <1>7
      <3> QED BY <3>1, <2>3, <1>1, <1>2, <1>3, <1>5, <1>6 DEF BucketTyped, RateHolds
    <2> QED BY <2>1, <2>2, <2>3
  <1>11. /\ due' \in Int
         /\ due' # Undue => after.tokens + (due' - clock) >= Cost
    <2>1. CASE granted
      BY <2>1, <1>7 DEF Undue
    <2>2. CASE ~granted
      <3> DEFINE missing == Cost - b.tokens
      <3>1. missing \in Int /\ b.tokens - Cost = -missing
        BY <1>2, <1>3
      <3>2. RetryAfter(b.tokens) = -((-missing) \div Second)
        BY <3>1 DEF RetryAfter
      <3> HIDE DEF missing
      <3>3. RetryAfter(b.tokens) \in Int /\ Second * RetryAfter(b.tokens) >= missing
        BY <3>1, <3>2, <1>2, RoundedUp
      <3>4. Second * RetryAfter(b.tokens) \in Int
        BY <3>3, <1>2
      <3>5. due' = clock + Second * RetryAfter(b.tokens) /\ after.tokens = b.tokens
        BY <2>2, <1>6, <1>7
      <3> QED BY <3>1, <3>3, <3>4, <3>5, <1>1, <1>2, <1>3 DEF missing, BucketTyped
    <2> QED BY <2>1, <2>2
  <1>12. BucketTyped'
    BY <1>1, <1>6, <1>7, <1>8, <1>10, <1>11 DEF BucketTyped
  <1>13. Covered'
    <2>1. Worth' = IF after.tokens < Capacity THEN after.tokens ELSE Capacity
      BY <1>1, <1>6, <1>7, <1>9 DEF Worth, BucketTyped
    <2>2. Worth' <= after.tokens /\ Worth' \in Int
      BY <2>1, <1>2, <1>6
    <2> QED BY <2>2, <1>1, <1>2, <1>6, <1>7, <1>9, <1>10 DEF Covered, BucketTyped
  <1> QED BY <1>6, <1>7, <1>9, <1>10, <1>11, <1>12, <1>13 DEF BucketInv, RateHolds, EarnedByDue

LEMMA TakeByAnother ==
  ASSUME NEW k \in Keys, k # Client, BucketInv, Take(k)
  PROVE  BucketInv'
  <1>1. BucketTyped /\ Covered /\ RateHolds /\ EarnedByDue
    BY DEF BucketInv
  <1>2. Cost \in Int /\ Cost > 0 /\ Capacity \in Int /\ Capacity >= Cost /\ Client \in Keys
    BY BucketAssumption DEF BucketAssumption
  <1>3. Refilled(k) \in [tokens : Int, last : Int]
    BY <1>1, RefilledWorth
  <1> DEFINE b == Refilled(k)
             after == IF b.tokens >= Cost THEN [b EXCEPT !.tokens = @ - Cost] ELSE b
  <1>4. after \in [tokens : Int, last : Int]
    BY <1>2, <1>3
  <1>5. /\ clock' = clock /\ lastSweep' \in Int /\ due' = due
        /\ bucket' = [j \in StillTracked(k) \cup {k} |-> IF j = k THEN after ELSE bucket[j]]
        /\ window' = IF Client \in Evicted(k) THEN FreshWindow(clock) ELSE window
    BY <1>1 DEF Take, BucketTyped
  <1> HIDE DEF after
  <1>6. StillTracked(k) \subseteq DOMAIN bucket /\ StillTracked(k) = Swept \ Evicted(k)
    BY DEF StillTracked, Swept
  <1>7. CASE Client \in Evicted(k)
    <2>1. Client \notin DOMAIN bucket'
      BY <1>5, <1>6, <1>7
    <2>2. window'.from = clock /\ window'.spent = 0 /\ window' \in [from : Int, spent : Int]
      BY <1>1, <1>5, <1>7 DEF FreshWindow, BucketTyped
    <2>3. BucketTyped'
      BY <1>1, <1>4, <1>5, <1>6, <2>2 DEF BucketTyped
    <2>4. Covered'
      BY <1>1, <1>5, <2>1, <2>2 DEF Covered, BucketTyped
    <2>5. RateHolds'
      BY <1>1, <1>2, <1>5, <2>2 DEF RateHolds, BucketTyped
    <2>6. EarnedByDue'
      BY <2>1 DEF EarnedByDue
    <2> QED BY <2>3, <2>4, <2>5, <2>6 DEF BucketInv
  <1>8. CASE Client \notin Evicted(k) /\ Client \in Swept
    <2>1. Client \in DOMAIN bucket /\ Client \in DOMAIN bucket' /\ bucket'[Client] = bucket[Client]
      BY <1>5, <1>6, <1>8
    <2>2. window' = window
      BY <1>5, <1>8
    <2>3. BucketTyped'
      BY <1>1, <1>4, <1>5, <1>6, <2>2 DEF BucketTyped
    <2>4. Worth' = Worth
      BY <1>5, <2>1 DEF Worth
    <2> QED BY <1>1, <1>5, <2>1, <2>2, <2>3, <2>4 DEF BucketInv, Covered, RateHolds, EarnedByDue
  <1>9. CASE Client \notin Evicted(k) /\ Client \notin Swept
    <2>1. Client \notin DOMAIN bucket'
      BY <1>5, <1>6, <1>9
    <2>2. window' = window
      BY <1>5, <1>9
    <2>3. BucketTyped'
      BY <1>1, <1>4, <1>5, <1>6, <2>2 DEF BucketTyped
    <2>4. window.spent <= clock - window.from
      <3>1. Refilled(Client).tokens = Capacity
        BY <1>1, <1>9, RefilledWorth
      <3> QED BY <3>1, <1>1, <1>2, RefilledCovered DEF BucketTyped
    <2> QED BY <1>1, <1>5, <2>1, <2>2, <2>3, <2>4 DEF BucketInv, Covered, RateHolds, EarnedByDue
  <1> QED BY <1>7, <1>8, <1>9

LEMMA BucketNextInv == BucketInv /\ [BucketNext]_bucketVars => BucketInv'
  <1> SUFFICES ASSUME BucketInv, [BucketNext]_bucketVars PROVE BucketInv'
    OBVIOUS
  <1>1. ASSUME NEW k \in Keys, Take(k) PROVE BucketInv'
    BY <1>1, TakeByClient, TakeByAnother
  <1>2. CASE UNCHANGED bucketVars
    BY <1>2 DEF bucketVars, BucketInv, BucketTyped, Covered, RateHolds, EarnedByDue, Worth
  <1> QED BY <1>1, <1>2, TickInv, StepBackInv, OpenWindowInv DEF BucketNext

THEOREM BucketAlwaysInv == BucketSpec => []BucketInv
  BY BucketInitInv, BucketNextInv, PTL DEF BucketSpec

\* "ratePerSec sustained, burst peak": in no stretch of time is a client granted
\* more than the burst and what the rate earns in it, for any rate, burst, cap,
\* sweep and idle period.
THEOREM RateAlwaysHolds == BucketSpec => []RateHolds
  <1>1. BucketInv => RateHolds
    BY DEF BucketInv
  <1> QED BY <1>1, BucketAlwaysInv, PTL

\* A client that waits as long as Retry-After told it to always finds a token.
THEOREM RetryAfterAlwaysSuffices == BucketSpec => []RetryAfterSuffices
  <1>1. BucketInv => RetryAfterSuffices
    <2> SUFFICES ASSUME BucketInv, due # Undue, clock >= due
                 PROVE  Refilled(Client).tokens >= Cost
      BY DEF RetryAfterSuffices
    <2>1. BucketTyped /\ EarnedByDue
      BY DEF BucketInv
    <2>2. Cost \in Int /\ Capacity \in Int /\ Capacity >= Cost
      BY BucketAssumption DEF BucketAssumption
    <2>3. CASE Client \in Swept
      <3>1. Client \in DOMAIN bucket
        BY <2>3 DEF Swept
      <3>2. Worth >= Cost
        BY <2>1, <2>2, <3>1 DEF BucketTyped, EarnedByDue, Worth
      <3> QED BY <2>1, <2>3, <3>2, RefilledWorth
    <2>4. CASE Client \notin Swept
      BY <2>1, <2>2, <2>4, RefilledWorth
    <2> QED BY <2>3, <2>4
  <1> QED BY <1>1, BucketAlwaysInv, PTL
=============================================================================
