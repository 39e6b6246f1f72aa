---------------------------- MODULE LruListProof ----------------------------
(***************************************************************************)
(* Proofs about LruList for every set of uids and every capacity: the      *)
(* fields keep their types, the map never outgrows the capacity, and the   *)
(* list stays one chain over the keys of the map.  Two lemmas say what     *)
(* pushFront and unlink do to a chain; every method is made of those two.  *)
(***************************************************************************)
EXTENDS LruList, FiniteSetTheorems, TLAPS

(* s with t in front, and s without its k-th element. *)
Pushed(n, s, t) == [i \in 1..(n + 1) |-> IF i = 1 THEN t ELSE s[i - 1]]
Without(n, s, k) == [i \in 1..(n - 1) |-> IF i < k THEN s[i] ELSE s[i + 1]]

LEMMA PushFrontChain ==
  ASSUME NEW l \in Lists, NEW n \in Nat, NEW s \in [1..n -> Uids], Chain(l, n, s),
         NEW t \in Uids, \A i \in 1..n : s[i] # t
  PROVE  /\ PushFront(l, t) \in Lists
         /\ Pushed(n, s, t) \in [1..(n + 1) -> Uids]
         /\ Chain(PushFront(l, t), n + 1, Pushed(n, s, t))
<1> DEFINE m == PushFront(l, t)
           q == Pushed(n, s, t)
<1>1. /\ l.head \in Ptr /\ l.tail \in Ptr
      /\ l.prev \in [Uids -> Ptr] /\ l.next \in [Uids -> Ptr]
      /\ Nil \notin Uids /\ \A i \in 1..n : s[i] \in Uids
  BY SentinelAssumption DEF Lists
<1>2. /\ m.head = t
      /\ m.tail = IF l.tail = Nil THEN t ELSE l.tail
      /\ \A u \in Uids : m.prev[u] = IF u = l.head THEN t
                                     ELSE IF u = t THEN Nil ELSE l.prev[u]
      /\ \A u \in Uids : m.next[u] = IF u = t THEN l.head ELSE l.next[u]
  BY DEF PushFront
<1>3. m \in Lists
  BY <1>1 DEF PushFront, Lists, Ptr
<1>4. /\ q \in [1..(n + 1) -> Uids]
      /\ q[1] = t
      /\ \A i \in 2..(n + 1) : i - 1 \in 1..n /\ q[i] = s[i - 1]
  BY <1>1 DEF Pushed
<1>5. \A i, j \in 1..(n + 1) : q[i] = q[j] => i = j
  <2> SUFFICES ASSUME NEW i \in 1..(n + 1), NEW j \in 1..(n + 1), q[i] = q[j]
               PROVE  i = j
    OBVIOUS
  <2>1. CASE i = 1 \/ j = 1
    BY <1>4, <2>1
  <2>2. CASE i # 1 /\ j # 1
    <3>1. s[i - 1] = s[j - 1] /\ i - 1 \in 1..n /\ j - 1 \in 1..n
      BY <1>4, <2>2
    <3> QED
      BY <3>1 DEF Chain
  <2> QED
    BY <2>1, <2>2
<1>6. m.head = q[1] /\ m.tail = q[n + 1]
  <2>1. CASE n = 0
    BY <1>2, <1>4, <2>1 DEF Chain
  <2>2. CASE n # 0
    <3>1. l.tail = s[n] /\ s[n] # Nil /\ q[n + 1] = s[n]
      BY <1>1, <1>4, <2>2 DEF Chain
    <3> QED
      BY <1>2, <1>4, <3>1
  <2> QED
    BY <2>1, <2>2
<1>7. ASSUME NEW i \in 1..(n + 1)
      PROVE  m.next[q[i]] = IF i = n + 1 THEN Nil ELSE q[i + 1]
  <2>1. CASE i = 1
    <3>1. m.next[t] = l.head
      BY <1>2
    <3>2. CASE n = 0
      BY <1>4, <2>1, <3>1, <3>2 DEF Chain
    <3>3. CASE n # 0
      BY <1>4, <2>1, <3>1, <3>3 DEF Chain
    <3> QED
      BY <3>2, <3>3
  <2>2. CASE i # 1
    <3>1. q[i] = s[i - 1] /\ i - 1 \in 1..n
      BY <1>4, <2>2
    <3>2. m.next[q[i]] = l.next[s[i - 1]]
      BY <1>1, <1>2, <3>1
    <3>3. l.next[s[i - 1]] = IF i - 1 = n THEN Nil ELSE s[i - 1 + 1]
      BY <3>1 DEF Chain
    <3>4. i # n + 1 => q[i + 1] = s[i]
      BY <1>4
    <3> QED
      BY <3>1, <3>2, <3>3, <3>4
  <2> QED
    BY <2>1, <2>2
<1>8. ASSUME NEW i \in 1..(n + 1)
      PROVE  m.prev[q[i]] = IF i = 1 THEN Nil ELSE q[i - 1]
  <2>1. CASE i = 1
    <3>1. l.head # t
      BY <1>1 DEF Chain
    <3> QED
      BY <1>2, <1>4, <2>1, <3>1
  <2>2. CASE i = 2
    <3>1. n # 0 /\ q[2] = s[1] /\ s[1] = l.head /\ 1 \in 1..n
      BY <1>4, <2>2 DEF Chain
    <3> QED
      BY <1>1, <1>2, <1>4, <2>2, <3>1
  <2>3. CASE i > 2
    <3>1. /\ q[i] = s[i - 1] /\ q[i - 1] = s[i - 2]
          /\ i - 1 \in 1..n /\ i - 1 # 1 /\ 1 \in 1..n
      BY <1>4, <2>3
    <3>2. s[i - 1] # l.head
      BY <3>1 DEF Chain
    <3>3. m.prev[q[i]] = l.prev[s[i - 1]]
      BY <1>1, <1>2, <3>1, <3>2
    <3>4. l.prev[s[i - 1]] = s[i - 1 - 1]
      BY <3>1 DEF Chain
    <3> QED
      BY <2>3, <3>1, <3>3, <3>4
  <2> QED
    BY <2>1, <2>2, <2>3
<1>9. ASSUME NEW u \in Uids, \A i \in 1..(n + 1) : q[i] # u
      PROVE  m.next[u] = Nil /\ m.prev[u] = Nil
  <2>1. u # t
    BY <1>4, <1>9
  <2>2. ASSUME NEW i \in 1..n PROVE s[i] # u
    <3>1. i + 1 \in 2..(n + 1) /\ i + 1 - 1 = i
      OBVIOUS
    <3> QED
      BY <1>4, <1>9, <3>1
  <2>3. u # l.head
    BY <1>1, <2>2 DEF Chain
  <2> QED
    BY <1>2, <2>1, <2>2, <2>3 DEF Chain
<1> QED
  BY <1>3, <1>4, <1>5, <1>6, <1>7, <1>8, <1>9 DEF Chain

LEMMA UnlinkChain ==
  ASSUME NEW l \in Lists, NEW n \in Nat, NEW s \in [1..n -> Uids], Chain(l, n, s),
         NEW k \in 1..n
  PROVE  /\ Unlink(l, s[k]) \in Lists
         /\ Without(n, s, k) \in [1..(n - 1) -> Uids]
         /\ Chain(Unlink(l, s[k]), n - 1, Without(n, s, k))
<1> DEFINE t == s[k]
           before == l.prev[t]
           after  == l.next[t]
           m == Unlink(l, t)
           q == Without(n, s, k)
<1>1. /\ l.head \in Ptr /\ l.tail \in Ptr
      /\ l.prev \in [Uids -> Ptr] /\ l.next \in [Uids -> Ptr]
      /\ Nil \notin Uids /\ \A i \in 1..n : s[i] \in Uids
      /\ t \in Uids
  BY SentinelAssumption DEF Lists
<1>2. /\ before = IF k = 1 THEN Nil ELSE s[k - 1]
      /\ after = IF k = n THEN Nil ELSE s[k + 1]
      /\ \A i, j \in 1..n : s[i] = s[j] => i = j
      /\ l.head = s[1] /\ l.tail = s[n]
  BY DEF Chain
<1>3. /\ m.head = IF before = Nil THEN after ELSE l.head
      /\ m.tail = IF after = Nil THEN before ELSE l.tail
      /\ \A u \in Uids : m.prev[u] = IF u = t THEN Nil
                                     ELSE IF u = after THEN before ELSE l.prev[u]
      /\ \A u \in Uids : m.next[u] = IF u = t THEN Nil
                                     ELSE IF u = before THEN after ELSE l.next[u]
  BY DEF Unlink
<1>4. m \in Lists
  BY <1>1 DEF Unlink, Lists, Ptr
<1>5. /\ q \in [1..(n - 1) -> Uids]
      /\ \A i \in 1..(n - 1) : q[i] = IF i < k THEN s[i] ELSE s[i + 1]
  BY <1>1 DEF Without
<1>6. \A i, j \in 1..(n - 1) : q[i] = q[j] => i = j
  <2> SUFFICES ASSUME NEW i \in 1..(n - 1), NEW j \in 1..(n - 1), q[i] = q[j]
               PROVE  i = j
    OBVIOUS
  <2>1. CASE i < k /\ j < k
    BY <1>2, <1>5, <2>1
  <2>2. CASE i < k /\ ~(j < k)
    BY <1>2, <1>5, <2>2
  <2>3. CASE ~(i < k) /\ j < k
    BY <1>2, <1>5, <2>3
  <2>4. CASE ~(i < k) /\ ~(j < k)
    BY <1>2, <1>5, <2>4
  <2> QED
    BY <2>1, <2>2, <2>3, <2>4
<1>7. m.head = IF n - 1 = 0 THEN Nil ELSE q[1]
  <2>1. CASE k = 1
    BY <1>1, <1>2, <1>3, <1>5, <2>1
  <2>2. CASE k # 1
    BY <1>1, <1>2, <1>3, <1>5, <2>2
  <2> QED
    BY <2>1, <2>2
<1>8. m.tail = IF n - 1 = 0 THEN Nil ELSE q[n - 1]
  <2>1. CASE k = n
    BY <1>1, <1>2, <1>3, <1>5, <2>1
  <2>2. CASE k # n
    BY <1>1, <1>2, <1>3, <1>5, <2>2
  <2> QED
    BY <2>1, <2>2
<1>9. ASSUME NEW i \in 1..(n - 1)
      PROVE  m.next[q[i]] = IF i = n - 1 THEN Nil ELSE q[i + 1]
  <2>1. CASE i < k - 1
    <3>1. q[i] = s[i] /\ q[i + 1] = s[i + 1] /\ i \in 1..n /\ i # k /\ i # k - 1
      BY <1>5, <2>1
    <3>2. s[i] # t /\ s[i] # before
      BY <1>1, <1>2, <3>1
    <3>3. m.next[s[i]] = l.next[s[i]]
      BY <1>1, <1>3, <3>1, <3>2
    <3> QED
      BY <2>1, <3>1, <3>3 DEF Chain
  <2>2. CASE i = k - 1
    <3>1. q[i] = before /\ before # t /\ before \in Uids
      BY <1>1, <1>2, <1>5, <2>2
    <3>2. m.next[q[i]] = after
      BY <1>3, <3>1
    <3>3. i = n - 1 <=> k = n
      BY <2>2
    <3>4. k # n => q[i + 1] = s[k + 1]
      BY <1>5, <2>2
    <3> QED
      BY <1>2, <3>2, <3>3, <3>4
  <2>3. CASE i > k - 1
    <3>1. q[i] = s[i + 1] /\ i + 1 \in 1..n /\ i + 1 # k /\ i + 1 # k - 1
      BY <1>5, <2>3
    <3>2. s[i + 1] # t /\ s[i + 1] # before
      BY <1>1, <1>2, <3>1
    <3>3. m.next[s[i + 1]] = l.next[s[i + 1]]
      BY <1>1, <1>3, <3>1, <3>2
    <3>4. l.next[s[i + 1]] = IF i + 1 = n THEN Nil ELSE s[i + 2]
      BY <3>1 DEF Chain
    <3>5. i # n - 1 => q[i + 1] = s[i + 2]
      BY <1>5, <2>3
    <3> QED
      BY <3>1, <3>3, <3>4, <3>5
  <2> QED
    BY <2>1, <2>2, <2>3
<1>10. ASSUME NEW i \in 1..(n - 1)
       PROVE  m.prev[q[i]] = IF i = 1 THEN Nil ELSE q[i - 1]
  <2>1. CASE i < k
    <3>1. q[i] = s[i] /\ i \in 1..n /\ i # k /\ i # k + 1
      BY <1>5, <2>1
    <3>2. s[i] # t /\ s[i] # after
      BY <1>1, <1>2, <3>1
    <3>3. m.prev[s[i]] = l.prev[s[i]]
      BY <1>1, <1>3, <3>1, <3>2
    <3>4. l.prev[s[i]] = IF i = 1 THEN Nil ELSE s[i - 1]
      BY <3>1 DEF Chain
    <3>5. i # 1 => q[i - 1] = s[i - 1]
      BY <1>5, <2>1
    <3> QED
      BY <3>1, <3>3, <3>4, <3>5
  <2>2. CASE i = k
    <3>1. q[i] = after /\ after # t /\ after \in Uids
      BY <1>1, <1>2, <1>5, <2>2
    <3>2. m.prev[q[i]] = before
      BY <1>3, <3>1
    <3>3. i # 1 => q[i - 1] = s[k - 1]
      BY <1>5, <2>2
    <3> QED
      BY <1>2, <2>2, <3>2, <3>3
  <2>3. CASE i > k
    <3>1. q[i] = s[i + 1] /\ i + 1 \in 1..n /\ i + 1 # k /\ i + 1 # k + 1 /\ q[i - 1] = s[i]
      BY <1>5, <2>3
    <3>2. s[i + 1] # t /\ s[i + 1] # after
      BY <1>1, <1>2, <3>1
    <3>3. m.prev[s[i + 1]] = l.prev[s[i + 1]]
      BY <1>1, <1>3, <3>1, <3>2
    <3>4. l.prev[s[i + 1]] = s[i]
      <4>1. i + 1 # 1 /\ i + 1 - 1 = i
        OBVIOUS
      <4> QED
        BY <3>1, <4>1 DEF Chain
    <3> QED
      BY <2>3, <3>1, <3>3, <3>4
  <2> QED
    BY <2>1, <2>2, <2>3
<1>11. ASSUME NEW u \in Uids, \A i \in 1..(n - 1) : q[i] # u
       PROVE  m.next[u] = Nil /\ m.prev[u] = Nil
  <2>1. CASE u = t
    BY <1>3, <2>1
  <2>2. CASE u # t
    <3>1. ASSUME NEW i \in 1..n PROVE s[i] # u
      <4>1. CASE i < k
        BY <1>5, <1>11, <4>1
      <4>2. CASE i = k
        BY <2>2, <4>2
      <4>3. CASE i > k
        <5>1. i - 1 \in 1..(n - 1) /\ ~(i - 1 < k) /\ i - 1 + 1 = i
          BY <4>3
        <5> QED
          BY <1>5, <1>11, <5>1
      <4> QED
        BY <4>1, <4>2, <4>3
    <3>2. u # before /\ u # after
      BY <1>1, <1>2, <1>11, <3>1
    <3> QED
      BY <1>3, <2>2, <3>1, <3>2 DEF Chain
  <2> QED
    BY <2>1, <2>2
<1> QED
  BY <1>4, <1>5, <1>6, <1>7, <1>8, <1>9, <1>10, <1>11 DEF Chain

-----------------------------------------------------------------------------
(* A chain over the keys of the map is as long as the map. *)

Represents(l, n, s) == s \in [1..n -> Uids] /\ Chain(l, n, s) /\ Spells(n, s)

LEMMA ChainLength ==
  ASSUME NEW l, NEW n \in Nat, NEW s, Represents(l, n, s)
  PROVE  IsFiniteSet(Cached) /\ Cardinality(Cached) = n
<1>1. s \in [1..n -> Cached]
  BY DEF Represents, Spells
<1>2. s \in Bijection(1..n, Cached)
  BY <1>1 DEF Represents, Spells, Chain, Cached, Bijection, Injection, Surjection,
    IsInjective
<1>3. ExistsBijection(1..n, Cached)
  BY <1>2 DEF ExistsBijection
<1> QED
  BY <1>3, FS_CountingElements, FS_NatBijection

-----------------------------------------------------------------------------
(* The inductive invariant: the types, and a chain over the keys of the map. *)

FieldsOK ==
  /\ order \in [Uids -> Versions \cup {Absent}]
  /\ list \in Lists
  /\ hits \in Nat /\ misses \in Nat

ListInv == FieldsOK /\ ListSound

LEMMA ListSoundPick ==
  ASSUME ListInv
  PROVE  \E n \in Nat : \E s : Represents(list, n, s) /\ n <= Capacity
BY CapacityAssumption DEF ListInv, ListSound, Represents

LEMMA ListInvBound == ListInv => TypeOK
<1> SUFFICES ASSUME ListInv PROVE TypeOK
  OBVIOUS
<1>0. PICK n \in Nat : \E s : Represents(list, n, s) /\ n <= Capacity
  BY ListSoundPick
<1>1. PICK s : Represents(list, n, s) /\ n <= Capacity
  BY <1>0
<1>2. Cardinality(Cached) <= Capacity
  BY <1>1, ChainLength
<1> QED
  BY <1>2 DEF ListInv, FieldsOK, TypeOK

(* A use of a cached node: the same chain with the node in front. *)
LEMMA MoveToFrontChain ==
  ASSUME NEW l \in Lists, NEW n \in Nat, NEW s, Represents(l, n, s),
         NEW u \in Cached
  PROVE  /\ MoveToFront(l, u) \in Lists
         /\ \E q : Represents(MoveToFront(l, u), n, q)
<1>1. CASE l.head = u
  BY <1>1 DEF MoveToFront
<1>2. CASE l.head # u
  <2>1. PICK k \in 1..n : s[k] = u
    BY DEF Represents, Spells, Cached
  <2> DEFINE m == Unlink(l, u)
             w == Without(n, s, k)
  <2>2. m \in Lists /\ w \in [1..(n - 1) -> Uids] /\ Chain(m, n - 1, w) /\ n - 1 \in Nat
    BY <2>1, UnlinkChain DEF Represents
  <2>3. \A i \in 1..(n - 1) : w[i] # u
    BY <2>1 DEF Represents, Chain, Without
  <2>4. u \in Uids
    BY DEF Cached
  <2>5. /\ PushFront(m, u) \in Lists
        /\ Pushed(n - 1, w, u) \in [1..(n - 1 + 1) -> Uids]
        /\ Chain(PushFront(m, u), n - 1 + 1, Pushed(n - 1, w, u))
    BY <2>2, <2>3, <2>4, PushFrontChain
  <2>6. Spells(n, Pushed(n - 1, w, u))
    <3> SUFFICES ASSUME NEW x \in Uids
                 PROVE  x \in Cached <=> \E i \in 1..n : Pushed(n - 1, w, u)[i] = x
      BY DEF Spells
    <3>1. ASSUME NEW i \in 1..n, Pushed(n - 1, w, u)[i] = x PROVE x \in Cached
      <4>1. x = u \/ \E j \in 1..n : x = s[j]
        BY <3>1 DEF Pushed, Without
      <4> QED
        BY <4>1 DEF Represents, Spells
    <3>2. ASSUME x \in Cached PROVE \E i \in 1..n : Pushed(n - 1, w, u)[i] = x
      <4>1. PICK j \in 1..n : s[j] = x
        BY <3>2 DEF Represents, Spells
      <4>2. CASE j = k
        <5>1. 1 \in 1..n /\ Pushed(n - 1, w, u)[1] = x
          BY <2>1, <4>1, <4>2 DEF Pushed
        <5> QED
          BY <5>1
      <4>3. CASE j < k
        <5>1. j + 1 \in 1..n /\ Pushed(n - 1, w, u)[j + 1] = x
          BY <4>1, <4>3 DEF Pushed, Without
        <5> QED
          BY <5>1
      <4>4. CASE j > k
        <5>1. Pushed(n - 1, w, u)[j] = x
          BY <4>1, <4>4 DEF Pushed, Without
        <5> QED
          BY <5>1
      <4> QED
        BY <4>2, <4>3, <4>4
    <3> QED
      BY <3>1, <3>2
  <2>7. n - 1 + 1 = n
    OBVIOUS
  <2> QED
    BY <1>2, <2>5, <2>6, <2>7 DEF MoveToFront, Represents
<1> QED
  BY <1>1, <1>2

LEMMA InsertSound ==
  ASSUME ListInv, NEW u \in Uids, NEW v \in Versions, u \notin Cached, Insert(u, v),
         UNCHANGED <<hits, misses>>
  PROVE  ListInv'
<1> DEFINE grown == PushFront(list, u)
           put   == [order EXCEPT ![u] = v]
<1>0. PICK n \in Nat : \E s : Represents(list, n, s) /\ n <= Capacity
  BY ListSoundPick
<1>1. PICK s : Represents(list, n, s) /\ n <= Capacity
  BY <1>0
<1> DEFINE g == Pushed(n, s, u)
<1>2. /\ FieldsOK /\ list \in Lists
      /\ \A i \in 1..n : s[i] # u
  BY <1>1 DEF ListInv, FieldsOK, Represents, Spells
<1>3. grown \in Lists /\ g \in [1..(n + 1) -> Uids] /\ Chain(grown, n + 1, g)
  BY <1>1, <1>2, PushFrontChain DEF Represents
<1>4. grown.tail = g[n + 1] /\ g[n + 1] \in Uids /\ grown.tail # Nil
  BY <1>3, SentinelAssumption DEF Chain
<1>5. /\ g[1] = u /\ \A i \in 1..n : g[i + 1] = s[i]
  BY DEF Pushed
<1>6. \A x \in Uids : x \in Cached \cup {u} <=> \E i \in 1..(n + 1) : g[i] = x
  <2> SUFFICES ASSUME NEW x \in Uids
               PROVE  x \in Cached \cup {u} <=> \E i \in 1..(n + 1) : g[i] = x
    OBVIOUS
  <2>1. ASSUME NEW i \in 1..(n + 1), g[i] = x PROVE x \in Cached \cup {u}
    <3>1. x = u \/ \E j \in 1..n : s[j] = x
      BY <2>1 DEF Pushed
    <3> QED
      BY <1>1, <3>1 DEF Represents, Spells
  <2>2. ASSUME x \in Cached PROVE \E i \in 1..(n + 1) : g[i] = x
    <3>1. PICK j \in 1..n : s[j] = x
      BY <1>1, <2>2 DEF Represents, Spells
    <3>2. j + 1 \in 1..(n + 1) /\ g[j + 1] = x
      BY <1>5, <3>1
    <3> QED
      BY <3>2
  <2>3. 1 \in 1..(n + 1)
    OBVIOUS
  <2> QED
    BY <1>5, <2>1, <2>2, <2>3
<1>7. IsFiniteSet(Cached) /\ Cardinality(Cached \cup {u}) = n + 1
  <2>1. IsFiniteSet(Cached) /\ Cardinality(Cached) = n
    BY <1>1, ChainLength
  <2> QED
    BY <2>1, FS_AddElement
<1>8. CASE Cardinality(Cached \cup {u}) > Capacity
  <2> DEFINE victim == g[n + 1]
             w == Without(n + 1, g, n + 1)
  <2>1. list' = Unlink(grown, victim) /\ order' = [order EXCEPT ![u] = v, ![victim] = Absent]
    BY <1>4, <1>8 DEF Insert
  <2>2. /\ list' \in Lists /\ w \in [1..(n + 1 - 1) -> Uids] /\ Chain(list', n + 1 - 1, w)
    BY <1>3, <2>1, UnlinkChain
  <2>3. FieldsOK'
    BY <1>2, <2>1, <2>2 DEF FieldsOK
  <2>4. victim # u
    <3>1. n # 0
      BY <1>7, <1>8, CapacityAssumption
    <3> QED
      BY <1>3, <1>5, <3>1 DEF Chain
  <2>5. Cached' = (Cached \cup {u}) \ {victim}
    BY <1>2, <2>1, <2>4, SentinelAssumption DEF Cached, FieldsOK
  <2>6. \A i \in 1..n : w[i] = g[i]
    BY DEF Without
  <2>7. ASSUME NEW x \in Uids
        PROVE  x \in Cached' <=> \E i \in 1..n : w[i] = x
    <3>1. \A i \in 1..n : g[i] # victim
      BY <1>3 DEF Chain
    <3>2. x \in Cached' => \E i \in 1..n : w[i] = x
      BY <1>6, <2>5, <2>6
    <3>3. (\E i \in 1..n : w[i] = x) => x \in Cached'
      BY <1>6, <2>5, <2>6, <3>1
    <3> QED
      BY <3>2, <3>3
  <2>8. Spells(n, w)'
    BY <2>7 DEF Spells
  <2>9. Represents(list, n, w)'
    BY <2>2, <2>8 DEF Represents
  <2> QED
    BY <1>1, <2>3, <2>9 DEF ListInv, ListSound, Represents
<1>9. CASE ~(Cardinality(Cached \cup {u}) > Capacity)
  <2>1. list' = grown /\ order' = put
    BY <1>9 DEF Insert
  <2>2. FieldsOK'
    BY <1>2, <1>3, <2>1 DEF FieldsOK
  <2>3. Cached' = Cached \cup {u}
    BY <1>2, <2>1, SentinelAssumption DEF Cached, FieldsOK
  <2>4. n + 1 \in 0..Capacity
    BY <1>7, <1>9, CapacityAssumption
  <2>5. Spells(n + 1, g)'
    BY <1>6, <2>3 DEF Spells
  <2> QED
    BY <1>3, <2>1, <2>2, <2>4, <2>5 DEF ListInv, ListSound
<1> QED
  BY <1>8, <1>9

LEMMA UseSound ==
  ASSUME ListInv, NEW u \in Cached, list' = MoveToFront(list, u),
         Cached' = Cached, FieldsOK'
  PROVE  ListInv'
<1>0. PICK n \in Nat : \E s : Represents(list, n, s) /\ n <= Capacity
  BY ListSoundPick
<1>1. PICK s : Represents(list, n, s) /\ n <= Capacity
  BY <1>0
<1>2. list \in Lists
  BY DEF ListInv, FieldsOK
<1>3. PICK q : Represents(MoveToFront(list, u), n, q)
  BY <1>1, <1>2, MoveToFrontChain
<1>4. q \in [1..n -> Uids] /\ Chain(list', n, q) /\ Spells(n, q)'
  BY <1>3 DEF Represents, Spells
<1>5. n \in 0..Capacity
  BY <1>1, CapacityAssumption
<1> QED
  BY <1>4, <1>5 DEF ListInv, ListSound

LEMMA ListInit == Init => ListInv
<1> SUFFICES ASSUME Init PROVE ListInv
  OBVIOUS
<1>1. FieldsOK
  BY DEF Init, FieldsOK, Lists, Ptr
<1> DEFINE s == [i \in 1..0 |-> Nil]
<1>2. s \in [1..0 -> Uids] /\ Chain(list, 0, s) /\ Spells(0, s) /\ 0 \in 0..Capacity
  BY CapacityAssumption DEF Init, Chain, Spells, Cached
<1> QED
  BY <1>1, <1>2 DEF ListInv, ListSound

LEMMA ListStep == ListInv /\ [Next]_vars => ListInv'
<1> SUFFICES ASSUME ListInv, [Next]_vars PROVE ListInv'
  OBVIOUS
<1>1. FieldsOK
  BY DEF ListInv
<1>2. ASSUME NEW u \in Uids, GetHit(u) PROVE ListInv'
  <2>1. MoveToFront(list, u) \in Lists
    BY <1>1, <1>2, ListSoundPick, MoveToFrontChain DEF GetHit, FieldsOK
  <2>2. FieldsOK' /\ Cached' = Cached
    BY <1>1, <1>2, <2>1 DEF GetHit, FieldsOK, Cached
  <2> QED
    BY <1>2, <2>2, UseSound DEF GetHit
<1>3. ASSUME UNCHANGED <<order, list>>, hits' \in Nat, misses' \in Nat PROVE ListInv'
  BY <1>3 DEF ListInv, FieldsOK, ListSound, Spells, Cached
<1>4. ASSUME NEW u \in Uids, GetMiss(u) PROVE ListInv'
  BY <1>1, <1>3, <1>4 DEF GetMiss, FieldsOK
<1>5. ASSUME NEW u \in Uids, NEW v \in Versions, Set(u, v) PROVE ListInv'
  <2>1. CASE u \in Cached
    <3>1. MoveToFront(list, u) \in Lists
      BY <1>1, <2>1, ListSoundPick, MoveToFrontChain DEF FieldsOK
    <3>2. /\ order' = [order EXCEPT ![u] = v] /\ list' = MoveToFront(list, u)
          /\ UNCHANGED <<hits, misses>>
      BY <1>5, <2>1 DEF Set
    <3>3. FieldsOK' /\ Cached' = Cached
      BY <1>1, <2>1, <3>1, <3>2, SentinelAssumption DEF FieldsOK, Cached
    <3> QED
      BY <2>1, <3>2, <3>3, UseSound
  <2>2. CASE u \notin Cached
    BY <1>5, <2>2, InsertSound DEF Set
  <2> QED
    BY <2>1, <2>2
<1>6. ASSUME NEW u \in Uids, NEW v \in Versions, SetIfAbsent(u, v) PROVE ListInv'
  BY <1>1, <1>3, <1>6, InsertSound DEF SetIfAbsent, FieldsOK
<1>7. CASE UNCHANGED vars
  BY <1>1, <1>3, <1>7 DEF vars, FieldsOK
<1> QED
  BY <1>2, <1>4, <1>5, <1>6, <1>7 DEF Next

THEOREM ListInvariant == Spec => []ListInv
BY ListInit, ListStep, PTL DEF Spec

(* The fields keep their types, and no call leaves more orders in the map   *)
(* than the capacity (lru.go, insert and evict).                            *)
THEOREM TypesCorrect == Spec => []TypeOK
BY ListInvariant, ListInvBound, PTL

(* The hand-made list stays one acyclic chain, the same in both directions, *)
(* over exactly the keys of the map (lru.go, pushFront and unlink).         *)
THEOREM ListCorrect == Spec => []ListSound
<1>1. ListInv => ListSound
  BY DEF ListInv
<1> QED
  BY <1>1, ListInvariant, PTL
=============================================================================
