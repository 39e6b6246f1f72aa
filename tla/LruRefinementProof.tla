------------------------- MODULE LruRefinementProof -------------------------
(***************************************************************************)
(* Proof that the linked list implements LruCache, for every set of uids   *)
(* and every capacity.  The recency of the abstract cache is read off the  *)
(* list along its next pointers; that this is the chain of LruListProof    *)
(* goes by the first place where the two could differ.  Each method then   *)
(* does to the chain what LruCache does to recency.  The last section       *)
(* proves that what is cached is a prefix of the history of uses.          *)
(***************************************************************************)
EXTENDS LruListProof, LruRecency, Integers, WellFoundedInduction

(* A nonempty set of naturals has a least element. *)
LEMMA LeastNumber ==
  ASSUME NEW T \in SUBSET Nat, T # {}
  PROVE  \E x \in T : \A y \in T : x <= y
<1> DEFINE R == {ss \in Nat \X Nat : ss[1] < ss[2]}
<1>1. IsWellFoundedOn(R, Nat)
  BY NatLessThanWellFounded DEF OpToRel
<1>2. PICK x \in T : \A y \in T : ~(<<y, x>> \in R)
  <2> HIDE DEF R
  <2> QED
    BY <1>1, WFMin
<1>3. ASSUME NEW y \in T PROVE x <= y
  <2>1. x \in Nat /\ y \in Nat /\ <<y, x>>[1] = y /\ <<y, x>>[2] = x
    OBVIOUS
  <2>2. ~(y < x)
    BY <1>2, <2>1
  <2> QED
    BY <2>1, <2>2
<1> QED
  BY <1>3

(* Following the next pointers from the head gives the chain. *)
LEMMA WalkedAlong ==
  ASSUME NEW l, NEW n \in Nat, NEW s \in [1..n -> Uids], Chain(l, n, s)
  PROVE  Walked(l, n) = s
<1> DEFINE w == Walked(l, n)
<1>1. s = [i \in 1..n |-> IF i = 1 THEN l.head ELSE l.next[s[i - 1]]]
  <2>1. \A i \in 1..n : s[i] = IF i = 1 THEN l.head ELSE l.next[s[i - 1]]
    BY DEF Chain
  <2> QED
    BY <2>1
<1>2. w = [i \in 1..n |-> IF i = 1 THEN l.head ELSE l.next[w[i - 1]]]
  BY <1>1 DEF Walked
<1> HIDE DEF w
<1> DEFINE T == {i \in 1..n : w[i] # s[i]}
<1>3. T = {}
  <2>1. SUFFICES ASSUME T # {} PROVE FALSE
    OBVIOUS
  <2>2. PICK x \in T : \A y \in T : x <= y
    <3>1. T \in SUBSET Nat
      OBVIOUS
    <3> HIDE DEF T
    <3> QED
      BY <2>1, <3>1, LeastNumber
  <2>3. CASE x = 1
    BY <1>1, <1>2, <2>3
  <2>4. CASE x # 1
    <3>1. x - 1 \in 1..n /\ x - 1 \notin T
      BY <2>2, <2>4
    <3>2. w[x - 1] = s[x - 1]
      BY <3>1
    <3>3. w[x] = l.next[w[x - 1]] /\ s[x] = l.next[s[x - 1]]
      BY <1>1, <1>2, <2>4
    <3> QED
      BY <3>2, <3>3
  <2> QED
    BY <2>3, <2>4
<1>4. \A i \in 1..n : w[i] = s[i]
  BY <1>3
<1> QED
  BY <1>2, <1>4 DEF w

(* What is read off the list, in one state of it. *)
LEMMA WalkRepresents ==
  ASSUME ListInv
  PROVE  \E n \in Nat : \E s : /\ Represents(list, n, s) /\ n <= Capacity
                               /\ Walk = s /\ Len(s) = n
                               /\ IsFiniteSet(Cached) /\ Cardinality(Cached) = n
<1>0. PICK n \in Nat : \E s : Represents(list, n, s) /\ n <= Capacity
  BY ListSoundPick
<1>1. PICK s : Represents(list, n, s) /\ n <= Capacity
  BY <1>0
<1>2. IsFiniteSet(Cached) /\ Cardinality(Cached) = n
  BY <1>1, ChainLength
<1>3. Walk = s
  BY <1>1, <1>2, WalkedAlong DEF Walk, Represents
<1>4. Len(s) = n
  BY <1>1 DEF Represents
<1> QED
  BY <1>1, <1>2, <1>3, <1>4

(* s with its k-th element in front. *)
Fronted(n, s, k) ==
  [i \in 1..n |-> IF i = 1 THEN s[k] ELSE IF i <= k THEN s[i - 1] ELSE s[i]]

(* moveToFront as a chain: the k-th element comes to the front. *)
LEMMA MoveToFrontShape ==
  ASSUME NEW l \in Lists, NEW n \in Nat, NEW s, Represents(l, n, s), NEW k \in 1..n
  PROVE  /\ Fronted(n, s, k) \in [1..n -> Uids]
         /\ Chain(MoveToFront(l, s[k]), n, Fronted(n, s, k))
<1> DEFINE u == s[k]
           f == Fronted(n, s, k)
<1>1. s \in [1..n -> Uids] /\ Chain(l, n, s) /\ u \in Uids
  BY DEF Represents
<1>2. f \in [1..n -> Uids]
  BY <1>1 DEF Fronted
<1>3. CASE l.head = u
  <2>1. k = 1
    BY <1>1, <1>3 DEF Chain
  <2>2. f = s
    BY <1>1, <2>1 DEF Fronted
  <2> QED
    BY <1>1, <1>2, <1>3, <2>2 DEF MoveToFront
<1>4. CASE l.head # u
  <2> DEFINE m == Unlink(l, u)
             w == Without(n, s, k)
  <2>1. m \in Lists /\ w \in [1..(n - 1) -> Uids] /\ Chain(m, n - 1, w) /\ n - 1 \in Nat
    BY <1>1, UnlinkChain
  <2>2. \A i \in 1..(n - 1) : w[i] # u
    BY <1>1 DEF Chain, Without
  <2>3. Chain(PushFront(m, u), n - 1 + 1, Pushed(n - 1, w, u))
    BY <1>1, <2>1, <2>2, PushFrontChain
  <2>4. n - 1 + 1 = n
    OBVIOUS
  <2>5. Pushed(n - 1, w, u) = f
    <3>1. \A i \in 1..n : i # 1 => w[i - 1] = IF i <= k THEN s[i - 1] ELSE s[i]
      BY DEF Without
    <3> QED
      BY <2>4, <3>1 DEF Pushed, Fronted
  <2> QED
    BY <1>2, <1>4, <2>3, <2>4, <2>5 DEF MoveToFront
<1> QED
  BY <1>3, <1>4

-----------------------------------------------------------------------------
(* The instance counts what is cached as the list does. *)
LEMMA SameCount ==
  /\ Lru!Cached = Cached
  /\ \A S : Lru!Cardinality(S) = Cardinality(S)
<1>1. Lru!Cached = Cached
  BY DEF Lru!Cached, Cached
<1>2. \A S : Lru!Cardinality(S) = Cardinality(S)
  BY DEF Lru!Cardinality, Cardinality
<1> QED
  BY <1>1, <1>2

(* Taking one element out of a set counted n + 1 leaves n. *)
LEMMA OneFewer ==
  ASSUME NEW S, NEW x \in S, NEW n \in Nat, IsFiniteSet(S), Cardinality(S) = n + 1
  PROVE  Cardinality(S \ {x}) = n
<1>1. Cardinality(S \ {x}) = Cardinality(S) - 1
  BY FS_RemoveElement, Zenon
<1>2. n + 1 - 1 = n
  OBVIOUS
<1> QED
  BY <1>1, <1>2

(* After a use of the k-th order of the list it is read with that in front. *)
LEMMA UseWalk ==
  ASSUME ListInv, NEW n \in Nat, NEW s, Represents(list, n, s), Cardinality(Cached) = n,
         NEW k \in 1..n, list' = MoveToFront(list, s[k]), Cached' = Cached
  PROVE  Walk' = Fronted(n, s, k)
<1>1. list \in Lists
  BY DEF ListInv, FieldsOK
<1>2. /\ Fronted(n, s, k) \in [1..n -> Uids]
      /\ Chain(MoveToFront(list, s[k]), n, Fronted(n, s, k))
  BY <1>1, MoveToFrontShape
<1>3. Walk' = Walked(MoveToFront(list, s[k]), n)
  BY DEF Walk
<1> QED
  BY <1>2, <1>3, WalkedAlong

(* What an insertion leaves behind when g is the list with u put in front.   *)
Inserted(g, n, u, v) ==
  /\ g \in [1..(n + 1) -> Uids]
  /\ Cardinality(Cached \cup {u}) = n + 1
  /\ n + 1 > Capacity =>
       /\ Walk' = [i \in 1..n |-> g[i]]
       /\ Cardinality(Cached') = n
       /\ order' = [order EXCEPT ![u] = v, ![g[n + 1]] = Absent]
  /\ ~(n + 1 > Capacity) =>
       /\ Walk' = g
       /\ Cardinality(Cached') = n + 1
       /\ order' = [order EXCEPT ![u] = v]

(* After an insertion it is read with the new order in front, and without   *)
(* the last one if the cache was full.                                      *)
LEMMA InsertWalk ==
  ASSUME ListInv, NEW u \in Uids, NEW v \in Versions, u \notin Cached, Insert(u, v),
         NEW n \in Nat, NEW s, Represents(list, n, s),
         IsFiniteSet(Cached), Cardinality(Cached) = n
  PROVE  Inserted(Pushed(n, s, u), n, u, v)
<1> DEFINE grown == PushFront(list, u)
           g == Pushed(n, s, u)
           victim == g[n + 1]
<1>3. /\ s \in [1..n -> Uids] /\ Chain(list, n, s) /\ list \in Lists
      /\ order \in [Uids -> Versions \cup {Absent}]
      /\ \A x \in Uids : x \in Cached <=> \E i \in 1..n : s[i] = x
  BY DEF Represents, Spells, ListInv, FieldsOK
<1>4. \A i \in 1..n : s[i] # u
  BY <1>3
<1>5. grown \in Lists /\ g \in [1..(n + 1) -> Uids] /\ Chain(grown, n + 1, g)
  BY <1>3, <1>4, PushFrontChain
<1>6. grown.tail = victim /\ victim \in Uids /\ grown.tail # Nil
  BY <1>5, SentinelAssumption DEF Chain
<1>7. Cardinality(Cached \cup {u}) = n + 1 /\ IsFiniteSet(Cached \cup {u})
  BY FS_AddElement
<1>8. CASE n + 1 > Capacity
  <2> DEFINE w == Without(n + 1, g, n + 1)
  <2>1. list' = Unlink(grown, victim) /\ order' = [order EXCEPT ![u] = v, ![victim] = Absent]
    BY <1>6, <1>7, <1>8 DEF Insert
  <2>2. n + 1 - 1 = n /\ n + 1 \in 1..(n + 1)
    OBVIOUS
  <2>3. w \in [1..n -> Uids] /\ Chain(list', n, w)
    BY <1>5, <2>1, <2>2, UnlinkChain
  <2>4. victim # u /\ victim \in Cached
    <3>1. n # 0
      BY <1>8, CapacityAssumption
    <3>2. victim = s[n] /\ n \in 1..n /\ s[n] \in Uids
      BY <1>3, <3>1 DEF Pushed
    <3> QED
      BY <1>3, <1>4, <3>2
  <2>5. Cached' = (Cached \cup {u}) \ {victim}
    BY <1>3, <1>6, <2>1, <2>4, SentinelAssumption DEF Cached
  <2>6. Cardinality(Cached') = n
    <3>1. victim \in Cached \cup {u}
      BY <2>4
    <3> HIDE DEF victim
    <3>2. Cardinality((Cached \cup {u}) \ {victim}) = n
      BY <1>7, <3>1, OneFewer
    <3> QED
      BY <2>5, <3>2
  <2>7. Walk' = w
    BY <2>3, <2>6, WalkedAlong DEF Walk
  <2>8. w = [i \in 1..n |-> g[i]]
    BY <2>2 DEF Without
  <2> QED
    BY <1>5, <1>7, <1>8, <2>1, <2>6, <2>7, <2>8 DEF Inserted
<1>9. CASE ~(n + 1 > Capacity)
  <2>1. list' = grown /\ order' = [order EXCEPT ![u] = v]
    BY <1>7, <1>9 DEF Insert
  <2>2. Cached' = Cached \cup {u}
    BY <1>3, <2>1, SentinelAssumption DEF Cached
  <2>3. Walk' = g
    BY <1>5, <1>7, <2>1, <2>2, WalkedAlong DEF Walk
  <2> QED
    BY <1>5, <1>7, <1>9, <2>1, <2>2, <2>3 DEF Inserted
<1> QED
  BY <1>8, <1>9

(* A use of a cached order is MovedToFront of the abstract cache. *)
LEMMA UseRefines ==
  ASSUME ListInv, NEW u \in Cached, list' = MoveToFront(list, u), Cached' = Cached
  PROVE  Walk' = Lru!MovedToFront(u)
<1>1. PICK n \in Nat : \E s : /\ Represents(list, n, s) /\ n <= Capacity
                              /\ Walk = s /\ Len(s) = n
                              /\ IsFiniteSet(Cached) /\ Cardinality(Cached) = n
  BY WalkRepresents
<1>2. PICK s : /\ Represents(list, n, s)
               /\ Walk = s /\ Len(s) = n /\ Cardinality(Cached) = n
  BY <1>1
<1>3. \A i, j \in 1..n : s[i] = s[j] => i = j
  BY <1>2 DEF Represents, Chain
<1>4. PICK k \in 1..n : s[k] = u
  BY <1>2 DEF Represents, Spells, Cached
<1>5. Walk' = Fronted(n, s, k)
  BY <1>2, <1>4, UseWalk
<1> DEFINE at == CHOOSE i \in 1..n : s[i] = u
<1>6. at = k
  BY <1>3, <1>4
<1>7. Lru!MovedToFront(u) = [i \in 1..n |-> CASE i = 1 -> u
                                            [] i > 1 /\ i <= at -> s[i - 1]
                                            [] OTHER -> s[i]]
  BY <1>2 DEF Lru!MovedToFront
<1>8. \A i \in 1..n : (CASE i = 1 -> u [] i > 1 /\ i <= at -> s[i - 1] [] OTHER -> s[i])
                        = IF i = 1 THEN s[k] ELSE IF i <= k THEN s[i - 1] ELSE s[i]
  <2> HIDE DEF at
  <2> QED
    BY <1>4, <1>6
<1> QED
  BY <1>5, <1>7, <1>8 DEF Fronted

(* insert with its evict is Insert of the abstract cache. *)
LEMMA InsertRefines ==
  ASSUME ListInv, NEW u \in Uids, NEW v \in Versions, u \notin Cached, Insert(u, v)
  PROVE  Lru!Insert(u, v)
<1>1. PICK n \in Nat : \E s : /\ Represents(list, n, s) /\ n <= Capacity
                              /\ Walk = s /\ Len(s) = n
                              /\ IsFiniteSet(Cached) /\ Cardinality(Cached) = n
  BY WalkRepresents
<1>2. PICK s : /\ Represents(list, n, s)
               /\ Walk = s /\ Len(s) = n
               /\ IsFiniteSet(Cached) /\ Cardinality(Cached) = n
  BY <1>1
<1> DEFINE g == Pushed(n, s, u)
           grown == <<u>> \o s
<1>3. /\ g \in [1..(n + 1) -> Uids]
      /\ Cardinality(Cached \cup {u}) = n + 1
      /\ n + 1 > Capacity =>
           /\ Walk' = [i \in 1..n |-> g[i]]
           /\ order' = [order EXCEPT ![u] = v, ![g[n + 1]] = Absent]
      /\ ~(n + 1 > Capacity) => Walk' = g /\ order' = [order EXCEPT ![u] = v]
  <2>1. Represents(list, n, s) /\ IsFiniteSet(Cached) /\ Cardinality(Cached) = n
    BY <1>2
  <2>2. Inserted(g, n, u, v)
    <3> HIDE <1>2
    <3> QED
      BY <2>1, InsertWalk
  <2> HIDE DEF g
  <2> QED
    BY <2>2 DEF Inserted
<1>4. grown = g /\ Len(grown) = n + 1
  <2>1. s \in Seq(Uids)
    BY <1>2 DEF Represents
  <2>2. /\ grown \in Seq(Uids) /\ Len(grown) = n + 1
        /\ \A i \in 1..(n + 1) : grown[i] = IF i = 1 THEN u ELSE s[i - 1]
    BY <1>2, <2>1
  <2>3. grown = [i \in 1..(n + 1) |-> grown[i]]
    BY <2>2
  <2> QED
    BY <2>2, <2>3 DEF Pushed
<1>5. SubSeq(grown, 1, Len(grown) - 1) = [i \in 1..n |-> g[i]]
  <2>1. g \in Seq(Uids) /\ Len(g) = n + 1
    BY <1>3
  <2> HIDE DEF g
  <2>2. SubSeq(g, 1, n) = [i \in 1..n |-> g[i]]
    BY <2>1
  <2>3. Len(grown) - 1 = n
    BY <1>4
  <2> QED
    BY <1>4, <2>2, <2>3
<1>6. Lru!Cardinality(Lru!Cached \cup {u}) = n + 1
  BY <1>3, SameCount
<1>7. grown[Len(grown)] = g[n + 1]
  BY <1>4
<1> HIDE DEF g
<1> QED
  BY <1>2, <1>3, <1>4, <1>5, <1>6, <1>7 DEF Lru!Insert

(* An operation that changes neither cache nor list is a stutter of LruCache. *)
LEMMA SameCache ==
  ASSUME UNCHANGED <<order, list>>
  PROVE  UNCHANGED Lru!cacheVars
<1>1. Cached' = Cached
  BY DEF Cached
<1>2. Walk' = Walk
  BY <1>1 DEF Walk
<1> QED
  BY <1>2 DEF Lru!cacheVars

(* The empty list is the empty cache. *)
LEMMA InitRefines == Init => Lru!CacheInit
<1> SUFFICES ASSUME Init PROVE Lru!CacheInit
  OBVIOUS
<1>1. PICK n \in Nat : \E s : /\ Represents(list, n, s) /\ Walk = s
                              /\ Cardinality(Cached) = n
  BY ListInit, WalkRepresents
<1>2. PICK s : s \in [1..n -> Uids] /\ Walk = s /\ Cardinality(Cached) = n
  BY <1>1 DEF Represents
<1>3. Cached = {}
  BY DEF Init, Cached
<1>4. n = 0
  BY <1>2, <1>3, FS_EmptySet
<1>5. Walk = << >>
  BY <1>2, <1>4
<1> QED
  BY <1>5 DEF Init, Lru!CacheInit

(* Each operation on the list is the one of the same name on the cache. *)
LEMMA StepRefines == ListInv /\ [Next]_vars => [Lru!CacheNext]_(Lru!cacheVars)
<1> SUFFICES ASSUME ListInv, [Next]_vars PROVE [Lru!CacheNext]_(Lru!cacheVars)
  OBVIOUS
<1>1. order \in [Uids -> Versions \cup {Absent}] /\ Lru!Cached = Cached
  BY SameCount DEF ListInv, FieldsOK
<1>2. ASSUME NEW u \in Uids, GetHit(u) PROVE Lru!CacheGetHit(u)
  <2>1. u \in Cached /\ list' = MoveToFront(list, u) /\ order' = order
    BY <1>2 DEF GetHit
  <2>2. Cached' = Cached
    BY <2>1 DEF Cached
  <2> QED
    BY <1>1, <2>1, <2>2, UseRefines DEF Lru!CacheGetHit
<1>3. ASSUME NEW u \in Uids, GetMiss(u) PROVE Lru!CacheGetMiss(u)
  BY <1>1, <1>3, SameCache DEF GetMiss, Lru!CacheGetMiss
<1>4. ASSUME NEW u \in Uids, NEW v \in Versions, Set(u, v) PROVE Lru!CacheSet(u, v)
  <2>1. CASE u \in Cached
    <3>1. order' = [order EXCEPT ![u] = v] /\ list' = MoveToFront(list, u)
      BY <1>4, <2>1 DEF Set
    <3>2. Cached' = Cached
      BY <1>1, <2>1, <3>1, SentinelAssumption DEF Cached
    <3> QED
      BY <1>1, <2>1, <3>1, <3>2, UseRefines DEF Lru!CacheSet
  <2>2. CASE u \notin Cached
    BY <1>1, <1>4, <2>2, InsertRefines DEF Set, Lru!CacheSet
  <2> QED
    BY <2>1, <2>2
<1>5. ASSUME NEW u \in Uids, NEW v \in Versions, SetIfAbsent(u, v)
      PROVE  Lru!CacheSetIfAbsent(u, v)
  <2>1. CASE u \in Cached
    BY <1>1, <1>5, <2>1, SameCache DEF SetIfAbsent, Lru!CacheSetIfAbsent
  <2>2. CASE u \notin Cached
    BY <1>1, <1>5, <2>2, InsertRefines DEF SetIfAbsent, Lru!CacheSetIfAbsent
  <2> QED
    BY <2>1, <2>2
<1>6. CASE UNCHANGED vars
  BY <1>6, SameCache DEF vars
<1> QED
  BY <1>2, <1>3, <1>4, <1>5, <1>6 DEF Next, Lru!CacheNext

(* The pointer structure implements the cache that the service is specified *)
(* on: each method of lru.go does to the list, read from its head, what     *)
(* LruCache says it does to the recency order, evict included.              *)
THEOREM ListImplementsCache == Spec => ImplementsLruCache
BY InitRefines, StepRefines, ListInvariant, PTL
   DEF Spec, ImplementsLruCache, Lru!CacheSpec

-----------------------------------------------------------------------------
(* The list, read from its head, is the front of the history; the history   *)
(* goes on behind it only if the cache is full.                             *)
HistoryInv ==
  /\ used \in Seq(Uids)
  /\ \A i, j \in 1..Len(used) : used[i] = used[j] => i = j
  /\ Cardinality(Cached) <= Len(used)
  /\ Cardinality(Cached) < Len(used) => Cardinality(Cached) = Capacity
  /\ \A i \in 1..Cardinality(Cached) : Walk[i] = used[i]

(* What the walk of a reachable list is, as far as the history needs it. *)
LEMMA WalkOfCached ==
  ASSUME ListInv
  PROVE  \E n \in Nat : /\ Represents(list, n, Walk) /\ n <= Capacity
                        /\ IsFiniteSet(Cached) /\ Cardinality(Cached) = n
BY WalkRepresents

(* A uid used again moves to the front of the history. *)
LEMMA UsedAgain ==
  ASSUME used \in Seq(Uids), \A i, j \in 1..Len(used) : used[i] = used[j] => i = j,
         NEW k \in 1..Len(used), Used(used[k])
  PROVE  /\ used' \in Seq(Uids) /\ Len(used') = Len(used)
         /\ \A i \in 1..Len(used) :
              used'[i] = IF i = 1 THEN used[k] ELSE IF i <= k THEN used[i - 1] ELSE used[i]
         /\ \A i, j \in 1..Len(used') : used'[i] = used'[j] => i = j
<1> DEFINE L == Len(used)
           f == [i \in 1..L |-> IF i = 1 THEN used[k]
                                ELSE IF i <= k THEN used[i - 1] ELSE used[i]]
<1>1. L \in Nat /\ \A i \in 1..L : used[i] \in Uids
  OBVIOUS
<1>2. \A i \in 1..L : (\E m \in i..L : used[m] = used[k]) <=> i <= k
  BY <1>1
<1>3. used' = f
  BY <1>2 DEF Used
<1>4. f \in [1..L -> Uids]
  BY <1>1
<1>5. f \in Seq(Uids) /\ Len(f) = L
  BY <1>1, <1>4
<1>6. \A i, j \in 1..L : f[i] = f[j] => i = j
  BY <1>1
<1> QED
  BY <1>3, <1>5, <1>6

(* A uid used for the first time is put in front of the history. *)
LEMMA UsedFirstTime ==
  ASSUME used \in Seq(Uids), \A i, j \in 1..Len(used) : used[i] = used[j] => i = j,
         NEW u \in Uids, \A k \in 1..Len(used) : used[k] # u, Used(u)
  PROVE  /\ used' \in Seq(Uids) /\ Len(used') = Len(used) + 1
         /\ \A i \in 1..(Len(used) + 1) : used'[i] = IF i = 1 THEN u ELSE used[i - 1]
         /\ \A i, j \in 1..Len(used') : used'[i] = used'[j] => i = j
<1>1. used' = <<u>> \o used
  BY DEF Used
<1>2. /\ used' \in Seq(Uids) /\ Len(used') = Len(used) + 1
      /\ \A i \in 1..(Len(used) + 1) : used'[i] = IF i = 1 THEN u ELSE used[i - 1]
  BY <1>1
<1>3. ASSUME NEW i \in 1..Len(used'), NEW j \in 1..Len(used'), used'[i] = used'[j]
      PROVE  i = j
  <2>1. Len(used) \in Nat /\ i \in 1..(Len(used) + 1) /\ j \in 1..(Len(used) + 1)
    BY <1>2
  <2>2. CASE i = 1
    BY <1>2, <1>3, <2>1, <2>2
  <2>3. CASE j = 1
    BY <1>2, <1>3, <2>1, <2>3
  <2>4. CASE i # 1 /\ j # 1
    <3>1. i - 1 \in 1..Len(used) /\ j - 1 \in 1..Len(used)
      BY <2>1, <2>4
    <3>2. used[i - 1] = used[j - 1]
      BY <1>2, <1>3, <2>1, <2>4
    <3> QED
      BY <2>1, <3>1, <3>2
  <2> QED
    BY <2>2, <2>3, <2>4
<1> QED
  BY <1>2, <1>3

(* A read or a write of a cached order keeps the list in front. *)
LEMMA UseKeepsHistory ==
  ASSUME ListInv, HistoryInv, NEW u \in Cached, list' = MoveToFront(list, u),
         Cached' = Cached, Used(u)
  PROVE  HistoryInv'
<1>1. PICK n \in Nat : /\ Represents(list, n, Walk) /\ n <= Capacity
                      /\ IsFiniteSet(Cached) /\ Cardinality(Cached) = n
  BY WalkOfCached
<1>2. PICK k \in 1..n : Walk[k] = u
  BY <1>1 DEF Represents, Spells, Cached
<1>3. Walk' = Fronted(n, Walk, k)
  BY <1>1, <1>2, UseWalk
<1>4. /\ used \in Seq(Uids) /\ n <= Len(used)
      /\ \A i, j \in 1..Len(used) : used[i] = used[j] => i = j
      /\ n < Len(used) => n = Capacity
      /\ \A i \in 1..n : Walk[i] = used[i]
  BY <1>1 DEF HistoryInv
<1>5. k \in 1..Len(used) /\ used[k] = u
  BY <1>2, <1>4
<1>6. /\ used' \in Seq(Uids) /\ Len(used') = Len(used)
      /\ \A i \in 1..Len(used) :
           used'[i] = IF i = 1 THEN used[k] ELSE IF i <= k THEN used[i - 1] ELSE used[i]
      /\ \A i, j \in 1..Len(used') : used'[i] = used'[j] => i = j
  BY <1>4, <1>5, UsedAgain
<1>7. ASSUME NEW i \in 1..n PROVE Walk'[i] = used'[i]
  <2>1. Walk'[i] = IF i = 1 THEN Walk[k] ELSE IF i <= k THEN Walk[i - 1] ELSE Walk[i]
    BY <1>3 DEF Fronted
  <2>2. i \in 1..Len(used)
    BY <1>4
  <2>3. i # 1 => i - 1 \in 1..n
    OBVIOUS
  <2> QED
    BY <1>2, <1>4, <1>6, <2>1, <2>2, <2>3
<1>8. Cardinality(Cached') = n
  BY <1>1
<1> QED
  BY <1>4, <1>6, <1>7, <1>8 DEF HistoryInv

(* An insertion into a full cache drops the last of the list, and what was  *)
(* used before is behind it; into any other cache it drops nothing, and     *)
(* then the history is the list.                                            *)
LEMMA InsertKeepsHistory ==
  ASSUME ListInv, HistoryInv, NEW u \in Uids, NEW v \in Versions, u \notin Cached,
         Insert(u, v), Used(u)
  PROVE  HistoryInv'
<1>1. PICK n \in Nat : /\ Represents(list, n, Walk) /\ n <= Capacity
                      /\ IsFiniteSet(Cached) /\ Cardinality(Cached) = n
  BY WalkOfCached
<1> DEFINE g == Pushed(n, Walk, u)
<1>2. Inserted(g, n, u, v)
  BY <1>1, InsertWalk
<1>3. \A i \in 1..(n + 1) : g[i] = IF i = 1 THEN u ELSE Walk[i - 1]
  BY DEF Pushed
<1> HIDE DEF g
<1>4. /\ used \in Seq(Uids) /\ n <= Len(used)
      /\ \A i, j \in 1..Len(used) : used[i] = used[j] => i = j
      /\ n < Len(used) => n = Capacity
      /\ \A i \in 1..n : Walk[i] = used[i]
  BY <1>1 DEF HistoryInv
<1>5. \A i \in 1..n : Walk[i] # u
  BY <1>1 DEF Represents, Spells, Cached
<1>6. Capacity \in Nat
  BY CapacityAssumption
<1>7. CASE \E k \in 1..Len(used) : used[k] = u
  <2>1. PICK k \in 1..Len(used) : used[k] = u
    BY <1>7
  <2>2. n < k /\ n = Capacity /\ n + 1 > Capacity
    BY <1>4, <1>5, <1>6, <2>1
  <2>3. /\ used' \in Seq(Uids) /\ Len(used') = Len(used)
        /\ \A i \in 1..Len(used) :
             used'[i] = IF i = 1 THEN used[k] ELSE IF i <= k THEN used[i - 1] ELSE used[i]
        /\ \A i, j \in 1..Len(used') : used'[i] = used'[j] => i = j
    BY <1>4, <2>1, UsedAgain
  <2>4. Walk' = [i \in 1..n |-> g[i]] /\ Cardinality(Cached') = n
    BY <1>2, <2>2 DEF Inserted
  <2>5. ASSUME NEW i \in 1..n PROVE Walk'[i] = used'[i]
    <3>1. Walk'[i] = IF i = 1 THEN u ELSE Walk[i - 1]
      BY <1>3, <2>4
    <3>2. i \in 1..Len(used) /\ i <= k /\ (i # 1 => i - 1 \in 1..n)
      BY <1>4, <2>2
    <3> QED
      BY <1>4, <2>1, <2>3, <3>1, <3>2
  <2> QED
    BY <1>4, <2>2, <2>3, <2>4, <2>5 DEF HistoryInv
<1>8. CASE ~ \E k \in 1..Len(used) : used[k] = u
  <2>1. /\ used' \in Seq(Uids) /\ Len(used') = Len(used) + 1
        /\ \A i \in 1..(Len(used) + 1) : used'[i] = IF i = 1 THEN u ELSE used[i - 1]
        /\ \A i, j \in 1..Len(used') : used'[i] = used'[j] => i = j
    BY <1>4, <1>8, UsedFirstTime
  <2>2. \A i \in 1..(n + 1) : used'[i] = g[i]
    BY <1>3, <1>4, <2>1
  <2>3. CASE n + 1 > Capacity
    <3>1. Walk' = [i \in 1..n |-> g[i]] /\ Cardinality(Cached') = n
      BY <1>2, <2>3 DEF Inserted
    <3>2. n = Capacity
      BY <1>1, <1>6, <2>3
    <3> QED
      BY <1>4, <2>1, <2>2, <3>1, <3>2 DEF HistoryInv
  <2>4. CASE ~(n + 1 > Capacity)
    <3>1. Walk' = g /\ Cardinality(Cached') = n + 1
      BY <1>2, <2>4 DEF Inserted
    <3>2. n = Len(used)
      BY <1>4, <1>6, <2>4
    <3> QED
      BY <1>4, <2>1, <2>2, <3>1, <3>2 DEF HistoryInv
  <2> QED
    BY <2>3, <2>4
<1> QED
  BY <1>7, <1>8

(* At the start nothing was used and nothing is cached. *)
LEMMA HistoryInit == UseInit => HistoryInv
<1> SUFFICES ASSUME UseInit PROVE HistoryInv
  OBVIOUS
<1>1. Cached = {}
  BY DEF UseInit, Init, Cached
<1>2. Cardinality(Cached) = 0
  BY <1>1, FS_EmptySet
<1> QED
  BY <1>2 DEF UseInit, HistoryInv

(* Every step with its mark in the history keeps the list in front of it. *)
LEMMA HistoryStep ==
  ListInv /\ HistoryInv /\ [UseNext]_<<vars, used>> => HistoryInv'
<1> SUFFICES ASSUME ListInv, HistoryInv, [UseNext]_<<vars, used>> PROVE HistoryInv'
  OBVIOUS
<1>0. order \in [Uids -> Versions \cup {Absent}]
  BY DEF ListInv, FieldsOK
<1>1. ASSUME UNCHANGED <<order, list, used>> PROVE HistoryInv'
  <2>1. Cached' = Cached
    BY <1>1 DEF Cached
  <2>2. Walk' = Walk
    BY <1>1, <2>1 DEF Walk
  <2> QED
    BY <1>1, <2>1, <2>2 DEF HistoryInv
<1>2. ASSUME NEW u \in Uids, GetHit(u), Used(u) PROVE HistoryInv'
  <2>1. u \in Cached /\ list' = MoveToFront(list, u) /\ order' = order
    BY <1>2 DEF GetHit
  <2>2. Cached' = Cached
    BY <2>1 DEF Cached
  <2> QED
    BY <1>2, <2>1, <2>2, UseKeepsHistory
<1>3. ASSUME NEW u \in Uids, GetMiss(u), UNCHANGED used PROVE HistoryInv'
  BY <1>1, <1>3 DEF GetMiss
<1>4. ASSUME NEW u \in Uids, NEW v \in Versions, Set(u, v), Used(u) PROVE HistoryInv'
  <2>1. CASE u \in Cached
    <3>1. order' = [order EXCEPT ![u] = v] /\ list' = MoveToFront(list, u)
      BY <1>4, <2>1 DEF Set
    <3>2. Cached' = Cached
      BY <1>0, <2>1, <3>1, SentinelAssumption DEF Cached
    <3> QED
      BY <1>4, <2>1, <3>1, <3>2, UseKeepsHistory
  <2>2. CASE u \notin Cached
    BY <1>4, <2>2, InsertKeepsHistory DEF Set
  <2> QED
    BY <2>1, <2>2
<1>5. ASSUME NEW u \in Uids, NEW v \in Versions, SetIfAbsent(u, v), u \in Cached,
             UNCHANGED used
      PROVE  HistoryInv'
  BY <1>1, <1>5 DEF SetIfAbsent
<1>6. ASSUME NEW u \in Uids, NEW v \in Versions, SetIfAbsent(u, v), u \notin Cached, Used(u)
      PROVE  HistoryInv'
  BY <1>6, InsertKeepsHistory DEF SetIfAbsent
<1>7. CASE UNCHANGED <<vars, used>>
  BY <1>1, <1>7 DEF vars
<1> QED
  BY <1>2, <1>3, <1>4, <1>5, <1>6, <1>7 DEF UseNext

(* The history changes nothing in the cache. *)
LEMMA HistoryObserves == UseSpec => Spec
<1>1. UseInit => Init
  BY DEF UseInit
<1>2. [UseNext]_<<vars, used>> => [Next]_vars
  BY DEF UseNext, Next, vars
<1> QED
  BY <1>1, <1>2, PTL DEF UseSpec, Spec

(* A front of the history as long as the list is what is cached. *)
LEMMA FrontIsCached == ListInv /\ HistoryInv => MostRecentlyUsedKept
<1> SUFFICES ASSUME ListInv, HistoryInv, NEW i \in 1..Len(used)
             PROVE  used[i] \in Cached <=> i <= Capacity
  BY DEF MostRecentlyUsedKept
<1>1. PICK n \in Nat : /\ Represents(list, n, Walk) /\ n <= Capacity
                      /\ IsFiniteSet(Cached) /\ Cardinality(Cached) = n
  BY WalkOfCached
<1>2. /\ used \in Seq(Uids) /\ n <= Len(used)
      /\ \A a, b \in 1..Len(used) : used[a] = used[b] => a = b
      /\ n < Len(used) => n = Capacity
      /\ \A a \in 1..n : Walk[a] = used[a]
  BY <1>1 DEF HistoryInv
<1>3. used[i] \in Uids
  BY <1>2
<1>4. used[i] \in Cached <=> \E a \in 1..n : Walk[a] = used[i]
  BY <1>1, <1>3 DEF Represents, Spells, Cached
<1>5. (\E a \in 1..n : Walk[a] = used[i]) <=> i <= n
  BY <1>2
<1>6. Capacity \in Nat
  BY CapacityAssumption
<1> QED
  BY <1>1, <1>2, <1>4, <1>5, <1>6

(* The orders cached are the Capacity used last, whatever mix of Get, Set   *)
(* and SetIfAbsent led here: evict drops the one whose last use is oldest.  *)
THEOREM KeepsMostRecentlyUsed == UseSpec => []MostRecentlyUsedKept
<1>1. UseSpec => []ListInv
  BY HistoryObserves, ListInvariant, PTL
<1> QED
  BY <1>1, HistoryInit, HistoryStep, FrontIsCached, PTL DEF UseSpec
=============================================================================
