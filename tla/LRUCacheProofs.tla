---------------------------- MODULE LRUCacheProofs ----------------------------
(***************************************************************************)
(* The map and the recency lists of the LRU cache stay consistent and      *)
(* within capacity, for any keys, values, shards and capacity.             *)
(*                                                                         *)
(* The argument: Unlink and PushFront keep a duplicate-free list           *)
(* duplicate-free and change its set of elements by exactly one key; each  *)
(* cache operation applies them to the one list and the one map entry it   *)
(* names.                                                                  *)
(***************************************************************************)
EXTENDS LRUCache, FiniteSetTheorems, TLAPS

\* A list without repeated elements.
NoRepeats(l) == \A i, j \in 1..Len(l) : l[i] = l[j] => i = j

\* k is an element of the list l.
InList(l, k) == \E i \in 1..Len(l) : l[i] = k

\* The part of the cache's correctness that its operations maintain together.
CacheInv == CacheTypeOK /\ IndexConsistent /\ WithinCapacity

\* Position finds the element it is asked for (list.Element of a map entry).
LEMMA PositionFinds ==
    ASSUME NEW l, NEW k, InList(l, k)
    PROVE  Position(l, k) \in 1..Len(l) /\ l[Position(l, k)] = k
BY DEF InList, Position

\* list.Remove shortens the list by one and keeps the other elements in order.
LEMMA UnlinkShape ==
    ASSUME NEW S, NEW l \in Seq(S), NEW i \in 1..Len(l)
    PROVE  /\ Unlink(l, i) \in Seq(S)
           /\ Len(Unlink(l, i)) = Len(l) - 1
           /\ \A j \in 1..(Len(l) - 1) :
                 Unlink(l, i)[j] = IF j < i THEN l[j] ELSE l[j + 1]
BY DEF Unlink

\* list.Remove takes out exactly the element at the given place.
LEMMA UnlinkRemovesOne ==
    ASSUME NEW S, NEW l \in Seq(S), NEW i \in 1..Len(l), NoRepeats(l)
    PROVE  /\ NoRepeats(Unlink(l, i))
           /\ \A k : InList(Unlink(l, i), k) <=> InList(l, k) /\ k # l[i]
<1> DEFINE u == Unlink(l, i)
<1>1. /\ Len(l) \in Nat
      /\ Len(u) = Len(l) - 1
      /\ \A j \in 1..(Len(l) - 1) : u[j] = IF j < i THEN l[j] ELSE l[j + 1]
  BY UnlinkShape
<1> HIDE DEF u
<1>2. NoRepeats(u)
  BY <1>1 DEF NoRepeats
<1>3. ASSUME NEW k, InList(u, k) PROVE InList(l, k) /\ k # l[i]
  BY <1>1, <1>3 DEF InList, NoRepeats
<1>4. ASSUME NEW k, InList(l, k), k # l[i] PROVE InList(u, k)
  <2>1. PICK m \in 1..Len(l) : l[m] = k
    BY <1>4 DEF InList
  <2>2. CASE m < i
    <3>1. m \in 1..Len(u) /\ u[m] = k
      BY <2>1, <2>2, <1>1
    <3> QED BY <3>1 DEF InList
  <2>3. CASE m > i
    <3>1. m - 1 \in 1..Len(u) /\ u[m - 1] = k
      BY <2>1, <2>3, <1>1
    <3> QED BY <3>1 DEF InList
  <2> QED BY <2>1, <2>2, <2>3, <1>4
<1> QED BY <1>2, <1>3, <1>4 DEF u

\* list.PushFront adds exactly the new element.
LEMMA PushFrontAddsOne ==
    ASSUME NEW S, NEW l \in Seq(S), NEW k \in S, NoRepeats(l), ~InList(l, k)
    PROVE  /\ PushFront(l, k) \in Seq(S)
           /\ Len(PushFront(l, k)) = Len(l) + 1
           /\ NoRepeats(PushFront(l, k))
           /\ \A x : InList(PushFront(l, k), x) <=> InList(l, x) \/ x = k
<1> DEFINE p == PushFront(l, k)
<1>1. /\ Len(l) \in Nat
      /\ p \in Seq(S)
      /\ Len(p) = Len(l) + 1
      /\ p[1] = k
      /\ \A j \in 2..(Len(l) + 1) : p[j] = l[j - 1]
  BY DEF PushFront
<1> HIDE DEF p
<1>2. NoRepeats(p)
  BY <1>1 DEF NoRepeats, InList
<1>3. ASSUME NEW x, InList(p, x) PROVE InList(l, x) \/ x = k
  <2>1. PICK m \in 1..Len(p) : p[m] = x
    BY <1>3 DEF InList
  <2>2. CASE m = 1
    BY <2>1, <2>2, <1>1
  <2>3. CASE m # 1
    <3>1. m - 1 \in 1..Len(l) /\ l[m - 1] = x
      BY <2>1, <2>3, <1>1
    <3> QED BY <3>1 DEF InList
  <2> QED BY <2>2, <2>3
<1>4. ASSUME NEW x, InList(l, x) PROVE InList(p, x)
  <2>1. PICK m \in 1..Len(l) : l[m] = x
    BY <1>4 DEF InList
  <2>2. m + 1 \in 1..Len(p) /\ p[m + 1] = x
    BY <2>1, <1>1
  <2> QED BY <2>2 DEF InList
<1>5. InList(p, k)
  BY <1>1 DEF InList
<1> QED BY <1>1, <1>2, <1>3, <1>4, <1>5 DEF p

\* MoveToFront keeps length and elements.
LEMMA MoveToFrontKeepsElements ==
    ASSUME NEW S, NEW l \in Seq(S), NEW k \in S, NoRepeats(l), InList(l, k)
    PROVE  /\ MoveToFront(l, k) \in Seq(S)
           /\ Len(MoveToFront(l, k)) = Len(l)
           /\ NoRepeats(MoveToFront(l, k))
           /\ \A x : InList(MoveToFront(l, k), x) <=> InList(l, x)
<1> DEFINE r == ListRemove(l, k)
<1>1. Position(l, k) \in 1..Len(l) /\ l[Position(l, k)] = k
  BY PositionFinds
<1>2. /\ r \in Seq(S)
      /\ Len(r) = Len(l) - 1
      /\ NoRepeats(r)
      /\ \A x : InList(r, x) <=> InList(l, x) /\ x # k
  BY <1>1, UnlinkShape, UnlinkRemovesOne DEF ListRemove
<1> HIDE DEF r
<1>3. ~InList(r, k)
  BY <1>2
<1>4. /\ PushFront(r, k) \in Seq(S)
      /\ Len(PushFront(r, k)) = Len(r) + 1
      /\ NoRepeats(PushFront(r, k))
      /\ \A x : InList(PushFront(r, k), x) <=> InList(r, x) \/ x = k
  BY <1>2, <1>3, PushFrontAddsOne
<1>5. MoveToFront(l, k) = PushFront(r, k)
  BY DEF MoveToFront, r
<1>6. Len(l) \in Nat
  OBVIOUS
<1> QED BY <1>2, <1>4, <1>5, <1>6

-------------------------------------------------------------------------------
\* The consistency invariant in terms of InList and NoRepeats.
LEMMA IndexConsistentForm ==
    IndexConsistent <=>
        \A s \in Shard : /\ NoRepeats(lru[s])
                         /\ \A k \in Key : InList(lru[s], k)
                               <=> (ShardOf[k] = s /\ items[k] # NoValue)
BY DEF IndexConsistent, NoRepeats, InList

\* The same for the next state.
LEMMA IndexConsistentFormPrime ==
    IndexConsistent' <=>
        \A s \in Shard : /\ NoRepeats(lru'[s])
                         /\ \A k \in Key : InList(lru'[s], k)
                               <=> (ShardOf[k] = s /\ items'[k] # NoValue)
BY DEF IndexConsistent, NoRepeats, InList

\* A cached key is in its shard's list, an uncached one is not.
LEMMA ListOfKey ==
    ASSUME CacheInv, NEW k \in Key
    PROVE  /\ ShardOf[k] \in Shard
           /\ lru[ShardOf[k]] \in Seq(Key)
           /\ NoRepeats(lru[ShardOf[k]])
           /\ InList(lru[ShardOf[k]], k) <=> items[k] # NoValue
BY LRUAssumption, IndexConsistentForm DEF CacheInv, CacheTypeOK

\* A call that changes nothing preserves the invariant.
LEMMA StutterKeepsInv ==
    ASSUME CacheInv, UNCHANGED lruVars
    PROVE  CacheInv'
<1>1. lru' = lru /\ items' = items /\ invalidated' = invalidated
  BY DEF lruVars
<1>2. CacheTypeOK'
  BY <1>1 DEF CacheInv, CacheTypeOK
<1>3. IndexConsistent'
  BY <1>1, IndexConsistentForm, IndexConsistentFormPrime DEF CacheInv
<1>4. WithinCapacity'
  BY <1>1 DEF CacheInv, WithinCapacity
<1> QED BY <1>2, <1>3, <1>4 DEF CacheInv

\* Get preserves the invariant.
LEMMA GetKeepsInv ==
    ASSUME CacheInv, NEW k \in Key, Get(k)
    PROVE  CacheInv'
<1>1. CASE ~Cached(k)
  BY <1>1, StutterKeepsInv DEF Get, lruVars
<1>2. CASE Cached(k)
  <2> DEFINE s == ShardOf[k]
             l == lru[s]
  <2>1. /\ s \in Shard
        /\ l \in Seq(Key)
        /\ NoRepeats(l)
        /\ InList(l, k)
    BY <1>2, ListOfKey DEF Cached
  <2>2. /\ lru' = [lru EXCEPT ![s] = MoveToFront(l, k)]
        /\ items' = items
        /\ invalidated' = invalidated
    BY <1>2 DEF Get
  <2>3. /\ MoveToFront(l, k) \in Seq(Key)
        /\ Len(MoveToFront(l, k)) = Len(l)
        /\ NoRepeats(MoveToFront(l, k))
        /\ \A x : InList(MoveToFront(l, k), x) <=> InList(l, x)
    BY <2>1, MoveToFrontKeepsElements
  <2> HIDE DEF s
  <2>4. CacheTypeOK'
    BY <2>1, <2>2, <2>3 DEF CacheInv, CacheTypeOK
  <2>5. IndexConsistent'
    BY <2>1, <2>2, <2>3, IndexConsistentForm, IndexConsistentFormPrime
       DEF CacheInv, CacheTypeOK
  <2>6. WithinCapacity'
    BY <2>1, <2>2, <2>3 DEF CacheInv, CacheTypeOK, WithinCapacity
  <2> QED BY <2>4, <2>5, <2>6 DEF CacheInv
<1> QED BY <1>1, <1>2

\* Replacing the value of a cached key preserves the invariant.
LEMMA SetExistingKeepsInv ==
    ASSUME CacheInv, NEW k \in Key, NEW v \in Value, SetExisting(k, v)
    PROVE  CacheInv'
<1> DEFINE s == ShardOf[k]
           l == lru[s]
<1>1. /\ s \in Shard
      /\ l \in Seq(Key)
      /\ NoRepeats(l)
      /\ InList(l, k)
      /\ items[k] # NoValue
  BY ListOfKey DEF Cached, SetExisting
<1>2. /\ lru' = [lru EXCEPT ![s] = MoveToFront(l, k)]
      /\ items' = [items EXCEPT ![k] = v]
      /\ invalidated' = invalidated \cup {items[k]}
  BY DEF SetExisting
<1>3. /\ MoveToFront(l, k) \in Seq(Key)
      /\ Len(MoveToFront(l, k)) = Len(l)
      /\ NoRepeats(MoveToFront(l, k))
      /\ \A x : InList(MoveToFront(l, k), x) <=> InList(l, x)
  BY <1>1, MoveToFrontKeepsElements
<1> HIDE DEF s
<1>4. CacheTypeOK'
  BY <1>1, <1>2, <1>3 DEF CacheInv, CacheTypeOK
<1>5. \A j \in Key : items'[j] # NoValue <=> items[j] # NoValue
  BY <1>1, <1>2, LRUAssumption DEF CacheInv, CacheTypeOK
<1>6. IndexConsistent'
  BY <1>1, <1>2, <1>3, <1>5, IndexConsistentForm, IndexConsistentFormPrime
     DEF CacheInv, CacheTypeOK
<1>7. WithinCapacity'
  BY <1>1, <1>2, <1>3 DEF CacheInv, CacheTypeOK, WithinCapacity
<1> QED BY <1>4, <1>6, <1>7 DEF CacheInv

\* Deleting a key preserves the invariant.
LEMMA DeleteKeepsInv ==
    ASSUME CacheInv, NEW k \in Key, Delete(k)
    PROVE  CacheInv'
<1>1. CASE ~Cached(k)
  BY <1>1, StutterKeepsInv DEF Delete
<1>2. CASE Cached(k)
  <2> DEFINE s == ShardOf[k]
             l == lru[s]
             r == ListRemove(l, k)
  <2>1. /\ s \in Shard
        /\ l \in Seq(Key)
        /\ NoRepeats(l)
        /\ InList(l, k)
        /\ items[k] # NoValue
    BY <1>2, ListOfKey DEF Cached
  <2>2. /\ lru' = [lru EXCEPT ![s] = r]
        /\ items' = [items EXCEPT ![k] = NoValue]
        /\ invalidated' = invalidated \cup {items[k]}
    BY <1>2 DEF Delete
  <2>3. Position(l, k) \in 1..Len(l) /\ l[Position(l, k)] = k
    BY <2>1, PositionFinds
  <2>4. /\ r \in Seq(Key)
        /\ Len(r) = Len(l) - 1
        /\ NoRepeats(r)
        /\ \A x : InList(r, x) <=> InList(l, x) /\ x # k
    BY <2>1, <2>3, UnlinkShape, UnlinkRemovesOne DEF ListRemove
  <2>5. \A j \in Key : items'[j] # NoValue <=> items[j] # NoValue /\ j # k
    BY <2>1, <2>2, LRUAssumption DEF CacheInv, CacheTypeOK
  <2> HIDE DEF s, r
  <2>6. CacheTypeOK'
    BY <2>1, <2>2, <2>4 DEF CacheInv, CacheTypeOK
  <2>7. IndexConsistent'
    BY <2>1, <2>2, <2>4, <2>5, IndexConsistentForm, IndexConsistentFormPrime
       DEF CacheInv, CacheTypeOK, s
  <2>8. WithinCapacity'
    BY <2>1, <2>2, <2>4, LRUAssumption DEF CacheInv, CacheTypeOK, WithinCapacity
  <2> QED BY <2>6, <2>7, <2>8 DEF CacheInv
<1> QED BY <1>1, <1>2

\* The entry a full shard gives up is an older one, never the new key.
LEMMA EvictedTail ==
    ASSUME CacheInv, NEW k \in Key, items[k] = NoValue,
           Len(PushFront(lru[ShardOf[k]], k)) > Capacity
    PROVE  LET tail == Back(PushFront(lru[ShardOf[k]], k))
           IN  /\ tail \in Key
               /\ tail # k
               /\ ShardOf[tail] = ShardOf[k]
               /\ items[tail] # NoValue
<1> DEFINE s == ShardOf[k]
           l == lru[s]
           p == PushFront(l, k)
           tail == p[Len(p)]
<1>1. /\ s \in Shard
      /\ l \in Seq(Key)
      /\ NoRepeats(l)
      /\ ~InList(l, k)
      /\ Len(l) \in Nat
  BY ListOfKey
<1>2. /\ p \in Seq(Key)
      /\ Len(p) = Len(l) + 1
      /\ NoRepeats(p)
      /\ \A x : InList(p, x) <=> InList(l, x) \/ x = k
  BY <1>1, PushFrontAddsOne
<1>3. p[1] = k /\ 1 \in 1..Len(p) /\ Len(p) # 1 /\ Len(p) \in 1..Len(p)
  BY <1>1, <1>2, LRUAssumption DEF PushFront
<1>4. tail = Back(p)
  BY DEF Back
<1> HIDE DEF p
<1>5. tail # k
  BY <1>3, <1>2 DEF NoRepeats
<1>6. InList(p, tail)
  BY <1>3 DEF InList
<1>7. InList(l, tail)
  BY <1>5, <1>6, <1>2
<1>8. tail \in Key
  BY <1>2, <1>3
<1> HIDE DEF s, tail
<1>9. ShardOf[tail] = s /\ items[tail] # NoValue
  BY <1>1, <1>7, <1>8, IndexConsistentForm DEF CacheInv
<1> QED BY <1>4, <1>5, <1>8, <1>9 DEF p, s

\* Storing under a new key preserves the invariant, with or without room.
LEMMA SetNewKeepsInv ==
    ASSUME CacheInv, NEW k \in Key, NEW v \in Value, SetNew(k, v)
    PROVE  CacheInv'
<1> DEFINE s == ShardOf[k]
           l == lru[s]
           p == PushFront(l, k)
           tail == Back(p)
<1>1. /\ s \in Shard
      /\ l \in Seq(Key)
      /\ NoRepeats(l)
      /\ ~InList(l, k)
      /\ items[k] = NoValue
      /\ Len(l) \in Nat
      /\ Len(l) <= Capacity
  BY ListOfKey DEF Cached, SetNew, CacheInv, WithinCapacity
<1>2. /\ p \in Seq(Key)
      /\ Len(p) = Len(l) + 1
      /\ NoRepeats(p)
      /\ \A x : InList(p, x) <=> InList(l, x) \/ x = k
  BY <1>1, PushFrontAddsOne
<1>3. CASE ~(Len(p) > Capacity)
  <2>1. /\ lru' = [lru EXCEPT ![s] = p]
        /\ items' = [items EXCEPT ![k] = v]
        /\ invalidated' = invalidated
    BY <1>3 DEF SetNew
  <2> HIDE DEF s, p
  <2>2. CacheTypeOK'
    BY <1>1, <1>2, <2>1 DEF CacheInv, CacheTypeOK
  <2>3. \A j \in Key : items'[j] # NoValue <=> items[j] # NoValue \/ j = k
    BY <1>1, <2>1, LRUAssumption DEF CacheInv, CacheTypeOK
  <2>4. IndexConsistent'
    BY <1>1, <1>2, <2>1, <2>3, IndexConsistentForm, IndexConsistentFormPrime
       DEF CacheInv, CacheTypeOK, s
  <2>5. WithinCapacity'
    BY <1>1, <1>2, <1>3, <2>1, LRUAssumption
       DEF CacheInv, CacheTypeOK, WithinCapacity
  <2> QED BY <2>2, <2>4, <2>5 DEF CacheInv
<1>4. CASE Len(p) > Capacity
  <2> DEFINE q == RemoveBack(p)
  <2>1. /\ lru' = [lru EXCEPT ![s] = q]
        /\ items' = [items EXCEPT ![k] = v, ![tail] = NoValue]
        /\ invalidated' = invalidated \cup {items[tail]}
    BY <1>4 DEF SetNew
  <2>2. Len(p) \in 1..Len(p) /\ p[Len(p)] = tail
    BY <1>1, <1>2 DEF Back
  <2>3. /\ q \in Seq(Key)
        /\ Len(q) = Len(p) - 1
        /\ NoRepeats(q)
        /\ \A x : InList(q, x) <=> InList(p, x) /\ x # tail
    <3>1. q = Unlink(p, Len(p))
      BY DEF RemoveBack
    <3> HIDE DEF p, q, tail
    <3> QED BY <3>1, <1>2, <2>2, UnlinkShape, UnlinkRemovesOne
  <2>4. tail \in Key /\ tail # k /\ ShardOf[tail] = s /\ items[tail] # NoValue
    BY <1>1, <1>4, EvictedTail
  <2> HIDE DEF s, p, q, tail
  <2>8. CacheTypeOK'
    BY <1>1, <2>1, <2>3, <2>4 DEF CacheInv, CacheTypeOK
  <2>9. \A j \in Key : items'[j] # NoValue
                         <=> (items[j] # NoValue \/ j = k) /\ j # tail
    BY <1>1, <2>1, <2>4, LRUAssumption DEF CacheInv, CacheTypeOK
  <2>10. IndexConsistent'
    BY <1>1, <1>2, <2>1, <2>3, <2>4, <2>9, IndexConsistentForm,
       IndexConsistentFormPrime DEF CacheInv, CacheTypeOK, s
  <2>11. WithinCapacity'
    BY <1>1, <1>2, <2>1, <2>3, LRUAssumption
       DEF CacheInv, CacheTypeOK, WithinCapacity
  <2> QED BY <2>8, <2>10, <2>11 DEF CacheInv
<1> QED BY <1>3, <1>4

\* Set, with any options, preserves the invariant.
LEMMA SetKeepsInv ==
    ASSUME CacheInv, NEW k \in Key, NEW v \in Value,
           NEW skip \in BOOLEAN, NEW upd \in BOOLEAN, Set(k, v, skip, upd)
    PROVE  CacheInv'
BY StutterKeepsInv, SetExistingKeepsInv, SetNewKeepsInv DEF Set

-------------------------------------------------------------------------------
\* A new cache satisfies the invariant.
LEMMA CacheInit == NewLRUCache => CacheInv
<1> SUFFICES ASSUME NewLRUCache PROVE CacheInv
  OBVIOUS
<1>1. CacheTypeOK
  BY DEF NewLRUCache, CacheTypeOK
<1>2. IndexConsistent
  BY DEF NewLRUCache, IndexConsistent
<1>3. WithinCapacity
  BY LRUAssumption DEF NewLRUCache, WithinCapacity
<1> QED BY <1>1, <1>2, <1>3 DEF CacheInv

\* Map and lists agree and no shard outgrows its capacity in every reachable
\* state of the cache, for all keys, values, shards and capacities.
THEOREM CacheConsistent == CacheSpec => []CacheInv
<1>1. NewLRUCache => CacheInv
  BY CacheInit
<1>2. CacheInv /\ [CacheNext]_lruVars => CacheInv'
  <2> SUFFICES ASSUME CacheInv, [CacheNext]_lruVars PROVE CacheInv'
    OBVIOUS
  <2>1. CASE UNCHANGED lruVars
    BY <2>1, StutterKeepsInv
  <2>2. ASSUME NEW k \in Key, Get(k) PROVE CacheInv'
    BY <2>2, GetKeepsInv
  <2>3. ASSUME NEW k \in Key, Delete(k) PROVE CacheInv'
    BY <2>3, DeleteKeepsInv
  <2>4. ASSUME NEW k \in Key, NEW v \in Value, NEW skip \in BOOLEAN,
               NEW upd \in BOOLEAN, Set(k, v, skip, upd)
        PROVE CacheInv'
    BY <2>4, SetKeepsInv
  <2> QED BY <2>1, <2>2, <2>3, <2>4 DEF CacheNext
<1> QED BY <1>1, <1>2, PTL DEF CacheSpec

\* Every list element is in the map and every map entry in the list, once.
THEOREM CacheIndexConsistent == CacheSpec => []IndexConsistent
<1>1. CacheInv => IndexConsistent
  BY DEF CacheInv
<1> QED BY <1>1, CacheConsistent, PTL

\* No shard outgrows its capacity.
THEOREM CacheWithinCapacity == CacheSpec => []WithinCapacity
<1>1. CacheInv => WithinCapacity
  BY DEF CacheInv
<1> QED BY <1>1, CacheConsistent, PTL

\* A value leaves the cache only through onInvalidate, in every behaviour.
THEOREM CacheTellsEviction == CacheSpec => NothingVanishes
<1> DEFINE Told == \A k \in Key : items[k] # NoValue /\ items'[k] # items[k]
                                     => items[k] \in invalidated'
<1>1. CacheInv /\ [CacheNext]_lruVars => [Told]_lruVars
  <2> SUFFICES ASSUME CacheInv, CacheNext PROVE Told
    OBVIOUS
  <2>1. ASSUME NEW k \in Key, Get(k) PROVE Told
    BY <2>1 DEF Get
  <2>2. ASSUME NEW k \in Key, Delete(k) PROVE Told
    BY <2>2 DEF Delete, lruVars, CacheInv, CacheTypeOK
  <2>3. ASSUME NEW k \in Key, NEW v \in Value, SetExisting(k, v) PROVE Told
    BY <2>3 DEF SetExisting, CacheInv, CacheTypeOK
  <2>4. ASSUME NEW k \in Key, NEW v \in Value, SetNew(k, v) PROVE Told
    BY <2>4 DEF SetNew, Cached, CacheInv, CacheTypeOK
  <2>5. ASSUME NEW k \in Key, NEW v \in Value, NEW skip \in BOOLEAN,
               NEW upd \in BOOLEAN, Set(k, v, skip, upd)
        PROVE Told
    BY <2>3, <2>4, <2>5 DEF Set, lruVars
  <2> QED BY <2>1, <2>2, <2>5 DEF CacheNext
<1> QED BY <1>1, CacheConsistent, PTL DEF CacheSpec, NothingVanishes

-------------------------------------------------------------------------------
(* The cache is an LRU cache: list and map implement LRUSpec. *)

\* a stands before b in the list l.
Before(l, a, b) == \E j \in 1..Len(l) : \E i \in 1..(j - 1) : l[i] = a /\ l[j] = b

\* Taking an element out keeps the order of the others.
LEMMA UnlinkKeepsOrder ==
    ASSUME NEW S, NEW l \in Seq(S), NEW i \in 1..Len(l), NoRepeats(l), NEW a, NEW b
    PROVE  Before(Unlink(l, i), a, b) <=> Before(l, a, b) /\ a # l[i] /\ b # l[i]
<1> DEFINE u == Unlink(l, i)
<1>1. /\ Len(l) \in Nat
      /\ Len(u) = Len(l) - 1
      /\ \A j \in 1..(Len(l) - 1) : u[j] = IF j < i THEN l[j] ELSE l[j + 1]
  BY UnlinkShape
<1> HIDE DEF u
<1>2. ASSUME Before(u, a, b) PROVE Before(l, a, b) /\ a # l[i] /\ b # l[i]
  <2>a. PICK n \in 1..Len(u) : \E m \in 1..(n - 1) : u[m] = a /\ u[n] = b
    BY <1>2 DEF Before
  <2>1. PICK m \in 1..(n - 1) : u[m] = a /\ u[n] = b
    BY <2>a
  <2>2. PICK x \in 1..Len(l) : x = IF m < i THEN m ELSE m + 1
    BY <1>1
  <2>3. PICK y \in 1..Len(l) : y = IF n < i THEN n ELSE n + 1
    BY <1>1
  <2>4. l[x] = a /\ l[y] = b /\ x < y /\ x # i /\ y # i
    BY <1>1, <2>1, <2>2, <2>3
  <2>5. Before(l, a, b)
    BY <2>4 DEF Before
  <2> QED BY <2>4, <2>5 DEF NoRepeats
<1>3. ASSUME Before(l, a, b), a # l[i], b # l[i] PROVE Before(u, a, b)
  <2>a. PICK n \in 1..Len(l) : \E m \in 1..(n - 1) : l[m] = a /\ l[n] = b
    BY <1>3 DEF Before
  <2>1. PICK m \in 1..(n - 1) : l[m] = a /\ l[n] = b
    BY <2>a
  <2>2. m \in 1..Len(l) /\ m # i /\ n # i
    BY <1>1, <1>3, <2>1
  <2>3. PICK x \in 1..Len(u) : x = IF m < i THEN m ELSE m - 1
    BY <1>1, <2>1, <2>2
  <2>4. PICK y \in 1..Len(u) : y = IF n < i THEN n ELSE n - 1
    BY <1>1, <2>1, <2>2
  <2>5. x < y
    BY <2>1, <2>2, <2>3, <2>4
  <2>6. IF x < i THEN x = m ELSE x + 1 = m
    BY <2>1, <2>2, <2>3
  <2>7. IF y < i THEN y = n ELSE y + 1 = n
    BY <2>1, <2>2, <2>4
  <2>8. u[x] = a
    BY <1>1, <2>1, <2>6
  <2>9. u[y] = b
    BY <1>1, <2>1, <2>7
  <2>10. x \in 1..(y - 1)
    BY <1>1, <2>3, <2>4, <2>5
  <2> QED BY <2>8, <2>9, <2>10 DEF Before
<1> QED BY <1>2, <1>3 DEF u

\* A new first element stands before all others.
LEMMA PushFrontOrder ==
    ASSUME NEW S, NEW l \in Seq(S), NEW k \in S, NEW a, NEW b
    PROVE  Before(PushFront(l, k), a, b) <=> Before(l, a, b) \/ (a = k /\ InList(l, b))
<1> DEFINE p == PushFront(l, k)
<1>1. /\ Len(l) \in Nat
      /\ Len(p) = Len(l) + 1
      /\ p[1] = k
      /\ \A j \in 2..(Len(l) + 1) : p[j] = l[j - 1]
  BY DEF PushFront
<1> HIDE DEF p
<1>2. ASSUME Before(p, a, b) PROVE Before(l, a, b) \/ (a = k /\ InList(l, b))
  <2>a. PICK n \in 1..Len(p) : \E m \in 1..(n - 1) : p[m] = a /\ p[n] = b
    BY <1>2 DEF Before
  <2>1. PICK m \in 1..(n - 1) : p[m] = a /\ p[n] = b
    BY <2>a
  <2>2. PICK y \in 1..Len(l) : y = n - 1
    BY <1>1, <2>1
  <2>3. l[y] = b
    BY <1>1, <2>1, <2>2
  <2>4. CASE m = 1
    BY <1>1, <2>1, <2>3, <2>4 DEF InList
  <2>5. CASE m # 1
    <3>1. PICK x \in 1..(y - 1) : x = m - 1
      BY <2>1, <2>2, <2>5
    <3>2. l[x] = a
      BY <1>1, <2>1, <2>5, <3>1
    <3> QED BY <2>3, <3>2 DEF Before
  <2> QED BY <2>4, <2>5
<1>3. ASSUME Before(l, a, b) PROVE Before(p, a, b)
  <2>a. PICK n \in 1..Len(l) : \E m \in 1..(n - 1) : l[m] = a /\ l[n] = b
    BY <1>3 DEF Before
  <2>1. PICK m \in 1..(n - 1) : l[m] = a /\ l[n] = b
    BY <2>a
  <2>2. PICK x, y \in 1..Len(p) : x = m + 1 /\ y = n + 1
    BY <1>1, <2>1
  <2>3. p[x] = a /\ p[y] = b /\ x \in 1..(y - 1)
    BY <1>1, <2>1, <2>2
  <2> QED BY <2>3 DEF Before
<1>4. ASSUME a = k, InList(l, b) PROVE Before(p, a, b)
  <2>1. PICK n \in 1..Len(l) : l[n] = b
    BY <1>4 DEF InList
  <2>2. PICK y \in 1..Len(p) : y = n + 1
    BY <1>1, <2>1
  <2>3. p[1] = a /\ p[y] = b /\ 1 \in 1..(y - 1)
    BY <1>1, <1>4, <2>1, <2>2
  <2> QED BY <2>3 DEF Before
<1> QED BY <1>2, <1>3, <1>4 DEF p

\* What moves to the front stands before all others, which keep their order.
LEMMA MoveToFrontOrder ==
    ASSUME NEW S, NEW l \in Seq(S), NEW k \in S, NoRepeats(l), InList(l, k), NEW a, NEW b
    PROVE  Before(MoveToFront(l, k), a, b)
              <=> \/ Before(l, a, b) /\ a # k /\ b # k
                  \/ a = k /\ b # k /\ InList(l, b)
<1> DEFINE r == ListRemove(l, k)
<1>1. Position(l, k) \in 1..Len(l) /\ l[Position(l, k)] = k
  BY PositionFinds
<1>2. /\ r \in Seq(S)
      /\ Before(r, a, b) <=> Before(l, a, b) /\ a # k /\ b # k
      /\ InList(r, b) <=> InList(l, b) /\ b # k
  BY <1>1, UnlinkShape, UnlinkRemovesOne, UnlinkKeepsOrder DEF ListRemove
<1> HIDE DEF r
<1>3. Before(PushFront(r, k), a, b) <=> Before(r, a, b) \/ (a = k /\ InList(r, b))
  BY <1>2, PushFrontOrder
<1>4. MoveToFront(l, k) = PushFront(r, k)
  BY DEF MoveToFront, r
<1> QED BY <1>2, <1>3, <1>4

\* The order of the refinement, list by list.
LEMMA NewerPairsForm ==
    ASSUME NEW a, NEW b
    PROVE  <<a, b>> \in NewerPairs
              <=> a \in Key /\ b \in Key /\ \E s \in Shard : Before(lru[s], a, b)
BY DEF NewerPairs, Before

\* The same for the next state.
LEMMA NewerPairsFormPrime ==
    ASSUME NEW a, NEW b
    PROVE  <<a, b>> \in NewerPairs'
              <=> a \in Key /\ b \in Key /\ \E s \in Shard : Before(lru'[s], a, b)
BY DEF NewerPairs, Before

\* LRUSpec counts as LRUCache does.
LEMMA SameCardinality ==
    ASSUME NEW S
    PROVE  Abstract!Cardinality(S) = Cardinality(S)
BY DEF Abstract!Cardinality, Cardinality

\* A shard's list has one element for every key that is cached in the shard.
LEMMA ListCountsKeys ==
    ASSUME CacheInv, NEW k \in Key, ~Cached(k)
    PROVE  Abstract!Cardinality(Abstract!Neighbours(k)) = Len(lru[ShardOf[k]])
<1> DEFINE l == lru[ShardOf[k]]
           N == Abstract!Neighbours(k)
<1>1. /\ l \in Seq(Key) /\ NoRepeats(l) /\ Len(l) \in Nat
      /\ \A j \in Key : InList(l, j) <=> ShardOf[j] = ShardOf[k] /\ items[j] # NoValue
  BY ListOfKey, IndexConsistentForm, LRUAssumption DEF CacheInv
<1>2. \A j : j \in N <=> j \in Key /\ InList(l, j)
  BY <1>1 DEF Abstract!Neighbours, Abstract!Present, Cached
<1> HIDE DEF l, N
<1>3. [i \in 1..Len(l) |-> l[i]] \in Bijection(1..Len(l), N)
  <2> DEFINE f == [i \in 1..Len(l) |-> l[i]]
  <2>1. f \in [1..Len(l) -> N]
    BY <1>1, <1>2 DEF InList
  <2>2. \A x, y \in 1..Len(l) : f[x] = f[y] => x = y
    BY <1>1 DEF NoRepeats
  <2>3. \A j \in N : \E i \in 1..Len(l) : f[i] = j
    BY <1>2 DEF InList
  <2> HIDE DEF f
  <2>4. f \in Injection(1..Len(l), N)
    BY <2>1, <2>2 DEF Injection, IsInjective
  <2>5. f \in Surjection(1..Len(l), N)
    BY <2>1, <2>3 DEF Surjection
  <2> QED BY <2>4, <2>5 DEF Bijection, f
<1>4. ExistsBijection(1..Len(l), N)
  BY <1>3 DEF ExistsBijection
<1> QED BY <1>1, <1>4, FS_CountingElements, SameCardinality DEF l, N

\* Who stands before another is in the list, and so is the other.
LEMMA BeforeIsInList ==
    ASSUME NEW S, NEW l \in Seq(S), NEW a, NEW b, Before(l, a, b)
    PROVE  InList(l, a) /\ InList(l, b)
<1>1. PICK n \in 1..Len(l) : \E m \in 1..(n - 1) : l[m] = a /\ l[n] = b
  BY DEF Before
<1>2. PICK m \in 1..(n - 1) : l[m] = a /\ l[n] = b
  BY <1>1
<1>3. m \in 1..Len(l)
  BY <1>1, <1>2
<1> QED BY <1>2, <1>3 DEF InList

\* The pairs of another shard than t.
Elsewhere(t, a, b) == \E s \in Shard : s # t /\ Before(lru[s], a, b)

\* What a change of one shard's list does to the order.
LEMMA OneListChanges ==
    ASSUME CacheInv, NEW t \in Shard, NEW m, lru' = [lru EXCEPT ![t] = m],
           NEW a \in Key, NEW b \in Key
    PROVE  /\ <<a, b>> \in NewerPairs <=> Before(lru[t], a, b) \/ Elsewhere(t, a, b)
           /\ <<a, b>> \in NewerPairs' <=> Before(m, a, b) \/ Elsewhere(t, a, b)
<1>1. lru'[t] = m /\ \A s \in Shard : s # t => lru'[s] = lru[s]
  BY DEF CacheInv, CacheTypeOK
<1>2. <<a, b>> \in NewerPairs <=> \E s \in Shard : Before(lru[s], a, b)
  BY NewerPairsForm
<1>3. <<a, b>> \in NewerPairs' <=> \E s \in Shard : Before(lru'[s], a, b)
  BY NewerPairsFormPrime
<1>4. <<a, b>> \in NewerPairs <=> Before(lru[t], a, b) \/ Elsewhere(t, a, b)
  BY <1>2 DEF Elsewhere
<1>5. <<a, b>> \in NewerPairs' <=> Before(m, a, b) \/ Elsewhere(t, a, b)
  BY <1>1, <1>3 DEF Elsewhere
<1> QED BY <1>4, <1>5

\* A key is in no other list than that of its shard.
LEMMA NotElsewhere ==
    ASSUME CacheInv, NEW a \in Key, NEW b \in Key, NEW t, Elsewhere(t, a, b)
    PROVE  ShardOf[a] # t /\ ShardOf[b] # t
<1>1. PICK s \in Shard : s # t /\ Before(lru[s], a, b)
  BY DEF Elsewhere
<1>2. InList(lru[s], a) /\ InList(lru[s], b)
  BY <1>1, BeforeIsInList DEF CacheInv, CacheTypeOK
<1> QED BY <1>1, <1>2, IndexConsistentForm DEF CacheInv

\* Sets of pairs of keys are equal when they have the same pairs.
LEMMA SamePairs ==
    ASSUME NEW R, NEW Q, R \subseteq Key \X Key, Q \subseteq Key \X Key,
           \A a, b \in Key : <<a, b>> \in R <=> <<a, b>> \in Q
    PROVE  R = Q
OBVIOUS

\* The order is a set of pairs of keys, in every state.
LEMMA PairsOfKeys ==
    NewerPairs \subseteq Key \X Key /\ NewerPairs' \subseteq Key \X Key
BY DEF NewerPairs

\* What Refresh and Forget make of the order, pair by pair.
LEMMA RefreshForm ==
    ASSUME NEW k \in Key, NEW R, R \subseteq Key \X Key
    PROVE  /\ Abstract!Refresh(k, R) \subseteq Key \X Key
           /\ Abstract!Forget(k, R) \subseteq Key \X Key
           /\ \A a, b : <<a, b>> \in Abstract!Forget(k, R)
                           <=> <<a, b>> \in R /\ a # k /\ b # k
           /\ \A a, b : <<a, b>> \in Abstract!Refresh(k, R)
                           <=> \/ <<a, b>> \in R /\ a # k /\ b # k
                               \/ a = k /\ b \in Abstract!Neighbours(k)
<1>1. Abstract!Neighbours(k) \subseteq Key
  BY DEF Abstract!Neighbours
<1> QED BY <1>1 DEF Abstract!Refresh, Abstract!Forget

\* The neighbours of a key are the others in its list.
LEMMA NeighboursForm ==
    ASSUME CacheInv, NEW k \in Key, NEW j \in Key
    PROVE  j \in Abstract!Neighbours(k) <=> j # k /\ InList(lru[ShardOf[k]], j)
BY IndexConsistentForm, LRUAssumption DEF CacheInv, Abstract!Neighbours, Abstract!Present

\* Moving a cached key to the front of its list refreshes it.
LEMMA MoveRefreshes ==
    ASSUME CacheInv, NEW k \in Key, Cached(k),
           lru' = [lru EXCEPT ![ShardOf[k]] = MoveToFront(@, k)]
    PROVE  NewerPairs' = Abstract!Refresh(k, NewerPairs)
<1> DEFINE t == ShardOf[k]
           l == lru[t]
<1>1. t \in Shard /\ l \in Seq(Key) /\ NoRepeats(l) /\ InList(l, k)
  BY ListOfKey DEF Cached
<1>2. lru' = [lru EXCEPT ![t] = MoveToFront(l, k)]
  OBVIOUS
<1>3. ASSUME NEW a \in Key, NEW b \in Key
      PROVE  <<a, b>> \in NewerPairs' <=> <<a, b>> \in Abstract!Refresh(k, NewerPairs)
  <2>1. Before(MoveToFront(l, k), a, b) <=> \/ Before(l, a, b) /\ a # k /\ b # k
                                            \/ a = k /\ b # k /\ InList(l, b)
    BY <1>1, MoveToFrontOrder
  <2>2. /\ <<a, b>> \in NewerPairs <=> Before(l, a, b) \/ Elsewhere(t, a, b)
        /\ <<a, b>> \in NewerPairs' <=> Before(MoveToFront(l, k), a, b) \/ Elsewhere(t, a, b)
    BY <1>1, <1>2, OneListChanges
  <2>3. Elsewhere(t, a, b) => a # k /\ b # k
    BY NotElsewhere
  <2>4. b \in Abstract!Neighbours(k) <=> b # k /\ InList(l, b)
    BY NeighboursForm
  <2> QED BY <2>1, <2>2, <2>3, <2>4, RefreshForm, PairsOfKeys
<1> QED BY <1>3, SamePairs, RefreshForm, PairsOfKeys

\* Pushing a new key to the front makes it the most recent one.
LEMMA PushRefreshes ==
    ASSUME CacheInv, NEW k \in Key, ~Cached(k),
           lru' = [lru EXCEPT ![ShardOf[k]] = PushFront(@, k)]
    PROVE  NewerPairs' = Abstract!Refresh(k, NewerPairs)
<1> DEFINE t == ShardOf[k]
           l == lru[t]
<1>1. t \in Shard /\ l \in Seq(Key) /\ NoRepeats(l) /\ ~InList(l, k)
  BY ListOfKey DEF Cached
<1>2. lru' = [lru EXCEPT ![t] = PushFront(l, k)]
  OBVIOUS
<1>3. ASSUME NEW a \in Key, NEW b \in Key
      PROVE  <<a, b>> \in NewerPairs' <=> <<a, b>> \in Abstract!Refresh(k, NewerPairs)
  <2>1. Before(PushFront(l, k), a, b) <=> Before(l, a, b) \/ (a = k /\ InList(l, b))
    BY <1>1, PushFrontOrder
  <2>2. /\ <<a, b>> \in NewerPairs <=> Before(l, a, b) \/ Elsewhere(t, a, b)
        /\ <<a, b>> \in NewerPairs' <=> Before(PushFront(l, k), a, b) \/ Elsewhere(t, a, b)
    BY <1>1, <1>2, OneListChanges
  <2>3. Elsewhere(t, a, b) => a # k /\ b # k
    BY NotElsewhere
  <2>4. Before(l, a, b) => a # k /\ b # k
    BY <1>1, BeforeIsInList
  <2>5. b \in Abstract!Neighbours(k) <=> b # k /\ InList(l, b)
    BY NeighboursForm
  <2>6. InList(l, b) => b # k
    BY <1>1
  <2> QED BY <2>1, <2>2, <2>3, <2>4, <2>5, <2>6, RefreshForm, PairsOfKeys
<1> QED BY <1>3, SamePairs, RefreshForm, PairsOfKeys

\* Removing a cached key from its list forgets it.
LEMMA RemoveForgets ==
    ASSUME CacheInv, NEW k \in Key, Cached(k),
           lru' = [lru EXCEPT ![ShardOf[k]] = ListRemove(@, k)]
    PROVE  NewerPairs' = Abstract!Forget(k, NewerPairs)
<1> DEFINE t == ShardOf[k]
           l == lru[t]
<1>1. t \in Shard /\ l \in Seq(Key) /\ NoRepeats(l) /\ InList(l, k)
  BY ListOfKey DEF Cached
<1>2. lru' = [lru EXCEPT ![t] = ListRemove(l, k)]
  OBVIOUS
<1>3. ASSUME NEW a \in Key, NEW b \in Key
      PROVE  <<a, b>> \in NewerPairs' <=> <<a, b>> \in Abstract!Forget(k, NewerPairs)
  <2>1. Before(ListRemove(l, k), a, b) <=> Before(l, a, b) /\ a # k /\ b # k
    BY <1>1, PositionFinds, UnlinkKeepsOrder DEF ListRemove
  <2>2. /\ <<a, b>> \in NewerPairs <=> Before(l, a, b) \/ Elsewhere(t, a, b)
        /\ <<a, b>> \in NewerPairs' <=> Before(ListRemove(l, k), a, b) \/ Elsewhere(t, a, b)
    BY <1>1, <1>2, OneListChanges
  <2>3. Elsewhere(t, a, b) => a # k /\ b # k
    BY NotElsewhere
  <2> QED BY <2>1, <2>2, <2>3, RefreshForm, PairsOfKeys
<1>4. NewerPairs' \subseteq Key \X Key /\ Abstract!Forget(k, NewerPairs) \subseteq Key \X Key
  BY RefreshForm, PairsOfKeys
<1> QED BY <1>3, <1>4, SamePairs

\* Pushing a new key and dropping the tail makes the new key the most recent one
\* and forgets the key that is older than all its neighbours.
LEMMA PushEvicts ==
    ASSUME CacheInv, NEW k \in Key, ~Cached(k),
           Len(PushFront(lru[ShardOf[k]], k)) > Capacity,
           NEW tail, tail = Back(PushFront(lru[ShardOf[k]], k)),
           lru' = [lru EXCEPT ![ShardOf[k]] = RemoveBack(PushFront(lru[ShardOf[k]], k))]
    PROVE  /\ tail \in Abstract!Neighbours(k)
           /\ \A j \in Abstract!Neighbours(k) : <<tail, j>> \notin NewerPairs
           /\ NewerPairs' = Abstract!Forget(tail, Abstract!Refresh(k, NewerPairs))
<1> DEFINE t == ShardOf[k]
           l == lru[t]
           p == PushFront(l, k)
           m == RemoveBack(p)
<1>1. t \in Shard /\ l \in Seq(Key) /\ NoRepeats(l) /\ ~InList(l, k) /\ Len(l) \in Nat
  BY ListOfKey DEF Cached
<1>2. /\ p \in Seq(Key) /\ Len(p) = Len(l) + 1 /\ NoRepeats(p)
  BY <1>1, PushFrontAddsOne
<1>3. /\ tail \in Key /\ tail # k /\ ShardOf[tail] = t /\ items[tail] # NoValue
  BY EvictedTail DEF Cached
<1>4. tail \in Abstract!Neighbours(k)
  BY <1>3 DEF Abstract!Neighbours, Abstract!Present
<1>5. tail = p[Len(p)] /\ Len(p) \in 1..Len(p) /\ m = Unlink(p, Len(p))
  BY <1>1, <1>2 DEF Back, RemoveBack
<1>6. ASSUME NEW j \in Key PROVE ~Before(p, tail, j)
  <2> SUFFICES ASSUME Before(p, tail, j) PROVE FALSE
    OBVIOUS
  <2> HIDE DEF p
  <2>1. PICK y \in 1..Len(p) : \E x \in 1..(y - 1) : p[x] = tail /\ p[y] = j
    BY DEF Before
  <2>2. PICK x \in 1..(y - 1) : p[x] = tail
    BY <2>1
  <2>3. x \in 1..Len(p) /\ x # Len(p)
    BY <1>1, <1>2, <2>1, <2>2
  <2> QED BY <1>5, <2>2, <2>3, <1>2 DEF NoRepeats
<1>7. lru' = [lru EXCEPT ![t] = m]
  OBVIOUS
<1>8. ASSUME NEW a \in Key, NEW b \in Key
      PROVE  /\ Before(p, a, b) <=> Before(l, a, b) \/ (a = k /\ InList(l, b))
             /\ Before(m, a, b) <=> Before(p, a, b) /\ a # tail /\ b # tail
  <2>1. Before(p, a, b) <=> Before(l, a, b) \/ (a = k /\ InList(l, b))
    BY <1>1, PushFrontOrder
  <2> HIDE DEF p, m
  <2>2. Before(Unlink(p, Len(p)), a, b) <=> Before(p, a, b) /\ a # p[Len(p)] /\ b # p[Len(p)]
    BY <1>2, <1>5, UnlinkKeepsOrder
  <2> QED BY <2>1, <2>2, <1>5
<1>9. ASSUME NEW a \in Key, NEW b \in Key
      PROVE  /\ <<a, b>> \in NewerPairs <=> Before(l, a, b) \/ Elsewhere(t, a, b)
             /\ <<a, b>> \in NewerPairs' <=> Before(m, a, b) \/ Elsewhere(t, a, b)
             /\ Elsewhere(t, a, b) => a \notin {k, tail} /\ b \notin {k, tail}
             /\ Before(l, a, b) => a # k /\ b # k
             /\ b \in Abstract!Neighbours(k) <=> b # k /\ InList(l, b)
  <2>1. /\ <<a, b>> \in NewerPairs <=> Before(l, a, b) \/ Elsewhere(t, a, b)
        /\ <<a, b>> \in NewerPairs' <=> Before(m, a, b) \/ Elsewhere(t, a, b)
    BY <1>1, <1>7, OneListChanges
  <2>2. Elsewhere(t, a, b) => a \notin {k, tail} /\ b \notin {k, tail}
    BY <1>3, NotElsewhere
  <2>3. Before(l, a, b) => a # k /\ b # k
    BY <1>1, BeforeIsInList
  <2>4. b \in Abstract!Neighbours(k) <=> b # k /\ InList(l, b)
    BY NeighboursForm
  <2> QED BY <2>1, <2>2, <2>3, <2>4
<1> HIDE DEF t, l, p, m
<1>10. ASSUME NEW j \in Abstract!Neighbours(k) PROVE <<tail, j>> \notin NewerPairs
  <2>1. j \in Key
    BY DEF Abstract!Neighbours
  <2> QED BY <2>1, <1>3, <1>6, <1>8, <1>9
<1> DEFINE R == Abstract!Refresh(k, NewerPairs)
<1>11. R \subseteq Key \X Key
  BY RefreshForm, PairsOfKeys
<1>12. ASSUME NEW a \in Key, NEW b \in Key
       PROVE  <<a, b>> \in NewerPairs' <=> <<a, b>> \in Abstract!Forget(tail, R)
  <2>1. <<a, b>> \in R <=> \/ <<a, b>> \in NewerPairs /\ a # k /\ b # k
                           \/ a = k /\ b \in Abstract!Neighbours(k)
    BY RefreshForm, PairsOfKeys
  <2> HIDE DEF R
  <2>2. <<a, b>> \in Abstract!Forget(tail, R) <=> <<a, b>> \in R /\ a # tail /\ b # tail
    BY <1>3, <1>11, RefreshForm
  <2>3. InList(l, b) => b # k
    BY <1>1
  <2> QED BY <1>8, <1>9, <2>1, <2>2, <2>3
<1>13. NewerPairs' \subseteq Key \X Key /\ Abstract!Forget(tail, R) \subseteq Key \X Key
  BY <1>3, <1>11, RefreshForm, PairsOfKeys
<1>14. NewerPairs' = Abstract!Forget(tail, R)
  BY <1>12, <1>13, SamePairs
<1> QED BY <1>4, <1>10, <1>14

\* When nothing changes in the lists, nothing changes in their order.
LEMMA SameListsSameOrder == UNCHANGED lru => UNCHANGED NewerPairs
BY DEF NewerPairs

\* A step of Get is a use of the key, or changes nothing.
LEMMA GetIsUse ==
    ASSUME CacheInv, NEW k \in Key, Get(k)
    PROVE  [Abstract!SpecNext]_(Abstract!specVars)
<1>1. CASE Cached(k)
  <2>1. NewerPairs' = Abstract!Refresh(k, NewerPairs)
    BY <1>1, MoveRefreshes DEF Get
  <2>2. Abstract!SpecUse(k)
    BY <1>1, <2>1 DEF Get, Cached, Abstract!SpecUse, Abstract!Present
  <2> QED BY <2>2 DEF Abstract!SpecNext
<1>2. CASE ~Cached(k)
  BY <1>2, SameListsSameOrder DEF Get, Abstract!specVars
<1> QED BY <1>1, <1>2

\* A step of Delete removes the key, or changes nothing.
LEMMA DeleteIsRemove ==
    ASSUME CacheInv, NEW k \in Key, Delete(k)
    PROVE  [Abstract!SpecNext]_(Abstract!specVars)
<1>1. CASE Cached(k)
  <2>1. NewerPairs' = Abstract!Forget(k, NewerPairs)
    BY <1>1, RemoveForgets DEF Delete
  <2>2. Abstract!SpecRemove(k)
    BY <1>1, <2>1 DEF Delete, Cached, Abstract!SpecRemove, Abstract!Present
  <2> QED BY <2>2 DEF Abstract!SpecNext
<1>2. CASE ~Cached(k)
  BY <1>2, SameListsSameOrder DEF Delete, lruVars, Abstract!specVars
<1> QED BY <1>1, <1>2

\* A step of Set replaces the value, inserts the key with or without an eviction,
\* or changes nothing.
LEMMA SetIsInsert ==
    ASSUME CacheInv, NEW k \in Key, NEW v \in Value, NEW skip, NEW upd, Set(k, v, skip, upd)
    PROVE  [Abstract!SpecNext]_(Abstract!specVars)
<1>1. CASE SetRefused(k, skip, upd)
  BY <1>1, SameListsSameOrder DEF Set, lruVars, Abstract!specVars
<1>2. CASE SetExisting(k, v)
  <2>1. NewerPairs' = Abstract!Refresh(k, NewerPairs)
    BY <1>2, MoveRefreshes DEF SetExisting
  <2>2. Abstract!SpecReplace(k, v)
    BY <1>2, <2>1 DEF SetExisting, Cached, Abstract!SpecReplace, Abstract!Present
  <2> QED BY <2>2 DEF Abstract!SpecNext
<1>3. CASE SetNew(k, v)
  <2> DEFINE p == PushFront(lru[ShardOf[k]], k)
  <2>1. ~Cached(k)
    BY <1>3 DEF SetNew
  <2>2. /\ Len(lru[ShardOf[k]]) \in Nat /\ Len(lru[ShardOf[k]]) <= Capacity
        /\ Len(p) = Len(lru[ShardOf[k]]) + 1
    BY <2>1, ListOfKey, PushFrontAddsOne DEF Cached, CacheInv, WithinCapacity
  <2>3. Abstract!Cardinality(Abstract!Neighbours(k)) = Len(lru[ShardOf[k]])
    BY <2>1, ListCountsKeys
  <2>4. ~Abstract!Present(k)
    BY <2>1 DEF Cached, Abstract!Present
  <2>5. CASE Len(p) > Capacity
    <3>1. PICK tail : tail = Back(p)
      OBVIOUS
    <3>2. /\ lru' = [lru EXCEPT ![ShardOf[k]] = RemoveBack(p)]
          /\ items' = [items EXCEPT ![k] = v, ![tail] = NoValue]
      BY <1>3, <2>5, <3>1 DEF SetNew
    <3>3. /\ tail \in Abstract!Neighbours(k)
          /\ \A j \in Abstract!Neighbours(k) : <<tail, j>> \notin NewerPairs
          /\ NewerPairs' = Abstract!Forget(tail, Abstract!Refresh(k, NewerPairs))
      BY <2>1, <2>5, <3>1, <3>2, PushEvicts
    <3>4. Abstract!Cardinality(Abstract!Neighbours(k)) = Capacity
      BY <2>2, <2>3, <2>5, LRUAssumption
    <3> HIDE DEF p
    <3>5. Abstract!SpecInsertEvicting(k, v)
      BY <2>4, <3>2, <3>3, <3>4 DEF Abstract!SpecInsertEvicting
    <3> QED BY <3>5 DEF Abstract!SpecNext
  <2>6. CASE ~(Len(p) > Capacity)
    <3>1. /\ lru' = [lru EXCEPT ![ShardOf[k]] = p]
          /\ items' = [items EXCEPT ![k] = v]
      BY <1>3, <2>6 DEF SetNew
    <3>2. NewerPairs' = Abstract!Refresh(k, NewerPairs)
      BY <2>1, <3>1, PushRefreshes
    <3>3. Abstract!Cardinality(Abstract!Neighbours(k)) < Capacity
      BY <2>2, <2>3, <2>6, LRUAssumption
    <3> HIDE DEF p
    <3>4. Abstract!SpecInsert(k, v)
      BY <2>4, <3>1, <3>2, <3>3 DEF Abstract!SpecInsert
    <3> QED BY <3>4 DEF Abstract!SpecNext
  <2> QED BY <2>5, <2>6
<1> QED BY <1>1, <1>2, <1>3 DEF Set

\* A new cache is an empty one.
LEMMA NewIsEmpty == NewLRUCache => Abstract!SpecInit
<1> SUFFICES ASSUME NewLRUCache PROVE items = [k \in Key |-> NoValue] /\ NewerPairs = {}
  BY DEF Abstract!SpecInit
<1>1. \A s \in Shard : Len(lru[s]) = 0
  BY DEF NewLRUCache
<1> QED BY <1>1 DEF NewLRUCache, NewerPairs

\* Whatever calls are made, the lists and the map behave as an LRU cache: hits and
\* updates refresh a key, and a full shard gives up the key used longest ago.
THEOREM CacheImplementsLRU == CacheSpec => ImplementsLRU
<1>1. CacheInv /\ [CacheNext]_lruVars => [Abstract!SpecNext]_(Abstract!specVars)
  <2> SUFFICES ASSUME CacheInv, [CacheNext]_lruVars
               PROVE  [Abstract!SpecNext]_(Abstract!specVars)
    OBVIOUS
  <2>1. CASE UNCHANGED lruVars
    BY <2>1, SameListsSameOrder DEF lruVars, Abstract!specVars
  <2> QED BY <2>1, GetIsUse, DeleteIsRemove, SetIsInsert DEF CacheNext
<1> QED BY <1>1, NewIsEmpty, CacheConsistent, PTL
        DEF CacheSpec, ImplementsLRU, Abstract!LRUBehaviour
==============================================================================
