------------------------------- MODULE LRUCache -------------------------------
(***************************************************************************)
(* internal/cache/lru_cache.go: the sharded LRU cache that holds the UDP   *)
(* NAT sessions of the SOCKS5 proxy and the hop counts of the sniffers.    *)
(*                                                                         *)
(* Every method takes the mutex of the key's shard for its whole body, the *)
(* onInvalidate callback included, so a call is one step.  The hash of the *)
(* key is abstracted to the constant function ShardOf; the `items' maps of *)
(* all shards together are one partial map, because a key only ever lives  *)
(* in its own shard.                                                       *)
(***************************************************************************)
EXTENDS Naturals, Sequences, FiniteSets

CONSTANTS Key,       \* cache keys
          Value,     \* cached values
          NoValue,   \* "no entry": the missing element of the Go map
          Shard,     \* shards, each with its own mutex
          ShardOf,   \* the shard a key hashes to
          Capacity   \* capPerShard

ASSUME LRUAssumption ==
    /\ NoValue \notin Value
    /\ ShardOf \in [Key -> Shard]
    /\ Capacity \in Nat \ {0}

VARIABLES items,       \* [Key -> Value or NoValue]: shard.items
          lru,         \* [Shard -> Seq(Key)]: shard.list, most recent first
          invalidated  \* values handed to onInvalidate so far

lruVars == <<items, lru, invalidated>>

-------------------------------------------------------------------------------
(* container/list, reduced to what the cache uses. *)

Position(l, k) == CHOOSE i \in 1..Len(l) : l[i] = k

Unlink(l, i) == [j \in 1..(Len(l) - 1) |-> IF j < i THEN l[j] ELSE l[j + 1]]

ListRemove(l, k) == Unlink(l, Position(l, k))

PushFront(l, k) == <<k>> \o l

MoveToFront(l, k) == PushFront(ListRemove(l, k), k)

Back(l) == l[Len(l)]

RemoveBack(l) == Unlink(l, Len(l))

-------------------------------------------------------------------------------
Cached(k) == items[k] # NoValue

NewLRUCache ==
    /\ items = [k \in Key |-> NoValue]
    /\ lru = [s \in Shard |-> <<>>]
    /\ invalidated = {}

\* A hit moves the entry to the front of its shard's list.
Get(k) ==
    /\ lru' = IF Cached(k)
              THEN [lru EXCEPT ![ShardOf[k]] = MoveToFront(@, k)]
              ELSE lru
    /\ UNCHANGED <<items, invalidated>>

\* Variants a slip would produce are named Slip...; no specification uses them.
\* Slip: an update leaves the entry where it is in the list.
SlipSetInPlace(k, v) ==
    /\ Cached(k)
    /\ invalidated' = invalidated \cup {items[k]}
    /\ items' = [items EXCEPT ![k] = v]
    /\ UNCHANGED lru

\* The entry exists: the old value is invalidated, then replaced.
SetExisting(k, v) ==
    /\ Cached(k)
    /\ invalidated' = invalidated \cup {items[k]}
    /\ items' = [items EXCEPT ![k] = v]
    /\ lru' = [lru EXCEPT ![ShardOf[k]] = MoveToFront(@, k)]

\* A new entry; when the list outgrows the shard, its tail goes.
SetNew(k, v) ==
    LET s == ShardOf[k]
        pushed == PushFront(lru[s], k)
        tail == Back(pushed)
    IN  /\ ~Cached(k)
        /\ IF Len(pushed) > Capacity
           THEN /\ lru' = [lru EXCEPT ![s] = RemoveBack(pushed)]
                /\ items' = [items EXCEPT ![k] = v, ![tail] = NoValue]
                /\ invalidated' = invalidated \cup {items[tail]}
           ELSE /\ lru' = [lru EXCEPT ![s] = pushed]
                /\ items' = [items EXCEPT ![k] = v]
                /\ UNCHANGED invalidated

\* The two options make Set a no-op that returns false.
SetRefused(k, skipExisting, updateExistingOnly) ==
    \/ Cached(k) /\ skipExisting
    \/ ~Cached(k) /\ updateExistingOnly

Set(k, v, skipExisting, updateExistingOnly) ==
    IF SetRefused(k, skipExisting, updateExistingOnly)
    THEN UNCHANGED lruVars
    ELSE SetExisting(k, v) \/ SetNew(k, v)

Delete(k) ==
    IF Cached(k)
    THEN /\ invalidated' = invalidated \cup {items[k]}
         /\ items' = [items EXCEPT ![k] = NoValue]
         /\ lru' = [lru EXCEPT ![ShardOf[k]] = ListRemove(@, k)]
    ELSE UNCHANGED lruVars

CacheNext ==
    \E k \in Key :
        \/ Get(k)
        \/ Delete(k)
        \/ \E v \in Value, skip, upd \in BOOLEAN : Set(k, v, skip, upd)

CacheSpec == NewLRUCache /\ [][CacheNext]_lruVars

-------------------------------------------------------------------------------
(* Properties. *)

\* The variables keep the shapes of the Go fields they stand for.
CacheTypeOK ==
    /\ items \in [Key -> Value \cup {NoValue}]
    /\ lru \in [Shard -> Seq(Key)]
    /\ invalidated \subseteq Value

\* The map and the list of a shard are two views of the same entries: every
\* list element is in the map, every map entry is in the list, none twice
\* (lines 61-62, 97-98, 104-105 and 121-122 keep them in step by hand).
IndexConsistent ==
    \A s \in Shard :
        /\ \A i, j \in 1..Len(lru[s]) : lru[s][i] = lru[s][j] => i = j
        /\ \A k \in Key : (\E i \in 1..Len(lru[s]) : lru[s][i] = k)
                              <=> (ShardOf[k] = s /\ items[k] # NoValue)

\* No shard holds more entries than its capacity once a call has returned.
WithinCapacity == \A s \in Shard : Len(lru[s]) <= Capacity

\* A value leaves the cache only through onInvalidate: whoever stored it is
\* told exactly when it is gone (lines 88-90, 106-108, 123-125).
NothingVanishes ==
    [][\A k \in Key : items[k] # NoValue /\ items'[k] # items[k]
                          => items[k] \in invalidated']_lruVars

\* The order in the lists of all shards as a set of pairs, for the refinement.
NewerPairs ==
    {p \in Key \X Key :
        \E s \in Shard : \E j \in 1..Len(lru[s]) : \E i \in 1..(j - 1) :
            p = <<lru[s][i], lru[s][j]>>}

Abstract == INSTANCE LRUSpec WITH content <- items, newer <- NewerPairs

\* The list-and-map implementation behaves as the abstract LRU map: hits and
\* updates refresh a key, and a full shard gives up its least recent key.
ImplementsLRU == Abstract!LRUBehaviour
==============================================================================
