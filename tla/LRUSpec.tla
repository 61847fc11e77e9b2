------------------------------- MODULE LRUSpec -------------------------------
(***************************************************************************)
(* What a sharded least-recently-used cache promises, without lists: a     *)
(* partial map, a strict recency order on the keys that share a shard, and *)
(* a room limit per shard.  A new key that finds its shard full pushes out *)
(* the one key that no other key of the shard is older than.               *)
(***************************************************************************)
EXTENDS Naturals, FiniteSets

CONSTANTS Key, Value, NoValue, Shard, ShardOf, Capacity

VARIABLES content,  \* [Key -> Value or NoValue]
          newer     \* pairs <<j, k>>: j was used after k

specVars == <<content, newer>>

Present(k) == content[k] # NoValue

Neighbours(k) == {j \in Key : j # k /\ Present(j) /\ ShardOf[j] = ShardOf[k]}

Forget(k, order) == {p \in order : p[1] # k /\ p[2] # k}

\* k becomes the most recent key of its shard.
Refresh(k, order) == Forget(k, order) \cup {<<k, j>> : j \in Neighbours(k)}

SpecInit == /\ content = [k \in Key |-> NoValue]
            /\ newer = {}

SpecUse(k) ==
    /\ Present(k)
    /\ newer' = Refresh(k, newer)
    /\ UNCHANGED content

SpecReplace(k, v) ==
    /\ Present(k)
    /\ content' = [content EXCEPT ![k] = v]
    /\ newer' = Refresh(k, newer)

SpecInsert(k, v) ==
    /\ ~Present(k)
    /\ Cardinality(Neighbours(k)) < Capacity
    /\ content' = [content EXCEPT ![k] = v]
    /\ newer' = Refresh(k, newer)

SpecInsertEvicting(k, v) ==
    /\ ~Present(k)
    /\ Cardinality(Neighbours(k)) = Capacity
    /\ \E victim \in Neighbours(k) :
         /\ \A j \in Neighbours(k) : <<victim, j>> \notin newer
         /\ content' = [content EXCEPT ![k] = v, ![victim] = NoValue]
         /\ newer' = Forget(victim, Refresh(k, newer))

SpecRemove(k) ==
    /\ Present(k)
    /\ content' = [content EXCEPT ![k] = NoValue]
    /\ newer' = Forget(k, newer)

SpecNext ==
    \E k \in Key :
        \/ SpecUse(k)
        \/ SpecRemove(k)
        \/ \E v \in Value : \/ SpecReplace(k, v)
                            \/ SpecInsert(k, v)
                            \/ SpecInsertEvicting(k, v)

LRUBehaviour == SpecInit /\ [][SpecNext]_specVars
==============================================================================
