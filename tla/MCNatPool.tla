------------------------------ MODULE MCNatPool ------------------------------
(* All keys share one shard: that is where sessions compete. *)
EXTENDS NatPool, TLC

CONSTANT s1

MCShardOf == [k \in Key |-> s1]

Symmetry == Permutations(Key) \cup Permutations(Value) \cup Permutations(Assoc)
==============================================================================
