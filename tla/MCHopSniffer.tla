----------------------------- MODULE MCHopSniffer -----------------------------
(* An IPv4 and an IPv6 destination and a host of the local network compete for *)
(* a shard with room for two.                                                *)
EXTENDS HopSniffer

CONSTANT s1

MCShardOf == [h \in Key |-> s1]
===============================================================================
