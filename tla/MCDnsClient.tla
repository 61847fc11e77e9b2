----------------------------- MODULE MCDnsClient -----------------------------
(* Calls for one domain: one asks for both record types over HTTPS or leaves it *)
(* to the system resolver, two ask for one type over UDP.  The IPv4 address    *)
(* belongs between the two reachable IPv6 addresses.                          *)
EXTENDS DnsClient

CONSTANTS s1, r1, r2, r3

MCShardOf == [k \in Key |-> s1]

MCAddress == {"v4", "ula", "teredo", "global"}

MCIP == [a \in MCAddress |-> [kind |-> a, prefix |-> <<0, 1>>]]

MCSource ==
    [a \in MCAddress |->
        CASE a = "ula" -> NoSource
          [] a = "v4"  -> [kind |-> "v4", prefix |-> <<1, 0>>]
          [] OTHER     -> [kind |-> "global", prefix |-> <<0, 0>>]]

MCRecords == [q \in QType |-> IF q = "A" THEN <<"v4">> ELSE <<"ula", "teredo", "global">>]

MCValue == Seq(MCAddress)

MCRecordTTL == [q \in QType |-> IF q = "A" THEN {1} ELSE {0}]

Options(mode, types) == [mode |-> mode, cache |-> TRUE, types |-> types]

MCConfigs ==
    [r \in Proc |-> IF r = r1
                    THEN {Options("https", QType), Options("system", QType)}
                    ELSE {Options("udp", {"A"})}]

\* Evaluated before the states are explored.
ASSUME SelectionOrder == LessIsAnOrder

Symmetry == Permutations(Proc \ {r1})
==============================================================================
