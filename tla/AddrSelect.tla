------------------------------ MODULE AddrSelect ------------------------------
(***************************************************************************)
(* internal/dns/addrselect: the order in which the addresses of an answer  *)
(* are tried, after RFC 6724.                                              *)
(*                                                                         *)
(* What the tables and rules see of an address is its kind (the part of    *)
(* the address space it is in) and the bits of its network prefix.  Source *)
(* says which source address the host has for a destination: srcAddrs      *)
(* finds it by connecting a UDP socket.                                    *)
(***************************************************************************)
EXTENDS Naturals, SequencesExt

CONSTANTS Address,    \* the addresses that occur in answers
          IP,         \* [Address -> [kind, prefix]]
          Source,     \* [Address -> [kind, prefix] or NoSource], srcAddrs
          NoSource    \* the zero netip.Addr: there is no route

Is4Kind == {"v4", "v4loopback", "v4linklocal"}

IPv6Kind == {"loopback", "mapped", "compat", "teredo", "6to4", "6bone", "sitelocal",
             "ula", "linklocal", "multicast2", "multicast5", "global"}

Is4(ip) == ip.kind \in Is4Kind

Is4In6(ip) == ip.kind = "mapped"

AnyIP == [kind : Is4Kind \cup IPv6Kind, prefix : Seq({0, 1})]

ASSUME AddrAssumption ==
    \A a \in Address : IP[a] \in AnyIP /\ Source[a] \in AnyIP \cup {NoSource}

-------------------------------------------------------------------------------
(* The policy table: a prefix is the set of kinds that it contains. *)

PolicyEntry(prefix, precedence, label) ==
    [prefix |-> prefix, precedence |-> precedence, label |-> label]

rfc6724policyTable ==
    << PolicyEntry({"loopback"}, 50, 0),           \* ::1/128
       PolicyEntry({"mapped"}, 35, 4),             \* ::ffff:0:0/96
       PolicyEntry({"loopback", "compat"}, 1, 3),  \* ::/96
       PolicyEntry({"teredo"}, 5, 5),              \* 2001::/32
       PolicyEntry({"6to4"}, 30, 2),               \* 2002::/16
       PolicyEntry({"6bone"}, 1, 12),              \* 3ffe::/16
       PolicyEntry({"sitelocal"}, 1, 11),          \* fec0::/10
       PolicyEntry({"ula"}, 3, 13),                \* fc00::/7
       PolicyEntry(IPv6Kind, 40, 1) >>             \* ::/0

\* The first entry that contains the address; IPv4 is looked up as mapped.
Classify(ip) ==
    LET kind == IF Is4(ip) THEN "mapped" ELSE ip.kind
    IN  rfc6724policyTable[Min({i \in 1..9 : kind \in rfc6724policyTable[i].prefix})]

scopeLinkLocal == 2

scopeSiteLocal == 5

scopeGlobal == 14

\* The low four bits of a multicast address' second byte are its scope.
classifyScope(ip) ==
    CASE ip.kind \in {"loopback", "v4loopback", "linklocal", "v4linklocal"} -> scopeLinkLocal
      [] ip.kind = "multicast2" -> 2
      [] ip.kind = "multicast5" -> 5
      [] ip.kind = "sitelocal"  -> scopeSiteLocal
      [] OTHER -> scopeGlobal

ipAttrOf(ip) ==
    [scope |-> classifyScope(ip), precedence |-> Classify(ip).precedence,
     label |-> Classify(ip).label]

\* Unmap makes IPv4 of a mapped address.
commonPrefixLen(a, b) ==
    IF (Is4(a) \/ Is4In6(a)) # (Is4(b) \/ Is4In6(b)) THEN 0
    ELSE Max({n \in 0..Len(a.prefix) : SubSeq(a.prefix, 1, n) = SubSeq(b.prefix, 1, n)})

-------------------------------------------------------------------------------
(* byRFC6724.Less: the first rule that tells them apart decides.  `p' and   *)
(* `q' are a destination and its source.                                    *)

Pair(a) == [dst |-> IP[a], src |-> Source[a]]

Usable(p) == p.src # NoSource

ScopeMatches(p) == ipAttrOf(p.dst).scope = ipAttrOf(p.src).scope

LabelMatches(p) == ipAttrOf(p.dst).label = ipAttrOf(p.src).label

PrecedenceOf(p) == ipAttrOf(p.dst).precedence

\* Rule 9 is for IPv6 only.
CommonOf(p, q) ==
    IF \E ip \in {p.dst, q.dst} : Is4(ip) \/ Is4In6(ip) THEN 0
    ELSE commonPrefixLen(p.src, p.dst)

Truth(b) == IF b THEN 1 ELSE 0

\* The rules in their order, each as a number to be preferred large: rules 2,
\* 5, 6, 8 and 9.
Rules(p, q) ==
    << Truth(ScopeMatches(p)), Truth(LabelMatches(p)), PrecedenceOf(p),
       15 - ipAttrOf(p.dst).scope, CommonOf(p, q) >>

LessPair(p, q) ==
    IF Usable(p) /\ Usable(q)
    THEN \E n \in 1..5 : /\ Rules(p, q)[n] > Rules(q, p)[n]
                         /\ \A m \in 1..(n - 1) : Rules(p, q)[m] = Rules(q, p)[m]
    ELSE Usable(p) /\ ~Usable(q)   \* rule 1

\* The pairs whose first is a better destination.
Less == {d \in Address \X Address : LessPair(Pair(d[1]), Pair(d[2]))}

-------------------------------------------------------------------------------
(* sort.Stable is an insertion sort up to twenty elements: every element is *)
(* moved to the front while it is better than its neighbour.                *)

Insert(sorted, a) ==
    LET stop == Max({j \in 1..Len(sorted) : <<a, sorted[j]>> \notin Less} \cup {0})
    IN  InsertAt(sorted, stop + 1, a)

\* The first n addresses in order, for every n.
SortedPrefixes(addrs) ==
    LET sorted[n \in 0..Len(addrs)] ==
            IF n = 0 THEN <<>> ELSE Insert(sorted[n - 1], addrs[n])
    IN  sorted

SortByRFC6724(addrs) == SortedPrefixes(addrs)[Len(addrs)]

-------------------------------------------------------------------------------
(* What the callers rely on. *)

\* Every kind of destination with every kind of source its family may have.
AnyPair ==
    LET via(dsts, srcs) == [dst : [kind : dsts, prefix : {<<0>>, <<1>>}],
                            src : [kind : srcs, prefix : {<<0>>}] \cup {NoSource}]
    IN  via({"v4", "v4linklocal"}, {"v4"}) \cup via(IPv6Kind, {"global", "linklocal"})

\* What a stable sort needs of Less, for every kind of address and source: it is
\* a strict weak order (whatever the rules skip, and though rule 9 is for IPv6
\* only).  And it always decides between reachable addresses of two families,
\* so that the order of an answer cannot depend on which message came first.
LessIsAnOrder ==
    LET less == {d \in AnyPair \X AnyPair : LessPair(d[1], d[2])}
        level == [p \in AnyPair |->
                     {q \in AnyPair : <<p, q>> \notin less /\ <<q, p>> \notin less}]
        native(p) == ~Is4(p.dst) /\ ~Is4In6(p.dst)
    IN  /\ \A p \in AnyPair : <<p, p>> \notin less
        /\ \A d \in less : \A q \in AnyPair : <<d[2], q>> \in less => <<d[1], q>> \in less
        /\ \A p \in AnyPair : \A q \in level[p] : level[q] = level[p]
        /\ \A p \in AnyPair : Usable(p) =>
              \A q \in level[p] : native(q) = native(p)
===============================================================================
