------------------------------ MODULE HopSniffer ------------------------------
(***************************************************************************)
(* internal/packet: what the TCP and the UDP sniffer learn about hop       *)
(* counts, and the TTL of fake packets that the desyncers derive from it.  *)
(*                                                                         *)
(* A captured packet passes the BPF filter of the sniffer's handle (module *)
(* BPFFilter), then the early returns of processPacket.  Both sniffers and *)
(* all connection handlers share one LRU cache (module LRUCache): hopCache *)
(* in cmd/spoofdpi/main.go, which has no onInvalidate.  processPacket      *)
(* looks a host up and stores it in two calls, so handlers and the other   *)
(* sniffer run in between.                                                 *)
(***************************************************************************)
EXTENDS LRUCache, BPFFilter

CONSTANTS V6,         \* the hosts with an IPv6 address
          Local,      \* the IPv4 hosts in private ranges
          TTLs,       \* TTLs that packets arrive with
          DefaultTTL  \* Runtime.Conn.DefaultFakeTTL

Host == Key           \* keys of the cache are addresses

Sniffer == {"tcp", "udp"}

\* uint8 arithmetic
Minus(a, b) == (256 + a - b) % 256

estimateHops(ttlLeft) ==
    Minus(IF ttlLeft <= 64 THEN 64 ELSE IF ttlLeft <= 128 THEN 128 ELSE 255, ttlLeft)

ASSUME HopAssumption ==
    /\ V6 \subseteq Host
    /\ Local \subseteq Host \ V6
    /\ TTLs \subseteq 0..255
    /\ Value \subseteq 0..255
    /\ DefaultTTL \in Value
    /\ \A ttl \in TTLs : estimateHops(ttl) \in Value

VARIABLES link,       \* link type of the interface
          checked,    \* [Sniffer -> <<>> or <<host, hops>>: found in the cache]
          registered, \* hosts ever registered (history)
          observed,   \* [Host -> TTLs of packets seen from it] (history)
          learned     \* cached hosts whose entry a sniffer has stored (history)

history == <<registered, observed, learned>>
vars == <<lruVars, link, checked, history>>

Init ==
    /\ NewLRUCache
    /\ link \in Links
    /\ checked = [s \in Sniffer |-> <<>>]
    /\ registered = {}
    /\ observed = [h \in Host |-> {}]
    /\ learned = {}

-------------------------------------------------------------------------------
isLocalIP(h) == h \in Local

\* A packet: its source, what it is, and whether it is addressed to a private
\* address.  A "fragment" is not the first one of its datagram.
Packet == [src : Host, kind : {"synack", "tcp", "udp", "fragment"}, toLocal : BOOLEAN]

HeaderOf(p) ==
    [ethertype |-> IF p.src \in V6 \/ link # "ethernet" THEN "other" ELSE "ipv4",
     version   |-> IF p.src \in V6 THEN "other" ELSE "4",
     protocol  |-> IF p.kind = "udp" THEN "udp" ELSE "tcp",
     fragment  |-> IF p.kind = "fragment" THEN "nonzero" ELSE "zero",
     flags     |-> IF p.kind = "synack" THEN "synack" ELSE "none"]

\* The filter the handle was given in StartCapturing.
Captured(s, p) ==
    Verdict(IF s = "tcp" THEN generateSynAckFilter(link) ELSE generateUdpFilter(link),
            HeaderOf(p)) = "accept"

\* The early returns of processPacket: our own packets go by, and for UDP also
\* what is not addressed to us.
TCPPasses(p) == p.kind = "synack" /\ (p.src \in V6 \/ ~isLocalIP(p.src))
UDPPasses(p) == p.kind = "udp" /\ (p.src \in V6 \/ (~isLocalIP(p.src) /\ p.toLocal))

Passes(s, p) == Captured(s, p) /\ IF s = "tcp" THEN TCPPasses(p) ELSE UDPPasses(p)

\* Hosts that are still cached.
Kept(hosts) == {h \in hosts : items'[h] # NoValue}

HopCount(h) == IF Cached(h) THEN items[h] ELSE 255

\* Variants a slip would produce are named Slip...; no specification uses them.
\* Slip: no lower bound.
SlipOptimal(h) == Minus(HopCount(h), 1)

OptimalTTL(h) == Minus(IF HopCount(h) > 2 THEN HopCount(h) ELSE 2, 1)

\* A desyncer asks for the TTL of its fakes: a cache hit refreshes the entry.
GetOptimalTTL(h) ==
    /\ Get(h)
    /\ UNCHANGED <<link, checked, history>>

\* Slip: registering again starts over.
SlipRegister(h) ==
    /\ Set(h, DefaultTTL, FALSE, FALSE)
    /\ registered' = registered \cup {h}
    /\ learned' = Kept(learned)
    /\ UNCHANGED <<link, checked, observed>>

\* A handler registers a destination; WithSkipExisting.
Register(h) ==
    /\ Set(h, DefaultTTL, TRUE, FALSE)
    /\ registered' = registered \cup {h}
    /\ learned' = Kept(learned)
    /\ UNCHANGED <<link, checked, observed>>

\* processPacket up to the lookup of the source.
PacketArrives(s, p, ttl) ==
    /\ checked[s] = <<>>
    /\ Passes(s, p)
    /\ Get(p.src)
    /\ observed' = [observed EXCEPT ![p.src] = @ \cup {ttl}]
    /\ checked' = IF Cached(p.src)
                  THEN [checked EXCEPT ![s] = <<p.src, estimateHops(ttl)>>]
                  ELSE checked
    /\ UNCHANGED <<link, registered, learned>>

\* nhopCache.Set(key, nhops, nil)
StoreHops(s) ==
    /\ checked[s] # <<>>
    /\ Set(checked[s][1], checked[s][2], FALSE, FALSE)
    /\ checked' = [checked EXCEPT ![s] = <<>>]
    /\ learned' = Kept(learned \cup {checked[s][1]})
    /\ UNCHANGED <<link, registered, observed>>

-------------------------------------------------------------------------------
Next ==
    \/ \E h \in Host : Register(h)
    \/ \E h \in Host : GetOptimalTTL(h)
    \/ \E s \in Sniffer, p \in Packet, ttl \in TTLs : PacketArrives(s, p, ttl)
    \/ \E s \in Sniffer : StoreHops(s)

Spec == Init /\ [][Next]_vars

-------------------------------------------------------------------------------
(* Properties. *)

\* What the packets of a host said of its distance.
Estimates(h) == {estimateHops(ttl) : ttl \in observed[h]}

\* A host that is merely seen on the wire never gets into the cache, where it
\* would push out a destination: everything in it was once registered, even
\* what a sniffer puts back after it was evicted.  And what was learned about a
\* host is never replaced by the default or by what was seen of another host,
\* however often it is registered again.
CacheKeepsWhatCounts ==
    /\ \A h \in Host : items[h] # NoValue => h \in registered
    /\ \A h \in learned : items[h] \in Estimates(h)

\* The TTL of a fake packet is at least 1, also for a host no hop away and one
\* that nothing is known about (there is no wrap below 0).  And a host that was
\* heard of and is 2 or more hops away is not reached, with whichever of the
\* usual TTLs its packet started: estimateHops takes the one nearest above.
FakeFallsShort ==
    \A h \in Host :
        /\ OptimalTTL(h) \in 1..254
        /\ h \in learned =>
              \E ttl \in observed[h] : \A initial \in {64, 128, 255} :
                  initial >= ttl + 2 => OptimalTTL(h) + ttl < initial

\* On the link type of the interface, generateUdpFilter's jumps make "ip and
\* udp", exactly.  Those of generateSynAckFilter keep no SYN/ACK over IPv4 from the
\* sniffer, and keep the other packets of the connections away; what else they let
\* through processPacket drops, but for SYN/ACKs over IPv6, which it learns from.
FiltersPassTheirs == UdpExact(link) /\ SynAckExact(link)
===============================================================================
