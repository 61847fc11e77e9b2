------------------------------ MODULE DnsClient ------------------------------
(***************************************************************************)
(* internal/dns: Client.Resolve with the UDP, HTTPS and system resolvers,  *)
(* on top of the TTL cache.                                                *)
(*                                                                         *)
(* One process per Resolve call.  A call over UDP or HTTPS starts one      *)
(* lookup goroutine per record type and a closer goroutine, and collects   *)
(* from an unbuffered channel until the channel is closed or its context   *)
(* ends.  The addresses are put together in the order the messages arrive  *)
(* and are sorted (AddrSelect) before they are returned and cached.        *)
(***************************************************************************)
EXTENDS TTLCache, AddrSelect

CONSTANTS Records,   \* [QType -> sequence of the addresses a message brings]
          RecordTTL, \* [QType -> SUBSET TTL], the TTLs that records of a type come with
          Configs    \* [Proc -> SUBSET DNSOptions], what a call's rule may say

QType == {"A", "AAAA"}

\* config.DNSOptions as far as Resolve reads it: cfg.DNS.Mode, cfg.DNS.Cache
\* and parseQueryTypes(cfg.DNS.QType).
DNSOptions == [mode : {"udp", "https", "system"}, cache : BOOLEAN,
               types : SUBSET QType \ {{}}]

\* A message is of use when it brings an address; those of an A record are IPv4
\* and those of an AAAA record IPv6 addresses.  (An AAAA record with an IPv4
\* address mapped into IPv6 is left out: parseMsg would not unmap it, and it would
\* be level with the addresses of A records.)
ASSUME DnsAssumption ==
    /\ \A q \in QType : Records[q] \in Seq(Address) /\ Records[q] # <<>>
    /\ \A a \in Range(Records["A"]) : Is4(IP[a])
    /\ \A a \in Range(Records["AAAA"]) : ~Is4(IP[a]) /\ ~Is4In6(IP[a])
    /\ RecordTTL \in [QType -> SUBSET TTL]
    /\ Configs \in [Proc -> SUBSET DNSOptions]
    /\ None \notin [found : BOOLEAN, ttl : TTL \cup {0}]

MaxRetries == 2

VARIABLES
    rpc,      \* [Proc -> step of Resolve]
    dom,      \* [Proc -> the domain asked for]
    cfg,      \* [Proc -> the configuration it is resolved with]
    timedOut, \* calls whose context is done (3 s timeout, or the caller's)
    lpc,      \* [Proc -> [QType -> step of the lookup goroutine]]
    tries,    \* [Proc -> [QType -> requests sent by the DoH exchange]]
    msg,      \* [Proc -> [QType -> what exchange returned]]
    closed,   \* calls whose resCh is closed
    addrs,    \* [Proc -> addrs collected by processMessages, in that order]
    minTTL,   \* [Proc -> TTLs of the records collected]
    answer    \* [Proc -> the addresses Resolve returned, or None]

lookupVars == <<lpc, tries, msg, closed>>
callVars   == <<rpc, dom, cfg, timedOut, addrs, minTTL, answer>>
dnsVars    == <<ttlVars, lookupVars, callVars>>

useCache(c) == c.cache /\ c.mode # "system"

\* What exchange returns: a message with the records of the type asked for and
\* the smallest of their TTLs (parseMsg); or none (an error and an empty answer
\* end alike).
Message(q) == [found : {TRUE}, ttl : RecordTTL[q]] \cup [found : {FALSE}, ttl : {0}]

Init ==
    /\ TTLInit
    /\ rpc = [r \in Proc |-> "idle"]
    /\ dom = [r \in Proc |-> None]
    /\ cfg = [r \in Proc |-> None]
    /\ timedOut = {}
    /\ lpc = [r \in Proc |-> [q \in QType |-> "none"]]
    /\ tries = [r \in Proc |-> [q \in QType |-> 0]]
    /\ msg = [r \in Proc |-> [q \in QType |-> None]]
    /\ closed = {}
    /\ addrs = [r \in Proc |-> <<>>]
    /\ minTTL = [r \in Proc |-> {}]
    /\ answer = [r \in Proc |-> None]

Goto(r, step) == rpc' = [rpc EXCEPT ![r] = step]

Return(r, result) ==
    /\ Goto(r, "returned")
    /\ answer' = [answer EXCEPT ![r] = result]
    /\ timedOut' = timedOut \cup {r}   \* defer cancel()
    /\ addrs' = [addrs EXCEPT ![r] = <<>>]
    /\ minTTL' = [minTTL EXCEPT ![r] = {}]

-------------------------------------------------------------------------------
(* Client.Resolve. *)

\* Resolve of a domain name, up to the copy the cache lookup makes.
ResolveCached(r, k, c) ==
    /\ rpc[r] = "idle"
    /\ useCache(c)
    /\ GetCopies(r, k)
    /\ Goto(r, "lookup")
    /\ dom' = [dom EXCEPT ![r] = k]
    /\ cfg' = [cfg EXCEPT ![r] = c]
    /\ UNCHANGED <<lookupVars, timedOut, addrs, minTTL, answer>>

\* The rest of cache.Get, whose result decides.
CacheGet(r) ==
    /\ rpc[r] = "lookup"
    /\ GetChecks(r) \/ GetRemoves(r)
    /\ UNCHANGED <<lookupVars, callVars>>

CacheHit(r) ==
    /\ rpc[r] = "lookup"
    /\ gpc[r] = "hit"
    /\ Return(r, snap[r].value)
    /\ GetReturns(r)
    /\ UNCHANGED <<lookupVars, dom, cfg>>

CacheMiss(r) ==
    /\ rpc[r] = "lookup"
    /\ gpc[r] = "miss"
    /\ GetReturns(r)
    /\ Goto(r, "pick")
    /\ UNCHANGED <<lookupVars, dom, cfg, timedOut, addrs, minTTL, answer>>

ResolveUncached(r, k, c) ==
    /\ rpc[r] = "idle"
    /\ ~useCache(c)
    /\ Goto(r, "pick")
    /\ dom' = [dom EXCEPT ![r] = k]
    /\ cfg' = [cfg EXCEPT ![r] = c]
    /\ UNCHANGED <<ttlVars, lookupVars, timedOut, addrs, minTTL, answer>>

SystemAnswers(types) ==
    {FlattenSeq(SetToSeq({Records[q] : q \in found})) : found \in SUBSET types}

\* systemResolver.resolve: the Go resolver answers with addresses, filtered to
\* the wanted types (perhaps none is left), or with an error.
ResolveSystem(r) ==
    /\ rpc[r] = "pick"
    /\ cfg[r].mode = "system"
    /\ \E found \in {None} \cup SystemAnswers(cfg[r].types) : Return(r, found)
    /\ UNCHANGED <<ttlVars, lookupVars, dom, cfg>>

\* lookupAllTypes: one goroutine per type.
LookupAllTypes(r) ==
    /\ rpc[r] = "pick"
    /\ cfg[r].mode # "system"
    /\ lpc' = [lpc EXCEPT ![r] = 
                   [q \in QType |-> IF q \in cfg[r].types THEN "exchange" ELSE "none"]]
    /\ Goto(r, "collect")
    /\ UNCHANGED <<ttlVars, tries, msg, closed, dom, cfg, timedOut, addrs, minTTL, answer>>

-------------------------------------------------------------------------------
(* The lookup goroutines.  The exchange runs before the select is entered. *)

\* httpsResolver.exchange: client.Do failed and the loop goes round; the test
\* for a retryable error only decides between two ways to do so.
ExchangeRetries(r, q) ==
    /\ lpc[r][q] = "exchange"
    /\ cfg[r].mode = "https"
    /\ tries[r][q] + 1 < MaxRetries
    /\ tries' = [tries EXCEPT ![r][q] = @ + 1]
    /\ UNCHANGED <<ttlVars, lpc, msg, closed, callVars>>

\* lookupType: what exchange returned is wrapped into a msgChan.
Answer(r, q, m) ==
    /\ lpc[r][q] = "exchange"
    /\ msg' = [msg EXCEPT ![r][q] = m]
    /\ tries' = [tries EXCEPT ![r][q] = 0]
    /\ lpc' = [lpc EXCEPT ![r][q] = "send"]
    /\ UNCHANGED <<ttlVars, closed, callVars>>

\* httpsResolver.exchange returns: a message, or the error of the last try.
ExchangeReturns(r, q, m) == Answer(r, q, m) /\ cfg[r].mode = "https"

\* udpResolver.exchange returns: there is one try.
UDPExchangeReturns(r, q, m) == Answer(r, q, m) /\ cfg[r].mode = "udp"

\* The select of a lookup goroutine takes ctx.Done(): its message is dropped.
LookupDrops(r, q) ==
    /\ lpc[r][q] = "send"
    /\ r \in timedOut
    /\ lpc' = [lpc EXCEPT ![r][q] = "done"]
    /\ UNCHANGED <<ttlVars, tries, msg, closed, callVars>>

\* Variants a slip would produce are named Slip...; no specification uses them.
\* Slip: the channel is closed when the first lookup is done.
SlipClosesEarly(r) ==
    /\ rpc[r] \in {"collect", "store", "returned"}
    /\ r \notin closed
    /\ \E q \in QType : lpc[r][q] = "done"
    /\ closed' = closed \cup {r}
    /\ UNCHANGED <<ttlVars, lpc, tries, msg, callVars>>

CloseResCh(r) ==
    /\ rpc[r] \in {"collect", "store", "returned"}
    /\ r \notin closed
    /\ \A q \in cfg[r].types : lpc[r][q] = "done"
    /\ closed' = closed \cup {r}
    /\ UNCHANGED <<ttlVars, lpc, tries, msg, callVars>>

-------------------------------------------------------------------------------
(* processMessages. *)

\* Slip: a type counts as answered even when its message holds no address.
SlipCountsEmpty(r, q) ==
    /\ rpc[r] = "collect"
    /\ lpc[r][q] = "send"
    /\ lpc' = [lpc EXCEPT ![r][q] = "done"]
    /\ addrs' = [addrs EXCEPT ![r] = @ \o Records[q]]
    /\ minTTL' = [minTTL EXCEPT ![r] = @ \cup
                     (IF msg[r][q].found THEN {msg[r][q].ttl} ELSE {1})]
    /\ UNCHANGED <<ttlVars, tries, msg, closed, rpc, dom, cfg, timedOut, answer>>

\* The rendezvous on the unbuffered channel.
CollectReceives(r, q) ==
    /\ rpc[r] = "collect"
    /\ lpc[r][q] = "send"
    /\ lpc' = [lpc EXCEPT ![r][q] = "done"]
    /\ IF msg[r][q].found
       THEN /\ addrs' = [addrs EXCEPT ![r] = @ \o Records[q]]
            /\ minTTL' = [minTTL EXCEPT ![r] = @ \cup {msg[r][q].ttl}]
       ELSE UNCHANGED <<addrs, minTTL>>
    /\ UNCHANGED <<ttlVars, tries, msg, closed, rpc, dom, cfg, timedOut, answer>>

CollectTimesOut(r) ==
    /\ rpc[r] = "collect"
    /\ r \in timedOut
    /\ Return(r, None)
    /\ UNCHANGED <<ttlVars, lookupVars, dom, cfg>>

\* Slip: the addresses stay in the order they came in.
SlipUnsorted(r) ==
    /\ rpc[r] = "collect"
    /\ r \in closed
    /\ IF addrs[r] = <<>>
       THEN Return(r, None)
       ELSE Goto(r, "store") /\ UNCHANGED <<addrs, answer, timedOut, minTTL>>
    /\ UNCHANGED <<ttlVars, lookupVars, dom, cfg>>

\* The channel is closed: addresses win over errors and are sorted; no address
\* at all is an error.
CollectEnds(r) ==
    /\ rpc[r] = "collect"
    /\ r \in closed
    /\ IF addrs[r] = <<>>
       THEN Return(r, None)
       ELSE /\ Goto(r, "store")
            /\ addrs' = [addrs EXCEPT ![r] = SortByRFC6724(@)]
            /\ UNCHANGED <<answer, timedOut, minTTL>>
    /\ UNCHANGED <<ttlVars, lookupVars, dom, cfg>>

Smallest(S) == CHOOSE n \in S : \A m \in S : n <= m

StoreAnswer(r) ==
    /\ rpc[r] = "store"
    /\ IF useCache(cfg[r])
       THEN Set(dom[r], addrs[r], Smallest(minTTL[r]), FALSE, FALSE)
       ELSE UNCHANGED ttlVars
    /\ Return(r, addrs[r])
    /\ UNCHANGED <<lookupVars, dom, cfg>>

ContextEnds(r) ==
    /\ rpc[r] \notin {"idle", "returned"}
    /\ r \notin timedOut
    /\ timedOut' = timedOut \cup {r}
    /\ UNCHANGED <<ttlVars, lookupVars, rpc, dom, cfg, addrs, minTTL, answer>>

-------------------------------------------------------------------------------
Janitor ==
    /\ CleanupStarts \/ \E s \in Shard : CleanupVisits(s)
    /\ UNCHANGED <<lookupVars, callVars>>

Clock == Tick /\ UNCHANGED <<lookupVars, callVars>>

LookupStep(r, q) ==
    \/ ExchangeRetries(r, q)
    \/ \E m \in Message(q) : ExchangeReturns(r, q, m) \/ UDPExchangeReturns(r, q, m)
    \/ LookupDrops(r, q)

CollectStep(r) ==
    \/ \E q \in QType : CollectReceives(r, q)
    \/ CollectTimesOut(r)
    \/ CollectEnds(r)
    \/ StoreAnswer(r)

ResolveStep(r) ==
    \/ CacheGet(r)
    \/ CacheHit(r)
    \/ CacheMiss(r)
    \/ ResolveSystem(r)
    \/ LookupAllTypes(r)

Next ==
    \/ \E r \in Proc :
          \/ \E k \in Key, c \in Configs[r] : ResolveCached(r, k, c) \/ ResolveUncached(r, k, c)
          \/ ResolveStep(r)
          \/ \E q \in QType : LookupStep(r, q)
          \/ CollectStep(r)
          \/ CloseResCh(r)
          \/ ContextEnds(r)
    \/ Janitor
    \/ Clock

Spec == Init /\ [][Next]_dnsVars

-------------------------------------------------------------------------------
(* Properties. *)

Found(r, q) == msg[r][q] # None /\ msg[r][q].found

\* The record types whose addresses are in an answer.
TypesOf(s) == {q \in QType : \E i \in DOMAIN s : s[i] \in {Records[q][n] : n \in DOMAIN Records[q]}}

\* A call that ends before its context does returns every record type that
\* some upstream answer contained: no result is lost between the lookup
\* goroutines, the closer and the collector.
NothingLostInTime ==
    \A r \in Proc : rpc[r] = "store" /\ r \notin timedOut =>
        TypesOf(addrs[r]) = {q \in QType : Found(r, q)}

\* What the cache holds for a domain is, type by type, what some call's upstream
\* lookup for that same domain had found and returned, for no longer than the
\* shortest-lived of its records, counted from the moment it was stored:
\* timed-out, failed and system-resolved calls leave no trace.
CacheHoldsFoundRecords ==
    \A k \in Key : items[k] # None =>
        \E r \in Proc :
            /\ dom[r] = k
            /\ useCache(cfg[r])
            /\ rpc[r] = "returned"
            /\ answer[r] = items[k].value
            /\ \A q \in TypesOf(answer[r]) :
                  Found(r, q) /\ items[k].expiresAt <= now + msg[r][q].ttl

Reachable(a) == Source[a] # NoSource

Before(order, a, b) == \E i, j \in DOMAIN order : i < j /\ order[i] = a /\ order[j] = b

\* The order when the IPv4 message comes first.
FixedOrder == SortByRFC6724(Records["A"] \o Records["AAAA"])

\* Whichever message came first, what a lookup returns and caches is in one
\* order: the addresses that can be reached first, and none behind a worse one.
OrderIsFixed ==
    \A r \in Proc : rpc[r] = "store" =>
        /\ \A i, j \in DOMAIN addrs[r] : i < j => <<addrs[r][j], addrs[r][i]>> \notin Less
        /\ \A i, j \in DOMAIN addrs[r] : i < j /\ Reachable(addrs[r][j]) =>
              Before(FixedOrder, addrs[r][i], addrs[r][j])

\* A lookup goroutine that is still to send when the collector has left is
\* released by the context, which the return of Resolve cancels: nobody waits
\* on the channel for ever.
LookupsReleased ==
    \A r \in Proc, q \in QType :
        rpc[r] \in {"store", "returned"} /\ lpc[r][q] = "send" => r \in timedOut
==============================================================================
