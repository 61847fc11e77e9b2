------------------------------- MODULE NatPool -------------------------------
(***************************************************************************)
(* The UDP NAT sessions of the SOCKS5 proxy.                               *)
(*                                                                         *)
(*   internal/netutil/conn_registry.go            the pool and its sweeper *)
(*   internal/netutil/conn.go (IdleTimeoutConn)   the pooled wrapper       *)
(*   internal/server/socks5/handler_udp_assoc.go  the UDP ASSOCIATE        *)
(*                                                handler and its relays   *)
(*                                                                         *)
(* One goroutine per association reads datagrams from its client; one      *)
(* relay goroutine per session reads from the target; one sweeper serves   *)
(* the pool.  They meet only in the pool, an LRUCache whose onInvalidate   *)
(* closes the raw socket, so `invalidated' is the set of closed sockets.   *)
(*                                                                         *)
(* Time is abstracted: a stored session may pass its idle deadline at any  *)
(* moment (Expire), and the one-second throttle of onActivity is a choice. *)
(* Packet contents, headers and fake packets do not matter here.           *)
(***************************************************************************)
EXTENDS LRUCache

CONSTANT Assoc   \* UDP associations (one SOCKS5 control connection each)

ASSUME NatAssumption == NoValue \notin Key /\ NoValue \notin Assoc

Conn == Value    \* raw UDP sockets; the wrapper has the socket's identity

VARIABLES
    udpOpen,   \* associations whose lUDPConn is still open
    apc,       \* [Assoc -> step of UdpAssociateHandler.Handle]
    akey,      \* [Assoc -> NAT key of the datagram in hand, or NoValue]
    aconn,     \* [Assoc -> socket in hand, or NoValue]
    dialed,    \* sockets opened so far
    keyOf,     \* [Conn -> wrapper.Key, or NoValue before Store]
    owner,     \* [Conn -> association that dialed it, or NoValue]
    expired,   \* sockets past expiredAt (and past their read deadline)
    rpc,       \* [Conn -> step of relayInboundUDP]
    spc,       \* step of the sweeper goroutine
    closing,   \* TRUE when the sweeper runs CloseAll, FALSE for evictExpired
    unvisited, \* shards ForEach has still to visit
    batch,     \* toRemove
    appDone    \* appctx is cancelled

assocVars == <<udpOpen, apc, akey, aconn>>
connVars  == <<dialed, keyOf, owner, expired, rpc>>
sweepVars == <<spc, closing, unvisited, batch, appDone>>
natVars   == <<lruVars, assocVars, connVars, sweepVars>>

Init ==
    /\ NewLRUCache
    /\ udpOpen = Assoc
    /\ apc = [a \in Assoc |-> "read"]
    /\ akey = [a \in Assoc |-> NoValue]
    /\ aconn = [a \in Assoc |-> NoValue]
    /\ dialed = {}
    /\ keyOf = [c \in Conn |-> NoValue]
    /\ owner = [c \in Conn |-> NoValue]
    /\ expired = {}
    /\ rpc = [c \in Conn |-> "none"]
    /\ spc = "wait"
    /\ closing = FALSE
    /\ unvisited = {}
    /\ batch = {}
    /\ appDone = FALSE

Closed(c) == c \in invalidated

-------------------------------------------------------------------------------
(* ConnRegistry and IdleTimeoutConn. *)

Fetch(k) == Get(k)

\* Slip: Store keeps an existing session instead of replacing it.
SlipStoreSkips(k, c) == Set(k, c, TRUE, FALSE)

Store(k, c) == Set(k, c, FALSE, FALSE)

Evict(k) == Delete(k)

\* ExtendDeadline gives up on an expired wrapper; otherwise onActivity (not
\* more than once a second) refreshes the entry stored under the wrapper's
\* key, whichever wrapper that is by now.
ExtendDeadline(c) ==
    \/ UNCHANGED lruVars
    \/ c \notin expired /\ Get(keyOf[c])

-------------------------------------------------------------------------------
(* UdpAssociateHandler.Handle: one action per access to shared state. *)

\* continue: the locals of this round of the loop go out of scope.
NextDatagram(a) ==
    /\ apc' = [apc EXCEPT ![a] = "read"]
    /\ akey' = [akey EXCEPT ![a] = NoValue]
    /\ aconn' = [aconn EXCEPT ![a] = NoValue]

\* A datagram from the client with a valid header: look the session up.
Receive(a, k) ==
    /\ apc[a] = "read"
    /\ a \in udpOpen
    /\ Fetch(k)
    /\ akey' = [akey EXCEPT ![a] = k]
    /\ apc' = [apc EXCEPT ![a] = IF Cached(k) THEN "write" ELSE "dial"]
    /\ aconn' = [aconn EXCEPT ![a] = items[k]]
    /\ UNCHANGED <<udpOpen, connVars, sweepVars>>

DialOK(a, c) ==
    /\ apc[a] = "dial"
    /\ ~appDone
    /\ c \notin dialed
    /\ dialed' = dialed \cup {c}
    /\ owner' = [owner EXCEPT ![c] = a]
    /\ aconn' = [aconn EXCEPT ![a] = c]
    /\ apc' = [apc EXCEPT ![a] = "store"]
    /\ UNCHANGED <<lruVars, udpOpen, akey, keyOf, expired, rpc, sweepVars>>

\* DialFastest returns an error (also once the context is cancelled).
DialFails(a) ==
    /\ apc[a] = "dial"
    /\ NextDatagram(a)
    /\ UNCHANGED <<lruVars, udpOpen, connVars, sweepVars>>

\* pool.Store wraps the socket and puts it under the key, closing whatever
\* the key held and, in a full shard, the least recently used session.
StoreSession(a) ==
    /\ apc[a] = "store"
    /\ Store(akey[a], aconn[a])
    /\ keyOf' = [keyOf EXCEPT ![aconn[a]] = akey[a]]
    /\ apc' = [apc EXCEPT ![a] = "spawn"]
    /\ UNCHANGED <<udpOpen, akey, aconn, dialed, owner, expired, rpc, sweepVars>>

SpawnRelay(a) ==
    /\ apc[a] = "spawn"
    /\ rpc' = [rpc EXCEPT ![aconn[a]] = "extend"]
    /\ apc' = [apc EXCEPT ![a] = "write"]
    /\ UNCHANGED <<lruVars, udpOpen, akey, aconn, dialed, keyOf, owner, expired,
                   sweepVars>>

\* rConn.Write: a write to a socket that was closed meanwhile only logs.
WritePayload(a) ==
    /\ apc[a] = "write"
    /\ ExtendDeadline(aconn[a])
    /\ NextDatagram(a)
    /\ UNCHANGED <<udpOpen, connVars, sweepVars>>

\* The monitor goroutine sees the control connection end and closes lUDPConn.
ControlCloses(a) ==
    /\ a \in udpOpen
    /\ udpOpen' = udpOpen \ {a}
    /\ UNCHANGED <<lruVars, apc, akey, aconn, connVars, sweepVars>>

HandleReturns(a) ==
    /\ apc[a] = "read"
    /\ a \notin udpOpen
    /\ apc' = [apc EXCEPT ![a] = "returned"]
    /\ UNCHANGED <<lruVars, udpOpen, akey, aconn, connVars, sweepVars>>

-------------------------------------------------------------------------------
(* relayInboundUDP. *)

\* The part of rConn.Read before the blocking read.
RelayExtends(c) ==
    /\ rpc[c] = "extend"
    /\ ExtendDeadline(c)
    /\ rpc' = [rpc EXCEPT ![c] = "reading"]
    /\ UNCHANGED <<assocVars, dialed, keyOf, owner, expired, sweepVars>>

\* A datagram from the target goes to the client while lUDPConn is open.
RelayForwards(c) ==
    /\ rpc[c] = "reading"
    /\ ~Closed(c)
    /\ c \notin expired
    /\ rpc' = [rpc EXCEPT ![c] = IF owner[c] \in udpOpen THEN "extend" ELSE "evict"]
    /\ UNCHANGED <<lruVars, assocVars, dialed, keyOf, owner, expired, sweepVars>>

\* Slip: the relay returns without evicting its session.
SlipNoDeferredEvict(c) ==
    /\ rpc[c] = "reading"
    /\ rpc' = [rpc EXCEPT ![c] = "done"]
    /\ UNCHANGED <<lruVars, assocVars, dialed, keyOf, owner, expired, sweepVars>>

\* The read fails: closed socket, read deadline, or an ICMP error.
RelayReadFails(c) ==
    /\ rpc[c] = "reading"
    /\ rpc' = [rpc EXCEPT ![c] = "evict"]
    /\ UNCHANGED <<lruVars, assocVars, dialed, keyOf, owner, expired, sweepVars>>

\* defer h.pool.Evict(key)
RelayEvicts(c) ==
    /\ rpc[c] = "evict"
    /\ Evict(keyOf[c])
    /\ rpc' = [rpc EXCEPT ![c] = "done"]
    /\ UNCHANGED <<assocVars, dialed, keyOf, owner, expired, sweepVars>>

\* The clock passes expiredAt.  (On a closed socket that changes nothing.)
Expire(c) ==
    /\ keyOf[c] # NoValue
    /\ ~Closed(c)
    /\ c \notin expired
    /\ expired' = expired \cup {c}
    /\ UNCHANGED <<lruVars, assocVars, dialed, keyOf, owner, rpc, sweepVars>>

-------------------------------------------------------------------------------
(* RunCleanupLoop: evictExpired on every tick, CloseAll at the end. *)

Cancel ==
    /\ ~appDone
    /\ appDone' = TRUE
    /\ UNCHANGED <<lruVars, assocVars, connVars, spc, closing, unvisited, batch>>

\* select of ticker.C (all = FALSE) and appctx.Done() (all = TRUE).
StartSweep(all) ==
    /\ spc = "wait"
    /\ all => appDone
    /\ spc' = "collect"
    /\ closing' = all
    /\ unvisited' = Shard
    /\ batch' = {}
    /\ UNCHANGED <<lruVars, assocVars, connVars, appDone>>

\* ForEach holds one shard's mutex at a time.
Collect(s) ==
    /\ spc = "collect"
    /\ s \in unvisited
    /\ batch' = batch \cup {k \in Key : /\ ShardOf[k] = s
                                        /\ Cached(k)
                                        /\ closing \/ items[k] \in expired}
    /\ unvisited' = unvisited \ {s}
    /\ spc' = IF unvisited' = {} THEN "evict" ELSE "collect"
    /\ UNCHANGED <<lruVars, assocVars, connVars, closing, appDone>>

SweepEvicts(k) ==
    /\ spc = "evict"
    /\ k \in batch
    /\ Evict(k)
    /\ batch' = batch \ {k}
    /\ UNCHANGED <<assocVars, connVars, spc, closing, unvisited, appDone>>

EndSweep ==
    /\ spc = "evict"
    /\ batch = {}
    /\ spc' = IF closing THEN "stopped" ELSE "wait"
    /\ UNCHANGED <<lruVars, assocVars, connVars, closing, unvisited, batch, appDone>>

-------------------------------------------------------------------------------
AssocStep(a) ==
    \/ \E k \in Key : Receive(a, k)
    \/ \E c \in Conn : DialOK(a, c)
    \/ DialFails(a)
    \/ StoreSession(a)
    \/ SpawnRelay(a)
    \/ WritePayload(a)
    \/ HandleReturns(a)

RelayStep(c) ==
    \/ RelayExtends(c)
    \/ RelayForwards(c)
    \/ RelayReadFails(c)
    \/ RelayEvicts(c)

SweepStep ==
    \/ \E all \in BOOLEAN : StartSweep(all)
    \/ \E s \in Shard : Collect(s)
    \/ \E k \in Key : SweepEvicts(k)
    \/ EndSweep

Next ==
    \/ \E a \in Assoc : AssocStep(a) \/ ControlCloses(a)
    \/ \E c \in Conn : RelayStep(c) \/ Expire(c)
    \/ SweepStep
    \/ Cancel

Spec == Init /\ [][Next]_natVars

-------------------------------------------------------------------------------
(* Properties. *)

\* The variables keep their types.
TypeOK ==
    /\ CacheTypeOK
    /\ udpOpen \subseteq Assoc
    /\ apc \in [Assoc -> {"read", "dial", "store", "spawn", "write", "returned"}]
    /\ akey \in [Assoc -> Key \cup {NoValue}]
    /\ aconn \in [Assoc -> Conn \cup {NoValue}]
    /\ dialed \subseteq Conn
    /\ keyOf \in [Conn -> Key \cup {NoValue}]
    /\ owner \in [Conn -> Assoc \cup {NoValue}]
    /\ expired \subseteq Conn
    /\ rpc \in [Conn -> {"none", "extend", "reading", "evict", "done"}]
    /\ spc \in {"wait", "collect", "evict", "stopped"}
    /\ closing \in BOOLEAN
    /\ unvisited \subseteq Shard
    /\ batch \subseteq Key
    /\ appDone \in BOOLEAN

\* A session found in the pool is an open socket filed under its own key: a
\* cache hit in Handle never yields a socket the pool already closed.
PooledAreOpen ==
    \A k \in Key : items[k] # NoValue =>
        /\ items[k] \in dialed \ invalidated
        /\ keyOf[items[k]] = k

\* No socket leaks: an open socket is either in the pool, where the relay, the
\* sweeper or LRU pressure will close it, or in the hands of the handler that
\* has just dialed it and will store it next.
NoSocketLeak ==
    \A c \in dialed \ invalidated :
        IF keyOf[c] = NoValue
        THEN \E a \in Assoc : owner[c] = a /\ apc[a] = "store" /\ aconn[a] = c
        ELSE items[keyOf[c]] = c

\* Every pooled session has somebody reading its socket, or about to: replies
\* are never left unread while datagrams keep hitting the cache.
PooledHaveReader ==
    \A k \in Key : items[k] # NoValue =>
        LET c == items[k]
        IN  \/ rpc[c] \in {"extend", "reading", "evict"}
            \/ \E a \in Assoc : owner[c] = a /\ apc[a] = "spawn" /\ aconn[a] = c

\* The relay that ends, and the sweep that finds expired sessions, close no
\* session but their own and the expired ones.  (Both evict by key, after the
\* entry under that key may have been replaced.)
EvictsOnlyItsOwn ==
    [][/\ \A c \in Conn : rpc[c] = "evict" /\ rpc'[c] = "done"
                             => invalidated' \ invalidated \subseteq {c}
       /\ spc = "evict" /\ ~closing /\ batch' # batch
             => invalidated' \ invalidated \subseteq expired]_natVars

-------------------------------------------------------------------------------
(* The inductive invariant: what the properties above rest on. *)

\* A handler between DialFastest and Store holds a socket nobody else knows.
InHand ==
    \A a \in Assoc : apc[a] = "store" =>
        /\ akey[a] # NoValue
        /\ aconn[a] \in dialed \ invalidated
        /\ keyOf[aconn[a]] = NoValue
        /\ owner[aconn[a]] = a

\* Between Store and the go statement the session has no relay yet.
Unspawned ==
    \A a \in Assoc : apc[a] = "spawn" =>
        /\ aconn[a] \in dialed
        /\ keyOf[aconn[a]] # NoValue
        /\ owner[aconn[a]] = a
        /\ rpc[aconn[a]] = "none"

\* What is written to, relayed or expired has been stored under a key.
Stored ==
    /\ \A a \in Assoc : /\ apc[a] = "dial" => akey[a] # NoValue
                        /\ apc[a] = "write" =>
                             aconn[a] # NoValue /\ keyOf[aconn[a]] # NoValue
    /\ \A c \in Conn : /\ rpc[c] # "none" \/ c \in expired => keyOf[c] # NoValue
                       /\ keyOf[c] # NoValue => c \in dialed
    /\ invalidated \subseteq dialed

NatInv ==
    /\ TypeOK
    /\ IndexConsistent
    /\ WithinCapacity
    /\ PooledAreOpen
    /\ NoSocketLeak
    /\ PooledHaveReader
    /\ InHand
    /\ Unspawned
    /\ Stored
==============================================================================
