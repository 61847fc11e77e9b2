---------------------------- MODULE NatPoolProofs ----------------------------
(***************************************************************************)
(* The NAT pool never leaks, double-files or forgets a socket, for any     *)
(* number of keys, sockets, associations and shards and any capacity.      *)
(*                                                                         *)
(* NatInv is inductive.  The pool's own consistency comes from the lemmas  *)
(* of LRUCacheProofs; the rest follows the life of a socket: dialed and in *)
(* one handler's hand (InHand), stored without a relay (Unspawned), pooled *)
(* with a relay, closed by onInvalidate.                                   *)
(*                                                                         *)
(* First, one session in time (IdleConn): it is evicted when it has been   *)
(* idle, not before and not much later, for any timeout and any delays.    *)
(***************************************************************************)
EXTENDS NatPool, IdleConn, LRUCacheProofs

-------------------------------------------------------------------------------
(* One session in time. *)

\* 70% of the timeout.
Share == (Timeout * 7) \div 10

\* The types of the wrapper's state; the reader is never idle, and the writer
\* neither relays nor reads.
IdleTypeOK ==
    /\ now \in Nat /\ expiredAt \in Nat /\ lastActivity \in Nat
    /\ deadline \in Nat /\ last \in Nat
    /\ at \in [Proc -> Nat]
    /\ exp \in [Proc -> Nat]
    /\ pc \in [Proc -> Busy \cup {"idle", "blocked", "returned"}]
    /\ pc["reader"] # "idle"
    /\ pc["writer"] \notin {"relay", "blocked", "returned"}

\* Nobody is ahead of the clock, and a goroutine on its way is not far behind.
PromptInv ==
    /\ last <= now
    /\ expiredAt <= now + Timeout
    /\ \A p \in Proc :
          /\ at[p] <= now
          /\ exp[p] <= now + Timeout
          /\ pc[p] \in Busy => now <= at[p] + MaxDelay

\* The socket's deadline follows the calls that came through, and the reader
\* meets it.
DeadlineInv ==
    /\ deadline <= last + Timeout
    /\ ~ended => now <= last + Timeout + 2 * MaxDelay
    /\ pc["reader"] = "relay" => at["reader"] <= last + Timeout
    /\ pc["reader"] \in {"load", "touch", "mark", "store", "set"} =>
          at["reader"] <= last + Timeout + MaxDelay
    /\ pc["reader"] = "returned" => ended

\* A store of lastActivity that comes late sets it back by no more than a delay.
ActivityInv ==
    /\ last <= lastActivity + Second + MaxDelay
    /\ \A p \in Proc : pc[p] \in {"store", "set"} =>
          at[p] <= lastActivity + Second + MaxDelay

\* A store of expiredAt that comes late sets it back by no more than a delay, and
\* so does a late SetDeadlines, once nobody is between the two.
ExpiryInv ==
    /\ last + Share <= expiredAt + MaxDelay
    /\ \A p \in Proc :
          /\ pc[p] \in {"touch", "mark"} => exp[p] <= expiredAt + MaxDelay
          /\ pc[p] = "set" => at[p] + Timeout <= expiredAt + MaxDelay
          /\ pc[p] \in {"touch", "mark"} /\ (\A q \in Proc : pc[q] # "set") =>
                exp[p] <= deadline + MaxDelay
    /\ (\A q \in Proc : pc[q] # "set") =>
          /\ expiredAt <= deadline + MaxDelay
          /\ last + Share <= deadline + MaxDelay

IdleInv == IdleTypeOK /\ PromptInv /\ DeadlineInv /\ ActivityInv /\ ExpiryInv

\* 70% of the timeout are a natural number and not more than all of it.
LEMMA ShareIsPart == Share \in Nat /\ Share <= Timeout
BY IdleAssumption DEF Share

\* A session that has just been set up satisfies the invariant.
LEMMA IdleInvInit == IdleInit => IdleInv
<1> SUFFICES ASSUME IdleInit PROVE IdleInv
  OBVIOUS
<1> USE IdleAssumption, ShareIsPart DEF IdleInit, Proc
<1>1. IdleTypeOK
  BY DEF IdleTypeOK, Busy
<1>2. PromptInv
  BY DEF PromptInv
<1>3. DeadlineInv
  BY DEF DeadlineInv
<1>4. ActivityInv
  BY DEF ActivityInv
<1>5. ExpiryInv
  BY DEF ExpiryInv
<1> QED BY <1>1, <1>2, <1>3, <1>4, <1>5 DEF IdleInv

\* Time passes only as far as the goroutines let it.
LEMMA TickKeepsIdle ==
    ASSUME IdleInv, Tick
    PROVE  IdleInv'
<1> USE IdleAssumption DEF IdleInv, Tick, Proc
<1>1. IdleTypeOK'
  BY DEF IdleTypeOK
<1>2. PromptInv'
  BY DEF PromptInv, IdleTypeOK
<1>3. DeadlineInv'
  BY DEF DeadlineInv, IdleTypeOK, Busy
<1>4. ActivityInv'
  BY DEF ActivityInv
<1>5. ExpiryInv'
  BY DEF ExpiryInv
<1> QED BY <1>1, <1>2, <1>3, <1>4, <1>5

\* Calls begin at the time that it is.
LEMMA CallKeepsIdle ==
    ASSUME IdleInv, ~ended, NEW p \in Proc, Call(p)
    PROVE  IdleInv'
<1> USE IdleAssumption DEF IdleInv, IdleTypeOK, Call, Proc
<1>1. IdleTypeOK'
  BY DEF Busy
<1>2. PromptInv'
  BY DEF PromptInv
<1>3. DeadlineInv'
  BY DEF DeadlineInv, PromptInv, Busy
<1>4. ActivityInv'
  BY DEF ActivityInv
<1>5. ExpiryInv'
  BY DEF ExpiryInv
<1> QED BY <1>1, <1>2, <1>3, <1>4, <1>5

\* What a call found expires a delay later than the socket, at the latest.
LEMMA LoadKeepsIdle ==
    ASSUME IdleInv, NEW p \in Proc, LoadExpiredAt(p)
    PROVE  IdleInv'
<1> USE IdleAssumption DEF IdleInv, IdleTypeOK, LoadExpiredAt, Leave, Proc
<1>1. IdleTypeOK'
  BY DEF Busy
<1>2. PromptInv'
  BY DEF PromptInv, Busy
<1>3. DeadlineInv'
  BY DEF DeadlineInv
<1>4. ActivityInv'
  BY DEF ActivityInv
<1>5. ExpiryInv'
  BY DEF ExpiryInv
<1> QED BY <1>1, <1>2, <1>3, <1>4, <1>5

\* The look at the last activity.
LEMMA TouchKeepsIdle ==
    ASSUME IdleInv, NEW p \in Proc, LoadLastActivity(p)
    PROVE  IdleInv'
<1> USE IdleAssumption DEF IdleInv, IdleTypeOK, LoadLastActivity, Proceed, Leave, Later, Proc
<1>1. IdleTypeOK'
  BY DEF Busy
<1>2. PromptInv'
  BY DEF PromptInv, Busy
<1>3. DeadlineInv'
  BY DEF DeadlineInv
<1>4. ActivityInv'
  BY DEF ActivityInv
<1>5. ExpiryInv'
  BY ShareIsPart DEF ExpiryInv, Extends, Share
<1> QED BY <1>1, <1>2, <1>3, <1>4, <1>5

\* The store of the last activity.
LEMMA MarkKeepsIdle ==
    ASSUME IdleInv, NEW p \in Proc, StoreLastActivity(p)
    PROVE  IdleInv'
<1> USE IdleAssumption DEF IdleInv, IdleTypeOK, StoreLastActivity, Proceed, Leave, Later, Proc
<1>1. IdleTypeOK'
  BY DEF Busy
<1>2. PromptInv'
  BY DEF PromptInv, Busy
<1>3. DeadlineInv'
  BY DEF DeadlineInv
<1>4. ActivityInv'
  BY DEF ActivityInv, PromptInv, Busy
<1>5. ExpiryInv'
  BY ShareIsPart DEF ExpiryInv, Extends, Share
<1> QED BY <1>1, <1>2, <1>3, <1>4, <1>5

\* The store of the expiry.
LEMMA StoreKeepsIdle ==
    ASSUME IdleInv, NEW p \in Proc, StoreExpiredAt(p)
    PROVE  IdleInv'
<1> USE IdleAssumption DEF IdleInv, IdleTypeOK, StoreExpiredAt, NewExpiry, Proc
<1>1. IdleTypeOK'
  BY DEF Busy
<1>2. PromptInv'
  BY DEF PromptInv, Busy
<1>3. DeadlineInv'
  BY DEF DeadlineInv
<1>4. ActivityInv'
  BY DEF ActivityInv
<1>5. ExpiryInv'
  BY ShareIsPart DEF ExpiryInv, PromptInv, Busy
<1> QED BY <1>1, <1>2, <1>3, <1>4, <1>5

\* The deadlines of the socket.
LEMMA DeadlinesKeepIdle ==
    ASSUME IdleInv, NEW p \in Proc, SetDeadlines(p)
    PROVE  IdleInv'
<1> USE IdleAssumption DEF IdleInv, IdleTypeOK, SetDeadlines, NewExpiry, Leave, Later, Proc
<1>1. IdleTypeOK'
  BY DEF Busy
<1>2. PromptInv'
  BY DEF PromptInv, Busy
<1>3. DeadlineInv'
  BY DEF DeadlineInv
<1>4. ActivityInv'
  BY DEF ActivityInv
<1>5. ExpiryInv'
  BY ShareIsPart DEF ExpiryInv, PromptInv, Busy
<1> QED BY <1>1, <1>2, <1>3, <1>4, <1>5

\* The end of a read, and of the session.
LEMMA ReadKeepsIdle ==
    ASSUME IdleInv, PacketArrives \/ ReadTimesOut \/ Sweep
    PROVE  IdleInv'
<1> USE IdleAssumption DEF IdleInv, IdleTypeOK, PacketArrives, ReadTimesOut, Sweep, Proc
<1>1. IdleTypeOK'
  BY DEF Busy
<1>2. PromptInv'
  BY DEF PromptInv, Busy
<1>3. DeadlineInv'
  BY DEF DeadlineInv
<1>4. ActivityInv'
  BY DEF ActivityInv
<1>5. ExpiryInv'
  BY DEF ExpiryInv
<1> QED BY <1>1, <1>2, <1>3, <1>4, <1>5

\* The inductive invariant of a session in time.
THEOREM IdleInvariant == IdleSpec => []IdleInv
<1>1. IdleInv /\ [IdleNext]_idleVars => IdleInv'
  <2> SUFFICES ASSUME IdleInv, [IdleNext]_idleVars PROVE IdleInv'
    OBVIOUS
  <2>1. CASE UNCHANGED idleVars
    BY <2>1 DEF idleVars, IdleInv, IdleTypeOK, PromptInv, DeadlineInv, ActivityInv, ExpiryInv
  <2> QED BY <2>1, TickKeepsIdle, CallKeepsIdle, LoadKeepsIdle, TouchKeepsIdle,
             MarkKeepsIdle, StoreKeepsIdle, DeadlinesKeepIdle, ReadKeepsIdle
          DEF IdleNext, ExtendDeadlineStep
<1> QED BY <1>1, IdleInvInit, PTL DEF IdleSpec

\* An idle session ends in time, and its place in the LRU order does not lag
\* behind its calls, whatever the timeout and the delays.
THEOREM IdleSessionsEnd == IdleSpec => []IdleSessionEnds
<1>1. IdleInv => IdleSessionEnds
  BY DEF IdleInv, DeadlineInv, ActivityInv, IdleSessionEnds
<1> QED BY <1>1, IdleInvariant, PTL

\* A session is only ended when no call came through for 70% of the timeout, less
\* a delay, or while the writer has the deadlines still to set.
THEOREM ActiveSessionsStay == IdleSpec => EndsOnlyWhenIdle
<1> DEFINE Ends == ended' /\ ~ended => \/ now + MaxDelay >= last + (Timeout * 7) \div 10
                                       \/ pc["writer"] = "set"
<1>1. IdleInv /\ [IdleNext]_idleVars => [Ends]_idleVars
  <2> SUFFICES ASSUME IdleInv, IdleNext, ended', ~ended, pc["writer"] # "set"
               PROVE  now + MaxDelay >= last + Share
    BY DEF Share, idleVars
  <2> USE IdleAssumption, ShareIsPart DEF IdleInv, IdleTypeOK
  <2>1. CASE ReadTimesOut
    BY <2>1 DEF ReadTimesOut, ExpiryInv, Proc
  <2>2. CASE Sweep
    BY <2>2 DEF Sweep, ExpiryInv
  <2>3. CASE Tick \/ PacketArrives \/ \E p \in Proc : ExtendDeadlineStep(p)
    BY <2>3 DEF Tick, PacketArrives, ExtendDeadlineStep, Call, LoadExpiredAt,
                LoadLastActivity, StoreLastActivity, StoreExpiredAt, SetDeadlines
  <2> QED BY <2>1, <2>2, <2>3 DEF IdleNext
<1> QED BY <1>1, IdleInvariant, PTL DEF IdleSpec, EndsOnlyWhenIdle

-------------------------------------------------------------------------------
(* The pool. *)

USE NatAssumption, LRUAssumption DEF Conn

\* The pool's share of the invariant is the cache's.
LEMMA PoolPart == NatInv => CacheInv
BY DEF NatInv, TypeOK, CacheInv

\* What an eviction does to the pool: at most the entry of k goes, and its
\* socket is closed.
LEMMA EvictEffect ==
    ASSUME NatInv, NEW k \in Key, Evict(k)
    PROVE  /\ \A j \in Key : j # k => items'[j] = items[j]
           /\ items'[k] = NoValue
           /\ items[k] = NoValue => invalidated' = invalidated
           /\ items[k] # NoValue => invalidated' = invalidated \cup {items[k]}
BY DEF NatInv, TypeOK, CacheTypeOK, Evict, Delete, Cached, lruVars

\* What Store does to the pool: the key holds the new socket; the socket it
\* held before and the evicted tail, if any, are closed.
LEMMA StoreEffect ==
    ASSUME NatInv, NEW k \in Key, NEW c \in Conn, Store(k, c)
    PROVE  /\ items'[k] = c
           /\ \A j \in Key : j # k => \/ items'[j] = items[j]
                                      \/ /\ items'[j] = NoValue
                                         /\ items[j] \in invalidated'
           /\ items[k] # NoValue => items[k] \in invalidated'
           /\ invalidated \subseteq invalidated'
           /\ \A d \in invalidated' \ invalidated :
                 \E j \in Key : items[j] = d /\ (j = k \/ items'[j] = NoValue)
<1> USE DEF NatInv, TypeOK, CacheTypeOK
<1>1. CASE SetExisting(k, c)
  BY <1>1 DEF SetExisting, Cached
<1>2. CASE SetNew(k, c)
  <2> DEFINE tail == Back(PushFront(lru[ShardOf[k]], k))
  <2>1. CASE UNCHANGED invalidated /\ items' = [items EXCEPT ![k] = c]
    BY <1>2, <2>1 DEF SetNew, Cached
  <2>2. CASE /\ items' = [items EXCEPT ![k] = c, ![tail] = NoValue]
             /\ invalidated' = invalidated \cup {items[tail]}
             /\ tail \in Key /\ tail # k
    <3> HIDE DEF tail
    <3> QED BY <1>2, <2>2 DEF SetNew, Cached
  <2>3. CASE Len(PushFront(lru[ShardOf[k]], k)) > Capacity
    <3>1. tail \in Key /\ tail # k
      BY <1>2, <2>3, EvictedTail, PoolPart DEF SetNew, Cached
    <3> QED BY <1>2, <2>2, <2>3, <3>1 DEF SetNew
  <2> QED BY <1>2, <2>1, <2>3 DEF SetNew
<1> QED BY <1>1, <1>2 DEF Store, Set, SetRefused


\* Dialing puts a fresh socket into one hand.
LEMMA DialOKKeepsInv ==
    ASSUME NatInv, NEW a \in Assoc, NEW c \in Conn, DialOK(a, c)
    PROVE  NatInv'
<1> USE DEF NatInv, TypeOK, CacheTypeOK, DialOK,
            lruVars, assocVars, connVars, sweepVars
<1>1. CacheInv'
  BY PoolPart, StutterKeepsInv
<1>2. TypeOK'
  BY <1>1 DEF CacheInv
<1>3. PooledAreOpen'
  BY DEF PooledAreOpen, Stored
<1>4. NoSocketLeak'
  BY DEF NoSocketLeak, InHand, Stored
<1>5. PooledHaveReader'
  BY DEF PooledHaveReader, PooledAreOpen, Unspawned, InHand, Stored
<1>6. InHand'
  BY DEF InHand, Stored, PooledAreOpen
<1>7. Unspawned'
  BY DEF Unspawned, InHand, Stored
<1>8. Stored'
  BY DEF Stored, InHand, Unspawned, PooledAreOpen
<1> QED BY <1>1, <1>2, <1>3, <1>4, <1>5, <1>6, <1>7, <1>8 DEF CacheInv

\* A failed dial leaves no socket behind.
LEMMA DialFailsKeepsInv ==
    ASSUME NatInv, NEW a \in Assoc, DialFails(a)
    PROVE  NatInv'
<1> USE DEF NatInv, TypeOK, CacheTypeOK, DialFails,
            lruVars, assocVars, connVars, sweepVars, NextDatagram
<1>1. CacheInv'
  BY PoolPart, StutterKeepsInv
<1>2. TypeOK'
  BY <1>1 DEF CacheInv
<1>3. PooledAreOpen'
  BY DEF PooledAreOpen, Stored
<1>4. NoSocketLeak'
  BY DEF NoSocketLeak, InHand, Stored
<1>5. PooledHaveReader'
  BY DEF PooledHaveReader, PooledAreOpen, Unspawned, InHand, Stored
<1>6. InHand'
  BY DEF InHand, Stored, PooledAreOpen
<1>7. Unspawned'
  BY DEF Unspawned, InHand, Stored
<1>8. Stored'
  BY DEF Stored, InHand, Unspawned, PooledAreOpen
<1> QED BY <1>1, <1>2, <1>3, <1>4, <1>5, <1>6, <1>7, <1>8 DEF CacheInv

\* The go statement turns an unspawned session into a relayed one.
LEMMA SpawnRelayKeepsInv ==
    ASSUME NatInv, NEW a \in Assoc, SpawnRelay(a)
    PROVE  NatInv'
<1> USE DEF NatInv, TypeOK, CacheTypeOK, SpawnRelay,
            lruVars, assocVars, connVars, sweepVars
<1>1. CacheInv'
  BY PoolPart, StutterKeepsInv
<1>2. TypeOK'
  BY <1>1 DEF CacheInv
<1>3. PooledAreOpen'
  BY DEF PooledAreOpen, Stored
<1>4. NoSocketLeak'
  BY DEF NoSocketLeak, InHand, Stored
<1>5. PooledHaveReader'
  BY DEF PooledHaveReader, PooledAreOpen, Unspawned, InHand, Stored
<1>6. InHand'
  BY DEF InHand, Stored, PooledAreOpen
<1>7. Unspawned'
  BY DEF Unspawned, InHand, Stored
<1>8. Stored'
  BY DEF Stored, InHand, Unspawned, PooledAreOpen
<1> QED BY <1>1, <1>2, <1>3, <1>4, <1>5, <1>6, <1>7, <1>8 DEF CacheInv

\* Closing an association touches no session.
LEMMA ControlClosesKeepsInv ==
    ASSUME NatInv, NEW a \in Assoc, ControlCloses(a)
    PROVE  NatInv'
<1> USE DEF NatInv, TypeOK, CacheTypeOK, ControlCloses,
            lruVars, assocVars, connVars, sweepVars
<1>1. CacheInv'
  BY PoolPart, StutterKeepsInv
<1>2. TypeOK'
  BY <1>1 DEF CacheInv
<1>3. PooledAreOpen'
  BY DEF PooledAreOpen, Stored
<1>4. NoSocketLeak'
  BY DEF NoSocketLeak, InHand, Stored
<1>5. PooledHaveReader'
  BY DEF PooledHaveReader, PooledAreOpen, Unspawned, InHand, Stored
<1>6. InHand'
  BY DEF InHand, Stored, PooledAreOpen
<1>7. Unspawned'
  BY DEF Unspawned, InHand, Stored
<1>8. Stored'
  BY DEF Stored, InHand, Unspawned, PooledAreOpen
<1> QED BY <1>1, <1>2, <1>3, <1>4, <1>5, <1>6, <1>7, <1>8 DEF CacheInv

\* A returning handler has no socket in hand.
LEMMA HandleReturnsKeepsInv ==
    ASSUME NatInv, NEW a \in Assoc, HandleReturns(a)
    PROVE  NatInv'
<1> USE DEF NatInv, TypeOK, CacheTypeOK, HandleReturns,
            lruVars, assocVars, connVars, sweepVars
<1>1. CacheInv'
  BY PoolPart, StutterKeepsInv
<1>2. TypeOK'
  BY <1>1 DEF CacheInv
<1>3. PooledAreOpen'
  BY DEF PooledAreOpen, Stored
<1>4. NoSocketLeak'
  BY DEF NoSocketLeak, InHand, Stored
<1>5. PooledHaveReader'
  BY DEF PooledHaveReader, PooledAreOpen, Unspawned, InHand, Stored
<1>6. InHand'
  BY DEF InHand, Stored, PooledAreOpen
<1>7. Unspawned'
  BY DEF Unspawned, InHand, Stored
<1>8. Stored'
  BY DEF Stored, InHand, Unspawned, PooledAreOpen
<1> QED BY <1>1, <1>2, <1>3, <1>4, <1>5, <1>6, <1>7, <1>8 DEF CacheInv

\* A relay that forwards, or fails to, has not finished.
LEMMA RelayForwardsKeepsInv ==
    ASSUME NatInv, NEW c \in Conn, RelayForwards(c)
    PROVE  NatInv'
<1> USE DEF NatInv, TypeOK, CacheTypeOK, RelayForwards,
            lruVars, assocVars, connVars, sweepVars
<1>1. CacheInv'
  BY PoolPart, StutterKeepsInv
<1>2. TypeOK'
  BY <1>1 DEF CacheInv
<1>3. PooledAreOpen'
  BY DEF PooledAreOpen, Stored
<1>4. NoSocketLeak'
  BY DEF NoSocketLeak, InHand, Stored
<1>5. PooledHaveReader'
  BY DEF PooledHaveReader, PooledAreOpen, Unspawned, InHand, Stored
<1>6. InHand'
  BY DEF InHand, Stored, PooledAreOpen
<1>7. Unspawned'
  BY DEF Unspawned, InHand, Stored
<1>8. Stored'
  BY DEF Stored, InHand, Unspawned, PooledAreOpen
<1> QED BY <1>1, <1>2, <1>3, <1>4, <1>5, <1>6, <1>7, <1>8 DEF CacheInv

\* A relay whose read failed has still to evict.
LEMMA RelayReadFailsKeepsInv ==
    ASSUME NatInv, NEW c \in Conn, RelayReadFails(c)
    PROVE  NatInv'
<1> USE DEF NatInv, TypeOK, CacheTypeOK, RelayReadFails,
            lruVars, assocVars, connVars, sweepVars
<1>1. CacheInv'
  BY PoolPart, StutterKeepsInv
<1>2. TypeOK'
  BY <1>1 DEF CacheInv
<1>3. PooledAreOpen'
  BY DEF PooledAreOpen, Stored
<1>4. NoSocketLeak'
  BY DEF NoSocketLeak, InHand, Stored
<1>5. PooledHaveReader'
  BY DEF PooledHaveReader, PooledAreOpen, Unspawned, InHand, Stored
<1>6. InHand'
  BY DEF InHand, Stored, PooledAreOpen
<1>7. Unspawned'
  BY DEF Unspawned, InHand, Stored
<1>8. Stored'
  BY DEF Stored, InHand, Unspawned, PooledAreOpen
<1> QED BY <1>1, <1>2, <1>3, <1>4, <1>5, <1>6, <1>7, <1>8 DEF CacheInv

\* Time passing closes nothing by itself.
LEMMA ExpireKeepsInv ==
    ASSUME NatInv, NEW c \in Conn, Expire(c)
    PROVE  NatInv'
<1> USE DEF NatInv, TypeOK, CacheTypeOK, Expire,
            lruVars, assocVars, connVars, sweepVars
<1>1. CacheInv'
  BY PoolPart, StutterKeepsInv
<1>2. TypeOK'
  BY <1>1 DEF CacheInv
<1>3. PooledAreOpen'
  BY DEF PooledAreOpen, Stored
<1>4. NoSocketLeak'
  BY DEF NoSocketLeak, InHand, Stored
<1>5. PooledHaveReader'
  BY DEF PooledHaveReader, PooledAreOpen, Unspawned, InHand, Stored
<1>6. InHand'
  BY DEF InHand, Stored, PooledAreOpen
<1>7. Unspawned'
  BY DEF Unspawned, InHand, Stored
<1>8. Stored'
  BY DEF Stored, InHand, Unspawned, PooledAreOpen
<1> QED BY <1>1, <1>2, <1>3, <1>4, <1>5, <1>6, <1>7, <1>8 DEF CacheInv

\* Cancelling the application context closes nothing by itself.
LEMMA CancelKeepsInv ==
    ASSUME NatInv, Cancel
    PROVE  NatInv'
<1> USE DEF NatInv, TypeOK, CacheTypeOK, Cancel,
            lruVars, assocVars, connVars, sweepVars
<1>1. CacheInv'
  BY PoolPart, StutterKeepsInv
<1>2. TypeOK'
  BY <1>1 DEF CacheInv
<1>3. PooledAreOpen'
  BY DEF PooledAreOpen, Stored
<1>4. NoSocketLeak'
  BY DEF NoSocketLeak, InHand, Stored
<1>5. PooledHaveReader'
  BY DEF PooledHaveReader, PooledAreOpen, Unspawned, InHand, Stored
<1>6. InHand'
  BY DEF InHand, Stored, PooledAreOpen
<1>7. Unspawned'
  BY DEF Unspawned, InHand, Stored
<1>8. Stored'
  BY DEF Stored, InHand, Unspawned, PooledAreOpen
<1> QED BY <1>1, <1>2, <1>3, <1>4, <1>5, <1>6, <1>7, <1>8 DEF CacheInv

\* Starting a sweep changes no session.
LEMMA StartSweepKeepsInv ==
    ASSUME NatInv, NEW all \in BOOLEAN, StartSweep(all)
    PROVE  NatInv'
<1> USE DEF NatInv, TypeOK, CacheTypeOK, StartSweep,
            lruVars, assocVars, connVars, sweepVars
<1>1. CacheInv'
  BY PoolPart, StutterKeepsInv
<1>2. TypeOK'
  BY <1>1 DEF CacheInv
<1>3. PooledAreOpen'
  BY DEF PooledAreOpen, Stored
<1>4. NoSocketLeak'
  BY DEF NoSocketLeak, InHand, Stored
<1>5. PooledHaveReader'
  BY DEF PooledHaveReader, PooledAreOpen, Unspawned, InHand, Stored
<1>6. InHand'
  BY DEF InHand, Stored, PooledAreOpen
<1>7. Unspawned'
  BY DEF Unspawned, InHand, Stored
<1>8. Stored'
  BY DEF Stored, InHand, Unspawned, PooledAreOpen
<1> QED BY <1>1, <1>2, <1>3, <1>4, <1>5, <1>6, <1>7, <1>8 DEF CacheInv

\* Collecting keys changes no session.
LEMMA CollectKeepsInv ==
    ASSUME NatInv, NEW s \in Shard, Collect(s)
    PROVE  NatInv'
<1> USE DEF NatInv, TypeOK, CacheTypeOK, Collect,
            lruVars, assocVars, connVars, sweepVars
<1>1. CacheInv'
  BY PoolPart, StutterKeepsInv
<1>2. TypeOK'
  BY <1>1 DEF CacheInv
<1>3. PooledAreOpen'
  BY DEF PooledAreOpen, Stored
<1>4. NoSocketLeak'
  BY DEF NoSocketLeak, InHand, Stored
<1>5. PooledHaveReader'
  BY DEF PooledHaveReader, PooledAreOpen, Unspawned, InHand, Stored
<1>6. InHand'
  BY DEF InHand, Stored, PooledAreOpen
<1>7. Unspawned'
  BY DEF Unspawned, InHand, Stored
<1>8. Stored'
  BY DEF Stored, InHand, Unspawned, PooledAreOpen
<1> QED BY <1>1, <1>2, <1>3, <1>4, <1>5, <1>6, <1>7, <1>8 DEF CacheInv

\* Ending a sweep changes no session.
LEMMA EndSweepKeepsInv ==
    ASSUME NatInv, EndSweep
    PROVE  NatInv'
<1> USE DEF NatInv, TypeOK, CacheTypeOK, EndSweep,
            lruVars, assocVars, connVars, sweepVars
<1>1. CacheInv'
  BY PoolPart, StutterKeepsInv
<1>2. TypeOK'
  BY <1>1 DEF CacheInv
<1>3. PooledAreOpen'
  BY DEF PooledAreOpen, Stored
<1>4. NoSocketLeak'
  BY DEF NoSocketLeak, InHand, Stored
<1>5. PooledHaveReader'
  BY DEF PooledHaveReader, PooledAreOpen, Unspawned, InHand, Stored
<1>6. InHand'
  BY DEF InHand, Stored, PooledAreOpen
<1>7. Unspawned'
  BY DEF Unspawned, InHand, Stored
<1>8. Stored'
  BY DEF Stored, InHand, Unspawned, PooledAreOpen
<1> QED BY <1>1, <1>2, <1>3, <1>4, <1>5, <1>6, <1>7, <1>8 DEF CacheInv

\* A lookup refreshes an entry and hands out a pooled session.
LEMMA ReceiveKeepsInv ==
    ASSUME NatInv, NEW a \in Assoc, NEW k \in Key, Receive(a, k)
    PROVE  NatInv'
<1> USE DEF NatInv, TypeOK, CacheTypeOK, Receive,
            lruVars, assocVars, connVars, sweepVars, Fetch, Get, Cached
<1>1. CacheInv'
  BY GetKeepsInv, StutterKeepsInv, PoolPart DEF Fetch, ExtendDeadline, Stored
<1>2. TypeOK'
  BY <1>1 DEF CacheInv
<1>3. PooledAreOpen'
  BY DEF PooledAreOpen, Stored
<1>4. NoSocketLeak'
  BY DEF NoSocketLeak, InHand, Stored
<1>5. PooledHaveReader'
  BY DEF PooledHaveReader, PooledAreOpen, Unspawned, InHand, Stored
<1>6. InHand'
  BY DEF InHand, Stored, PooledAreOpen
<1>7. Unspawned'
  BY DEF Unspawned, InHand, Stored
<1>8. Stored'
  BY DEF Stored, InHand, Unspawned, PooledAreOpen
<1> QED BY <1>1, <1>2, <1>3, <1>4, <1>5, <1>6, <1>7, <1>8 DEF CacheInv

\* A write may refresh an entry, nothing more.
LEMMA WritePayloadKeepsInv ==
    ASSUME NatInv, NEW a \in Assoc, WritePayload(a)
    PROVE  NatInv'
<1> USE DEF NatInv, TypeOK, CacheTypeOK, WritePayload,
            lruVars, assocVars, connVars, sweepVars, ExtendDeadline, Get, NextDatagram
<1>1. CacheInv'
  BY GetKeepsInv, StutterKeepsInv, PoolPart DEF Fetch, ExtendDeadline, Stored
<1>2. TypeOK'
  BY <1>1 DEF CacheInv
<1>3. PooledAreOpen'
  BY DEF PooledAreOpen, Stored
<1>4. NoSocketLeak'
  BY DEF NoSocketLeak, InHand, Stored
<1>5. PooledHaveReader'
  BY DEF PooledHaveReader, PooledAreOpen, Unspawned, InHand, Stored
<1>6. InHand'
  BY DEF InHand, Stored, PooledAreOpen
<1>7. Unspawned'
  BY DEF Unspawned, InHand, Stored
<1>8. Stored'
  BY DEF Stored, InHand, Unspawned, PooledAreOpen
<1> QED BY <1>1, <1>2, <1>3, <1>4, <1>5, <1>6, <1>7, <1>8 DEF CacheInv

\* The same for the read of a relay.
LEMMA RelayExtendsKeepsInv ==
    ASSUME NatInv, NEW c \in Conn, RelayExtends(c)
    PROVE  NatInv'
<1> USE DEF NatInv, TypeOK, CacheTypeOK, RelayExtends,
            lruVars, assocVars, connVars, sweepVars, ExtendDeadline, Get
<1>1. CacheInv'
  BY GetKeepsInv, StutterKeepsInv, PoolPart DEF Fetch, ExtendDeadline, Stored
<1>2. TypeOK'
  BY <1>1 DEF CacheInv
<1>3. PooledAreOpen'
  BY DEF PooledAreOpen, Stored
<1>4. NoSocketLeak'
  BY DEF NoSocketLeak, InHand, Stored
<1>5. PooledHaveReader'
  BY DEF PooledHaveReader, PooledAreOpen, Unspawned, InHand, Stored
<1>6. InHand'
  BY DEF InHand, Stored, PooledAreOpen
<1>7. Unspawned'
  BY DEF Unspawned, InHand, Stored
<1>8. Stored'
  BY DEF Stored, InHand, Unspawned, PooledAreOpen
<1> QED BY <1>1, <1>2, <1>3, <1>4, <1>5, <1>6, <1>7, <1>8 DEF CacheInv

\* An eviction keeps everything the invariant says about sessions, whoever
\* evicts: the evicted socket is closed, and it was filed under k only.
LEMMA EvictKeepsSessions ==
    ASSUME NatInv, NEW k \in Key, Evict(k),
           UNCHANGED <<assocVars, dialed, keyOf, owner, expired>>,
           NEW finished, finished = NoValue \/ keyOf[finished] = k,
           \A c \in Conn : c # finished => rpc'[c] = rpc[c],
           \A c \in Conn : c = finished => rpc[c] = "evict"
    PROVE  /\ CacheInv'
           /\ PooledAreOpen' /\ NoSocketLeak' /\ PooledHaveReader'
           /\ InHand' /\ Unspawned' /\ Stored'
<1> USE DEF NatInv, TypeOK, CacheTypeOK, assocVars
<1>1. CacheInv'
  BY DeleteKeepsInv, PoolPart DEF Evict
<1>2. /\ \A j \in Key : j # k => items'[j] = items[j]
      /\ items'[k] = NoValue
      /\ items[k] = NoValue => invalidated' = invalidated
      /\ items[k] # NoValue => invalidated' = invalidated \cup {items[k]}
  BY EvictEffect
<1>3. \A j \in Key : j # k /\ items[j] # NoValue => items[j] # items[k]
  BY DEF PooledAreOpen
<1>4. PooledAreOpen'
  <2> SUFFICES ASSUME NEW j \in Key, items'[j] # NoValue
               PROVE  items'[j] \in dialed \ invalidated' /\ keyOf[items'[j]] = j
    BY DEF PooledAreOpen
  <2>1. j # k /\ items'[j] = items[j]
    BY <1>2
  <2> QED BY <2>1, <1>2, <1>3 DEF PooledAreOpen
<1>5. NoSocketLeak'
  BY <1>2 DEF NoSocketLeak
<1>6. \A j \in Key : items[j] # NoValue /\ j # k => rpc'[items[j]] = rpc[items[j]]
  BY DEF PooledAreOpen
<1>7. PooledHaveReader'
  <2> SUFFICES ASSUME NEW j \in Key, items'[j] # NoValue
               PROVE  \/ rpc'[items'[j]] \in {"extend", "reading", "evict"}
                      \/ \E a \in Assoc : /\ owner'[items'[j]] = a
                                          /\ apc'[a] = "spawn"
                                          /\ aconn'[a] = items'[j]
    BY DEF PooledHaveReader
  <2>1. j # k /\ items'[j] = items[j]
    BY <1>2
  <2> QED BY <2>1, <1>6 DEF PooledHaveReader
<1>8. InHand'
  BY <1>2 DEF InHand, PooledAreOpen
<1>9. Unspawned'
  BY <1>2 DEF Unspawned
<1>10. Stored'
  BY <1>2 DEF Stored, PooledAreOpen
<1> QED BY <1>1, <1>4, <1>5, <1>7, <1>8, <1>9, <1>10

\* A relay that ends evicts its key, so its socket is closed for good.
LEMMA RelayEvictsKeepsInv ==
    ASSUME NatInv, NEW c \in Conn, RelayEvicts(c)
    PROVE  NatInv'
<1> USE DEF NatInv, TypeOK, RelayEvicts
<1>1. keyOf[c] \in Key /\ Evict(keyOf[c])
  BY DEF Stored
<1>2. /\ CacheInv'
      /\ PooledAreOpen' /\ NoSocketLeak' /\ PooledHaveReader'
      /\ InHand' /\ Unspawned' /\ Stored'
  BY <1>1, EvictKeepsSessions
<1>3. TypeOK'
  BY <1>2 DEF CacheInv, assocVars, sweepVars
<1> QED BY <1>2, <1>3 DEF CacheInv

\* The sweeper evicts a key it collected earlier.
LEMMA SweepEvictsKeepsInv ==
    ASSUME NatInv, NEW k \in Key, SweepEvicts(k)
    PROVE  NatInv'
<1> USE DEF NatInv, TypeOK, SweepEvicts, connVars
<1>1. Evict(k)
  OBVIOUS
<1>2. /\ CacheInv'
      /\ PooledAreOpen' /\ NoSocketLeak' /\ PooledHaveReader'
      /\ InHand' /\ Unspawned' /\ Stored'
  BY <1>1, EvictKeepsSessions
<1>3. TypeOK'
  BY <1>2 DEF CacheInv, assocVars
<1> QED BY <1>2, <1>3 DEF CacheInv

\* Store moves a socket from the hand into the pool.
LEMMA StoreSessionKeepsInv ==
    ASSUME NatInv, NEW a \in Assoc, StoreSession(a)
    PROVE  NatInv'
<1> DEFINE k == akey[a]
           c == aconn[a]
<1> USE DEF NatInv, TypeOK, CacheTypeOK, StoreSession
<1>1. /\ k \in Key
      /\ c \in Conn
      /\ c \in dialed \ invalidated
      /\ keyOf[c] = NoValue
      /\ owner[c] = a
      /\ rpc[c] = "none"
  BY DEF InHand, Stored
<1>2. /\ keyOf' = [keyOf EXCEPT ![c] = k]
      /\ apc' = [apc EXCEPT ![a] = "spawn"]
      /\ UNCHANGED <<udpOpen, akey, aconn, dialed, owner, expired, rpc, sweepVars>>
      /\ Store(k, c)
  OBVIOUS
<1> HIDE DEF k, c, StoreSession
<1>0. \A j \in Key : items[j] # c
  BY <1>1 DEF PooledAreOpen
<1>3. CacheInv'
  BY <1>1, <1>2, SetKeepsInv, PoolPart DEF Store
<1>4. /\ items'[k] = c
      /\ \A j \in Key : j # k => \/ items'[j] = items[j]
                                 \/ /\ items'[j] = NoValue
                                    /\ items[j] \in invalidated'
      /\ items[k] # NoValue => items[k] \in invalidated'
      /\ invalidated \subseteq invalidated'
      /\ \A d \in invalidated' \ invalidated :
            \E j \in Key : items[j] = d /\ (j = k \/ items'[j] = NoValue)
  BY <1>1, <1>2, StoreEffect
<1>5. TypeOK'
  BY <1>1, <1>2, <1>3 DEF CacheInv, sweepVars
<1>6. c \notin invalidated'
  BY <1>0, <1>1, <1>4
<1>7. \A j \in Key : j # k /\ items'[j] # NoValue =>
         /\ items'[j] = items[j]
         /\ items[j] # c
         /\ items[j] \notin invalidated'
  BY <1>0, <1>4 DEF PooledAreOpen
<1>8. PooledAreOpen'
  <2> SUFFICES ASSUME NEW j \in Key, items'[j] # NoValue
               PROVE  items'[j] \in dialed \ invalidated' /\ keyOf'[items'[j]] = j
    BY <1>2 DEF PooledAreOpen
  <2>1. CASE j = k
    BY <2>1, <1>1, <1>2, <1>4, <1>6
  <2>2. CASE j # k
    BY <2>2, <1>2, <1>7 DEF PooledAreOpen
  <2> QED BY <2>1, <2>2
<1>9. NoSocketLeak'
  <2> SUFFICES ASSUME NEW d \in dialed' \ invalidated'
               PROVE  IF keyOf'[d] = NoValue
                      THEN \E b \in Assoc : /\ owner'[d] = b
                                            /\ apc'[b] = "store"
                                            /\ aconn'[b] = d
                      ELSE items'[keyOf'[d]] = d
    BY DEF NoSocketLeak
  <2>1. CASE d = c
    BY <2>1, <1>1, <1>2, <1>4
  <2>2. CASE d # c /\ keyOf[d] = NoValue
    <3>1. PICK b \in Assoc : owner[d] = b /\ apc[b] = "store" /\ aconn[b] = d
      BY <2>2, <1>2, <1>4 DEF NoSocketLeak
    <3>2. b # a
      BY <2>2, <3>1 DEF c
    <3> QED BY <2>2, <3>1, <3>2, <1>2
  <2>3. CASE d # c /\ keyOf[d] # NoValue
    <3>1. items[keyOf[d]] = d /\ keyOf[d] \in Key /\ d # NoValue
      BY <2>3, <1>2, <1>4 DEF NoSocketLeak
    <3>2. keyOf[d] # k
      BY <3>1, <1>4
    <3> QED BY <2>3, <3>1, <3>2, <1>2, <1>4
  <2> QED BY <2>1, <2>2, <2>3
<1>10. PooledHaveReader'
  <2> SUFFICES ASSUME NEW j \in Key, items'[j] # NoValue
               PROVE  \/ rpc'[items'[j]] \in {"extend", "reading", "evict"}
                      \/ \E b \in Assoc : /\ owner'[items'[j]] = b
                                          /\ apc'[b] = "spawn"
                                          /\ aconn'[b] = items'[j]
    BY DEF PooledHaveReader
  <2>1. CASE j = k
    BY <2>1, <1>1, <1>2, <1>4 DEF c
  <2>2. CASE j # k
    BY <2>2, <1>1, <1>2, <1>7 DEF PooledHaveReader, InHand
  <2> QED BY <2>1, <2>2
<1>11. InHand'
  <2> SUFFICES ASSUME NEW b \in Assoc, apc'[b] = "store"
               PROVE  /\ akey[b] # NoValue
                      /\ aconn[b] \in dialed \ invalidated'
                      /\ keyOf'[aconn[b]] = NoValue
                      /\ owner[aconn[b]] = b
    BY <1>2 DEF InHand
  <2>1. b # a /\ apc[b] = "store"
    BY <1>2
  <2>2. \A j \in Key : items[j] # aconn[b]
    BY <2>1 DEF InHand, PooledAreOpen
  <2> QED BY <2>1, <2>2, <1>1, <1>2, <1>4 DEF InHand
<1>12. Unspawned'
  BY <1>1, <1>2 DEF Unspawned, c
<1>13. Stored'
  <2>1. invalidated' \subseteq dialed
    <3> SUFFICES ASSUME NEW d \in invalidated', d \notin invalidated
                 PROVE  d \in dialed
      BY DEF Stored
    <3>1. PICK j \in Key : items[j] = d
      BY <1>4
    <3>2. d # NoValue
      BY <1>3 DEF CacheInv
    <3> QED BY <3>1, <3>2 DEF PooledAreOpen
  <2>2. \A d \in Conn : keyOf[d] # NoValue => keyOf'[d] = keyOf[d]
    BY <1>1, <1>2
  <2> QED BY <2>1, <2>2, <1>1, <1>2 DEF Stored
<1> QED
  BY <1>3, <1>5, <1>8, <1>9, <1>10, <1>11, <1>12, <1>13 DEF CacheInv

-------------------------------------------------------------------------------
\* In every reachable state: pooled sessions are open sockets filed under
\* their own keys, no open socket is lost, every pooled session has a reader,
\* and the pool is consistent and within capacity.
THEOREM NatInvariant == Spec => []NatInv
<1>1. Init => NatInv
  <2> SUFFICES ASSUME Init PROVE NatInv
    OBVIOUS
  <2> USE DEF Init, NewLRUCache
  <2>1. TypeOK
    <3>1. CacheTypeOK
      BY DEF CacheTypeOK
    <3>2. /\ apc \in [Assoc -> {"read", "dial", "store", "spawn", "write", "returned"}]
          /\ rpc \in [Conn -> {"none", "extend", "reading", "evict", "done"}]
      OBVIOUS
    <3> QED BY <3>1, <3>2 DEF TypeOK
  <2>2. IndexConsistent
    BY DEF IndexConsistent
  <2>3. WithinCapacity
    BY DEF WithinCapacity
  <2>4. PooledAreOpen /\ NoSocketLeak /\ PooledHaveReader
    BY DEF PooledAreOpen, NoSocketLeak, PooledHaveReader
  <2>5. InHand /\ Unspawned /\ Stored
    BY DEF InHand, Unspawned, Stored
  <2> QED BY <2>1, <2>2, <2>3, <2>4, <2>5 DEF NatInv
<1>2. NatInv /\ [Next]_natVars => NatInv'
  <2> SUFFICES ASSUME NatInv, [Next]_natVars PROVE NatInv'
    OBVIOUS
  <2>1. CASE UNCHANGED natVars
    <3> USE <2>1 DEF natVars, lruVars, assocVars, connVars, sweepVars
    <3>1. CacheInv'
      BY PoolPart, StutterKeepsInv
    <3>2. TypeOK'
      BY <3>1 DEF NatInv, TypeOK, CacheInv
    <3>3. PooledAreOpen' /\ NoSocketLeak' /\ PooledHaveReader'
      BY DEF NatInv, PooledAreOpen, NoSocketLeak, PooledHaveReader
    <3>4. InHand' /\ Unspawned' /\ Stored'
      BY DEF NatInv, InHand, Unspawned, Stored
    <3> QED BY <3>1, <3>2, <3>3, <3>4 DEF NatInv, CacheInv
  <2>2. ASSUME NEW a \in Assoc, AssocStep(a) \/ ControlCloses(a) PROVE NatInv'
    BY <2>2, ReceiveKeepsInv, DialOKKeepsInv, DialFailsKeepsInv,
       StoreSessionKeepsInv, SpawnRelayKeepsInv, WritePayloadKeepsInv,
       HandleReturnsKeepsInv, ControlClosesKeepsInv DEF AssocStep
  <2>3. ASSUME NEW c \in Conn, RelayStep(c) \/ Expire(c) PROVE NatInv'
    BY <2>3, RelayExtendsKeepsInv, RelayForwardsKeepsInv, RelayReadFailsKeepsInv,
       RelayEvictsKeepsInv, ExpireKeepsInv DEF RelayStep
  <2>4. CASE SweepStep
    BY <2>4, StartSweepKeepsInv, CollectKeepsInv, SweepEvictsKeepsInv,
       EndSweepKeepsInv DEF SweepStep
  <2>5. CASE Cancel
    BY <2>5, CancelKeepsInv
  <2> QED BY <2>1, <2>2, <2>3, <2>4, <2>5 DEF Next
<1> QED BY <1>1, <1>2, PTL DEF Spec

\* No UDP socket leaks, whatever the interleaving of handlers, relays and
\* sweeper.
THEOREM NatNoSocketLeak == Spec => []NoSocketLeak
<1>1. NatInv => NoSocketLeak
  BY DEF NatInv
<1> QED BY <1>1, NatInvariant, PTL

\* A cache hit always yields an open socket of the right key.
THEOREM NatPooledAreOpen == Spec => []PooledAreOpen
<1>1. NatInv => PooledAreOpen
  BY DEF NatInv
<1> QED BY <1>1, NatInvariant, PTL

\* Every pooled session has a reader.
THEOREM NatPooledHaveReader == Spec => []PooledHaveReader
<1>1. NatInv => PooledHaveReader
  BY DEF NatInv
<1> QED BY <1>1, NatInvariant, PTL

\* Under the calls of associations, relays and sweeper, the pool is an LRU cache:
\* in a full shard the session that goes is the one used longest ago.
THEOREM PoolIsLRU == Spec => ImplementsLRU
<1> DEFINE Step == [Abstract!SpecNext]_(Abstract!specVars)
<1>1. Init => Abstract!SpecInit
  BY NewIsEmpty DEF Init
<1>2. UNCHANGED lruVars => Step
  BY SameListsSameOrder DEF lruVars, Abstract!specVars
<1>3. NatInv /\ [Next]_natVars => Step
  <2> SUFFICES ASSUME NatInv, [Next]_natVars PROVE Step
    OBVIOUS
  <2>1. CacheInv
    BY PoolPart
  <2>2. /\ \A k \in Key : Get(k) => Step
        /\ \A k \in Key : Delete(k) => Step
        /\ \A k \in Key, c \in Conn : Store(k, c) => Step
    BY <2>1, GetIsUse, DeleteIsRemove, SetIsInsert DEF Store
  <2> HIDE DEF Step
  <2> USE <1>2 DEF NatInv, TypeOK
  <2>3. ASSUME NEW a \in Assoc, AssocStep(a) PROVE Step
    <3>1. ASSUME NEW k \in Key, Receive(a, k) PROVE Step
      BY <2>2, <3>1 DEF Receive, Fetch
    <3>2. CASE StoreSession(a)
      <4>1. akey[a] \in Key /\ aconn[a] \in Conn
        BY <3>2 DEF StoreSession, InHand
      <4> QED BY <2>2, <3>2, <4>1 DEF StoreSession
    <3>3. CASE WritePayload(a)
      <4>1. keyOf[aconn[a]] \in Key
        BY <3>3 DEF WritePayload, Stored
      <4> QED BY <2>2, <3>3, <4>1 DEF WritePayload, ExtendDeadline
    <3> QED BY <2>3, <3>1, <3>2, <3>3
            DEF AssocStep, DialOK, DialFails, SpawnRelay, HandleReturns
  <2>4. ASSUME NEW c \in Conn, RelayStep(c) PROVE Step
    <3>1. CASE RelayExtends(c)
      <4>1. keyOf[c] \in Key
        BY <3>1 DEF RelayExtends, Stored
      <4> QED BY <2>2, <3>1, <4>1 DEF RelayExtends, ExtendDeadline
    <3>2. CASE RelayEvicts(c)
      <4>1. keyOf[c] \in Key
        BY <3>2 DEF RelayEvicts, Stored
      <4> QED BY <2>2, <3>2, <4>1 DEF RelayEvicts, Evict
    <3> QED BY <2>4, <3>1, <3>2 DEF RelayStep, RelayForwards, RelayReadFails
  <2>5. CASE SweepStep
    BY <2>2, <2>5 DEF SweepStep, StartSweep, Collect, SweepEvicts, EndSweep, Evict
  <2>6. CASE UNCHANGED natVars
    BY <2>6 DEF natVars
  <2> QED BY <2>3, <2>4, <2>5, <2>6 DEF Next, ControlCloses, Expire, Cancel
<1> QED BY <1>1, <1>3, NatInvariant, PTL DEF Spec, ImplementsLRU, Abstract!LRUBehaviour
==============================================================================
