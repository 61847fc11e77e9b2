------------------------------- MODULE TTLCache -------------------------------
(***************************************************************************)
(* internal/cache/ttl_cache.go: the sharded cache with per-entry expiry    *)
(* behind the DNS client.                                                  *)
(*                                                                         *)
(* Set and Delete hold the shard's mutex for their whole body.  Get does   *)
(* not: it copies the entry under the read lock, looks at the clock after  *)
(* the unlock, and takes the write lock again to remove an entry it found  *)
(* expired.  ForceCleanup reads the clock once and then visits the shards  *)
(* one by one.  The clock may advance, and other calls may run, between    *)
(* any two of those steps.                                                 *)
(***************************************************************************)
EXTENDS Naturals, FiniteSets

CONSTANTS Key, Value,
          Proc,      \* goroutines that call Get
          Shard, ShardOf,
          TTL,       \* lifetimes given to Set, in clock ticks; 0 is "no ttl"
          MaxTime,   \* bound on the clock
          None       \* no entry, no key

ASSUME TTLAssumption ==
    /\ ShardOf \in [Key -> Shard]
    /\ TTL \subseteq Nat
    /\ MaxTime \in Nat
    /\ None \notin Key \cup Value \cup [value : Value, expiresAt : Nat]

VARIABLES items,   \* [Key -> entry or None], the maps of all shards together
          now,     \* time.Now()
          gpc,     \* [Proc -> step of Get]
          gkey,    \* [Proc -> the key Get was called with]
          snap,    \* [Proc -> i, the copy Get made of the entry]
          sweepAt, \* the time ForceCleanup started with
          toSweep, \* shards ForceCleanup has still to visit
          live     \* [Proc -> values seen unexpired under gkey since the call]
                   \* (history: nothing in the code depends on it)

getVars == <<gpc, gkey, snap>>
ttlVars == <<items, now, getVars, sweepAt, toSweep, live>>

Entry == [value : Value, expiresAt : Nat]

ExpiredAt(e, t) == t > e.expiresAt

isExpired(e) == ExpiredAt(e, now)

TTLInit ==
    /\ items = [k \in Key |-> None]
    /\ now = 0
    /\ gpc = [p \in Proc |-> "idle"]
    /\ gkey = [p \in Proc |-> None]
    /\ snap = [p \in Proc |-> None]
    /\ sweepAt = 0
    /\ toSweep = {}
    /\ live = [p \in Proc |-> {}]

-------------------------------------------------------------------------------
\* The values that readers in the middle of a Get have seen alive, once the
\* entries are es.
Witnessed(es) ==
    [p \in Proc |->
        IF gpc[p] = "idle" \/ es[gkey[p]] = None \/ isExpired(es[gkey[p]])
        THEN live[p]
        ELSE live[p] \cup {es[gkey[p]].value}]

Set(k, v, ttl, skipExisting, updateExistingOnly) ==
    /\ items' = IF \/ ttl = 0
                   \/ items[k] # None /\ skipExisting
                   \/ items[k] = None /\ updateExistingOnly
                THEN items
                ELSE [items EXCEPT ![k] = [value |-> v, expiresAt |-> now + ttl]]
    /\ live' = Witnessed(items')
    /\ UNCHANGED <<now, getVars, sweepAt, toSweep>>

Delete(k) ==
    /\ items' = [items EXCEPT ![k] = None]
    /\ UNCHANGED <<now, getVars, sweepAt, toSweep, live>>

\* Get, first part: the copy under the read lock.
GetCopies(p, k) ==
    /\ gpc[p] = "idle"
    /\ gpc' = [gpc EXCEPT ![p] = "copied"]
    /\ gkey' = [gkey EXCEPT ![p] = k]
    /\ snap' = [snap EXCEPT ![p] = items[k]]
    /\ live' = [live EXCEPT ![p] = IF items[k] = None \/ isExpired(items[k])
                                   THEN {} ELSE {items[k].value}]
    /\ UNCHANGED <<items, now, sweepAt, toSweep>>

\* Get, second part, without any lock: miss, hit, or on to the removal.
GetChecks(p) ==
    /\ gpc[p] = "copied"
    /\ gpc' = [gpc EXCEPT ![p] = IF snap[p] = None THEN "miss"
                                 ELSE IF isExpired(snap[p]) THEN "remove"
                                 ELSE "hit"]
    /\ UNCHANGED <<items, now, gkey, snap, sweepAt, toSweep, live>>

\* Variants a slip would produce are named Slip...; no specification uses them.
\* Slip: the entry is removed without a second look under the write lock.
SlipRemovesBlindly(p) ==
    /\ gpc[p] = "remove"
    /\ items' = [items EXCEPT ![gkey[p]] = None]
    /\ gpc' = [gpc EXCEPT ![p] = "miss"]
    /\ UNCHANGED <<now, gkey, snap, sweepAt, toSweep, live>>

\* Get, third part, under the write lock: remove the entry if it is still the
\* one that was copied, which the code recognises by its expiry time.
GetRemoves(p) ==
    /\ gpc[p] = "remove"
    /\ LET current == items[gkey[p]]
       IN  items' = IF current # None /\ current.expiresAt = snap[p].expiresAt
                    THEN [items EXCEPT ![gkey[p]] = None]
                    ELSE items
    /\ gpc' = [gpc EXCEPT ![p] = "miss"]
    /\ UNCHANGED <<now, gkey, snap, sweepAt, toSweep, live>>

GetReturns(p) ==
    /\ gpc[p] \in {"hit", "miss"}
    /\ gpc' = [gpc EXCEPT ![p] = "idle"]
    /\ gkey' = [gkey EXCEPT ![p] = None]
    /\ snap' = [snap EXCEPT ![p] = None]
    /\ live' = [live EXCEPT ![p] = {}]
    /\ UNCHANGED <<items, now, sweepAt, toSweep>>

CleanupStarts ==
    /\ toSweep = {}
    /\ sweepAt' = now
    /\ toSweep' = Shard
    /\ UNCHANGED <<items, now, getVars, live>>

CleanupVisits(s) ==
    /\ s \in toSweep
    /\ toSweep' = toSweep \ {s}
    /\ items' = [k \in Key |->
                    IF /\ ShardOf[k] = s
                       /\ items[k] # None
                       /\ ExpiredAt(items[k], sweepAt)
                    THEN None
                    ELSE items[k]]
    /\ UNCHANGED <<now, getVars, sweepAt, live>>

Tick ==
    /\ now < MaxTime
    /\ now' = now + 1
    /\ UNCHANGED <<items, getVars, sweepAt, toSweep, live>>

-------------------------------------------------------------------------------
GetStep(p) ==
    \/ \E k \in Key : GetCopies(p, k)
    \/ GetChecks(p)
    \/ GetRemoves(p)
    \/ GetReturns(p)

TTLNext ==
    \/ \E k \in Key, v \in Value, ttl \in TTL, skip, upd \in BOOLEAN :
          Set(k, v, ttl, skip, upd)
    \/ \E k \in Key : Delete(k)
    \/ \E p \in Proc : GetStep(p)
    \/ CleanupStarts
    \/ \E s \in Shard : CleanupVisits(s)
    \/ Tick

TTLSpec == TTLInit /\ [][TTLNext]_ttlVars

-------------------------------------------------------------------------------
(* Properties. *)

\* The variables keep their types.
TTLTypeOK ==
    /\ items \in [Key -> Entry \cup {None}]
    /\ now \in Nat
    /\ gpc \in [Proc -> {"idle", "copied", "remove", "hit", "miss"}]
    /\ gkey \in [Proc -> Key \cup {None}]
    /\ snap \in [Proc -> Entry \cup {None}]
    /\ sweepAt \in Nat
    /\ toSweep \subseteq Shard
    /\ live \in [Proc -> SUBSET Value]

\* An entry that has not expired is taken out by nobody but Delete: neither a
\* Get that still holds the copy of an older entry nor a cleanup that read the
\* clock long ago removes what a Set has stored meanwhile.
LiveEntriesStay ==
    [][\A k \in Key : items[k] # None /\ ~isExpired(items[k]) /\ items'[k] = None
                         => Delete(k)]_ttlVars

\* A hit returns a value that was in the map, unexpired, at some moment
\* between the call and the return.
HitWasLive ==
    \A p \in Proc : gpc[p] = "hit" => snap[p].value \in live[p]

\* What the proofs need besides the types: the cleanup's clock reading is not
\* ahead of the clock, and a Get about to remove holds an expired copy.
TTLInv ==
    /\ TTLTypeOK
    /\ sweepAt <= now
    /\ \A p \in Proc :
          /\ gpc[p] # "idle" => gkey[p] \in Key
          /\ gpc[p] \in {"remove", "hit"} => snap[p] # None
          /\ gpc[p] = "remove" => isExpired(snap[p])
          /\ gpc[p] = "hit" => snap[p].value \in live[p]
          /\ gpc[p] = "copied" /\ snap[p] # None =>
                snap[p].value \in live[p] \/ isExpired(snap[p])
==============================================================================
