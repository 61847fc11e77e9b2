--------------------------- MODULE DnsClientProofs ---------------------------
(***************************************************************************)
(* The TTL cache and the DNS client on top of it, for any keys, calls,     *)
(* configurations, records and lifetimes.                                  *)
(*                                                                         *)
(* The cache rests on its clock being monotonic: a Get that decided to     *)
(* remove holds a copy that has expired and stays expired, so any entry    *)
(* with the same expiry time has expired as well; and the time a cleanup   *)
(* started with is never ahead of the clock.                               *)
(*                                                                         *)
(* The client rests on the order of its rendezvous: as long as the context *)
(* lasts a lookup is done only when the collector has its message, and the *)
(* channel is closed only when all lookups are done.  Sorting keeps what   *)
(* was collected, which is proved by induction over the sequence.          *)
(*                                                                         *)
(* The order of an answer does not depend on which message came first:     *)
(* Less decides between any two addresses of different families, and of    *)
(* two it leaves level the sort keeps the order they have in the one       *)
(* message both came with.                                                 *)
(***************************************************************************)
EXTENDS DnsClient, WellFoundedInduction, TLAPS

-------------------------------------------------------------------------------
(* The TTL cache. *)

\* An entry that has expired stays expired.
LEMMA ExpiryIsFinal ==
    ASSUME NEW e \in Entry, now \in Nat, now' \in Nat, now <= now', isExpired(e)
    PROVE  isExpired(e)'
BY DEF Entry, isExpired, ExpiredAt

\* The empty cache, with no call under way, satisfies the invariant.
LEMMA TTLInvInit == TTLInit => TTLInv
BY DEF TTLInit, TTLInv, TTLTypeOK

\* Set preserves the invariant.
LEMMA SetKeepsInv ==
    ASSUME TTLInv, NEW k \in Key, NEW v \in Value, NEW ttl \in TTL,
           NEW skip \in BOOLEAN, NEW upd \in BOOLEAN, Set(k, v, ttl, skip, upd)
    PROVE  TTLInv'
<1> USE DEF TTLInv, TTLTypeOK, Set, getVars
<1>1. items' \in [Key -> Entry \cup {None}]
  BY TTLAssumption DEF Entry
<1>2. \A p \in Proc : live'[p] \in SUBSET Value /\ live[p] \subseteq live'[p]
  BY <1>1 DEF Witnessed, Entry
<1>3. live' \in [Proc -> SUBSET Value]
  BY <1>2 DEF Witnessed
<1> QED BY <1>1, <1>2, <1>3 DEF isExpired, ExpiredAt

\* Delete preserves the invariant.
LEMMA DeleteKeepsInv ==
    ASSUME TTLInv, NEW k \in Key, Delete(k)
    PROVE  TTLInv'
BY DEF TTLInv, TTLTypeOK, Delete, getVars, isExpired, ExpiredAt

\* The steps of Get preserve the invariant.
LEMMA GetKeepsInv ==
    ASSUME TTLInv, NEW p \in Proc, GetStep(p)
    PROVE  TTLInv'
<1> USE DEF TTLInv, TTLTypeOK, isExpired, ExpiredAt
<1>1. ASSUME NEW k \in Key, GetCopies(p, k) PROVE TTLInv'
  BY <1>1 DEF GetCopies, Entry
<1>2. CASE GetChecks(p)
  BY <1>2 DEF GetChecks
<1>3. CASE GetRemoves(p)
  BY <1>3 DEF GetRemoves
<1>4. CASE GetReturns(p)
  BY <1>4 DEF GetReturns
<1> QED BY <1>1, <1>2, <1>3, <1>4 DEF GetStep

\* The janitor preserves the invariant.
LEMMA CleanupKeepsInv ==
    ASSUME TTLInv, CleanupStarts \/ \E s \in Shard : CleanupVisits(s)
    PROVE  TTLInv'
<1> USE DEF TTLInv, TTLTypeOK, isExpired, ExpiredAt, getVars
<1>1. CASE CleanupStarts
  BY <1>1 DEF CleanupStarts
<1>2. ASSUME NEW s \in Shard, CleanupVisits(s) PROVE TTLInv'
  BY <1>2 DEF CleanupVisits
<1> QED BY <1>1, <1>2

\* Time passing preserves the invariant.
LEMMA TickKeepsInv ==
    ASSUME TTLInv, Tick
    PROVE  TTLInv'
<1> USE DEF TTLInv, TTLTypeOK, Tick, getVars
<1>1. now' \in Nat /\ now <= now' /\ sweepAt' <= now'
  OBVIOUS
<1>2. ASSUME NEW p \in Proc, snap[p] # None, isExpired(snap[p])
      PROVE  isExpired(snap[p])'
  BY <1>1, <1>2, ExpiryIsFinal
<1> QED BY <1>1, <1>2

\* The inductive invariant holds in every reachable state.
THEOREM TTLInvariant == TTLSpec => []TTLInv
<1>1. TTLInv /\ [TTLNext]_ttlVars => TTLInv'
  <2> SUFFICES ASSUME TTLInv, [TTLNext]_ttlVars PROVE TTLInv'
    OBVIOUS
  <2>1. CASE UNCHANGED ttlVars
    BY <2>1 DEF ttlVars, getVars, TTLInv, TTLTypeOK, isExpired, ExpiredAt
  <2> QED BY <2>1, SetKeepsInv, DeleteKeepsInv, GetKeepsInv, CleanupKeepsInv,
             TickKeepsInv DEF TTLNext
<1> QED BY TTLInvInit, <1>1, PTL DEF TTLSpec

\* A hit is a value that was unexpired in the map during the call.
THEOREM HitsAreLive == TTLSpec => []HitWasLive
<1>1. TTLInv => HitWasLive
  BY DEF TTLInv, HitWasLive
<1> QED BY <1>1, TTLInvariant, PTL

\* Only Delete removes an entry that has not expired: the late removal of Get
\* and the janitor's old clock reading are both harmless.
THEOREM OnlyDeleteRemovesLive == TTLSpec => LiveEntriesStay
<1> DEFINE Stays == \A k \in Key :
                       items[k] # None /\ ~isExpired(items[k]) /\ items'[k] = None
                          => Delete(k)
<1>1. TTLInv /\ [TTLNext]_ttlVars => [Stays]_ttlVars
  <2> SUFFICES ASSUME TTLInv, TTLNext, NEW k \in Key,
                      items[k] # None, ~isExpired(items[k]), items'[k] = None
               PROVE  Delete(k)
    BY DEF ttlVars
  <2> USE DEF TTLInv, TTLTypeOK
  <2>1. ASSUME NEW j \in Key, NEW v \in Value, NEW ttl \in TTL,
               NEW skip \in BOOLEAN, NEW upd \in BOOLEAN, Set(j, v, ttl, skip, upd)
        PROVE  FALSE
    <3>1. [value |-> v, expiresAt |-> now + ttl] \in Entry
      BY TTLAssumption DEF Entry
    <3>2. [value |-> v, expiresAt |-> now + ttl] # None
      BY <3>1, TTLAssumption DEF Entry
    <3> QED BY <2>1, <3>2 DEF Set
  <2>2. ASSUME NEW j \in Key, Delete(j) PROVE Delete(k)
    <3>1. j = k
      BY <2>2 DEF Delete
    <3> QED BY <2>2, <3>1
  <2>3. ASSUME NEW p \in Proc, GetStep(p) PROVE FALSE
    <3>1. CASE GetRemoves(p)
      <4>1. k = gkey[p] /\ items[k].expiresAt = snap[p].expiresAt
        BY <3>1 DEF GetRemoves
      <4> QED BY <3>1, <4>1 DEF GetRemoves, isExpired, ExpiredAt
    <3>2. CASE ~GetRemoves(p)
      BY <2>3, <3>2 DEF GetStep, GetCopies, GetChecks, GetReturns
    <3> QED BY <3>1, <3>2
  <2>4. ASSUME NEW s \in Shard, CleanupVisits(s) PROVE FALSE
    <3>1. items[k] \in Entry /\ ExpiredAt(items[k], sweepAt)
      BY <2>4 DEF CleanupVisits
    <3> QED BY <3>1 DEF isExpired, ExpiredAt, Entry
  <2>5. CASE CleanupStarts \/ Tick
    BY <2>5 DEF CleanupStarts, Tick
  <2> QED BY <2>1, <2>2, <2>3, <2>4, <2>5 DEF TTLNext
<1> QED BY <1>1, TTLInvariant, PTL DEF TTLSpec, LiveEntriesStay

-------------------------------------------------------------------------------
(* Induction, and what sorting an answer keeps. *)

\* A set of naturals that is not empty has a least element.
LEMMA LeastNat ==
    ASSUME NEW T \in SUBSET Nat, T # {}
    PROVE  \E x \in T : \A y \in T : x <= y
  <1> DEFINE R == OpToRel(<, Nat)
  <1>1. \A x, y \in Nat : <<y, x>> \in R <=> y < x
    BY DEF OpToRel
  <1>2. IsWellFoundedOn(R, Nat)
    BY NatLessThanWellFounded
  <1> HIDE DEF R
  <1>3. PICK x \in T : \A y \in T : ~(<<y, x>> \in R)
    BY <1>2, WFMin
  <1>4. \A y \in T : ~(y < x)
    BY <1>1, <1>3
  <1> QED BY <1>4

\* Induction over the naturals, on a set.
LEMMA SetInduction ==
    ASSUME NEW P \in SUBSET Nat, 0 \in P, \A n \in P : n + 1 \in P
    PROVE  P = Nat
<1> SUFFICES ASSUME Nat \ P # {} PROVE FALSE
  OBVIOUS
<1>1. PICK x \in Nat \ P : \A y \in Nat \ P : x <= y
  BY LeastNat
<1>2. x # 0 /\ x - 1 \in Nat
  BY <1>1
<1>3. x - 1 \in P
  BY <1>1, <1>2
<1> QED BY <1>3

\* The set that Insert takes the largest position of has one.
LEMMA LargestPosition ==
    ASSUME NEW n \in Nat, NEW T \in SUBSET (0..n), 0 \in T
    PROVE  Max(T) \in T /\ \A y \in T : y <= Max(T)
<1>1. {n - y : y \in T} \in SUBSET Nat /\ {n - y : y \in T} # {}
  OBVIOUS
<1>2. PICK d \in {n - y : y \in T} : \A e \in {n - y : y \in T} : d <= e
  BY <1>1, LeastNat
<1>3. PICK x \in T : d = n - x
  BY <1>2
<1>4. \A y \in T : x >= y
  BY <1>2, <1>3
<1>5. \A y \in T : Max(T) \in T /\ Max(T) >= y
  BY <1>4 DEF Max
<1> QED BY <1>5

\* t is s with a in place k.
Placed(t, s, k, a) ==
    /\ t \in Seq(Address) /\ Len(t) = Len(s) + 1
    /\ \A i \in 1..(k - 1) : t[i] = s[i]
    /\ t[k] = a
    /\ \A i \in (k + 1)..(Len(s) + 1) : t[i] = s[i - 1]

\* What InsertAt puts where.
LEMMA InsertAtPlaces ==
    ASSUME NEW s \in Seq(Address), NEW a \in Address, NEW k \in 1..(Len(s) + 1),
           NEW t, t = InsertAt(s, k, a)
    PROVE  Placed(t, s, k, a)
<1> DEFINE front == SubSeq(s, 1, k - 1)
           back == SubSeq(s, k, Len(s))
           u == front \o <<a>>
<1>1. t = u \o back
  BY DEF InsertAt
<1>2. /\ front \in Seq(Address) /\ Len(front) = k - 1
      /\ \A i \in 1..(k - 1) : front[i] = s[i]
  OBVIOUS
<1>3. /\ back \in Seq(Address) /\ Len(back) = Len(s) + 1 - k
      /\ \A i \in 1..(Len(s) + 1 - k) : back[i] = s[k + i - 1]
  OBVIOUS
<1> HIDE DEF front, back
<1>4. u \in Seq(Address) /\ Len(u) = k
  BY <1>2
<1>5. u[k] = a
  BY <1>2
<1>6. \A i \in 1..(k - 1) : u[i] = s[i]
  BY <1>2
<1> HIDE DEF u
<1>7. t \in Seq(Address) /\ Len(t) = Len(s) + 1
  BY <1>1, <1>3, <1>4
<1>8. \A i \in 1..k : t[i] = u[i]
  BY <1>1, <1>3, <1>4
<1>9. ASSUME NEW i \in (k + 1)..(Len(s) + 1) PROVE t[i] = s[i - 1]
  <2>1. t[i] = back[i - k] /\ i - k \in 1..(Len(s) + 1 - k)
    BY <1>1, <1>3, <1>4
  <2>2. k + (i - k) - 1 = i - 1
    OBVIOUS
  <2> QED BY <2>1, <2>2, <1>3
<1>10. \A i \in 1..(k - 1) : t[i] = s[i]
  BY <1>6, <1>8
<1>11. t[k] = a
  BY <1>5, <1>8
<1>12. \A i \in (k + 1)..(Len(s) + 1) : t[i] = s[i - 1]
  BY <1>9
<1> QED BY <1>7, <1>10, <1>11, <1>12, Zenon DEF Placed

\* Where Insert stops: behind the last address that the new one is not better
\* than.
LEMMA InsertStops ==
    ASSUME NEW s \in Seq(Address), NEW a \in Address
    PROVE  \E k \in 1..(Len(s) + 1) :
              /\ Insert(s, a) = InsertAt(s, k, a)
              /\ k > 1 => <<a, s[k - 1]>> \notin Less
              /\ \A j \in k..Len(s) : <<a, s[j]>> \in Less
<1> DEFINE T == {j \in 1..Len(s) : <<a, s[j]>> \notin Less} \cup {0}
<1>1. T \in SUBSET (0..Len(s)) /\ 0 \in T /\ Len(s) \in Nat
  OBVIOUS
<1>2. Max(T) \in T /\ \A y \in T : y <= Max(T)
  <2> HIDE DEF T
  <2> QED BY <1>1, LargestPosition
<1>3. Insert(s, a) = InsertAt(s, Max(T) + 1, a)
  BY DEF Insert
<1>4. PICK m \in T : m = Max(T) /\ \A y \in T : y <= m
  BY <1>2
<1>5. m + 1 \in 1..(Len(s) + 1) /\ m + 1 - 1 = m
  BY <1>1
<1>6. m + 1 > 1 => <<a, s[m]>> \notin Less
  BY <1>1
<1>7. ASSUME NEW j \in (m + 1)..Len(s) PROVE <<a, s[j]>> \in Less
  <2>1. j \in 1..Len(s) /\ ~(j <= m)
    BY <1>1
  <2> QED BY <2>1, <1>4
<1> HIDE DEF T
<1>8. ASSUME NEW k, k = m + 1
      PROVE  /\ k \in 1..(Len(s) + 1)
             /\ Insert(s, a) = InsertAt(s, k, a)
             /\ k > 1 => <<a, s[k - 1]>> \notin Less
             /\ \A j \in k..Len(s) : <<a, s[j]>> \in Less
  <2>1. k - 1 = m /\ k \in 1..(Len(s) + 1)
    BY <1>1, <1>5, <1>8
  <2>2. Insert(s, a) = InsertAt(s, k, a)
    BY <1>3, <1>4, <1>8
  <2>3. k > 1 => <<a, s[k - 1]>> \notin Less
    BY <1>6, <1>8, <2>1
  <2> QED BY <1>7, <1>8, <2>1, <2>2, <2>3
<1> QED BY <1>8

\* Insert places an address somewhere in the sequence and keeps the rest.
LEMMA InsertKeeps ==
    ASSUME NEW s \in Seq(Address), NEW a \in Address
    PROVE  /\ Insert(s, a) \in Seq(Address)
           /\ Range(Insert(s, a)) = Range(s) \cup {a}
           /\ Len(Insert(s, a)) = Len(s) + 1
<1>1. PICK k \in 1..(Len(s) + 1) : Insert(s, a) = InsertAt(s, k, a)
  BY InsertStops
<1>2. PICK t : t = InsertAt(s, k, a)
  OBVIOUS
<1>3. Placed(t, s, k, a)
  BY <1>1, <1>2, InsertAtPlaces
<1>4. /\ t \in Seq(Address) /\ Len(t) = Len(s) + 1
      /\ \A i \in 1..(k - 1) : t[i] = s[i]
      /\ t[k] = a
      /\ \A i \in (k + 1)..(Len(s) + 1) : t[i] = s[i - 1]
  BY <1>3 DEF Placed
<1>5. ASSUME NEW i \in 1..Len(s) PROVE s[i] \in Range(t)
  <2>1. CASE i < k
    BY <2>1, <1>4 DEF Range
  <2>2. CASE i >= k
    <3>1. i + 1 \in (k + 1)..(Len(s) + 1) /\ i + 1 \in DOMAIN t
      BY <2>2, <1>4
    <3>2. t[i + 1] = s[i]
      BY <3>1, <1>4
    <3> QED BY <3>1, <3>2 DEF Range
  <2> QED BY <2>1, <2>2
<1>6. a \in Range(t)
  BY <1>4 DEF Range
<1>7. ASSUME NEW i \in DOMAIN t PROVE t[i] \in Range(s) \cup {a}
  <2>1. i \in 1..(Len(s) + 1)
    BY <1>4
  <2>2. CASE i < k
    <3>1. i \in 1..(k - 1) /\ i \in DOMAIN s
      BY <2>1, <2>2
    <3> QED BY <3>1, <1>4 DEF Range
  <2>3. CASE i > k
    <3>1. i \in (k + 1)..(Len(s) + 1) /\ i - 1 \in DOMAIN s
      BY <2>1, <2>3
    <3> QED BY <3>1, <1>4 DEF Range
  <2> QED BY <2>1, <2>2, <2>3, <1>4
<1>8. Range(t) = Range(s) \cup {a}
  BY <1>5, <1>6, <1>7 DEF Range
<1> QED BY <1>1, <1>2, <1>4, <1>8

\* The recursion that sorts the prefixes of a sequence has a solution.
LEMMA SortedPrefixesExist ==
    ASSUME NEW s \in Seq(Address)
    PROVE  \E f : f = [n \in 0..Len(s) |-> IF n = 0 THEN <<>> ELSE Insert(f[n - 1], s[n])]
<1> DEFINE Solves(f, m) ==
               f = [n \in 0..m |-> IF n = 0 THEN <<>> ELSE Insert(f[n - 1], s[n])]
           P == {m \in Nat : \E f : Solves(f, m)}
<1>1. 0 \in P
  <2> DEFINE f == [n \in 0..0 |-> <<>>]
  <2>1. Solves(f, 0)
    OBVIOUS
  <2> QED BY <2>1
<1>2. \A m \in P : m + 1 \in P
  <2> TAKE m \in P
  <2>1. PICK f : Solves(f, m)
    OBVIOUS
  <2> DEFINE g == [n \in 0..(m + 1) |-> IF n = m + 1 THEN Insert(f[m], s[n]) ELSE f[n]]
  <2>2. \A n \in 0..m : f[n] = IF n = 0 THEN <<>> ELSE Insert(f[n - 1], s[n])
    BY <2>1
  <2>3. \A n \in 0..(m + 1) : g[n] = IF n = 0 THEN <<>> ELSE Insert(g[n - 1], s[n])
    BY <2>2
  <2>4. g = [n \in 0..(m + 1) |-> g[n]]
    OBVIOUS
  <2> HIDE DEF g
  <2>5. g = [n \in 0..(m + 1) |-> IF n = 0 THEN <<>> ELSE Insert(g[n - 1], s[n])]
    BY <2>3, <2>4
  <2> QED BY <2>5
<1>3. P = Nat
  <2> HIDE DEF P
  <2>1. P \in SUBSET Nat
    BY DEF P
  <2> QED BY <1>1, <1>2, <2>1, SetInduction
<1> QED BY <1>3

\* The prefixes satisfy their defining equation.
LEMMA SortedPrefixesStep ==
    ASSUME NEW s \in Seq(Address), NEW n \in 0..Len(s)
    PROVE  SortedPrefixes(s)[n] =
              IF n = 0 THEN <<>> ELSE Insert(SortedPrefixes(s)[n - 1], s[n])
<1>1. SortedPrefixes(s) = [m \in 0..Len(s) |->
          IF m = 0 THEN <<>> ELSE Insert(SortedPrefixes(s)[m - 1], s[m])]
  BY SortedPrefixesExist, Zenon DEF SortedPrefixes
<1> QED BY <1>1

\* What holds of the sorted prefixes of a sequence, by induction on their length.
LEMMA PrefixesKeepAddresses ==
    ASSUME NEW s \in Seq(Address), NEW f,
           \A n \in 0..Len(s) : f[n] = IF n = 0 THEN <<>> ELSE Insert(f[n - 1], s[n]),
           NEW m \in 0..Len(s)
    PROVE  /\ f[m] \in Seq(Address)
           /\ Range(f[m]) = {s[i] : i \in 1..m}
           /\ Len(f[m]) = m
<1> DEFINE Good(n) == /\ f[n] \in Seq(Address)
                      /\ Range(f[n]) = {s[i] : i \in 1..n}
                      /\ Len(f[n]) = n
           P == {n \in Nat : n <= Len(s) => Good(n)}
<1>1. Good(0)
  <2>1. f[0] = <<>>
    OBVIOUS
  <2>2. Range(f[0]) = {}
    BY <2>1 DEF Range
  <2> QED BY <2>1, <2>2
<1>2. ASSUME NEW n \in Nat, n + 1 <= Len(s), Good(n) PROVE Good(n + 1)
  <2>1. f[n + 1] = Insert(f[n], s[n + 1])
    BY <1>2
  <2>2. s[n + 1] \in Address
    BY <1>2
  <2>3. {s[i] : i \in 1..(n + 1)} = {s[i] : i \in 1..n} \cup {s[n + 1]}
    BY <1>2
  <2> QED BY <1>2, <2>1, <2>2, <2>3, InsertKeeps
<1> HIDE DEF Good
<1>3. 0 \in P /\ \A n \in P : n + 1 \in P
  BY <1>1, <1>2
<1>4. P = Nat
  <2> HIDE DEF P
  <2>1. P \in SUBSET Nat
    BY DEF P
  <2> QED BY <1>3, <2>1, SetInduction
<1>5. m \in P
  BY <1>4
<1>6. Good(m)
  BY <1>5
<1> QED BY <1>6 DEF Good

\* Sorting an answer neither loses, invents nor repeats an address.
LEMMA SortKeepsAddresses ==
    ASSUME NEW s \in Seq(Address)
    PROVE  /\ SortByRFC6724(s) \in Seq(Address)
           /\ Range(SortByRFC6724(s)) = Range(s)
           /\ Len(SortByRFC6724(s)) = Len(s)
<1>1. PICK f : f = SortedPrefixes(s)
  OBVIOUS
<1>2. \A n \in 0..Len(s) : f[n] = IF n = 0 THEN <<>> ELSE Insert(f[n - 1], s[n])
  BY <1>1, SortedPrefixesStep
<1>3. PICK m \in 0..Len(s) : m = Len(s)
  OBVIOUS
<1>4. /\ f[m] \in Seq(Address)
      /\ Range(f[m]) = {s[i] : i \in 1..m}
      /\ Len(f[m]) = m
  BY <1>2, PrefixesKeepAddresses
<1>5. Range(s) = {s[i] : i \in 1..m}
  BY <1>3 DEF Range
<1>6. SortByRFC6724(s) = f[m]
  BY <1>1, <1>3 DEF SortByRFC6724
<1> QED BY <1>3, <1>4, <1>5, <1>6

-------------------------------------------------------------------------------
(* The inductive invariant of the client. *)

Step == {"idle", "lookup", "pick", "collect", "store", "returned"}

LookupStepName == {"none", "exchange", "send", "done"}

AnyMessage == [found : {TRUE}, ttl : TTL] \cup [found : {FALSE}, ttl : {0}]

\* The types of the client's variables.
CallTypeOK ==
    /\ rpc \in [Proc -> Step]
    /\ dom \in [Proc -> Key \cup {None}]
    /\ cfg \in [Proc -> DNSOptions \cup {None}]
    /\ timedOut \subseteq Proc
    /\ lpc \in [Proc -> [QType -> LookupStepName]]
    /\ msg \in [Proc -> [QType -> AnyMessage \cup {None}]]
    /\ closed \subseteq Proc
    /\ addrs \in [Proc -> Seq(Address)]
    /\ minTTL \in [Proc -> SUBSET TTL]
    /\ DOMAIN answer = Proc

\* How far a call and its lookup goroutines have come: goroutines exist from
\* "collect" on, for the types asked for; the closer waited for all of them.
LookupInv ==
    \A r \in Proc :
        /\ rpc[r] # "idle" => cfg[r] \in DNSOptions /\ dom[r] \in Key
        /\ rpc[r] = "store" => r \in closed
        /\ rpc[r] = "returned" => r \in timedOut
        /\ r \in closed => rpc[r] \in {"collect", "store", "returned"}
        /\ \A q \in QType :
              /\ lpc[r][q] # "none" => /\ rpc[r] \in {"collect", "store", "returned"}
                                       /\ q \in cfg[r].types
              /\ lpc[r][q] \in {"none", "exchange"} => msg[r][q] = None
              /\ lpc[r][q] \in {"send", "done"} => msg[r][q] # None
              /\ r \in closed => lpc[r][q] \in {"none", "done"}

Holds(s, q) == Range(s) \cap Range(Records[q]) # {}

\* What a call has collected: nothing but what its lookups found, with the TTL
\* of each; everything they found, as long as its context lasts.
Collected(r) ==
    /\ rpc[r] \notin {"collect", "store"} => addrs[r] = <<>>
    /\ rpc[r] = "store" => addrs[r] # <<>>
    /\ addrs[r] # <<>> => minTTL[r] # {}
    /\ \A q \in QType :
          /\ Holds(addrs[r], q) => /\ lpc[r][q] = "done"
                                   /\ Found(r, q)
                                   /\ msg[r][q].ttl \in minTTL[r]
          /\ /\ rpc[r] \in {"collect", "store"}
             /\ r \notin timedOut
             /\ lpc[r][q] = "done"
             /\ Found(r, q)
             => Holds(addrs[r], q)

CollectInv == \A r \in Proc : Collected(r)

\* The call r stands behind what is stored under k until t.
Vouches(r, k, v, t) ==
    /\ dom[r] = k
    /\ useCache(cfg[r])
    /\ rpc[r] = "returned"
    /\ answer[r] = v
    /\ \A q \in TypesOf(answer[r]) : Found(r, q) /\ t <= now + msg[r][q].ttl

\* What the cache holds is vouched for.
StoredInv ==
    /\ now \in Nat
    /\ DOMAIN items = Key
    /\ \A k \in Key : items[k] # None =>
          /\ items[k].expiresAt \in Nat
          /\ \E r \in Proc : Vouches(r, k, items[k].value, items[k].expiresAt)

ClientInv == CallTypeOK /\ LookupInv /\ CollectInv /\ StoredInv

-------------------------------------------------------------------------------
(* What the operators of the client do. *)

\* The smallest of some TTLs.
LEMMA SmallestIsLeast ==
    ASSUME NEW S \in SUBSET Nat, S # {}
    PROVE  Smallest(S) \in S /\ \A m \in S : Smallest(S) <= m
BY LeastNat DEF Smallest

\* TypesOf in terms of ranges.
LEMMA TypesAreHeld ==
    ASSUME NEW s
    PROVE  TypesOf(s) = {q \in QType : Holds(s, q)}
BY DEF TypesOf, Holds, Range

\* An answer without addresses holds no type.
LEMMA NothingHeld ==
    ASSUME NEW q \in QType
    PROVE  ~Holds(<<>>, q)
BY DEF Holds, Range

\* No address comes with both types.
LEMMA TypesApart == Range(Records["A"]) \cap Range(Records["AAAA"]) = {}
BY DnsAssumption

\* Appending the addresses of a message adds its type and no other.
LEMMA AppendHolds ==
    ASSUME NEW s \in Seq(Address), NEW p \in QType, NEW q \in QType
    PROVE  /\ s \o Records[p] \in Seq(Address)
           /\ s \o Records[p] # <<>>
           /\ Holds(s \o Records[p], q) <=> Holds(s, q) \/ p = q
<1> DEFINE t == Records[p]
<1>1. t \in Seq(Address) /\ t # <<>>
  BY DnsAssumption
<1>2. Range(t) # {}
  <2>1. Len(t) # 0
    BY <1>1
  <2>2. 1 \in DOMAIN t
    BY <1>1, <2>1
  <2> QED BY <2>2 DEF Range
<1>3. Range(t) \cap Range(Records[q]) # {} <=> p = q
  BY <1>2, TypesApart DEF QType
<1> HIDE DEF t
<1>4. s \o t \in Seq(Address) /\ Len(s \o t) = Len(s) + Len(t)
  BY <1>1
<1>5. Range(s \o t) = Range(s) \cup Range(t)
  <2>1. ASSUME NEW i \in DOMAIN s PROVE s[i] \in Range(s \o t)
    <3>1. i \in DOMAIN (s \o t) /\ (s \o t)[i] = s[i]
      BY <1>1, <1>4
    <3> QED BY <3>1 DEF Range
  <2>2. ASSUME NEW i \in DOMAIN t PROVE t[i] \in Range(s \o t)
    <3>1. Len(s) + i \in DOMAIN (s \o t) /\ (s \o t)[Len(s) + i] = t[i]
      BY <1>1, <1>4
    <3> QED BY <3>1 DEF Range
  <2>3. ASSUME NEW i \in DOMAIN (s \o t) PROVE (s \o t)[i] \in Range(s) \cup Range(t)
    <3>1. CASE i <= Len(s)
      <4>1. i \in DOMAIN s /\ (s \o t)[i] = s[i]
        BY <1>1, <1>4, <3>1
      <4> QED BY <4>1 DEF Range
    <3>2. CASE i > Len(s)
      <4>1. i - Len(s) \in DOMAIN t /\ (s \o t)[i] = t[i - Len(s)]
        BY <1>1, <1>4, <3>2
      <4> QED BY <4>1 DEF Range
    <3> QED BY <3>1, <3>2, <1>4
  <2> QED BY <2>1, <2>2, <2>3 DEF Range
<1>6. Len(s \o t) # 0
  <2>1. Len(t) # 0 /\ Len(t) \in Nat /\ Len(s) \in Nat
    BY <1>1
  <2> QED BY <1>4, <2>1
<1>7. s \o t # <<>>
  BY <1>4, <1>6
<1>8. Holds(s \o t, q) <=> Holds(s, q) \/ p = q
  BY <1>3, <1>5 DEF Holds, t
<1> QED BY <1>4, <1>7, <1>8 DEF t

\* Sorting changes neither the types held nor whether there is an address.
LEMMA SortHolds ==
    ASSUME NEW s \in Seq(Address), NEW q \in QType
    PROVE  /\ SortByRFC6724(s) \in Seq(Address)
           /\ s # <<>> => SortByRFC6724(s) # <<>>
           /\ Holds(SortByRFC6724(s), q) <=> Holds(s, q)
<1>1. s # <<>> => Len(s) # 0
  OBVIOUS
<1> QED BY <1>1, SortKeepsAddresses DEF Holds

\* What a call may be configured with.
LEMMA ConfigsAreOptions ==
    ASSUME NEW r \in Proc, NEW c \in Configs[r]
    PROVE  c \in DNSOptions
BY DnsAssumption

\* What an exchange may return is a message.
LEMMA MessageIsTyped ==
    ASSUME NEW q \in QType, NEW m \in Message(q)
    PROVE  m \in AnyMessage /\ m # None
<1>1. m \in AnyMessage
  BY DnsAssumption DEF Message, AnyMessage
<1> QED BY <1>1, DnsAssumption DEF AnyMessage

-------------------------------------------------------------------------------
(* The invariant is kept. *)

\* Before the first call the invariant holds.
LEMMA ClientInit == Init => ClientInv
<1> SUFFICES ASSUME Init PROVE ClientInv
  OBVIOUS
<1> USE DEF Init, TTLInit
<1>1. CallTypeOK
  BY DEF CallTypeOK, Step, LookupStepName
<1>2. LookupInv
  BY DEF LookupInv
<1>3. CollectInv
  BY NothingHeld DEF CollectInv, Collected
<1>4. StoredInv
  BY DEF StoredInv
<1> QED BY <1>1, <1>2, <1>3, <1>4 DEF ClientInv

\* The types are kept: what is collected, sorted or not, is a sequence of
\* addresses.
LEMMA TypesAreKept ==
    ASSUME ClientInv, Next
    PROVE  CallTypeOK'
<1> USE DEF ClientInv, CallTypeOK, Goto, Return, lookupVars, callVars
<1>1. ASSUME NEW r \in Proc, NEW k \in Key, NEW c \in Configs[r],
             ResolveCached(r, k, c) \/ ResolveUncached(r, k, c)
      PROVE  CallTypeOK'
  <2>1. CASE ResolveCached(r, k, c)
    BY <2>1, ConfigsAreOptions DEF ResolveCached, Step
  <2>2. CASE ResolveUncached(r, k, c)
    BY <2>2, ConfigsAreOptions DEF ResolveUncached, Step
  <2> QED BY <1>1, <2>1, <2>2
<1>2. ASSUME NEW r \in Proc, ResolveStep(r) PROVE CallTypeOK'
  <2>1. CASE CacheGet(r)
    BY <2>1 DEF CacheGet, Step
  <2>2. CASE CacheMiss(r)
    BY <2>2 DEF CacheMiss, Step
  <2>3. CASE CacheHit(r)
    BY <2>3 DEF CacheHit, Step
  <2>4. CASE ResolveSystem(r)
    BY <2>4 DEF ResolveSystem, Step
  <2>5. CASE LookupAllTypes(r)
    BY <2>5 DEF LookupAllTypes, Step, LookupStepName
  <2> QED BY <1>2, <2>1, <2>2, <2>3, <2>4, <2>5 DEF ResolveStep
<1>3. ASSUME NEW r \in Proc, NEW q \in QType, LookupStep(r, q) PROVE CallTypeOK'
  <2>1. CASE ExchangeRetries(r, q)
    BY <2>1 DEF ExchangeRetries, LookupStepName
  <2>2. CASE LookupDrops(r, q)
    BY <2>2 DEF LookupDrops, LookupStepName
  <2>3. ASSUME NEW m \in Message(q), Answer(r, q, m) PROVE CallTypeOK'
    BY <2>3, MessageIsTyped DEF Answer, LookupStepName
  <2> QED BY <1>3, <2>1, <2>2, <2>3 DEF LookupStep, ExchangeReturns, UDPExchangeReturns
<1>4. ASSUME NEW r \in Proc, CollectStep(r) PROVE CallTypeOK'
  <2>1. ASSUME NEW q \in QType, CollectReceives(r, q) PROVE CallTypeOK'
    <3>1. msg[r][q] # None
      BY <2>1 DEF CollectReceives, LookupInv
    <3>2. msg[r][q].found => msg[r][q].ttl \in TTL
      BY <3>1 DEF AnyMessage
    <3>3. addrs[r] \o Records[q] \in Seq(Address)
      BY AppendHolds
    <3>4. /\ addrs' \in [Proc -> Seq(Address)]
          /\ minTTL' \in [Proc -> SUBSET TTL]
      <4>1. CASE msg[r][q].found
        <5>1. /\ addrs' = [addrs EXCEPT ![r] = addrs[r] \o Records[q]]
              /\ minTTL' = [minTTL EXCEPT ![r] = minTTL[r] \cup {msg[r][q].ttl}]
          BY <2>1, <4>1 DEF CollectReceives
        <5>2. addrs' \in [Proc -> Seq(Address)]
          BY <3>3, <5>1
        <5>3. minTTL' \in [Proc -> SUBSET TTL]
          BY <3>2, <4>1, <5>1
        <5> QED BY <5>2, <5>3
      <4>2. CASE ~msg[r][q].found
        BY <2>1, <4>2 DEF CollectReceives
      <4> QED BY <4>1, <4>2
    <3> QED BY <2>1, <3>4 DEF CollectReceives, LookupStepName
  <2>2. CASE CollectTimesOut(r)
    BY <2>2 DEF CollectTimesOut, Step
  <2>3. CASE CollectEnds(r)
    <3>1. CASE addrs[r] = <<>>
      <4>1. /\ Return(r, None)
            /\ UNCHANGED <<lpc, msg, closed, dom, cfg>>
        BY <2>3, <3>1 DEF CollectEnds
      <4> QED BY <4>1 DEF Step
    <3>2. CASE addrs[r] # <<>>
      <4>1. SortByRFC6724(addrs[r]) \in Seq(Address)
        BY SortKeepsAddresses
      <4>2. addrs' = [addrs EXCEPT ![r] = SortByRFC6724(addrs[r])]
        BY <2>3, <3>2 DEF CollectEnds
      <4>3. addrs' \in [Proc -> Seq(Address)]
        BY <4>1, <4>2
      <4> QED BY <2>3, <3>2, <4>3 DEF CollectEnds, Step
    <3> QED BY <3>1, <3>2
  <2>4. CASE StoreAnswer(r)
    BY <2>4 DEF StoreAnswer, Step
  <2> QED BY <1>4, <2>1, <2>2, <2>3, <2>4 DEF CollectStep
<1>5. ASSUME NEW r \in Proc, CloseResCh(r) \/ ContextEnds(r) PROVE CallTypeOK'
  BY <1>5 DEF CloseResCh, ContextEnds
<1>6. CASE Janitor \/ Clock
  BY <1>6 DEF Janitor, Clock
<1> QED BY <1>1, <1>2, <1>3, <1>4, <1>5, <1>6 DEF Next

\* The steps of calls and lookups stay in line: the channel is only closed when
\* no lookup will send, and a return cancels the context.
LEMMA LookupsAreKept ==
    ASSUME ClientInv, Next
    PROVE  LookupInv'
<1> USE DEF ClientInv, CallTypeOK, LookupInv, Goto, Return, lookupVars, callVars
<1>1. ASSUME NEW r \in Proc, NEW k \in Key, NEW c \in Configs[r],
             ResolveCached(r, k, c) \/ ResolveUncached(r, k, c)
      PROVE  LookupInv'
  <2>1. CASE ResolveCached(r, k, c)
    BY <2>1, ConfigsAreOptions DEF ResolveCached
  <2>2. CASE ResolveUncached(r, k, c)
    BY <2>2, ConfigsAreOptions DEF ResolveUncached
  <2> QED BY <1>1, <2>1, <2>2
<1>2. ASSUME NEW r \in Proc, ResolveStep(r) PROVE LookupInv'
  <2>1. CASE CacheGet(r)
    BY <2>1 DEF CacheGet
  <2>2. CASE CacheMiss(r)
    BY <2>2 DEF CacheMiss
  <2>3. CASE CacheHit(r)
    BY <2>3 DEF CacheHit
  <2>4. CASE ResolveSystem(r)
    BY <2>4 DEF ResolveSystem
  <2>5. CASE LookupAllTypes(r)
    BY <2>5 DEF LookupAllTypes
  <2> QED BY <1>2, <2>1, <2>2, <2>3, <2>4, <2>5 DEF ResolveStep
<1>3. ASSUME NEW r \in Proc, NEW q \in QType, LookupStep(r, q) PROVE LookupInv'
  <2>1. CASE ExchangeRetries(r, q)
    BY <2>1 DEF ExchangeRetries
  <2>2. CASE LookupDrops(r, q)
    BY <2>2 DEF LookupDrops
  <2>3. ASSUME NEW m \in Message(q), Answer(r, q, m) PROVE LookupInv'
    BY <2>3, MessageIsTyped DEF Answer
  <2> QED BY <1>3, <2>1, <2>2, <2>3 DEF LookupStep, ExchangeReturns, UDPExchangeReturns
<1>4. ASSUME NEW r \in Proc, CollectStep(r) PROVE LookupInv'
  <2>1. ASSUME NEW q \in QType, CollectReceives(r, q) PROVE LookupInv'
    BY <2>1 DEF CollectReceives
  <2>2. CASE CollectTimesOut(r)
    BY <2>2 DEF CollectTimesOut
  <2>3. CASE CollectEnds(r)
    BY <2>3 DEF CollectEnds
  <2>4. CASE StoreAnswer(r)
    BY <2>4 DEF StoreAnswer
  <2> QED BY <1>4, <2>1, <2>2, <2>3, <2>4 DEF CollectStep
<1>5. ASSUME NEW r \in Proc, CloseResCh(r) PROVE LookupInv'
  BY <1>5 DEF CloseResCh, LookupStepName
<1>6. ASSUME NEW r \in Proc, ContextEnds(r) PROVE LookupInv'
  BY <1>6 DEF ContextEnds
<1>7. CASE Janitor \/ Clock
  BY <1>7 DEF Janitor, Clock
<1> QED BY <1>1, <1>2, <1>3, <1>4, <1>5, <1>6, <1>7 DEF Next

\* What is collected stays what was found: only the rendezvous adds to it, and
\* only a context that has ended lets a message go.
LEMMA CollectedIsKept ==
    ASSUME ClientInv, Next
    PROVE  CollectInv'
<1> USE DEF ClientInv, CallTypeOK, LookupInv, CollectInv, Collected, Goto, Return,
            lookupVars, callVars, Found
<1>1. ASSUME NEW r \in Proc, NEW k \in Key, NEW c \in Configs[r],
             ResolveCached(r, k, c) \/ ResolveUncached(r, k, c)
      PROVE  CollectInv'
  <2>1. CASE ResolveCached(r, k, c)
    BY <2>1 DEF ResolveCached
  <2>2. CASE ResolveUncached(r, k, c)
    BY <2>2 DEF ResolveUncached
  <2> QED BY <1>1, <2>1, <2>2
<1>2. ASSUME NEW r \in Proc, ResolveStep(r) PROVE CollectInv'
  <2>1. CASE CacheGet(r)
    BY <2>1 DEF CacheGet
  <2>2. CASE CacheMiss(r)
    BY <2>2 DEF CacheMiss
  <2>3. CASE CacheHit(r)
    BY <2>3, NothingHeld DEF CacheHit
  <2>4. CASE ResolveSystem(r)
    BY <2>4, NothingHeld DEF ResolveSystem
  <2>5. CASE LookupAllTypes(r)
    BY <2>5, NothingHeld DEF LookupAllTypes
  <2> QED BY <1>2, <2>1, <2>2, <2>3, <2>4, <2>5 DEF ResolveStep
<1>3. ASSUME NEW r \in Proc, NEW q \in QType, LookupStep(r, q) PROVE CollectInv'
  <2>1. CASE ExchangeRetries(r, q)
    BY <2>1 DEF ExchangeRetries
  <2>2. CASE LookupDrops(r, q)
    BY <2>2 DEF LookupDrops
  <2>3. ASSUME NEW m \in Message(q), Answer(r, q, m) PROVE CollectInv'
    BY <2>3 DEF Answer
  <2> QED BY <1>3, <2>1, <2>2, <2>3 DEF LookupStep, ExchangeReturns, UDPExchangeReturns
<1>4. ASSUME NEW r \in Proc, CollectStep(r) PROVE CollectInv'
  <2>1. ASSUME NEW q \in QType, CollectReceives(r, q) PROVE CollectInv'
    <3>1. CASE ~msg[r][q].found
      BY <2>1, <3>1 DEF CollectReceives
    <3>2. CASE msg[r][q].found
      <4>1. /\ addrs' = [addrs EXCEPT ![r] = addrs[r] \o Records[q]]
            /\ minTTL' = [minTTL EXCEPT ![r] = minTTL[r] \cup {msg[r][q].ttl}]
            /\ lpc' = [lpc EXCEPT ![r][q] = "done"]
            /\ UNCHANGED <<rpc, timedOut, msg>>
        BY <2>1, <3>2 DEF CollectReceives
      <4>2. /\ addrs'[r] # <<>>
            /\ \A p \in QType : Holds(addrs'[r], p) <=> Holds(addrs[r], p) \/ p = q
        BY <4>1, AppendHolds
      <4>3. rpc[r] = "collect" /\ msg[r][q] # None
        BY <2>1 DEF CollectReceives
      <4>4. msg[r][q].ttl \in minTTL'[r] /\ minTTL[r] \subseteq minTTL'[r]
        BY <4>1
      <4>5. ASSUME NEW p \in Proc, p # r
            PROVE  /\ addrs'[p] = addrs[p] /\ minTTL'[p] = minTTL[p]
                   /\ lpc'[p] = lpc[p]
        BY <4>1, <4>5
      <4>6. lpc'[r][q] = "done" /\ \A p \in QType : p # q => lpc'[r][p] = lpc[r][p]
        BY <4>1
      <4>7. ASSUME NEW p \in Proc, p # r PROVE Collected(p)'
        BY <4>1, <4>5, <4>7
      <4>8. Collected(r)'
        <5>1. ASSUME NEW p \in QType, Holds(addrs'[r], p)
              PROVE  lpc'[r][p] = "done" /\ msg[r][p] # None /\ msg[r][p].found
                     /\ msg[r][p].ttl \in minTTL'[r]
          <6>1. CASE p = q
            BY <3>2, <4>3, <4>4, <4>6, <6>1
          <6>2. CASE p # q
            BY <4>2, <4>4, <4>6, <5>1, <6>2
          <6> QED BY <6>1, <6>2
        <5>2. ASSUME NEW p \in QType, lpc'[r][p] = "done", r \notin timedOut,
                     msg[r][p] # None, msg[r][p].found
              PROVE  Holds(addrs'[r], p)
          <6>1. CASE p = q
            BY <4>2, <6>1
          <6>2. CASE p # q
            BY <4>2, <4>3, <4>6, <5>2, <6>2
          <6> QED BY <6>1, <6>2
        <5> QED BY <4>1, <4>2, <4>3, <4>4, <5>1, <5>2
      <4> QED BY <4>7, <4>8
    <3> QED BY <3>1, <3>2
  <2>2. CASE CollectTimesOut(r)
    BY <2>2, NothingHeld DEF CollectTimesOut
  <2>3. CASE CollectEnds(r)
    <3>1. CASE addrs[r] = <<>>
      BY <2>3, <3>1, NothingHeld DEF CollectEnds
    <3>2. CASE addrs[r] # <<>>
      <4>1. /\ addrs' = [addrs EXCEPT ![r] = SortByRFC6724(addrs[r])]
            /\ rpc' = [rpc EXCEPT ![r] = "store"]
            /\ UNCHANGED <<answer, timedOut, minTTL, lpc, msg, closed>>
        BY <2>3, <3>2 DEF CollectEnds
      <4>2. /\ addrs'[r] # <<>>
            /\ \A q \in QType : Holds(addrs'[r], q) <=> Holds(addrs[r], q)
        BY <3>2, <4>1, SortHolds, SortKeepsAddresses
      <4> QED BY <2>3, <4>1, <4>2 DEF CollectEnds
    <3> QED BY <3>1, <3>2
  <2>4. CASE StoreAnswer(r)
    BY <2>4, NothingHeld DEF StoreAnswer
  <2> QED BY <1>4, <2>1, <2>2, <2>3, <2>4 DEF CollectStep
<1>5. ASSUME NEW r \in Proc, CloseResCh(r) PROVE CollectInv'
  BY <1>5 DEF CloseResCh
<1>6. ASSUME NEW r \in Proc, ContextEnds(r) PROVE CollectInv'
  BY <1>6 DEF ContextEnds
<1>7. CASE Janitor \/ Clock
  BY <1>7 DEF Janitor, Clock
<1> QED BY <1>1, <1>2, <1>3, <1>4, <1>5, <1>6, <1>7 DEF Next

\* A call that has returned keeps its domain, configuration and answer, and what
\* an exchange has returned is never replaced.
LEMMA ReturnedIsFinal ==
    ASSUME ClientInv, Next, NEW r \in Proc
    PROVE  /\ rpc[r] = "returned" => /\ rpc'[r] = "returned"
                                     /\ dom'[r] = dom[r]
                                     /\ cfg'[r] = cfg[r]
                                     /\ answer'[r] = answer[r]
           /\ \A q \in QType : msg[r][q] # None => msg'[r][q] = msg[r][q]
<1> DEFINE Final ==
       /\ rpc[r] = "returned" => /\ rpc'[r] = "returned"
                                 /\ dom'[r] = dom[r]
                                 /\ cfg'[r] = cfg[r]
                                 /\ answer'[r] = answer[r]
       /\ \A q \in QType : msg[r][q] # None => msg'[r][q] = msg[r][q]
<1> USE DEF ClientInv, CallTypeOK, Goto, Return, lookupVars, callVars
<1>1. ASSUME NEW p \in Proc, NEW k \in Key, NEW c \in Configs[p],
             ResolveCached(p, k, c) \/ ResolveUncached(p, k, c)
      PROVE  Final
  BY <1>1 DEF ResolveCached, ResolveUncached
<1>2. ASSUME NEW p \in Proc, ResolveStep(p) PROVE Final
  BY <1>2 DEF ResolveStep, CacheGet, CacheHit, CacheMiss, ResolveSystem, LookupAllTypes
<1>3. ASSUME NEW p \in Proc, NEW q \in QType, LookupStep(p, q) PROVE Final
  <2>1. CASE ExchangeRetries(p, q) \/ LookupDrops(p, q)
    BY <2>1 DEF ExchangeRetries, LookupDrops
  <2>2. ASSUME NEW m \in Message(q), Answer(p, q, m) PROVE Final
    BY <2>2 DEF Answer, LookupInv
  <2> QED BY <1>3, <2>1, <2>2 DEF LookupStep, ExchangeReturns, UDPExchangeReturns
<1>4. ASSUME NEW p \in Proc, CollectStep(p) PROVE Final
  <2>1. ASSUME NEW q \in QType, CollectReceives(p, q) PROVE Final
    BY <2>1 DEF CollectReceives
  <2>2. CASE CollectTimesOut(p) \/ CollectEnds(p) \/ StoreAnswer(p)
    BY <2>2 DEF CollectTimesOut, CollectEnds, StoreAnswer
  <2> QED BY <1>4, <2>1, <2>2 DEF CollectStep
<1>5. ASSUME NEW p \in Proc, CloseResCh(p) \/ ContextEnds(p) PROVE Final
  BY <1>5 DEF CloseResCh, ContextEnds
<1>6. CASE Janitor \/ Clock
  BY <1>6 DEF Janitor, Clock
<1> QED BY <1>1, <1>2, <1>3, <1>4, <1>5, <1>6 DEF Next

\* Every step but that of StoreAnswer leaves the cache's entries alone or takes
\* some away, while the clock does not go back.
LEMMA OnlyStoreAnswerStores ==
    ASSUME ClientInv, Next
    PROVE  \/ \E r \in Proc : StoreAnswer(r)
           \/ /\ now' \in Nat /\ now <= now'
              /\ DOMAIN items' = Key
              /\ \A k \in Key : items'[k] = items[k] \/ items'[k] = None
<1> DEFINE Fades == /\ now' \in Nat /\ now <= now'
                    /\ DOMAIN items' = Key
                    /\ \A k \in Key : items'[k] = items[k] \/ items'[k] = None
<1> USE DEF ClientInv, StoredInv, ttlVars, getVars
<1>1. ASSUME NEW p \in Proc, NEW k \in Key, NEW c \in Configs[p],
             ResolveCached(p, k, c) \/ ResolveUncached(p, k, c)
      PROVE  Fades
  BY <1>1 DEF ResolveCached, ResolveUncached, GetCopies
<1>2. ASSUME NEW p \in Proc, ResolveStep(p) PROVE Fades
  <2>1. CASE CacheGet(p)
    BY <2>1 DEF CacheGet, GetChecks, GetRemoves
  <2>2. CASE CacheHit(p) \/ CacheMiss(p)
    BY <2>2 DEF CacheHit, CacheMiss, GetReturns
  <2>3. CASE ResolveSystem(p) \/ LookupAllTypes(p)
    BY <2>3 DEF ResolveSystem, LookupAllTypes
  <2> QED BY <1>2, <2>1, <2>2, <2>3 DEF ResolveStep
<1>3. ASSUME NEW p \in Proc, NEW q \in QType, LookupStep(p, q) PROVE Fades
  BY <1>3 DEF LookupStep, ExchangeRetries, LookupDrops, ExchangeReturns,
              UDPExchangeReturns, Answer
<1>4. ASSUME NEW p \in Proc, CollectStep(p), ~StoreAnswer(p) PROVE Fades
  <2>1. ASSUME NEW q \in QType, CollectReceives(p, q) PROVE Fades
    BY <2>1 DEF CollectReceives
  <2>2. CASE CollectTimesOut(p)
    BY <2>2 DEF CollectTimesOut
  <2>3. CASE CollectEnds(p)
    BY <2>3 DEF CollectEnds
  <2> QED BY <1>4, <2>1, <2>2, <2>3 DEF CollectStep
<1>5. ASSUME NEW p \in Proc, CloseResCh(p) \/ ContextEnds(p) PROVE Fades
  BY <1>5 DEF CloseResCh, ContextEnds
<1>6. CASE Janitor
  BY <1>6 DEF Janitor, CleanupStarts, CleanupVisits
<1>7. CASE Clock
  BY <1>7 DEF Clock, Tick
<1> QED BY <1>1, <1>2, <1>3, <1>4, <1>5, <1>6, <1>7 DEF Next

\* A call goes on standing behind what it has stored.
LEMMA VouchesLast ==
    ASSUME ClientInv, Next, now' \in Nat, now <= now',
           NEW r \in Proc, NEW k, NEW v, NEW t \in Nat, Vouches(r, k, v, t)
    PROVE  Vouches(r, k, v, t)'
<1>1. /\ rpc'[r] = "returned" /\ dom'[r] = dom[r] /\ cfg'[r] = cfg[r]
      /\ answer'[r] = answer[r]
      /\ \A q \in QType : msg[r][q] # None => msg'[r][q] = msg[r][q]
  BY ReturnedIsFinal DEF Vouches
<1>2. ASSUME NEW q \in TypesOf(v)
      PROVE  msg'[r][q] # None /\ msg'[r][q].found /\ t <= now' + msg'[r][q].ttl
  <2>1. q \in QType
    BY DEF TypesOf
  <2>2. msg[r][q] # None /\ msg[r][q].found /\ t <= now + msg[r][q].ttl
    BY DEF Vouches, Found
  <2>3. msg'[r][q] = msg[r][q]
    BY <1>1, <2>1, <2>2
  <2>4. msg[r][q].ttl \in Nat
    <3>1. msg[r][q] \in AnyMessage
      BY <2>1, <2>2 DEF ClientInv, CallTypeOK
    <3>2. TTL \subseteq Nat
      BY TTLAssumption
    <3>3. msg[r][q].ttl \in TTL
      BY <2>2, <3>1 DEF AnyMessage
    <3> QED BY <3>2, <3>3
  <2> QED BY <2>2, <2>3, <2>4 DEF ClientInv, StoredInv
<1> QED BY <1>1, <1>2 DEF Vouches, Found

\* What the cache holds stays vouched for; what StoreAnswer adds is vouched for
\* by the call that stores it, for no longer than its shortest TTL.
LEMMA StoredIsKept ==
    ASSUME ClientInv, Next
    PROVE  StoredInv'
<1> DEFINE Sound(k) ==
               /\ items[k].expiresAt \in Nat
               /\ \E r \in Proc : Vouches(r, k, items[k].value, items[k].expiresAt)
<1>1. now \in Nat /\ DOMAIN items = Key /\ \A k \in Key : items[k] # None => Sound(k)
  BY DEF ClientInv, StoredInv
<1>2. ASSUME now' \in Nat, DOMAIN items' = Key,
             \A k \in Key : items'[k] # None => Sound(k)'
      PROVE  StoredInv'
  BY <1>2 DEF StoredInv
<1>3. ASSUME NEW k \in Key, items[k] # None, items'[k] = items[k],
             now' \in Nat, now <= now'
      PROVE  Sound(k)'
  <2>1. PICK r \in Proc : Vouches(r, k, items[k].value, items[k].expiresAt)
    BY <1>1, <1>3
  <2>2. ASSUME NEW v, NEW t \in Nat, Vouches(r, k, v, t) PROVE Vouches(r, k, v, t)'
    BY <1>3, <2>2, VouchesLast
  <2>3. PICK v, t : v = items[k].value /\ t = items[k].expiresAt
    OBVIOUS
  <2>4. t \in Nat /\ Vouches(r, k, v, t)'
    BY <1>1, <1>3, <2>1, <2>2, <2>3
  <2>5. v = items'[k].value /\ t = items'[k].expiresAt
    BY <1>3, <2>3
  <2> QED BY <2>4, <2>5 DEF Vouches
<1>4. CASE \A r \in Proc : ~StoreAnswer(r)
  <2>1. /\ now' \in Nat /\ now <= now' /\ DOMAIN items' = Key
        /\ \A k \in Key : items'[k] = items[k] \/ items'[k] = None
    BY <1>4, OnlyStoreAnswerStores
  <2>2. \A k \in Key : items'[k] # None => Sound(k)'
    <3> HIDE DEF Sound
    <3> QED BY <1>3, <2>1
  <2> HIDE DEF Sound
  <2> QED BY <1>2, <2>1, <2>2
<1>5. ASSUME NEW r \in Proc, StoreAnswer(r) PROVE StoredInv'
  <2> DEFINE k == dom[r]
             t == now + Smallest(minTTL[r])
  <2>1. k \in Key /\ cfg[r] \in DNSOptions /\ rpc[r] = "store"
    BY <1>5 DEF StoreAnswer, ClientInv, LookupInv
  <2>2. minTTL[r] \in SUBSET Nat /\ minTTL[r] # {}
    BY <2>1, TTLAssumption DEF ClientInv, CallTypeOK, CollectInv, Collected
  <2>3. Smallest(minTTL[r]) \in Nat /\ \A n \in minTTL[r] : Smallest(minTTL[r]) <= n
    BY <2>2, SmallestIsLeast
  <2>4. now' = now /\ t \in Nat
    BY <1>1, <1>5, <2>3 DEF StoreAnswer, Set, ttlVars, getVars
  <2>5. \/ items' = items
        \/ /\ useCache(cfg[r])
           /\ items' = [items EXCEPT ![k] = [value |-> addrs[r], expiresAt |-> t]]
    BY <1>5 DEF StoreAnswer, Set, ttlVars, getVars
  <2>6. CASE items' = items
    <3> HIDE DEF Sound
    <3>1. \A j \in Key : items'[j] # None => Sound(j)'
      BY <1>1, <1>3, <2>4, <2>6
    <3> QED BY <1>1, <1>2, <2>4, <2>6, <3>1
  <2>7. CASE /\ useCache(cfg[r])
             /\ items' = [items EXCEPT ![k] = [value |-> addrs[r], expiresAt |-> t]]
    <3>1. /\ dom'[r] = k /\ cfg'[r] = cfg[r] /\ rpc'[r] = "returned"
          /\ answer'[r] = addrs[r] /\ msg' = msg
      BY <1>5 DEF StoreAnswer, Return, Goto, ClientInv, CallTypeOK, lookupVars
    <3>2. ASSUME NEW q \in TypesOf(addrs[r])
          PROVE  msg[r][q] # None /\ msg[r][q].found /\ t <= now + msg[r][q].ttl
      <4>1. q \in QType /\ Holds(addrs[r], q)
        BY TypesAreHeld DEF TypesOf
      <4>2. Found(r, q) /\ msg[r][q].ttl \in minTTL[r]
        BY <4>1 DEF ClientInv, CollectInv, Collected
      <4>3. Smallest(minTTL[r]) <= msg[r][q].ttl /\ msg[r][q].ttl \in Nat
        BY <2>2, <2>3, <4>2
      <4> QED BY <1>1, <2>3, <4>2, <4>3 DEF Found
    <3>3. items'[k].value = addrs[r] /\ items'[k].expiresAt = t
      BY <1>1, <2>1, <2>7
    <3>4. PICK j : j = k
      OBVIOUS
    <3>5. PICK v, e : v = addrs[r] /\ e = t
      OBVIOUS
    <3>6. Vouches(r, j, v, e)'
      BY <2>4, <2>7, <3>1, <3>2, <3>4, <3>5 DEF Vouches, Found, useCache
    <3>7. Sound(j)'
      BY <2>4, <3>3, <3>4, <3>5, <3>6
    <3>8. ASSUME NEW i \in Key, i # j, items'[i] # None PROVE Sound(i)'
      <4>1. items'[i] = items[i]
        BY <1>1, <2>7, <3>4, <3>8
      <4> QED BY <1>1, <1>3, <2>4, <3>8, <4>1
    <3> HIDE DEF Sound
    <3> QED BY <1>1, <1>2, <2>4, <2>7, <3>7, <3>8
  <2> QED BY <2>5, <2>6, <2>7
<1> QED BY <1>4, <1>5

\* The inductive invariant of the client: its types, how far calls and lookups
\* have come, what is collected and what is cached.
THEOREM ClientInvariant == Spec => []ClientInv
<1>1. ClientInv /\ [Next]_dnsVars => ClientInv'
  <2> SUFFICES ASSUME ClientInv, [Next]_dnsVars PROVE ClientInv'
    OBVIOUS
  <2>1. CASE Next
    BY <2>1, TypesAreKept, LookupsAreKept, CollectedIsKept, StoredIsKept DEF ClientInv
  <2>2. CASE UNCHANGED dnsVars
    <3> USE <2>2 DEF dnsVars, ttlVars, lookupVars, callVars, ClientInv
    <3>1. CallTypeOK'
      BY DEF CallTypeOK
    <3>2. LookupInv'
      BY DEF LookupInv
    <3>3. CollectInv'
      BY DEF CollectInv, Collected, Found
    <3>4. StoredInv'
      BY DEF StoredInv, Vouches, Found
    <3> QED BY <3>1, <3>2, <3>3, <3>4
  <2> QED BY <2>1, <2>2
<1> QED BY ClientInit, <1>1, PTL DEF Spec

\* A call that ends before its context does returns every record type that some
\* upstream answer contained.
THEOREM AnswersInTimeAreWhole == Spec => []NothingLostInTime
<1>1. ClientInv => NothingLostInTime
  <2> SUFFICES ASSUME ClientInv, NEW r \in Proc, rpc[r] = "store", r \notin timedOut
               PROVE  TypesOf(addrs[r]) = {q \in QType : Found(r, q)}
    BY DEF NothingLostInTime
  <2>1. ASSUME NEW q \in QType, Found(r, q) PROVE Holds(addrs[r], q)
    <3>1. r \in closed /\ lpc[r][q] \in {"none", "done"}
      BY DEF ClientInv, LookupInv
    <3>2. lpc[r][q] = "done"
      BY <2>1, <3>1 DEF ClientInv, LookupInv, Found
    <3> QED BY <2>1, <3>2 DEF ClientInv, CollectInv, Collected
  <2>2. ASSUME NEW q \in QType, Holds(addrs[r], q) PROVE Found(r, q)
    BY <2>2 DEF ClientInv, CollectInv, Collected
  <2> QED BY <2>1, <2>2, TypesAreHeld
<1> QED BY <1>1, ClientInvariant, PTL

\* What the cache holds for a domain is what some call found for it upstream,
\* for no longer than the shortest-lived of its records.
THEOREM CacheIsTruthful == Spec => []CacheHoldsFoundRecords
<1>1. ClientInv => CacheHoldsFoundRecords
  BY DEF ClientInv, StoredInv, CacheHoldsFoundRecords, Vouches
<1> QED BY <1>1, ClientInvariant, PTL

\* A lookup goroutine that still has to send when nobody collects any more finds
\* the context done.
THEOREM NoLookupIsStuck == Spec => []LookupsReleased
<1>1. ClientInv => LookupsReleased
  BY DEF ClientInv, LookupInv, LookupsReleased
<1> QED BY <1>1, ClientInvariant, PTL

\* The client uses the cache as the cache means to be used: each of its steps is
\* a step of TTLCache or leaves the cache alone, wherever the cache may hold the
\* addresses of an answer.
THEOREM ClientImplementsCache == Seq(Address) \subseteq Value /\ Spec => TTLSpec
<1> SUFFICES ASSUME Seq(Address) \subseteq Value PROVE Spec => TTLSpec
  OBVIOUS
<1>1. Init => TTLInit
  BY DEF Init
<1>2. ClientInv /\ [Next]_dnsVars => [TTLNext]_ttlVars
  <2> SUFFICES ASSUME ClientInv, Next PROVE [TTLNext]_ttlVars
    BY DEF dnsVars
  <2>1. ASSUME NEW p \in Proc, NEW k \in Key, NEW c \in Configs[p],
               ResolveCached(p, k, c) \/ ResolveUncached(p, k, c)
        PROVE  [TTLNext]_ttlVars
    BY <2>1 DEF ResolveCached, ResolveUncached, TTLNext, GetStep
  <2>2. ASSUME NEW p \in Proc, ResolveStep(p) PROVE [TTLNext]_ttlVars
    BY <2>2 DEF ResolveStep, CacheGet, CacheHit, CacheMiss, ResolveSystem,
                LookupAllTypes, TTLNext, GetStep
  <2>3. ASSUME NEW p \in Proc, NEW q \in QType, LookupStep(p, q)
        PROVE  [TTLNext]_ttlVars
    BY <2>3 DEF LookupStep, ExchangeRetries, LookupDrops, ExchangeReturns,
                UDPExchangeReturns, Answer
  <2>4. ASSUME NEW p \in Proc, CollectStep(p), ~StoreAnswer(p)
        PROVE  [TTLNext]_ttlVars
    BY <2>4 DEF CollectStep, CollectReceives, CollectTimesOut, CollectEnds
  <2>5. ASSUME NEW p \in Proc, StoreAnswer(p) PROVE [TTLNext]_ttlVars
    <3>1. dom[p] \in Key /\ addrs[p] \in Value /\ minTTL[p] \in SUBSET TTL
          /\ minTTL[p] # {}
      BY <2>5 DEF StoreAnswer, ClientInv, CallTypeOK, LookupInv, CollectInv, Collected
    <3>2. Smallest(minTTL[p]) \in TTL
      BY <3>1, SmallestIsLeast, TTLAssumption
    <3>3. \/ UNCHANGED ttlVars
          \/ Set(dom[p], addrs[p], Smallest(minTTL[p]), FALSE, FALSE)
      BY <2>5 DEF StoreAnswer
    <3> QED BY <3>1, <3>2, <3>3 DEF TTLNext
  <2>6. ASSUME NEW p \in Proc, CloseResCh(p) \/ ContextEnds(p)
        PROVE  [TTLNext]_ttlVars
    BY <2>6 DEF CloseResCh, ContextEnds
  <2>7. CASE Janitor \/ Clock
    BY <2>7 DEF Janitor, Clock, TTLNext
  <2> QED BY <2>1, <2>2, <2>3, <2>4, <2>5, <2>6, <2>7 DEF Next
<1> QED BY <1>1, <1>2, ClientInvariant, PTL DEF Spec, TTLSpec

\* So what is proved of the cache holds of the cache in use: no stale decision
\* of a reader or of the cleanup removes an entry that a call has just stored.
THEOREM ClientKeepsLiveEntries == Seq(Address) \subseteq Value /\ Spec => LiveEntriesStay
BY ClientImplementsCache, OnlyDeleteRemovesLive, PTL

-------------------------------------------------------------------------------
(***************************************************************************)
(* The comparison of addresses.  IPv4 addresses, mapped ones included, and *)
(* no others have precedence 35: two addresses of different families are   *)
(* told apart by rule 6 at the latest, so rule 9, which is for IPv6 only,  *)
(* never meets a mixed pair, and Less is the lexicographic order of what   *)
(* the rules say of each address by itself.                                *)
(***************************************************************************)

\* The addresses rule 9 leaves alone.
V4(ip) == Is4(ip) \/ Is4In6(ip)

\* What each line of the policy table says.
LEMMA PolicyLines ==
    /\ rfc6724policyTable[1].prefix = {"loopback"} /\ rfc6724policyTable[1].precedence = 50
    /\ rfc6724policyTable[2].prefix = {"mapped"} /\ rfc6724policyTable[2].precedence = 35
    /\ rfc6724policyTable[3].prefix = {"loopback", "compat"} /\ rfc6724policyTable[3].precedence = 1
    /\ rfc6724policyTable[4].prefix = {"teredo"} /\ rfc6724policyTable[4].precedence = 5
    /\ rfc6724policyTable[5].prefix = {"6to4"} /\ rfc6724policyTable[5].precedence = 30
    /\ rfc6724policyTable[6].prefix = {"6bone"} /\ rfc6724policyTable[6].precedence = 1
    /\ rfc6724policyTable[7].prefix = {"sitelocal"} /\ rfc6724policyTable[7].precedence = 1
    /\ rfc6724policyTable[8].prefix = {"ula"} /\ rfc6724policyTable[8].precedence = 3
    /\ rfc6724policyTable[9].prefix = IPv6Kind /\ rfc6724policyTable[9].precedence = 40
BY DEF rfc6724policyTable, PolicyEntry

\* The least position of a line that contains a kind.
LEMMA FirstLine ==
    ASSUME NEW T \in SUBSET (1..9), 9 \in T
    PROVE  Min(T) \in T /\ \A y \in T : Min(T) <= y
<1>1. T \in SUBSET Nat /\ T # {}
  OBVIOUS
<1>2. PICK x \in T : \A y \in T : x <= y
  BY <1>1, LeastNat
<1> QED BY <1>2 DEF Min

\* The precedence tells IPv4 from IPv6.
LEMMA PrecedenceTells ==
    ASSUME NEW ip \in AnyIP
    PROVE  /\ ipAttrOf(ip).precedence \in Nat
           /\ ipAttrOf(ip).precedence = 35 <=> V4(ip)
<1> DEFINE kind == IF Is4(ip) THEN "mapped" ELSE ip.kind
           T == {i \in 1..9 : kind \in rfc6724policyTable[i].prefix}
<1>1. ipAttrOf(ip).precedence = rfc6724policyTable[Min(T)].precedence
  BY DEF ipAttrOf, Classify
<1>2. kind \in IPv6Kind /\ (kind = "mapped" <=> V4(ip))
  BY DEF AnyIP, Is4, Is4Kind, IPv6Kind, V4, Is4In6
<1>3. T \in SUBSET (1..9) /\ 9 \in T
  BY <1>2, PolicyLines
<1>4. Min(T) \in T /\ \A y \in T : Min(T) <= y
  <2> HIDE DEF T
  <2> QED BY <1>3, FirstLine
<1>5. PICK i \in T : i = Min(T)
  BY <1>4
<1>6. i \in 1..9 /\ kind \in rfc6724policyTable[i].prefix /\ \A y \in T : i <= y
  BY <1>4, <1>5
<1>7. CASE kind = "mapped"
  <2>1. 2 \in T
    BY <1>7, PolicyLines
  <2>2. i \in {1, 2}
    BY <1>6, <2>1
  <2>3. i # 1
    BY <1>6, <1>7, PolicyLines
  <2> QED BY <1>1, <1>2, <1>5, <1>7, <2>2, <2>3, PolicyLines
<1>8. CASE kind # "mapped"
  <2>1. i # 2
    BY <1>6, <1>8, PolicyLines
  <2>2. i \in {1, 3, 4, 5, 6, 7, 8, 9}
    BY <1>6, <2>1
  <2>3. rfc6724policyTable[i].precedence \in Nat /\ rfc6724policyTable[i].precedence # 35
    BY <2>2, PolicyLines
  <2> QED BY <1>1, <1>2, <1>5, <1>8, <2>3
<1> QED BY <1>7, <1>8

\* Scopes are numbers.
LEMMA ScopeIsNumber ==
    ASSUME NEW ip
    PROVE  ipAttrOf(ip).scope \in Nat
<1>1. classifyScope(ip) \in Nat
  BY DEF classifyScope, scopeLinkLocal, scopeSiteLocal, scopeGlobal
<1> QED BY <1>1 DEF ipAttrOf

\* So is the length of a common prefix.
LEMMA CommonIsNumber ==
    ASSUME NEW a \in AnyIP, NEW b \in AnyIP
    PROVE  commonPrefixLen(a, b) \in Nat
<1> DEFINE T == {n \in 0..Len(a.prefix) : SubSeq(a.prefix, 1, n) = SubSeq(b.prefix, 1, n)}
<1>1. a.prefix \in Seq({0, 1}) /\ b.prefix \in Seq({0, 1})
  BY DEF AnyIP
<1>2. PICK n \in Nat : n = Len(a.prefix)
  BY <1>1
<1>3. SubSeq(a.prefix, 1, 0) = <<>> /\ SubSeq(b.prefix, 1, 0) = <<>>
  BY <1>1
<1>4. T \in SUBSET (0..n) /\ 0 \in T
  BY <1>2, <1>3
<1>5. Max(T) \in T
  <2> HIDE DEF T
  <2> QED BY <1>4, LargestPosition
<1>6. Max(T) \in Nat
  BY <1>5
<1> QED BY <1>6 DEF commonPrefixLen

\* The first of five numbers that differ decides.
Ahead(x1, x2, x3, x4, x5, y1, y2, y3, y4, y5) ==
    \/ x1 > y1
    \/ x1 = y1 /\ x2 > y2
    \/ x1 = y1 /\ x2 = y2 /\ x3 > y3
    \/ x1 = y1 /\ x2 = y2 /\ x3 = y3 /\ x4 > y4
    \/ x1 = y1 /\ x2 = y2 /\ x3 = y3 /\ x4 = y4 /\ x5 > y5

\* The same, as LessPair puts it.
LEMMA FirstDecides ==
    ASSUME NEW x1 \in Int, NEW x2 \in Int, NEW x3 \in Int, NEW x4 \in Int, NEW x5 \in Int,
           NEW y1 \in Int, NEW y2 \in Int, NEW y3 \in Int, NEW y4 \in Int, NEW y5 \in Int,
           NEW s, NEW t, s = <<x1, x2, x3, x4, x5>>, t = <<y1, y2, y3, y4, y5>>
    PROVE  (\E n \in 1..5 : s[n] > t[n] /\ \A m \in 1..(n - 1) : s[m] = t[m])
               <=> Ahead(x1, x2, x3, x4, x5, y1, y2, y3, y4, y5)
<1>1. /\ s[1] = x1 /\ s[2] = x2 /\ s[3] = x3 /\ s[4] = x4 /\ s[5] = x5
      /\ t[1] = y1 /\ t[2] = y2 /\ t[3] = y3 /\ t[4] = y4 /\ t[5] = y5
  OBVIOUS
<1>2. ASSUME NEW n \in 1..5, s[n] > t[n], \A m \in 1..(n - 1) : s[m] = t[m]
      PROVE  Ahead(x1, x2, x3, x4, x5, y1, y2, y3, y4, y5)
  <2>1. n = 1 \/ n = 2 \/ n = 3 \/ n = 4 \/ n = 5
    OBVIOUS
  <2>2. /\ n > 1 => s[1] = t[1]
        /\ n > 2 => s[2] = t[2]
        /\ n > 3 => s[3] = t[3]
        /\ n > 4 => s[4] = t[4]
    BY <1>2
  <2> QED BY <1>1, <1>2, <2>1, <2>2 DEF Ahead
<1>3. ASSUME Ahead(x1, x2, x3, x4, x5, y1, y2, y3, y4, y5)
      PROVE  \E n \in 1..5 : s[n] > t[n] /\ \A m \in 1..(n - 1) : s[m] = t[m]
  <2>1. CASE s[1] > t[1]
    BY <2>1
  <2>2. CASE s[1] = t[1] /\ s[2] > t[2]
    <3>1. \A m \in 1..(2 - 1) : m = 1
      OBVIOUS
    <3> QED BY <2>2, <3>1
  <2>3. CASE s[1] = t[1] /\ s[2] = t[2] /\ s[3] > t[3]
    <3>1. \A m \in 1..(3 - 1) : m = 1 \/ m = 2
      OBVIOUS
    <3> QED BY <2>3, <3>1
  <2>4. CASE s[1] = t[1] /\ s[2] = t[2] /\ s[3] = t[3] /\ s[4] > t[4]
    <3>1. \A m \in 1..(4 - 1) : m = 1 \/ m = 2 \/ m = 3
      OBVIOUS
    <3> QED BY <2>4, <3>1
  <2>5. CASE s[1] = t[1] /\ s[2] = t[2] /\ s[3] = t[3] /\ s[4] = t[4] /\ s[5] > t[5]
    <3>1. \A m \in 1..(5 - 1) : m = 1 \/ m = 2 \/ m = 3 \/ m = 4
      OBVIOUS
    <3> QED BY <2>5, <3>1
  <2> QED BY <1>1, <1>3, <2>1, <2>2, <2>3, <2>4, <2>5 DEF Ahead
<1> QED BY <1>2, <1>3

\* What rule 9 says of an address by itself.
OwnCommon(a) == IF V4(IP[a]) THEN 0 ELSE commonPrefixLen(Source[a], IP[a])

\* What the rules say of an address.
M1(a) == Truth(ScopeMatches(Pair(a)))
M2(a) == Truth(LabelMatches(Pair(a)))
M3(a) == PrecedenceOf(Pair(a))
M4(a) == 15 - ipAttrOf(IP[a]).scope
M5(a) == OwnCommon(a)

\* They are numbers, and the third tells the family.
LEMMA MarksAreNumbers ==
    ASSUME NEW a \in Address, Reachable(a)
    PROVE  /\ M1(a) \in Int /\ M2(a) \in Int /\ M3(a) \in Int /\ M4(a) \in Int /\ M5(a) \in Int
           /\ M3(a) = 35 <=> V4(IP[a])
<1>1. IP[a] \in AnyIP /\ Source[a] \in AnyIP
  BY AddrAssumption DEF Reachable
<1>2. M1(a) \in Int /\ M2(a) \in Int
  BY DEF M1, M2, Truth
<1>3. M3(a) = ipAttrOf(IP[a]).precedence
  BY DEF M3, PrecedenceOf, Pair
<1>4. M3(a) \in Int /\ (M3(a) = 35 <=> V4(IP[a]))
  BY <1>1, <1>3, PrecedenceTells
<1>5. M4(a) \in Int
  BY ScopeIsNumber DEF M4
<1>6. M5(a) \in Int
  BY <1>1, CommonIsNumber DEF M5, OwnCommon
<1> QED BY <1>2, <1>4, <1>5, <1>6

\* For addresses that can be reached Less is their lexicographic order.
LEMMA LessByMarks ==
    ASSUME NEW a \in Address, NEW b \in Address, Reachable(a), Reachable(b)
    PROVE  <<a, b>> \in Less <=>
               Ahead(M1(a), M2(a), M3(a), M4(a), M5(a), M1(b), M2(b), M3(b), M4(b), M5(b))
<1> DEFINE p == Pair(a)
           q == Pair(b)
           s == Rules(p, q)
           t == Rules(q, p)
<1>1. p.dst = IP[a] /\ p.src = Source[a] /\ q.dst = IP[b] /\ q.src = Source[b]
  BY DEF Pair
<1>2. <<a, b>> \in Less <=> LessPair(p, q)
  BY DEF Less
<1>3. LessPair(p, q) <=> \E n \in 1..5 : s[n] > t[n] /\ \A m \in 1..(n - 1) : s[m] = t[m]
  BY <1>1 DEF LessPair, Usable, Reachable
<1>4. PICK c : c = CommonOf(p, q)
  OBVIOUS
<1>5. PICK d : d = CommonOf(q, p)
  OBVIOUS
<1>6. /\ c = IF V4(IP[a]) \/ V4(IP[b]) THEN 0 ELSE commonPrefixLen(Source[a], IP[a])
      /\ d = IF V4(IP[a]) \/ V4(IP[b]) THEN 0 ELSE commonPrefixLen(Source[b], IP[b])
  BY <1>1, <1>4, <1>5 DEF CommonOf, V4
<1>7. c \in Int /\ d \in Int
  <2>1. IP[a] \in AnyIP /\ Source[a] \in AnyIP /\ IP[b] \in AnyIP /\ Source[b] \in AnyIP
    BY AddrAssumption DEF Reachable
  <2>2. commonPrefixLen(Source[a], IP[a]) \in Nat /\ commonPrefixLen(Source[b], IP[b]) \in Nat
    BY <2>1, CommonIsNumber
  <2> QED BY <1>6, <2>2
<1>8. s = <<M1(a), M2(a), M3(a), M4(a), c>> /\ t = <<M1(b), M2(b), M3(b), M4(b), d>>
  BY <1>1, <1>4, <1>5, Zenon DEF Rules, M1, M2, M3, M4
<1>9. (V4(IP[a]) <=> V4(IP[b])) => c = M5(a) /\ d = M5(b)
  BY <1>6 DEF M5, OwnCommon
<1> HIDE DEF p, q, s, t
<1>10. /\ M1(a) \in Int /\ M2(a) \in Int /\ M3(a) \in Int /\ M4(a) \in Int /\ M5(a) \in Int
       /\ M3(a) = 35 <=> V4(IP[a])
  BY MarksAreNumbers
<1>11. /\ M1(b) \in Int /\ M2(b) \in Int /\ M3(b) \in Int /\ M4(b) \in Int /\ M5(b) \in Int
       /\ M3(b) = 35 <=> V4(IP[b])
  BY MarksAreNumbers
<1>12. LessPair(p, q) <=> Ahead(M1(a), M2(a), M3(a), M4(a), c, M1(b), M2(b), M3(b), M4(b), d)
  BY <1>3, <1>7, <1>8, <1>10, <1>11, FirstDecides
<1>13. M3(a) = M3(b) => c = M5(a) /\ d = M5(b)
  BY <1>9, <1>10, <1>11
<1> QED BY <1>2, <1>12, <1>13 DEF Ahead

\* Rule 1: an address that can be reached is better than one that cannot.
LEMMA LessUnreachable ==
    ASSUME NEW a \in Address, NEW b \in Address, ~Reachable(a) \/ ~Reachable(b)
    PROVE  <<a, b>> \in Less <=> Reachable(a) /\ ~Reachable(b)
<1>1. Usable(Pair(a)) <=> Reachable(a)
  BY DEF Usable, Pair, Reachable
<1>2. Usable(Pair(b)) <=> Reachable(b)
  BY DEF Usable, Pair, Reachable
<1>3. <<a, b>> \in Less <=> LessPair(Pair(a), Pair(b))
  BY DEF Less
<1> QED BY <1>1, <1>2, <1>3 DEF LessPair

\* Less is irreflexive and asymmetric.
LEMMA LessIsStrict ==
    ASSUME NEW a \in Address, NEW b \in Address, <<a, b>> \in Less
    PROVE  a # b /\ <<b, a>> \notin Less
<1>1. CASE Reachable(a) /\ Reachable(b)
  BY <1>1, LessByMarks, MarksAreNumbers DEF Ahead
<1>2. CASE ~Reachable(a) \/ ~Reachable(b)
  BY <1>2, LessUnreachable
<1> QED BY <1>1, <1>2

\* Not to be better is transitive.
LEMMA NotLessIsTransitive ==
    ASSUME NEW a \in Address, NEW b \in Address, NEW c \in Address,
           <<a, b>> \notin Less, <<b, c>> \notin Less
    PROVE  <<a, c>> \notin Less
<1>1. CASE Reachable(a) /\ Reachable(b) /\ Reachable(c)
  <2>1. /\ M1(a) \in Int /\ M2(a) \in Int /\ M3(a) \in Int /\ M4(a) \in Int /\ M5(a) \in Int
        /\ M1(b) \in Int /\ M2(b) \in Int /\ M3(b) \in Int /\ M4(b) \in Int /\ M5(b) \in Int
        /\ M1(c) \in Int /\ M2(c) \in Int /\ M3(c) \in Int /\ M4(c) \in Int /\ M5(c) \in Int
    BY <1>1, MarksAreNumbers
  <2>2. ~Ahead(M1(a), M2(a), M3(a), M4(a), M5(a), M1(b), M2(b), M3(b), M4(b), M5(b))
    BY <1>1, LessByMarks
  <2>3. ~Ahead(M1(b), M2(b), M3(b), M4(b), M5(b), M1(c), M2(c), M3(c), M4(c), M5(c))
    BY <1>1, LessByMarks
  <2>4. ~Ahead(M1(a), M2(a), M3(a), M4(a), M5(a), M1(c), M2(c), M3(c), M4(c), M5(c))
    BY <2>1, <2>2, <2>3 DEF Ahead
  <2> QED BY <1>1, <2>4, LessByMarks
<1>2. CASE ~(Reachable(a) /\ Reachable(b) /\ Reachable(c))
  <2>1. CASE Reachable(a) /\ ~Reachable(b)
    BY <2>1, LessUnreachable
  <2>2. CASE Reachable(b) /\ ~Reachable(c)
    BY <2>2, LessUnreachable
  <2>3. CASE ~Reachable(a)
    BY <2>3, LessUnreachable
  <2> QED BY <1>2, <2>1, <2>2, <2>3
<1> QED BY <1>1, <1>2

\* An address that is not worse than a reachable one can be reached, and one that
\* is neither better nor worse is of the same family.
LEMMA LevelIsOneFamily ==
    ASSUME NEW a \in Address, NEW b \in Address, Reachable(b), <<b, a>> \notin Less
    PROVE  /\ Reachable(a)
           /\ <<a, b>> \notin Less => (V4(IP[a]) <=> V4(IP[b]))
<1>1. Reachable(a)
  BY LessUnreachable
<1>2. ASSUME <<a, b>> \notin Less PROVE M3(a) = M3(b)
  <2>1. ~Ahead(M1(b), M2(b), M3(b), M4(b), M5(b), M1(a), M2(a), M3(a), M4(a), M5(a))
    BY <1>1, LessByMarks
  <2>2. ~Ahead(M1(a), M2(a), M3(a), M4(a), M5(a), M1(b), M2(b), M3(b), M4(b), M5(b))
    BY <1>1, <1>2, LessByMarks
  <2>3. /\ M1(a) \in Int /\ M2(a) \in Int /\ M3(a) \in Int
        /\ M1(b) \in Int /\ M2(b) \in Int /\ M3(b) \in Int
    BY <1>1, MarksAreNumbers
  <2> QED BY <2>1, <2>2, <2>3 DEF Ahead
<1> QED BY <1>1, <1>2, MarksAreNumbers

\* What a stable sort needs of byRFC6724.Less, of any addresses and sources: it is a
\* strict weak order, and of two reachable addresses of different families one is
\* better.
THEOREM AddressesAreOrdered ==
    /\ \A a, b \in Address : <<a, b>> \in Less => a # b /\ <<b, a>> \notin Less
    /\ \A a, b, c \in Address :
          <<a, b>> \notin Less /\ <<b, c>> \notin Less => <<a, c>> \notin Less
    /\ \A a, b \in Address :
          Reachable(b) /\ <<a, b>> \notin Less /\ <<b, a>> \notin Less =>
              Reachable(a) /\ (V4(IP[a]) <=> V4(IP[b]))
<1>1. \A a, b \in Address : <<a, b>> \in Less => a # b /\ <<b, a>> \notin Less
  BY LessIsStrict
<1>2. \A a, b, c \in Address :
         <<a, b>> \notin Less /\ <<b, c>> \notin Less => <<a, c>> \notin Less
  BY NotLessIsTransitive
<1>3. \A a, b \in Address :
         Reachable(b) /\ <<a, b>> \notin Less /\ <<b, a>> \notin Less =>
             Reachable(a) /\ (V4(IP[a]) <=> V4(IP[b]))
  BY LevelIsOneFamily
<1> QED BY <1>1, <1>2, <1>3

-------------------------------------------------------------------------------
(***************************************************************************)
(* The sort.  It leaves no address behind a worse one, and it is stable:   *)
(* addresses that are level keep their order, and are in no other.         *)
(***************************************************************************)

\* No address is better than one before it.
InOrder(t) == \A i, j \in 1..Len(t) : i < j => <<t[j], t[i]>> \notin Less

\* t is s with a behind the last address that a is not better than.
Inserted(t, s, k, a) ==
    /\ Placed(t, s, k, a)
    /\ k > 1 => <<a, s[k - 1]>> \notin Less
    /\ \A j \in k..Len(s) : <<a, s[j]>> \in Less

\* Where the addresses of s go, and where those of t come from.
Up(k, i) == IF i < k THEN i ELSE i + 1
Down(k, i) == IF i < k THEN i ELSE i - 1

\* Insert does that.
LEMMA InsertInserts ==
    ASSUME NEW s \in Seq(Address), NEW a \in Address
    PROVE  \E k \in 1..(Len(s) + 1) : Inserted(Insert(s, a), s, k, a)
<1>1. PICK k \in 1..(Len(s) + 1) :
              /\ Insert(s, a) = InsertAt(s, k, a)
              /\ k > 1 => <<a, s[k - 1]>> \notin Less
              /\ \A j \in k..Len(s) : <<a, s[j]>> \in Less
  BY InsertStops
<1>2. PICK t : t = Insert(s, a)
  OBVIOUS
<1>3. t = InsertAt(s, k, a)
  BY <1>1, <1>2
<1>4. Placed(t, s, k, a)
  BY <1>3, InsertAtPlaces
<1>5. Inserted(t, s, k, a)
  BY <1>1, <1>4, Zenon DEF Inserted
<1> QED BY <1>2, <1>5

\* The addresses of s in t.
LEMMA PlacedUp ==
    ASSUME NEW s \in Seq(Address), NEW t, NEW a, NEW k \in 1..(Len(s) + 1), Placed(t, s, k, a),
           NEW i \in 1..Len(s)
    PROVE  /\ Up(k, i) \in 1..Len(t) /\ Up(k, i) \in DOMAIN t /\ Up(k, i) # k
           /\ t[Up(k, i)] = s[i]
<1>1. /\ t \in Seq(Address) /\ Len(t) = Len(s) + 1
      /\ \A j \in 1..(k - 1) : t[j] = s[j]
      /\ \A j \in (k + 1)..(Len(s) + 1) : t[j] = s[j - 1]
  BY DEF Placed
<1>2. CASE i < k
  BY <1>1, <1>2 DEF Up
<1>3. CASE i >= k
  <2>1. i + 1 \in (k + 1)..(Len(s) + 1) /\ i + 1 - 1 = i
    BY <1>3
  <2>2. t[i + 1] = s[i]
    BY <1>1, <2>1
  <2> QED BY <1>1, <1>3, <2>1, <2>2 DEF Up
<1> QED BY <1>2, <1>3

\* The addresses of t in s.
LEMMA PlacedDown ==
    ASSUME NEW s \in Seq(Address), NEW t, NEW a, NEW k \in 1..(Len(s) + 1), Placed(t, s, k, a),
           NEW i \in 1..Len(t)
    PROVE  /\ Len(t) = Len(s) + 1
           /\ i = k => t[i] = a
           /\ i # k => Down(k, i) \in 1..Len(s) /\ t[i] = s[Down(k, i)]
<1>1. /\ t \in Seq(Address) /\ Len(t) = Len(s) + 1 /\ t[k] = a
      /\ \A j \in 1..(k - 1) : t[j] = s[j]
      /\ \A j \in (k + 1)..(Len(s) + 1) : t[j] = s[j - 1]
  BY DEF Placed
<1>2. CASE i < k
  BY <1>1, <1>2 DEF Down
<1>3. CASE i > k
  <2>1. i \in (k + 1)..(Len(s) + 1)
    BY <1>1, <1>3
  <2>2. t[i] = s[i - 1]
    BY <1>1, <2>1
  <2> QED BY <1>1, <1>3, <2>1, <2>2 DEF Down
<1>4. CASE i = k
  BY <1>1, <1>4
<1> QED BY <1>2, <1>3, <1>4

\* What was before something else stays there.
LEMMA BeforeStays ==
    ASSUME NEW s \in Seq(Address), NEW t, NEW a, NEW k \in 1..(Len(s) + 1), Placed(t, s, k, a),
           NEW b, NEW c, Before(s, b, c)
    PROVE  Before(t, b, c)
<1>1. PICK i, j \in DOMAIN s : i < j /\ s[i] = b /\ s[j] = c
  BY DEF Before
<1>2. i \in 1..Len(s) /\ j \in 1..Len(s)
  BY <1>1
<1>3. Up(k, i) \in DOMAIN t /\ t[Up(k, i)] = s[i]
  BY <1>2, PlacedUp
<1>4. Up(k, j) \in DOMAIN t /\ t[Up(k, j)] = s[j]
  BY <1>2, PlacedUp
<1>5. Up(k, i) < Up(k, j)
  BY <1>1, <1>2 DEF Up
<1> QED BY <1>1, <1>3, <1>4, <1>5 DEF Before

\* The new address is not better than any before it.
LEMMA NotBetterThanFront ==
    ASSUME NEW s \in Seq(Address), NEW t, NEW a \in Address, NEW k \in 1..(Len(s) + 1),
           Inserted(t, s, k, a), InOrder(s), NEW i \in 1..Len(s), i < k
    PROVE  <<a, s[i]>> \notin Less
<1>1. <<a, s[k - 1]>> \notin Less /\ k - 1 \in 1..Len(s)
  BY DEF Inserted
<1>2. CASE i = k - 1
  BY <1>1, <1>2
<1>3. CASE i < k - 1
  <2>1. <<s[k - 1], s[i]>> \notin Less
    BY <1>1, <1>3 DEF InOrder
  <2>2. s[k - 1] \in Address /\ s[i] \in Address
    BY <1>1
  <2> QED BY <1>1, <2>1, <2>2, NotLessIsTransitive
<1> QED BY <1>2, <1>3

\* Insert keeps a sequence in order.
LEMMA InsertKeepsOrder ==
    ASSUME NEW s \in Seq(Address), NEW t, NEW a \in Address, NEW k \in 1..(Len(s) + 1),
           Inserted(t, s, k, a), InOrder(s)
    PROVE  InOrder(t)
<1>1. Placed(t, s, k, a)
  BY DEF Inserted
<1> SUFFICES ASSUME NEW i \in 1..Len(t), NEW j \in 1..Len(t), i < j
             PROVE  <<t[j], t[i]>> \notin Less
  BY DEF InOrder
<1>2. /\ Len(t) = Len(s) + 1
      /\ i = k => t[i] = a
      /\ i # k => Down(k, i) \in 1..Len(s) /\ t[i] = s[Down(k, i)]
  BY <1>1, PlacedDown
<1>3. /\ j = k => t[j] = a
      /\ j # k => Down(k, j) \in 1..Len(s) /\ t[j] = s[Down(k, j)]
  BY <1>1, PlacedDown
<1>4. CASE i # k /\ j # k
  <2>1. Down(k, i) < Down(k, j)
    BY <1>4 DEF Down
  <2>2. PICK x \in 1..Len(s), y \in 1..Len(s) : x = Down(k, i) /\ y = Down(k, j)
    BY <1>2, <1>3, <1>4
  <2>3. <<s[y], s[x]>> \notin Less
    BY <2>1, <2>2 DEF InOrder
  <2> QED BY <1>2, <1>3, <1>4, <2>2, <2>3
<1>5. CASE j = k
  <2>1. i < k /\ Down(k, i) = i /\ i \in 1..Len(s)
    BY <1>2, <1>5 DEF Down
  <2>2. <<a, s[i]>> \notin Less
    BY <2>1, NotBetterThanFront
  <2> QED BY <1>2, <1>3, <1>5, <2>1, <2>2
<1>6. CASE i = k
  <2>1. Down(k, j) \in k..Len(s)
    BY <1>3, <1>6 DEF Down
  <2>2. <<a, s[Down(k, j)]>> \in Less
    BY <2>1 DEF Inserted
  <2>3. s[Down(k, j)] \in Address
    BY <1>3, <1>6
  <2>4. <<s[Down(k, j)], a>> \notin Less
    BY <2>2, <2>3, LessIsStrict
  <2> QED BY <1>2, <1>3, <1>6, <2>4
<1> QED BY <1>4, <1>5, <1>6

\* t holds the first n addresses of s, in order and stably.
SortOf(t, s, n) ==
    /\ t \in Seq(Address) /\ Len(t) = n
    /\ InOrder(t)
    /\ \A i \in 1..n : \E p \in 1..n : t[p] = s[i]
    /\ \A p \in 1..n : \E i \in 1..n : s[i] = t[p]
    /\ \A i, j \in 1..n : i < j /\ <<s[j], s[i]>> \notin Less => Before(t, s[i], s[j])
    /\ \A p, q \in 1..n : p < q /\ <<t[p], t[q]>> \notin Less =>
           \E i, j \in 1..n : i < j /\ s[i] = t[p] /\ s[j] = t[q]

\* One address more.
LEMMA SortOneMore ==
    ASSUME NEW s \in Seq(Address), NEW n \in Nat, n + 1 <= Len(s), NEW t, SortOf(t, s, n)
    PROVE  SortOf(Insert(t, s[n + 1]), s, n + 1)
<1>1. PICK a \in Address : a = s[n + 1]
  OBVIOUS
<1>2. t \in Seq(Address) /\ Len(t) = n /\ InOrder(t)
  BY DEF SortOf
<1>3. /\ \A i \in 1..n : \E p \in 1..n : t[p] = s[i]
      /\ \A p \in 1..n : \E i \in 1..n : s[i] = t[p]
  BY DEF SortOf
<1>4. \A i, j \in 1..n : i < j /\ <<s[j], s[i]>> \notin Less => Before(t, s[i], s[j])
  BY DEF SortOf
<1>5. \A p, q \in 1..n : p < q /\ <<t[p], t[q]>> \notin Less =>
             \E i, j \in 1..n : i < j /\ s[i] = t[p] /\ s[j] = t[q]
  BY DEF SortOf
<1>6. PICK k \in 1..(Len(t) + 1) : Inserted(Insert(t, a), t, k, a)
  BY <1>2, InsertInserts
<1>7. PICK u : u = Insert(t, a)
  OBVIOUS
<1>8. Inserted(u, t, k, a) /\ Placed(u, t, k, a)
  BY <1>6, <1>7 DEF Inserted
<1>9. u \in Seq(Address) /\ Len(u) = n + 1 /\ u[k] = a /\ k \in 1..(n + 1) /\ k \in DOMAIN u
  BY <1>2, <1>8 DEF Placed
<1>10. InOrder(u)
  BY <1>2, <1>8, InsertKeepsOrder
<1>11. ASSUME NEW p \in 1..n PROVE Up(k, p) \in 1..(n + 1) /\ Up(k, p) \in DOMAIN u /\ u[Up(k, p)] = t[p]
  <2>1. p \in 1..Len(t)
    BY <1>2
  <2> QED BY <1>2, <1>8, <1>9, <2>1, PlacedUp
<1>12. ASSUME NEW p \in 1..(n + 1), p # k PROVE Down(k, p) \in 1..n /\ u[p] = t[Down(k, p)]
  <2>1. p \in 1..Len(u)
    BY <1>9
  <2> QED BY <1>2, <1>8, <1>12, <2>1, PlacedDown
<1>13. \A b, c : Before(t, b, c) => Before(u, b, c)
  BY <1>2, <1>8, BeforeStays
<1>14. \A p \in k..n : <<a, t[p]>> \in Less
  BY <1>2, <1>8 DEF Inserted
<1>15. ASSUME NEW i \in 1..(n + 1) PROVE \E p \in 1..(n + 1) : u[p] = s[i]
  <2>1. CASE i = n + 1
    BY <1>1, <1>9, <2>1
  <2>2. CASE i # n + 1
    <3>1. PICK p \in 1..n : t[p] = s[i]
      BY <1>3, <2>2
    <3> QED BY <1>11, <3>1
  <2> QED BY <2>1, <2>2
<1>16. ASSUME NEW p \in 1..(n + 1) PROVE \E i \in 1..(n + 1) : s[i] = u[p]
  <2>1. CASE p = k
    BY <1>1, <1>9, <2>1
  <2>2. CASE p # k
    <3>1. PICK i \in 1..n : s[i] = t[Down(k, p)]
      BY <1>3, <1>12, <2>2
    <3> QED BY <1>12, <2>2, <3>1
  <2> QED BY <2>1, <2>2
<1>17. ASSUME NEW i \in 1..(n + 1), NEW j \in 1..(n + 1), i < j, <<s[j], s[i]>> \notin Less
       PROVE  Before(u, s[i], s[j])
  <2>1. CASE j # n + 1
    <3>1. i \in 1..n /\ j \in 1..n
      BY <1>17, <2>1
    <3> QED BY <1>4, <1>13, <1>17, <3>1
  <2>2. CASE j = n + 1
    <3>1. i \in 1..n
      BY <1>17, <2>2
    <3>2. PICK p \in 1..n : t[p] = s[i]
      BY <1>3, <3>1
    <3>3. p < k
      <4> SUFFICES ASSUME p >= k PROVE FALSE
        BY <1>9
      <4>1. <<a, t[p]>> \in Less
        BY <1>9, <1>14
      <4> QED BY <1>1, <1>17, <2>2, <3>2, <4>1
    <3>4. p \in DOMAIN u /\ u[p] = t[p]
      BY <1>11, <3>3 DEF Up
    <3> QED BY <1>1, <1>9, <2>2, <3>2, <3>3, <3>4 DEF Before
  <2> QED BY <2>1, <2>2
<1>18. ASSUME NEW p \in 1..(n + 1), NEW q \in 1..(n + 1), p < q, <<u[p], u[q]>> \notin Less
       PROVE  \E i, j \in 1..(n + 1) : i < j /\ s[i] = u[p] /\ s[j] = u[q]
  <2>1. CASE p # k /\ q # k
    <3>1. PICK x \in 1..n, y \in 1..n : /\ x = Down(k, p) /\ y = Down(k, q)
                                        /\ u[p] = t[x] /\ u[q] = t[y]
      BY <1>12, <2>1
    <3>2. x < y
      BY <1>9, <1>18, <2>1, <3>1 DEF Down
    <3>3. PICK i, j \in 1..n : i < j /\ s[i] = t[x] /\ s[j] = t[y]
      BY <1>5, <1>18, <3>1, <3>2
    <3>4. i \in 1..(n + 1) /\ j \in 1..(n + 1)
      OBVIOUS
    <3> QED BY <3>1, <3>3, <3>4
  <2>2. CASE q = k
    <3>1. p # k
      BY <1>18, <2>2
    <3>2. Down(k, p) \in 1..n /\ u[p] = t[Down(k, p)]
      BY <1>12, <3>1
    <3>3. PICK i \in 1..n : s[i] = t[Down(k, p)]
      BY <1>3, <3>2
    <3>4. i \in 1..(n + 1) /\ n + 1 \in 1..(n + 1) /\ i < n + 1
      OBVIOUS
    <3>5. s[i] = u[p] /\ s[n + 1] = u[q]
      BY <1>1, <1>9, <2>2, <3>2, <3>3
    <3> QED BY <3>4, <3>5
  <2>3. CASE p = k
    <3>1. q # k
      BY <1>18, <2>3
    <3>2. Down(k, q) \in 1..n /\ u[q] = t[Down(k, q)]
      BY <1>12, <3>1
    <3>3. Down(k, q) \in k..n
      BY <1>9, <1>18, <2>3, <3>2 DEF Down
    <3>4. <<a, t[Down(k, q)]>> \in Less
      BY <1>14, <3>3
    <3> QED BY <1>9, <1>18, <2>3, <3>2, <3>4
  <2> QED BY <2>1, <2>2, <2>3
<1>19. \A i \in 1..(n + 1) : \E p \in 1..(n + 1) : u[p] = s[i]
  BY <1>15
<1>20. \A p \in 1..(n + 1) : \E i \in 1..(n + 1) : s[i] = u[p]
  BY <1>16
<1>21. \A i, j \in 1..(n + 1) : i < j /\ <<s[j], s[i]>> \notin Less => Before(u, s[i], s[j])
  BY <1>17
<1>22. \A p, q \in 1..(n + 1) : p < q /\ <<u[p], u[q]>> \notin Less =>
           \E i, j \in 1..(n + 1) : i < j /\ s[i] = u[p] /\ s[j] = u[q]
  BY <1>18
<1>23. u \in Seq(Address) /\ Len(u) = n + 1
  BY <1>9
<1>24. SortOf(u, s, n + 1)
  BY <1>10, <1>19, <1>20, <1>21, <1>22, <1>23, Zenon DEF SortOf
<1> QED BY <1>1, <1>7, <1>24

\* The sort does what it is called for.
LEMMA SortIsStable ==
    ASSUME NEW s \in Seq(Address)
    PROVE  SortOf(SortByRFC6724(s), s, Len(s))
<1>1. PICK f : f = SortedPrefixes(s)
  OBVIOUS
<1>2. \A n \in 0..Len(s) : f[n] = IF n = 0 THEN <<>> ELSE Insert(f[n - 1], s[n])
  BY <1>1, SortedPrefixesStep
<1>3. PICK len \in Nat : len = Len(s)
  OBVIOUS
<1> DEFINE P == {n \in Nat : n <= len => SortOf(f[n], s, n)}
<1>4. 0 \in P
  <2>1. f[0] = <<>>
    BY <1>2, <1>3
  <2>2. f[0] \in Seq(Address) /\ Len(f[0]) = 0
    BY <2>1
  <2>3. SortOf(f[0], s, 0)
    BY <2>2 DEF SortOf, InOrder
  <2> QED BY <2>3
<1>5. ASSUME NEW n \in P PROVE n + 1 \in P
  <2> SUFFICES ASSUME n + 1 <= len PROVE SortOf(f[n + 1], s, n + 1)
    OBVIOUS
  <2>1. SortOf(f[n], s, n) /\ n \in Nat
    BY <1>5
  <2>2. f[n + 1] = Insert(f[n], s[n + 1])
    BY <1>2, <1>3
  <2>3. SortOf(Insert(f[n], s[n + 1]), s, n + 1)
    BY <1>3, <2>1, SortOneMore
  <2> QED BY <2>2, <2>3
<1>6. P = Nat
  <2> HIDE DEF P
  <2>1. P \in SUBSET Nat
    BY DEF P
  <2> QED BY <1>4, <1>5, <2>1, SetInduction
<1>7. SortOf(f[len], s, len)
  BY <1>3, <1>6
<1>8. SortByRFC6724(s) = f[len]
  BY <1>1, <1>3 DEF SortByRFC6724
<1> QED BY <1>3, <1>7, <1>8

-------------------------------------------------------------------------------
(***************************************************************************)
(* The order of an answer.  A call collects the message of each type at    *)
(* most once, in either order (Joined), and sorts that.  Of two addresses  *)
(* that Less tells apart the better one comes first in any sorted          *)
(* sequence; two that are level are of one family, so they came with the   *)
(* same message, and the sort keeps the order they have in it.             *)
(***************************************************************************)

\* What the collector may have put together.
Joined == LET a == Records["A"]
              aaaa == Records["AAAA"]
          IN  {<<>>, a, aaaa, a \o aaaa, aaaa \o a}

\* What a call has collected, and what it is about to store.
OrderInv ==
    \A r \in Proc :
        /\ rpc[r] = "collect" => addrs[r] \in Joined
        /\ rpc[r] = "store" => \E s \in Joined : addrs[r] = SortByRFC6724(s)

\* The order of addresses in a sequence with another one before or behind it.
LEMMA BeforeInJoin ==
    ASSUME NEW s \in Seq(Address), NEW t \in Seq(Address), NEW b, NEW c
    PROVE  /\ Before(s, b, c) => Before(s \o t, b, c)
           /\ Before(t, b, c) => Before(s \o t, b, c)
<1> DEFINE u == s \o t
<1>1. /\ u \in Seq(Address) /\ Len(u) = Len(s) + Len(t)
      /\ \A i \in 1..Len(s) : i \in DOMAIN u /\ u[i] = s[i]
      /\ \A i \in 1..Len(t) : Len(s) + i \in DOMAIN u /\ u[Len(s) + i] = t[i]
  OBVIOUS
<1> HIDE DEF u
<1>2. ASSUME Before(s, b, c) PROVE Before(u, b, c)
  <2>1. PICK i, j \in DOMAIN s : i < j /\ s[i] = b /\ s[j] = c
    BY <1>2 DEF Before
  <2>2. i \in 1..Len(s) /\ j \in 1..Len(s)
    BY <2>1
  <2>3. i \in DOMAIN u /\ j \in DOMAIN u /\ u[i] = b /\ u[j] = c
    BY <1>1, <2>1, <2>2
  <2> QED BY <2>1, <2>3 DEF Before
<1>3. ASSUME Before(t, b, c) PROVE Before(u, b, c)
  <2>1. PICK i, j \in DOMAIN t : i < j /\ t[i] = b /\ t[j] = c
    BY <1>3 DEF Before
  <2>2. i \in 1..Len(t) /\ j \in 1..Len(t) /\ Len(s) \in Nat
    BY <2>1
  <2>3. Len(s) + i \in DOMAIN u /\ Len(s) + j \in DOMAIN u /\ u[Len(s) + i] = b /\ u[Len(s) + j] = c
    BY <1>1, <2>1, <2>2
  <2>4. Len(s) + i < Len(s) + j
    BY <2>1, <2>2
  <2> QED BY <2>3, <2>4 DEF Before
<1> QED BY <1>2, <1>3 DEF u

\* And the other way round, for addresses that are in one of them only.
LEMMA BeforeInPart ==
    ASSUME NEW s \in Seq(Address), NEW t \in Seq(Address), NEW b, NEW c, Before(s \o t, b, c)
    PROVE  /\ b \notin Range(t) /\ c \notin Range(t) => Before(s, b, c)
           /\ b \notin Range(s) /\ c \notin Range(s) => Before(t, b, c)
<1> DEFINE u == s \o t
<1>1. /\ DOMAIN u = 1..(Len(s) + Len(t)) /\ Len(s) \in Nat /\ Len(t) \in Nat
      /\ \A i \in 1..Len(s) : u[i] = s[i] /\ s[i] \in Range(s)
      /\ \A i \in 1..Len(t) : u[Len(s) + i] = t[i] /\ t[i] \in Range(t)
  BY DEF Range
<1>2. PICK i, j \in DOMAIN u : i < j /\ u[i] = b /\ u[j] = c
  BY DEF Before
<1> HIDE DEF u
<1>3. ASSUME NEW x \in DOMAIN u, x > Len(s)
      PROVE  x - Len(s) \in 1..Len(t) /\ u[x] = t[x - Len(s)] /\ u[x] \in Range(t)
  <2>1. x - Len(s) \in 1..Len(t) /\ Len(s) + (x - Len(s)) = x
    BY <1>1, <1>3
  <2> QED BY <1>1, <2>1
<1>4. ASSUME b \notin Range(t), c \notin Range(t) PROVE Before(s, b, c)
  <2>1. i \in 1..Len(s) /\ j \in 1..Len(s)
    BY <1>1, <1>2, <1>3, <1>4
  <2>2. i \in DOMAIN s /\ j \in DOMAIN s /\ s[i] = b /\ s[j] = c
    BY <1>1, <1>2, <2>1
  <2> QED BY <1>2, <2>2 DEF Before
<1>5. ASSUME b \notin Range(s), c \notin Range(s) PROVE Before(t, b, c)
  <2>1. i > Len(s) /\ j > Len(s)
    BY <1>1, <1>2, <1>5
  <2>2. i - Len(s) \in DOMAIN t /\ t[i - Len(s)] = b /\ j - Len(s) \in DOMAIN t /\ t[j - Len(s)] = c
    BY <1>1, <1>2, <1>3, <2>1
  <2>3. i - Len(s) < j - Len(s)
    BY <1>1, <1>2
  <2> QED BY <2>2, <2>3 DEF Before
<1> QED BY <1>4, <1>5

\* The answers of both types are sequences of addresses, of one family each.
LEMMA RecordsShape ==
    /\ Records["A"] \in Seq(Address) /\ Records["AAAA"] \in Seq(Address)
    /\ Records["A"] # <<>> /\ Records["AAAA"] # <<>>
    /\ Records["A"] \o Records["AAAA"] \in Seq(Address)
    /\ Records["AAAA"] \o Records["A"] \in Seq(Address)
    /\ \A a \in Range(Records["A"]) : V4(IP[a])
    /\ \A a \in Range(Records["AAAA"]) : ~V4(IP[a])
<1>1. "A" \in QType /\ "AAAA" \in QType
  BY DEF QType
<1>2. /\ Records["A"] \in Seq(Address) /\ Records["AAAA"] \in Seq(Address)
      /\ Records["A"] # <<>> /\ Records["AAAA"] # <<>>
  BY <1>1, DnsAssumption
<1>3. /\ \A a \in Range(Records["A"]) : V4(IP[a])
      /\ \A a \in Range(Records["AAAA"]) : ~V4(IP[a])
  BY DnsAssumption DEF V4
<1> QED BY <1>2, <1>3

\* Two addresses of one family are, in whatever was joined, in the order they have
\* when the IPv4 message comes first.
LEMMA JoinedOneWay ==
    ASSUME NEW s \in Joined, NEW b, NEW c, Before(s, b, c), V4(IP[b]) <=> V4(IP[c])
    PROVE  Before(Records["A"] \o Records["AAAA"], b, c)
<1> DEFINE x == Records["A"]
           y == Records["AAAA"]
<1>1. /\ x \in Seq(Address) /\ y \in Seq(Address)
      /\ \A a \in Range(x) : V4(IP[a])
      /\ \A a \in Range(y) : ~V4(IP[a])
  BY RecordsShape
<1>2. s = <<>> \/ s = x \/ s = y \/ s = x \o y \/ s = y \o x
  BY DEF Joined
<1> HIDE DEF x, y
<1>3. Before(x, b, c) \/ Before(y, b, c) => Before(x \o y, b, c)
  BY <1>1, BeforeInJoin
<1>4. CASE s = <<>>
  BY <1>4 DEF Before
<1>5. CASE s = y \o x
  <2>0. Before(y \o x, b, c)
    BY <1>5
  <2>1. CASE V4(IP[b])
    <3>1. b \notin Range(y) /\ c \notin Range(y)
      BY <1>1, <2>1
    <3>2. Before(x, b, c)
      BY <1>1, <2>0, <3>1, BeforeInPart
    <3> QED BY <1>3, <3>2 DEF x, y
  <2>2. CASE ~V4(IP[b])
    <3>1. b \notin Range(x) /\ c \notin Range(x)
      BY <1>1, <2>2
    <3>2. Before(y, b, c)
      BY <1>1, <2>0, <3>1, BeforeInPart
    <3> QED BY <1>3, <3>2 DEF x, y
  <2> QED BY <2>1, <2>2
<1> QED BY <1>2, <1>3, <1>4, <1>5 DEF x, y

\* Whatever was joined, its addresses come with one of the messages.
LEMMA JoinedFrom ==
    ASSUME NEW s \in Joined
    PROVE  /\ s \in Seq(Address)
           /\ \A i \in 1..Len(s) : \E j \in 1..Len(Records["A"] \o Records["AAAA"]) :
                  (Records["A"] \o Records["AAAA"])[j] = s[i]
<1> DEFINE x == Records["A"]
           y == Records["AAAA"]
           u == x \o y
<1>1. x \in Seq(Address) /\ y \in Seq(Address)
  BY RecordsShape
<1>2. s = <<>> \/ s = x \/ s = y \/ s = x \o y \/ s = y \o x
  BY DEF Joined
<1> HIDE DEF x, y
<1>3. /\ u \in Seq(Address) /\ Len(u) = Len(x) + Len(y) /\ Len(x) \in Nat /\ Len(y) \in Nat
      /\ \A i \in 1..Len(x) : u[i] = x[i]
      /\ \A i \in 1..Len(y) : u[Len(x) + i] = y[i]
  BY <1>1
<1> HIDE DEF u
<1>4. ASSUME NEW i \in 1..Len(x) PROVE \E j \in 1..Len(u) : u[j] = x[i]
  <2>1. i \in 1..Len(u) /\ u[i] = x[i]
    BY <1>3
  <2> QED BY <2>1
<1>5. ASSUME NEW i \in 1..Len(y) PROVE \E j \in 1..Len(u) : u[j] = y[i]
  <2>1. Len(x) + i \in 1..Len(u) /\ u[Len(x) + i] = y[i]
    BY <1>3
  <2> QED BY <2>1
<1>6. CASE s = <<>>
  BY <1>6 DEF u, x, y
<1>7. CASE s = x
  BY <1>1, <1>4, <1>7 DEF u, x, y
<1>8. CASE s = y
  BY <1>1, <1>5, <1>8 DEF u, x, y
<1>9. CASE s = x \o y
  BY <1>1, <1>3, <1>9 DEF u, x, y
<1>10. CASE s = y \o x
  <2>1. s \in Seq(Address) /\ Len(s) = Len(y) + Len(x)
    BY <1>1, <1>10
  <2>2. ASSUME NEW i \in 1..Len(s) PROVE \E j \in 1..Len(u) : u[j] = s[i]
    <3>1. CASE i <= Len(y)
      <4>1. i \in 1..Len(y) /\ s[i] = y[i]
        BY <1>1, <1>3, <1>10, <3>1
      <4> QED BY <1>5, <4>1
    <3>2. CASE i > Len(y)
      <4>1. i - Len(y) \in 1..Len(x) /\ s[i] = x[i - Len(y)]
        BY <1>1, <1>3, <1>10, <2>1, <3>2
      <4> QED BY <1>4, <4>1
    <3> QED BY <1>3, <2>1, <3>1, <3>2
  <2> QED BY <2>1, <2>2 DEF u, x, y
<1> QED BY <1>2, <1>6, <1>7, <1>8, <1>9, <1>10

\* The message of a type joins what was collected without it.
LEMMA JoinOneMore ==
    ASSUME NEW s \in Joined, NEW q \in QType, ~Holds(s, q)
    PROVE  s \o Records[q] \in Joined
<1> DEFINE x == Records["A"]
           y == Records["AAAA"]
<1>1. x \in Seq(Address) /\ y \in Seq(Address) /\ x # <<>> /\ y # <<>>
  BY RecordsShape
<1>2. s = <<>> \/ s = x \/ s = y \/ s = x \o y \/ s = y \o x
  BY DEF Joined
<1>3. q = "A" \/ q = "AAAA"
  BY DEF QType
<1> HIDE DEF x, y
<1>4. /\ Range(x) # {} /\ Range(x \o y) \cap Range(x) # {} /\ Range(y \o x) \cap Range(x) # {}
      /\ Range(y) # {} /\ Range(x \o y) \cap Range(y) # {} /\ Range(y \o x) \cap Range(y) # {}
  <2>1. ASSUME NEW s1 \in Seq(Address), NEW s2 \in Seq(Address), s1 # <<>>, s2 # <<>>
        PROVE  /\ Range(s1) # {}
               /\ Range(s1 \o s2) \cap Range(s1) # {}
               /\ Range(s1 \o s2) \cap Range(s2) # {}
    <3>1. 1 \in DOMAIN s1 /\ 1 \in DOMAIN s2 /\ Len(s1) \in Nat
      BY <2>1
    <3>2. 1 \in DOMAIN (s1 \o s2) /\ (s1 \o s2)[1] = s1[1]
      BY <2>1, <3>1
    <3>3. Len(s1) + 1 \in DOMAIN (s1 \o s2) /\ (s1 \o s2)[Len(s1) + 1] = s2[1]
      BY <2>1, <3>1
    <3> QED BY <3>1, <3>2, <3>3 DEF Range
  <2> QED BY <1>1, <2>1
<1>5. <<>> \o x = x /\ <<>> \o y = y
  BY <1>1
<1>6. CASE q = "A"
  <2>1. Range(s) \cap Range(x) = {} /\ Records[q] = x
    BY <1>6 DEF Holds, x
  <2>2. s = <<>> \/ s = y
    BY <1>2, <1>4, <2>1
  <2>3. s \o x = x \/ s \o x = y \o x
    BY <1>5, <2>2
  <2> QED BY <2>1, <2>3 DEF Joined, x, y
<1>7. CASE q = "AAAA"
  <2>1. Range(s) \cap Range(y) = {} /\ Records[q] = y
    BY <1>7 DEF Holds, y
  <2>2. s = <<>> \/ s = x
    BY <1>2, <1>4, <2>1
  <2>3. s \o y = y \/ s \o y = x \o y
    BY <1>5, <2>2
  <2> QED BY <2>1, <2>3 DEF Joined, x, y
<1> QED BY <1>3, <1>6, <1>7

\* Only three steps touch the order of what a call will store: the start of the
\* lookups, a message that arrives, and the sort.
LEMMA OrderIsKept ==
    ASSUME ClientInv, OrderInv, Next
    PROVE  OrderInv'
<1> USE DEF ClientInv, CallTypeOK, Goto, Return, lookupVars, callVars
<1>0. <<>> \in Joined
  BY DEF Joined
<1>1. ASSUME NEW r \in Proc, NEW k \in Key, NEW c \in Configs[r],
             ResolveCached(r, k, c) \/ ResolveUncached(r, k, c)
      PROVE  OrderInv'
  BY <1>1 DEF OrderInv, ResolveCached, ResolveUncached
<1>2. ASSUME NEW r \in Proc, CacheGet(r) \/ CacheHit(r) \/ CacheMiss(r) \/ ResolveSystem(r)
      PROVE  OrderInv'
  BY <1>2 DEF OrderInv, CacheGet, CacheHit, CacheMiss, ResolveSystem
<1>3. ASSUME NEW r \in Proc, LookupAllTypes(r)
      PROVE  OrderInv'
  <2>1. addrs[r] = <<>>
    BY <1>3 DEF LookupAllTypes, CollectInv, Collected
  <2>2. addrs' = addrs /\ rpc' = [rpc EXCEPT ![r] = "collect"]
    BY <1>3 DEF LookupAllTypes
  <2> QED BY <1>0, <2>1, <2>2 DEF OrderInv
<1>4. ASSUME NEW r \in Proc, NEW q \in QType, LookupStep(r, q)
      PROVE  OrderInv'
  <2>1. addrs' = addrs /\ rpc' = rpc
    BY <1>4 DEF LookupStep, ExchangeRetries, ExchangeReturns, UDPExchangeReturns, Answer,
                LookupDrops
  <2> QED BY <2>1 DEF OrderInv
<1>5. ASSUME NEW r \in Proc, NEW q \in QType, CollectReceives(r, q)
      PROVE  OrderInv'
  <2>1. rpc' = rpc /\ rpc[r] = "collect" /\ addrs[r] \in Joined
    BY <1>5 DEF CollectReceives, OrderInv
  <2>2. CASE msg[r][q].found
    <3>1. lpc[r][q] = "send" /\ addrs' = [addrs EXCEPT ![r] = @ \o Records[q]]
      BY <1>5, <2>2 DEF CollectReceives
    <3>2. ~Holds(addrs[r], q)
      BY <3>1 DEF CollectInv, Collected
    <3>3. addrs[r] \o Records[q] \in Joined
      BY <2>1, <3>2, JoinOneMore
    <3>4. PICK t : t = addrs[r] \o Records[q]
      OBVIOUS
    <3>5. t \in Joined /\ addrs' = [addrs EXCEPT ![r] = t]
      BY <3>1, <3>3, <3>4
    <3> QED BY <2>1, <3>5 DEF OrderInv
  <2>3. CASE ~msg[r][q].found
    BY <1>5, <2>1, <2>3 DEF CollectReceives, OrderInv
  <2> QED BY <2>2, <2>3
<1>6. ASSUME NEW r \in Proc, CollectTimesOut(r)
      PROVE  OrderInv'
  BY <1>6 DEF OrderInv, CollectTimesOut
<1>7. ASSUME NEW r \in Proc, CollectEnds(r)
      PROVE  OrderInv'
  <2>1. addrs[r] \in Joined
    BY <1>7 DEF CollectEnds, OrderInv
  <2>2. CASE addrs[r] = <<>>
    BY <1>7, <2>2 DEF CollectEnds, OrderInv
  <2>3. CASE addrs[r] # <<>>
    <3>1. PICK t : t = SortByRFC6724(addrs[r])
      OBVIOUS
    <3>2. addrs' = [addrs EXCEPT ![r] = t] /\ rpc' = [rpc EXCEPT ![r] = "store"]
      BY <1>7, <2>3, <3>1 DEF CollectEnds
    <3>3. \E s \in Joined : t = SortByRFC6724(s)
      BY <2>1, <3>1
    <3> QED BY <3>2, <3>3 DEF OrderInv
  <2> QED BY <2>2, <2>3
<1>8. ASSUME NEW r \in Proc, StoreAnswer(r)
      PROVE  OrderInv'
  <2>1. rpc' = [rpc EXCEPT ![r] = "returned"] /\ addrs' = [addrs EXCEPT ![r] = <<>>]
    BY <1>8 DEF StoreAnswer
  <2> QED BY <2>1 DEF OrderInv
<1>9. ASSUME NEW r \in Proc, CloseResCh(r) \/ ContextEnds(r)
      PROVE  OrderInv'
  <2>1. addrs' = addrs /\ rpc' = rpc
    BY <1>9 DEF CloseResCh, ContextEnds
  <2> QED BY <2>1 DEF OrderInv
<1>10. ASSUME Janitor \/ Clock
       PROVE  OrderInv'
  <2>1. addrs' = addrs /\ rpc' = rpc
    BY <1>10 DEF Janitor, Clock
  <2> QED BY <2>1 DEF OrderInv
<1> QED
  BY <1>1, <1>2, <1>3, <1>4, <1>5, <1>6, <1>7, <1>8, <1>9, <1>10
     DEF Next, ResolveStep, CollectStep

\* A sorted answer is in the fixed order, whatever order it was collected in.
LEMMA SortedInFixedOrder ==
    ASSUME NEW s \in Joined, NEW t, t = SortByRFC6724(s), NEW i \in 1..Len(t), NEW j \in 1..Len(t),
           i < j
    PROVE  /\ <<t[j], t[i]>> \notin Less
           /\ Reachable(t[j]) => Before(FixedOrder, t[i], t[j])
<1>1. PICK u : u = Records["A"] \o Records["AAAA"]
  OBVIOUS
<1>2. /\ u \in Seq(Address) /\ s \in Seq(Address)
      /\ \A n \in 1..Len(s) : \E m \in 1..Len(u) : u[m] = s[n]
  BY <1>1, RecordsShape, JoinedFrom
<1>3. PICK f : f = FixedOrder /\ SortOf(f, u, Len(u))
  BY <1>1, <1>2, SortIsStable DEF FixedOrder
<1>4. SortOf(t, s, Len(s)) /\ Len(t) = Len(s) /\ t \in Seq(Address)
  <2>1. SortOf(t, s, Len(s))
    BY <1>2, SortIsStable
  <2> QED BY <2>1 DEF SortOf
<1>5. PICK b, c : b = t[i] /\ c = t[j]
  OBVIOUS
<1>6. b \in Address /\ c \in Address
  BY <1>4, <1>5
<1>7. <<c, b>> \notin Less
  BY <1>4, <1>5 DEF SortOf, InOrder
<1>8. ASSUME Reachable(c) PROVE Before(f, b, c)
  <2>1. CASE <<b, c>> \in Less
    <3>1. b # c
      BY <1>6, <2>1, LessIsStrict
    <3>2. ASSUME NEW p \in 1..Len(t) PROVE \E m \in 1..Len(f) : f[m] = t[p]
      <4>1. p \in 1..Len(s)
        BY <1>4
      <4>2. PICK n \in 1..Len(s) : s[n] = t[p]
        BY <1>4, <4>1 DEF SortOf
      <4>3. PICK m \in 1..Len(u) : u[m] = s[n]
        BY <1>2
      <4>4. PICK l \in 1..Len(u) : f[l] = u[m]
        BY <1>3 DEF SortOf
      <4>5. Len(f) = Len(u)
        BY <1>3 DEF SortOf
      <4> QED BY <4>2, <4>3, <4>4, <4>5
    <3>3. PICK m \in 1..Len(f) : f[m] = b
      BY <1>5, <3>2
    <3>4. PICK n \in 1..Len(f) : f[n] = c
      BY <1>5, <3>2
    <3>5. InOrder(f) /\ f \in Seq(Address)
      BY <1>3 DEF SortOf
    <3>6. ~(n < m)
      <4>1. ASSUME n < m PROVE <<f[m], f[n]>> \notin Less
        BY <3>5, <4>1 DEF InOrder
      <4> QED BY <2>1, <3>3, <3>4, <4>1
    <3>7. m < n
      BY <3>1, <3>3, <3>4, <3>5, <3>6
    <3>8. m \in DOMAIN f /\ n \in DOMAIN f
      BY <3>5
    <3> QED BY <3>3, <3>4, <3>7, <3>8 DEF Before
  <2>2. CASE <<b, c>> \notin Less
    <3>1. V4(IP[b]) <=> V4(IP[c])
      BY <1>6, <1>7, <1>8, <2>2, LevelIsOneFamily
    <3>2. PICK n, m \in 1..Len(s) : n < m /\ s[n] = b /\ s[m] = c
      <4>1. i \in 1..Len(s) /\ j \in 1..Len(s) /\ <<t[i], t[j]>> \notin Less
        BY <1>4, <1>5, <2>2
      <4>2. \A p, q \in 1..Len(s) : p < q /\ <<t[p], t[q]>> \notin Less =>
               \E n, m \in 1..Len(s) : n < m /\ s[n] = t[p] /\ s[m] = t[q]
        BY <1>4 DEF SortOf
      <4>3. \E n, m \in 1..Len(s) : n < m /\ s[n] = t[i] /\ s[m] = t[j]
        BY <4>1, <4>2
      <4> QED BY <1>5, <4>3
    <3>3. n \in DOMAIN s /\ m \in DOMAIN s
      BY <1>2
    <3>4. Before(s, b, c)
      BY <3>2, <3>3 DEF Before
    <3>5. Before(u, b, c)
      BY <1>1, <3>1, <3>4, JoinedOneWay
    <3>6. PICK x, y \in DOMAIN u : x < y /\ u[x] = b /\ u[y] = c
      BY <3>5 DEF Before
    <3>7. x \in 1..Len(u) /\ y \in 1..Len(u) /\ <<u[y], u[x]>> \notin Less
      BY <1>2, <1>7, <3>6
    <3>8. Before(f, u[x], u[y])
      BY <1>3, <3>6, <3>7 DEF SortOf
    <3> QED BY <3>6, <3>8
  <2> QED BY <2>1, <2>2
<1> QED BY <1>3, <1>5, <1>7, <1>8

\* What every call has collected, it collected in one of the two orders, and what
\* it is about to store is that, sorted.
THEOREM CollectsInEitherOrder == Spec => []OrderInv
<1>1. Init => OrderInv
  BY DEF Init, OrderInv
<1>2. ClientInv /\ OrderInv /\ [Next]_dnsVars => OrderInv'
  <2>1. OrderInv /\ UNCHANGED dnsVars => OrderInv'
    BY DEF OrderInv, dnsVars, callVars
  <2> QED BY <2>1, OrderIsKept
<1> QED BY <1>1, <1>2, ClientInvariant, PTL DEF Spec

\* The order of an answer does not depend on which message came first: Less always
\* decides between two families, and the sort is stable within one.
THEOREM OrderDoesNotDependOnArrival == Spec => []OrderIsFixed
<1>1. OrderInv /\ ClientInv => OrderIsFixed
  <2> SUFFICES ASSUME OrderInv, ClientInv, NEW r \in Proc, rpc[r] = "store",
                      NEW i \in DOMAIN addrs[r], NEW j \in DOMAIN addrs[r], i < j
               PROVE  /\ <<addrs[r][j], addrs[r][i]>> \notin Less
                      /\ Reachable(addrs[r][j]) => Before(FixedOrder, addrs[r][i], addrs[r][j])
    BY DEF OrderIsFixed
  <2>1. PICK s \in Joined : addrs[r] = SortByRFC6724(s)
    BY DEF OrderInv
  <2>2. addrs[r] \in Seq(Address)
    BY DEF ClientInv, CallTypeOK
  <2>3. i \in 1..Len(addrs[r]) /\ j \in 1..Len(addrs[r])
    BY <2>2
  <2> QED BY <2>1, <2>3, SortedInFixedOrder
<1> QED BY <1>1, CollectsInEitherOrder, ClientInvariant, PTL
==============================================================================
