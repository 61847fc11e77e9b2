--------------------------- MODULE HopSnifferProofs ---------------------------
(***************************************************************************)
(* What the sniffers learn about hop counts and the TTLs derived from it,  *)
(* for any hosts, shards, capacities and TTLs.                             *)
(*                                                                         *)
(* The argument: between the lookup of a host and the store of its hop     *)
(* count, handlers and the other sniffer may have pushed it out of the     *)
(* cache, so the store may put it back; but it was in the cache when it    *)
(* was looked up, hence registered, and registered for good.               *)
(*                                                                         *)
(* And before there is a sniffer: what the discovery's reader can take     *)
(* from its socket (RouteDiscovery).  The sniffer is only opened after a   *)
(* MAC address was received, so captureARPReply has returned and nobody    *)
(* empties the reader's channel.                                           *)
(*                                                                         *)
(* And before the sniffers see a packet: the BPF programs, followed        *)
(* instruction by instruction for every header and link type.              *)
(***************************************************************************)
EXTENDS HopSniffer, RouteDiscovery, LRUCacheProofs, WellFoundedInduction

\* The types of the sniffers' variables.
HopTypeOK ==
    /\ checked \in [Sniffer -> {<<>>} \cup (Host \X Value)]
    /\ registered \subseteq Host
    /\ observed \in [Host -> SUBSET TTLs]
    /\ learned \subseteq Host

\* What a sniffer is about to store was seen of a host that was registered.
CheckedInv ==
    \A s \in Sniffer : checked[s] # <<>> =>
        /\ checked[s][1] \in registered
        /\ checked[s][2] \in Estimates(checked[s][1])

HopInv == CacheInv /\ HopTypeOK /\ CheckedInv /\ CacheKeepsWhatCounts

\* Hop counts fit into the cache's values.
LEMMA EstimatesAreValues ==
    ASSUME HopTypeOK, NEW h \in Host
    PROVE  Estimates(h) \subseteq Value
  BY HopAssumption DEF HopTypeOK, Estimates

\* What Set does to the map: it stores under its own key, unless it is refused,
\* and may take some other key out.
LEMMA SetMap ==
    ASSUME CacheInv, NEW k \in Key, NEW v \in Value, NEW refuse \in BOOLEAN,
           Set(k, v, refuse, FALSE)
    PROVE  /\ items'[k] = IF refuse /\ Cached(k) THEN items[k] ELSE v
           /\ \A j \in Key : j # k => items'[j] = items[j] \/ items'[j] = NoValue
<1> USE DEF CacheInv, CacheTypeOK
<1>1. CASE refuse /\ Cached(k)
  BY <1>1 DEF Set, SetRefused, lruVars
<1>2. CASE ~(refuse /\ Cached(k))
  <2>1. SetExisting(k, v) \/ SetNew(k, v)
    BY <1>2 DEF Set, SetRefused
  <2>2. CASE SetExisting(k, v)
    BY <1>2, <2>2 DEF SetExisting
  <2>3. CASE SetNew(k, v)
    <3> DEFINE p == PushFront(lru[ShardOf[k]], k)
    <3>1. CASE Len(p) > Capacity
      <4>1. Back(p) \in Key /\ Back(p) # k
        BY <2>3, <3>1, EvictedTail DEF SetNew, Cached
      <4>2. items' = [items EXCEPT ![k] = v, ![Back(p)] = NoValue]
        BY <2>3, <3>1 DEF SetNew
      <4> HIDE DEF p
      <4> QED BY <1>2, <4>1, <4>2
    <3>2. CASE ~(Len(p) > Capacity)
      BY <1>2, <2>3, <3>2 DEF SetNew
    <3> QED BY <3>1, <3>2
  <2> QED BY <2>1, <2>2, <2>3
<1> QED BY <1>1, <1>2

\* Before anything is registered or captured the invariant holds.
LEMMA HopInit == Init => HopInv
<1> SUFFICES ASSUME Init PROVE HopInv
  OBVIOUS
<1>1. CacheInv
  BY CacheInit DEF Init
<1> QED BY <1>1 DEF Init, NewLRUCache, HopInv, HopTypeOK, CheckedInv, CacheKeepsWhatCounts, Host

\* Registering a destination keeps the invariant: a known one keeps its entry.
LEMMA RegisterKeeps ==
    ASSUME HopInv, NEW h \in Host, Register(h)
    PROVE  HopInv'
<1> USE DEF HopInv, Host
<1>1. Set(h, DefaultTTL, TRUE, FALSE) /\ DefaultTTL \in Value
  BY HopAssumption DEF Register
<1>2. CacheInv'
  BY <1>1, SetKeepsInv
<1>3. /\ items'[h] = IF Cached(h) THEN items[h] ELSE DefaultTTL
      /\ \A j \in Key : j # h => items'[j] = items[j] \/ items'[j] = NoValue
  BY <1>1, SetMap
<1>4. HopTypeOK'
  BY DEF Register, HopTypeOK, Kept
<1>5. CheckedInv'
  BY DEF Register, CheckedInv, Estimates
<1>6. CacheKeepsWhatCounts'
  <2>1. \A j \in Key : items'[j] # NoValue => j \in registered'
    BY <1>3 DEF Register, CacheKeepsWhatCounts
  <2>2. ASSUME NEW j \in learned' PROVE items'[j] \in Estimates(j)'
    <3>1. j \in learned /\ items'[j] # NoValue /\ j \in Key
      BY DEF Register, Kept, HopTypeOK
    <3>2. items[j] \in Estimates(j) /\ Estimates(j) \subseteq Value
      BY <3>1, EstimatesAreValues DEF CacheKeepsWhatCounts
    <3>3. items'[j] = items[j]
      BY <1>3, <3>1, <3>2, LRUAssumption DEF Cached
    <3> QED BY <3>2, <3>3 DEF Register, Estimates
  <2> QED BY <2>1, <2>2 DEF CacheKeepsWhatCounts
<1> QED BY <1>2, <1>4, <1>5, <1>6

\* A desyncer's question changes nothing but the recency order.
LEMMA OptimalKeeps ==
    ASSUME HopInv, NEW h \in Host, GetOptimalTTL(h)
    PROVE  HopInv'
<1>1. CacheInv'
  BY GetKeepsInv DEF HopInv, Host, GetOptimalTTL
<1>2. UNCHANGED <<items, checked, registered, observed, learned>>
  BY DEF GetOptimalTTL, Get, history
<1> QED BY <1>1, <1>2 DEF HopInv, HopTypeOK, CheckedInv, CacheKeepsWhatCounts, Estimates

\* A captured packet keeps the invariant: a host that is found in the cache is
\* registered.
LEMMA PacketKeeps ==
    ASSUME HopInv, NEW s \in Sniffer, NEW p \in Packet, NEW ttl \in TTLs,
           PacketArrives(s, p, ttl)
    PROVE  HopInv'
<1> DEFINE h == p.src
           n == estimateHops(ttl)
<1>1. h \in Host /\ n \in Value
  BY HopAssumption DEF Packet
<1>2. /\ Get(h)
      /\ observed' = [observed EXCEPT ![h] = @ \cup {ttl}]
      /\ checked' = IF Cached(h) THEN [checked EXCEPT ![s] = <<h, n>>] ELSE checked
      /\ UNCHANGED <<registered, learned>>
  BY DEF PacketArrives
<1>0. n = estimateHops(ttl)
  OBVIOUS
<1> HIDE DEF h, n
<1>3. CacheInv'
  BY <1>1, <1>2, GetKeepsInv DEF HopInv, Host
<1>4. items' = items
  BY <1>2 DEF Get
<1>5. HopTypeOK'
  BY <1>1, <1>2 DEF HopInv, HopTypeOK
<1>6. /\ \A j \in Host : Estimates(j) \subseteq Estimates(j)'
      /\ \A j : j = h => n \in Estimates(j)'
  <2>1. \A j \in Host : observed[j] \subseteq observed'[j]
    BY <1>1, <1>2 DEF HopInv, HopTypeOK
  <2>2. ttl \in observed'[h]
    BY <1>1, <1>2 DEF HopInv, HopTypeOK
  <2> QED BY <1>0, <2>1, <2>2 DEF Estimates
<1>7. CheckedInv'
  <2> SUFFICES ASSUME NEW t \in Sniffer, checked'[t] # <<>>
               PROVE  /\ checked'[t][1] \in registered
                      /\ \A j : j = checked'[t][1] => checked'[t][2] \in Estimates(j)'
    BY <1>2 DEF CheckedInv
  <2>1. CASE checked'[t] = checked[t]
    BY <1>6, <2>1 DEF HopInv, HopTypeOK, CheckedInv
  <2>2. CASE checked'[t] # checked[t]
    <3>1. Cached(h) /\ checked'[t] = <<h, n>>
      BY <1>2, <2>2 DEF HopInv, HopTypeOK
    <3>2. h \in registered
      BY <1>1, <3>1 DEF HopInv, CacheKeepsWhatCounts, Cached
    <3> QED BY <1>6, <3>1, <3>2
  <2> QED BY <2>1, <2>2
<1>8. CacheKeepsWhatCounts'
  BY <1>2, <1>4, <1>6 DEF HopInv, HopTypeOK, CacheKeepsWhatCounts
<1> QED BY <1>3, <1>5, <1>7, <1>8 DEF HopInv

\* The store keeps the invariant, also when it puts the host back.
LEMMA StoreKeeps ==
    ASSUME HopInv, NEW s \in Sniffer, StoreHops(s)
    PROVE  HopInv'
<1> USE DEF HopInv, Host
<1>1. PICK h \in Host, n \in Value : checked[s] = <<h, n>>
  BY DEF StoreHops, HopTypeOK
<1>2. /\ Set(h, n, FALSE, FALSE)
      /\ checked' = [checked EXCEPT ![s] = <<>>]
      /\ learned' = Kept(learned \cup {h})
      /\ UNCHANGED <<registered, observed>>
  <2>1. checked[s][1] = h /\ checked[s][2] = n
    BY <1>1
  <2> QED BY <2>1 DEF StoreHops
<1>3. h \in registered /\ n \in Estimates(h)
  BY <1>1 DEF CheckedInv, StoreHops
<1>4. CacheInv'
  BY <1>2, SetKeepsInv
<1>5. /\ items'[h] = n
      /\ \A j \in Key : j # h => items'[j] = items[j] \/ items'[j] = NoValue
  BY <1>2, SetMap
<1>6. HopTypeOK'
  BY <1>2 DEF HopTypeOK, Kept
<1>7. CheckedInv'
  BY <1>2 DEF CheckedInv, HopTypeOK, Estimates
<1>8. CacheKeepsWhatCounts'
  BY <1>2, <1>3, <1>5 DEF CacheKeepsWhatCounts, Kept, HopTypeOK, Estimates
<1> QED BY <1>4, <1>6, <1>7, <1>8

\* The inductive invariant of the sniffers and the cache they share.
THEOREM HopInvariant == Spec => []HopInv
<1>1. HopInv /\ [Next]_vars => HopInv'
  <2> SUFFICES ASSUME HopInv, [Next]_vars PROVE HopInv'
    OBVIOUS
  <2>1. CASE UNCHANGED vars
    <3>1. CacheInv'
      BY <2>1, StutterKeepsInv DEF vars, HopInv
    <3>2. UNCHANGED <<items, checked, registered, observed, learned>>
      BY <2>1 DEF vars, lruVars, history
    <3> QED BY <3>1, <3>2 DEF HopInv, HopTypeOK, CheckedInv, CacheKeepsWhatCounts, Estimates
  <2> QED BY <2>1, RegisterKeeps, OptimalKeeps, PacketKeeps, StoreKeeps DEF Next
<1> QED BY <1>1, HopInit, PTL DEF Spec

\* Everything in the cache was registered, and what was learned about a host is
\* replaced by nothing but what was seen of it.
THEOREM LearnedIsKept == Spec => []CacheKeepsWhatCounts
<1>1. HopInv => CacheKeepsWhatCounts
  BY DEF HopInv
<1> QED BY <1>1, HopInvariant, PTL

\* Under the calls of handlers and sniffers, the cache of hop counts is an LRU
\* cache: a destination that is asked for or heard of stays longest.
THEOREM HopsAreLRU == Spec => ImplementsLRU
<1>1. Init => Abstract!SpecInit
  BY NewIsEmpty DEF Init
<1>2. HopInv /\ [Next]_vars => [Abstract!SpecNext]_(Abstract!specVars)
  <2> SUFFICES ASSUME HopInv, [Next]_vars PROVE [Abstract!SpecNext]_(Abstract!specVars)
    OBVIOUS
  <2> USE DEF HopInv, Host
  <2>1. CASE UNCHANGED vars
    BY <2>1, SameListsSameOrder DEF vars, lruVars, Abstract!specVars
  <2>2. ASSUME NEW h \in Host, Register(h) PROVE [Abstract!SpecNext]_(Abstract!specVars)
    BY <2>2, SetIsInsert, HopAssumption DEF Register
  <2>3. ASSUME NEW h \in Host, GetOptimalTTL(h) PROVE [Abstract!SpecNext]_(Abstract!specVars)
    BY <2>3, GetIsUse DEF GetOptimalTTL
  <2>4. ASSUME NEW s \in Sniffer, NEW p \in Packet, NEW ttl \in TTLs, PacketArrives(s, p, ttl)
        PROVE  [Abstract!SpecNext]_(Abstract!specVars)
    <3>1. p.src \in Host /\ Get(p.src)
      BY <2>4 DEF PacketArrives, Packet
    <3> QED BY <3>1, GetIsUse
  <2>5. ASSUME NEW s \in Sniffer, StoreHops(s) PROVE [Abstract!SpecNext]_(Abstract!specVars)
    <3>1. PICK h \in Host, n \in Value : checked[s] = <<h, n>>
      BY <2>5 DEF StoreHops, HopTypeOK
    <3>2. checked[s][1] = h /\ checked[s][2] = n
      BY <3>1
    <3>3. Set(h, n, FALSE, FALSE)
      BY <2>5, <3>2 DEF StoreHops
    <3> QED BY <3>3, SetIsInsert
  <2> QED BY <2>1, <2>2, <2>3, <2>4, <2>5 DEF Next
<1> QED BY <1>1, <1>2, HopInvariant, PTL DEF Spec, ImplementsLRU, Abstract!LRUBehaviour

\* uint8 subtraction does not wrap where the desyncers use it.
LEMMA OneLess ==
    ASSUME NEW n \in 1..255
    PROVE  Minus(n, 1) = n - 1
<1>1. 256 + n - 1 = 256 + (n - 1) /\ n - 1 \in 0..254
  OBVIOUS
<1>2. (256 + (n - 1)) % 256 = n - 1
  BY <1>1
<1> QED BY <1>1, <1>2 DEF Minus

\* Nor where the sniffers do: the estimate is the least distance from which a
\* packet can have arrived with that TTL.
LEMMA LeastDistance ==
    ASSUME NEW ttl \in 0..255, NEW initial \in {64, 128, 255}, initial >= ttl
    PROVE  estimateHops(ttl) \in 0..255 /\ estimateHops(ttl) + ttl <= initial
<1>1. PICK nearest \in {64, 128, 255} :
         /\ nearest = IF ttl <= 64 THEN 64 ELSE IF ttl <= 128 THEN 128 ELSE 255
         /\ nearest >= ttl
         /\ nearest <= initial
  OBVIOUS
<1>2. PICK d \in 0..255 : d = nearest - ttl
  BY <1>1
<1>3. 256 + nearest - ttl = 256 + d /\ (256 + d) % 256 = d
  BY <1>2
<1>4. estimateHops(ttl) = d
  BY <1>1, <1>3 DEF estimateHops, Minus
<1> QED BY <1>1, <1>2, <1>4

\* The TTL of a fake packet is at least 1 and falls short of a host that is at
\* least two hops away, whatever TTL its packets start with.
THEOREM FakesFallShort == Spec => []FakeFallsShort
<1>1. HopInv => FakeFallsShort
  <2> SUFFICES ASSUME HopInv, NEW h \in Host
               PROVE  /\ OptimalTTL(h) \in 1..254
                      /\ h \in learned =>
                            \E ttl \in observed[h] : \A initial \in {64, 128, 255} :
                                initial >= ttl + 2 => OptimalTTL(h) + ttl < initial
    BY DEF FakeFallsShort
  <2>1. Cached(h) => items[h] \in 0..255
    BY HopAssumption DEF HopInv, CacheInv, CacheTypeOK, Cached, Host
  <2>2. HopCount(h) \in 0..255
    BY <2>1 DEF HopCount
  <2>3. PICK n \in 2..255 : n = IF HopCount(h) > 2 THEN HopCount(h) ELSE 2
    BY <2>2
  <2>4. OptimalTTL(h) = n - 1
    BY <2>3, OneLess DEF OptimalTTL
  <2>5. ASSUME h \in learned
        PROVE  \E ttl \in observed[h] : \A initial \in {64, 128, 255} :
                   initial >= ttl + 2 => OptimalTTL(h) + ttl < initial
    <3>1. PICK ttl \in observed[h] : items[h] = estimateHops(ttl)
      BY <2>5 DEF HopInv, CacheKeepsWhatCounts, Estimates
    <3>2. ttl \in 0..255 /\ items[h] \in Value
      BY <3>1, HopAssumption DEF HopInv, HopTypeOK
    <3>3. HopCount(h) = estimateHops(ttl)
      BY <3>1, <3>2, LRUAssumption DEF HopCount, Cached
    <3>4. ASSUME NEW initial \in {64, 128, 255}, initial >= ttl + 2
          PROVE  OptimalTTL(h) + ttl < initial
      <4>1. initial >= ttl
        BY <3>2, <3>4
      <4>2. HopCount(h) + ttl <= initial
        BY <3>2, <3>3, <4>1, LeastDistance
      <4> QED BY <2>2, <2>3, <2>4, <3>2, <3>4, <4>2
    <3> QED BY <3>4
  <2> QED BY <2>3, <2>4, <2>5
<1> QED BY <1>1, HopInvariant, PTL

-------------------------------------------------------------------------------
(***************************************************************************)
(* The packet filters.  A run is followed instruction by instruction: what *)
(* comes after the check of the protocol is the same for all link types,   *)
(* v instructions further on, and the jumps of that check are relative to  *)
(* it.                                                                     *)
(***************************************************************************)

\* Induction over the naturals, on a set.
LEMMA SetInduction ==
    ASSUME NEW P \in SUBSET Nat, 0 \in P, \A n \in P : n + 1 \in P
    PROVE  P = Nat
<1> SUFFICES ASSUME Nat \ P # {} PROVE FALSE
  OBVIOUS
<1> DEFINE R == OpToRel(<, Nat)
           T == Nat \ P
<1>1. \A x, y \in Nat : <<y, x>> \in R <=> y < x
  BY DEF OpToRel
<1>2. IsWellFoundedOn(R, Nat)
  BY NatLessThanWellFounded
<1>3. T # {} /\ T \in SUBSET Nat
  OBVIOUS
<1> HIDE DEF R, T
<1>4. PICK x \in T : \A y \in T : ~(<<y, x>> \in R)
  BY <1>2, <1>3, WFMin
<1>5. x \in Nat /\ x \notin P /\ \A y \in Nat : y \notin P => ~(y < x)
  BY <1>1, <1>4 DEF T
<1>6. x # 0 /\ x - 1 \in Nat
  BY <1>5
<1>7. x - 1 \in P
  BY <1>5, <1>6
<1> QED BY <1>5, <1>6, <1>7

\* A run of the machine, instruction by instruction.
LEMMA RunSteps ==
    ASSUME NEW program, NEW h, Len(program) \in Nat
    PROVE  \E f : /\ End(program, h) = f[Len(program)].pc
                 /\ f[0] = At(1, "none")
                 /\ \A n \in 1..Len(program) : f[n] = Exec(program, h, f[n - 1])
<1>1. PICK len \in Nat : len = Len(program)
  OBVIOUS
<1>2. \E f : f = [n \in 0..len |-> IF n = 0 THEN At(1, "none") ELSE Exec(program, h, f[n - 1])]
  <2> DEFINE Solves(f, k) == f = [n \in 0..k |-> IF n = 0 THEN At(1, "none") ELSE Exec(program, h, f[n - 1])]
             P == {k \in Nat : \E f : Solves(f, k)}
  <2>1. 0 \in P
    <3> DEFINE f == [n \in 0..0 |-> At(1, "none")]
    <3>1. Solves(f, 0)
      OBVIOUS
    <3> QED BY <3>1
  <2>2. \A k \in P : k + 1 \in P
    <3> TAKE k \in P
    <3>1. PICK f : Solves(f, k)
      OBVIOUS
    <3> DEFINE g == [n \in 0..(k + 1) |-> IF n = k + 1 THEN Exec(program, h, f[k]) ELSE f[n]]
    <3>2. \A n \in 0..k : f[n] = IF n = 0 THEN At(1, "none") ELSE Exec(program, h, f[n - 1])
      BY <3>1
    <3>3. \A n \in 0..(k + 1) : g[n] = IF n = 0 THEN At(1, "none") ELSE Exec(program, h, g[n - 1])
      BY <3>2
    <3>4. g = [n \in 0..(k + 1) |-> g[n]]
      OBVIOUS
    <3> HIDE DEF g
    <3>5. g = [n \in 0..(k + 1) |-> IF n = 0 THEN At(1, "none") ELSE Exec(program, h, g[n - 1])]
      BY <3>3, <3>4
    <3> QED BY <3>5
  <2>3. P = Nat
    <3> HIDE DEF P
    <3>1. P \in SUBSET Nat
      BY DEF P
    <3> QED BY <2>1, <2>2, <3>1, SetInduction
  <2>4. PICK f : Solves(f, len)
    BY <2>3
  <2> QED BY <2>4
<1>3. PICK f : /\ f = [n \in 0..Len(program) |-> IF n = 0 THEN At(1, "none") ELSE Exec(program, h, f[n - 1])]
               /\ End(program, h) = f[Len(program)].pc
  BY <1>1, <1>2, Zenon DEF End
<1>4. \A n \in 0..Len(program) : f[n] = IF n = 0 THEN At(1, "none") ELSE Exec(program, h, f[n - 1])
  BY <1>1, <1>3
<1>5. f[0] = At(1, "none") /\ \A n \in 1..Len(program) : f[n] = Exec(program, h, f[n - 1])
  BY <1>1, <1>4
<1> QED BY <1>3, <1>5

\* What the instructions do.
LEMMA DoLoad ==
    ASSUME NEW program, NEW h, Len(program) \in Nat, NEW pc \in 1..Len(program), NEW acc,
           NEW field, program[pc] = load(field)
    PROVE  Exec(program, h, At(pc, acc)) = At(pc + 1, h[field])
<1>1. At(pc, acc).pc = pc /\ At(pc, acc).acc = acc /\ ~(pc > Len(program))
  BY DEF At
<1> QED BY <1>1 DEF Exec, load

\* An instruction whose effect no property looks at.
LEMMA DoSkip ==
    ASSUME NEW program, NEW h, Len(program) \in Nat, NEW pc \in 1..Len(program), NEW acc,
           program[pc] = skip
    PROVE  Exec(program, h, At(pc, acc)) = At(pc + 1, acc)
<1>1. At(pc, acc).pc = pc /\ At(pc, acc).acc = acc /\ ~(pc > Len(program))
  BY DEF At
<1> QED BY <1>1 DEF Exec, skip

\* A comparison jumps.
LEMMA DoJeq ==
    ASSUME NEW program, NEW h, Len(program) \in Nat, NEW pc \in 1..Len(program), NEW acc,
           NEW value, NEW jt \in Nat, NEW jf \in Nat, program[pc] = jeq(value, jt, jf)
    PROVE  /\ acc = value => Exec(program, h, At(pc, acc)) = At(pc + 1 + jt, acc)
           /\ acc # value => Exec(program, h, At(pc, acc)) = At(pc + 1 + jf, acc)
<1>1. At(pc, acc).pc = pc /\ At(pc, acc).acc = acc /\ ~(pc > Len(program))
  BY DEF At
<1> QED BY <1>1 DEF Exec, jeq

\* So does a test of bits.
LEMMA DoJset ==
    ASSUME NEW program, NEW h, NEW pc, NEW acc, NEW len \in Nat, NEW jt \in Nat, NEW jf \in Nat,
           program[pc] = jset(jt, jf), len = Len(program), pc \in 1..len
    PROVE  /\ acc = "nonzero" => Exec(program, h, At(pc, acc)) = At(pc + 1 + jt, acc)
           /\ acc # "nonzero" => Exec(program, h, At(pc, acc)) = At(pc + 1 + jf, acc)
<1>1. At(pc, acc).pc = pc /\ At(pc, acc).acc = acc /\ ~(pc > Len(program))
  BY DEF At
<1> QED BY <1>1 DEF Exec, jset

\* ret stays where it is.
LEMMA DoRet ==
    ASSUME NEW program, NEW h, Len(program) \in Nat, NEW pc \in 1..Len(program), NEW acc,
           NEW verdict, program[pc] = ret(verdict)
    PROVE  Exec(program, h, At(pc, acc)) = At(pc, acc)
<1>1. At(pc, acc).pc = pc /\ At(pc, acc).acc = acc /\ ~(pc > Len(program))
  BY DEF At
<1> QED BY <1>1 DEF Exec, ret

\* The programs, as they are laid out after the check of the protocol.
LEMMA UdpProgram ==
    ASSUME NEW lk
    PROVE  LET v == IF lk = "ethernet" THEN 2 ELSE 3
               p == generateUdpFilter(lk)
           IN  /\ Len(p) = v + 4
               /\ lk = "ethernet" => p[1] = load("ethertype") /\ p[2] = jeq("ipv4", 0, 3)
               /\ lk # "ethernet" => p[1] = load("version") /\ p[2] = skip /\ p[3] = jeq("4", 0, 3)
               /\ p[v + 1] = load("protocol") /\ p[v + 2] = jeq("udp", 0, 1)
               /\ p[v + 3] = ret("accept") /\ p[v + 4] = ret("reject")
<1>1. CASE lk = "ethernet"
  BY <1>1 DEF generateUdpFilter, ProtocolVerification
<1>2. CASE lk # "ethernet"
  BY <1>2 DEF generateUdpFilter, ProtocolVerification
<1> QED BY <1>1, <1>2

\* The program ends at a return.
LEMMA VerdictAt ==
    ASSUME NEW program, NEW h, NEW verdict, NEW pc \in 1..Len(program),
           End(program, h) = pc, program[pc] = ret(verdict)
    PROVE  Verdict(program, h) = verdict
<1>1. program[pc].op = "ret" /\ program[pc].arg = verdict
  BY DEF ret
<1> QED BY <1>1 DEF Verdict

\* Exactly "ip and udp".
LEMMA UdpExactly ==
    ASSUME NEW lk, NEW h \in Header
    PROVE  Verdict(generateUdpFilter(lk), h) = "accept" <=> IPv4(h, lk) /\ h.protocol = "udp"
<1>1. PICK v, p : v = (IF lk = "ethernet" THEN 2 ELSE 3) /\ p = generateUdpFilter(lk)
  OBVIOUS
<1>2. /\ Len(p) = v + 4
      /\ lk = "ethernet" => p[1] = load("ethertype") /\ p[2] = jeq("ipv4", 0, 3)
      /\ lk # "ethernet" => p[1] = load("version") /\ p[2] = skip /\ p[3] = jeq("4", 0, 3)
      /\ p[v + 1] = load("protocol") /\ p[v + 2] = jeq("udp", 0, 1)
      /\ p[v + 3] = ret("accept") /\ p[v + 4] = ret("reject")
  BY <1>1, UdpProgram
<1>3. v \in {2, 3} /\ (v = 2 <=> lk = "ethernet") /\ Len(p) \in Nat
  BY <1>1, <1>2
<1>4. PICK f : /\ End(p, h) = f[Len(p)].pc
               /\ f[0] = At(1, "none")
               /\ \A n \in 1..Len(p) : f[n] = Exec(p, h, f[n - 1])
  BY <1>3, RunSteps
<1>5. ASSUME NEW n \in 0..(v + 3) PROVE f[n + 1] = Exec(p, h, f[n])
  <2>1. n + 1 \in 1..Len(p) /\ n + 1 - 1 = n
    BY <1>2, <1>3
  <2> QED BY <1>4, <2>1
<1>10. /\ f[1] = Exec(p, h, f[0]) /\ f[2] = Exec(p, h, f[1]) /\ f[3] = Exec(p, h, f[2])
       /\ f[v + 1] = Exec(p, h, f[v]) /\ f[v + 2] = Exec(p, h, f[v + 1])
       /\ f[v + 3] = Exec(p, h, f[v + 2]) /\ f[v + 4] = Exec(p, h, f[v + 3])
  <2>1. /\ 0 \in 0..(v + 3) /\ 1 \in 0..(v + 3) /\ 2 \in 0..(v + 3) /\ v \in 0..(v + 3)
        /\ v + 1 \in 0..(v + 3) /\ v + 2 \in 0..(v + 3) /\ v + 3 \in 0..(v + 3)
        /\ 0 + 1 = 1 /\ 1 + 1 = 2 /\ 2 + 1 = 3 /\ v + 1 + 1 = v + 2 /\ v + 2 + 1 = v + 3
        /\ v + 3 + 1 = v + 4
    BY <1>3
  <2>2. f[0 + 1] = Exec(p, h, f[0]) /\ f[1 + 1] = Exec(p, h, f[1]) /\ f[2 + 1] = Exec(p, h, f[2])
    BY <1>5, <2>1
  <2>3. f[v + 1] = Exec(p, h, f[v]) /\ f[v + 1 + 1] = Exec(p, h, f[v + 1])
    BY <1>5, <2>1
  <2>4. f[v + 2 + 1] = Exec(p, h, f[v + 2]) /\ f[v + 3 + 1] = Exec(p, h, f[v + 3])
    BY <1>5, <2>1
  <2> QED BY <2>1, <2>2, <2>3, <2>4
<1>14. /\ 1 \in 1..Len(p) /\ 2 \in 1..Len(p) /\ 3 \in 1..Len(p) /\ v + 1 \in 1..Len(p)
       /\ v + 2 \in 1..Len(p) /\ v + 3 \in 1..Len(p) /\ v + 4 \in 1..Len(p)
       /\ 1 + 1 = 2 /\ 2 + 1 = 3 /\ 3 + 1 = 4 /\ v + 1 + 1 = v + 2
       /\ v + 2 + 1 + 0 = v + 3 /\ v + 2 + 1 + 1 = v + 4
       /\ 0 \in Nat /\ 1 \in Nat /\ 3 \in Nat
  BY <1>2, <1>3
<1>6. \E acc : /\ IPv4(h, lk) => f[v] = At(v + 1, acc)
               /\ ~IPv4(h, lk) => f[v] = At(v + 4, acc)
  <2>1. CASE lk = "ethernet"
    <3>0. Exec(p, h, At(1, "none")) = At(1 + 1, h["ethertype"])
      <4>1. p[1] = load("ethertype") /\ Len(p) \in Nat /\ 1 \in 1..Len(p)
        BY <1>2, <1>3, <1>14, <2>1
      <4> QED BY <4>1, DoLoad
    <3>1. f[1] = At(2, h["ethertype"])
      BY <1>4, <1>10, <3>0
    <3>2. /\ h["ethertype"] = "ipv4" => f[2] = At(2 + 1 + 0, h["ethertype"])
          /\ h["ethertype"] # "ipv4" => f[2] = At(2 + 1 + 3, h["ethertype"])
      BY <1>2, <1>3, <1>10, <1>14, <2>1, <3>1, DoJeq
    <3>3. v = 2 /\ 2 + 1 + 0 = v + 1 /\ 2 + 1 + 3 = v + 4 /\ (IPv4(h, lk) <=> h["ethertype"] = "ipv4")
      BY <1>3, <2>1 DEF IPv4
    <3> QED BY <3>2, <3>3
  <2>2. CASE lk # "ethernet"
    <3>0. Exec(p, h, At(1, "none")) = At(1 + 1, h["version"])
      <4>1. p[1] = load("version") /\ Len(p) \in Nat /\ 1 \in 1..Len(p)
        BY <1>2, <1>3, <1>14, <2>2
      <4> QED BY <4>1, DoLoad
    <3>1. f[1] = At(2, h["version"])
      BY <1>4, <1>10, <3>0
    <3>2. f[2] = At(3, h["version"])
      BY <1>2, <1>3, <1>10, <1>14, <2>2, <3>1, DoSkip
    <3>3. /\ h["version"] = "4" => f[3] = At(3 + 1 + 0, h["version"])
          /\ h["version"] # "4" => f[3] = At(3 + 1 + 3, h["version"])
      BY <1>2, <1>3, <1>10, <1>14, <2>2, <3>2, DoJeq
    <3>4. v = 3 /\ 3 + 1 + 0 = v + 1 /\ 3 + 1 + 3 = v + 4 /\ (IPv4(h, lk) <=> h["version"] = "4")
      BY <1>3, <2>2 DEF IPv4
    <3> QED BY <3>3, <3>4
  <2> QED BY <2>1, <2>2
<1>7. PICK acc : /\ IPv4(h, lk) => f[v] = At(v + 1, acc)
                 /\ ~IPv4(h, lk) => f[v] = At(v + 4, acc)
  BY <1>6
<1>8. CASE ~IPv4(h, lk)
  <2>1. Exec(p, h, At(v + 4, acc)) = At(v + 4, acc)
    BY <1>2, <1>3, <1>14, DoRet
  <2>2. f[Len(p)] = At(v + 4, acc)
    BY <1>2, <1>10, <1>7, <1>8, <2>1
  <2>3. End(p, h) = v + 4
    BY <1>4, <2>2 DEF At
  <2>4. Verdict(p, h) = "reject"
    BY <1>2, <1>14, <2>3, VerdictAt
  <2> QED BY <1>1, <1>8, <2>4
<1>9. CASE IPv4(h, lk)
  <2>1. f[v + 1] = At(v + 2, h["protocol"])
    <3>1. Exec(p, h, At(v + 1, acc)) = At(v + 1 + 1, h["protocol"])
      BY <1>2, <1>3, <1>14, DoLoad
    <3> QED BY <1>10, <1>7, <1>9, <1>14, <3>1
  <2>2. /\ h["protocol"] = "udp" => f[v + 2] = At(v + 3, h["protocol"])
        /\ h["protocol"] # "udp" => f[v + 2] = At(v + 4, h["protocol"])
    <3>1. LET b == h["protocol"]
          IN  /\ b = "udp" => Exec(p, h, At(v + 2, b)) = At(v + 2 + 1 + 0, b)
              /\ b # "udp" => Exec(p, h, At(v + 2, b)) = At(v + 2 + 1 + 1, b)
      BY <1>2, <1>3, <1>14, DoJeq
    <3> QED BY <1>10, <1>14, <2>1, <3>1
  <2>3. /\ Exec(p, h, At(v + 3, h["protocol"])) = At(v + 3, h["protocol"])
        /\ Exec(p, h, At(v + 4, h["protocol"])) = At(v + 4, h["protocol"])
    BY <1>2, <1>3, <1>14, DoRet
  <2>4. CASE h["protocol"] = "udp"
    <3>1. f[Len(p)] = At(v + 3, h["protocol"])
      BY <1>2, <1>10, <2>2, <2>3, <2>4
    <3>2. End(p, h) = v + 3
      BY <1>4, <3>1 DEF At
    <3>3. Verdict(p, h) = "accept"
      BY <1>2, <1>14, <3>2, VerdictAt
    <3> QED BY <1>1, <1>9, <2>4, <3>3
  <2>5. CASE h["protocol"] # "udp"
    <3>1. f[Len(p)] = At(v + 4, h["protocol"])
      BY <1>2, <1>10, <2>2, <2>3, <2>5
    <3>2. End(p, h) = v + 4
      BY <1>4, <3>1 DEF At
    <3>3. Verdict(p, h) = "reject"
      BY <1>2, <1>14, <3>2, VerdictAt
    <3> QED BY <1>1, <1>9, <2>5, <3>3
  <2> QED BY <2>4, <2>5
<1> QED BY <1>8, <1>9

\* The instructions of generateSynAckFilter, with the offset of its first part.
LEMMA SynAckProgram ==
    ASSUME NEW lk
    PROVE  LET v == IF lk = "ethernet" THEN 2 ELSE 3
               p == generateSynAckFilter(lk)
           IN  /\ Len(p) = v + 10
               /\ lk = "ethernet" => p[1] = load("ethertype") /\ p[2] = jeq("ipv4", 0, 8)
               /\ lk # "ethernet" => p[1] = load("version") /\ p[2] = skip /\ p[3] = jeq("4", 0, 7)
               /\ p[v + 1] = load("protocol") /\ p[v + 2] = jeq("tcp", 0, 6)
               /\ p[v + 3] = load("fragment") /\ p[v + 4] = jset(4, 0) /\ p[v + 5] = skip
               /\ p[v + 6] = load("flags") /\ p[v + 7] = skip /\ p[v + 8] = jeq("synack", 0, 1)
               /\ p[v + 9] = ret("accept") /\ p[v + 10] = ret("reject")
<1>1. CASE lk = "ethernet"
  BY <1>1 DEF generateSynAckFilter, ProtocolVerification
<1>2. CASE lk # "ethernet"
  BY <1>2 DEF generateSynAckFilter, ProtocolVerification
<1> QED BY <1>1, <1>2

\* The states of the machine on a program.
RunOf(f, program, h, len) ==
    /\ len = Len(program) /\ End(program, h) = f[len].pc
    /\ \A n \in 0..(len - 1) : f[n + 1] = Exec(program, h, f[n])

\* A run that has come to a return has its verdict.
LEMMA ReturnDecides ==
    ASSUME NEW program, NEW h, NEW f, NEW len \in Nat, RunOf(f, program, h, len),
           NEW n \in 0..len, NEW e \in 1..len, NEW acc, NEW verdict,
           f[n] = At(e, acc), program[e] = ret(verdict)
    PROVE  Verdict(program, h) = verdict
<1> USE DEF RunOf
<1> DEFINE P == {k \in Nat : n + k <= len => f[n + k] = At(e, acc)}
<1>1. Exec(program, h, At(e, acc)) = At(e, acc)
  BY DoRet
<1>2. 0 \in P
  <2>1. n + 0 = n
    OBVIOUS
  <2> QED BY <2>1
<1>3. ASSUME NEW k \in P PROVE k + 1 \in P
  <2> SUFFICES ASSUME n + (k + 1) <= len PROVE f[n + (k + 1)] = At(e, acc)
    OBVIOUS
  <2>1. n + k \in 0..(len - 1) /\ n + (k + 1) = n + k + 1 /\ n + k <= len
    OBVIOUS
  <2>2. f[n + k + 1] = Exec(program, h, f[n + k]) /\ f[n + k] = At(e, acc)
    BY <2>1
  <2> QED BY <1>1, <2>1, <2>2
<1>4. P = Nat
  <2>1. P \in SUBSET Nat
    OBVIOUS
  <2> HIDE DEF P
  <2> QED BY <1>2, <1>3, <2>1, SetInduction
<1>5. PICK k \in Nat : n + k = len
  <2>1. len - n \in Nat /\ n + (len - n) = len
    OBVIOUS
  <2> QED BY <2>1
<1>6. f[len] = At(e, acc)
  <2>1. n + k <= len
    BY <1>5
  <2>2. k \in P
    BY <1>4
  <2>3. f[n + k] = At(e, acc)
    BY <2>1, <2>2
  <2> QED BY <1>5, <2>3
<1>7. End(program, h) = e
  BY <1>6 DEF At
<1> QED BY <1>7, VerdictAt

\* Each path through the program: which jump ends where.
LEMMA SynAckExactly ==
    ASSUME NEW lk, NEW h \in Header
    PROVE  Verdict(generateSynAckFilter(lk), h) = "accept"
               <=> IF IPv4(h, lk)
                   THEN h.protocol = "tcp" /\ h.fragment = "zero" => h.flags = "synack"
                   ELSE lk = "ethernet"
<1>1. PICK v, p : v = (IF lk = "ethernet" THEN 2 ELSE 3) /\ p = generateSynAckFilter(lk)
  OBVIOUS
<1>2. /\ Len(p) = v + 10
      /\ lk = "ethernet" => p[1] = load("ethertype") /\ p[2] = jeq("ipv4", 0, 8)
      /\ lk # "ethernet" => p[1] = load("version") /\ p[2] = skip /\ p[3] = jeq("4", 0, 7)
      /\ p[v + 1] = load("protocol") /\ p[v + 2] = jeq("tcp", 0, 6)
      /\ p[v + 3] = load("fragment") /\ p[v + 4] = jset(4, 0) /\ p[v + 5] = skip
      /\ p[v + 6] = load("flags") /\ p[v + 7] = skip /\ p[v + 8] = jeq("synack", 0, 1)
      /\ p[v + 9] = ret("accept") /\ p[v + 10] = ret("reject")
  BY <1>1, SynAckProgram
<1>3. v \in {2, 3} /\ (v = 2 <=> lk = "ethernet") /\ Len(p) \in Nat
  BY <1>1, <1>2
<1>4. PICK f : /\ End(p, h) = f[Len(p)].pc
               /\ f[0] = At(1, "none")
               /\ \A n \in 1..Len(p) : f[n] = Exec(p, h, f[n - 1])
  BY <1>3, RunSteps
<1>5. \A n \in 0..(Len(p) - 1) : f[n + 1] = Exec(p, h, f[n])
  <2> SUFFICES ASSUME NEW n \in 0..(Len(p) - 1) PROVE f[n + 1] = Exec(p, h, f[n])
    OBVIOUS
  <2>1. n + 1 \in 1..Len(p) /\ n + 1 - 1 = n
    BY <1>3
  <2> QED BY <1>4, <2>1
<1>6. /\ \A n \in 0..(v + 10) : \A acc : f[n] = At(v + 9, acc) => Verdict(p, h) = "accept"
      /\ \A n \in 0..(v + 10) : \A acc : f[n] = At(v + 10, acc) => Verdict(p, h) = "reject"
  <2>1. PICK len \in Nat : len = Len(p)
    BY <1>3
  <2>2. v + 9 \in 1..len /\ v + 10 \in 1..len /\ 0..(v + 10) = 0..len
    BY <1>2, <1>3, <2>1
  <2>3. RunOf(f, p, h, len)
    BY <1>4, <1>5, <2>1 DEF RunOf
  <2>4. ASSUME NEW n \in 0..(v + 10), NEW acc, f[n] = At(v + 9, acc) PROVE Verdict(p, h) = "accept"
    <3>1. PICK e \in 1..len : e = v + 9
      BY <2>2
    <3>2. n \in 0..len /\ p[e] = ret("accept") /\ f[n] = At(e, acc)
      BY <1>2, <2>2, <2>4, <3>1
    <3> QED BY <2>3, <3>2, ReturnDecides
  <2>5. ASSUME NEW n \in 0..(v + 10), NEW acc, f[n] = At(v + 10, acc) PROVE Verdict(p, h) = "reject"
    <3>1. PICK e \in 1..len : e = v + 10
      BY <2>2
    <3>2. n \in 0..len /\ p[e] = ret("reject") /\ f[n] = At(e, acc)
      BY <1>2, <2>2, <2>5, <3>1
    <3> QED BY <2>3, <3>2, ReturnDecides
  <2> QED BY <2>4, <2>5
<1>7. /\ v + 1 \in 1..Len(p) /\ v + 2 \in 1..Len(p) /\ v + 3 \in 1..Len(p) /\ v + 4 \in 1..Len(p)
      /\ v + 5 \in 1..Len(p) /\ v + 6 \in 1..Len(p) /\ v + 7 \in 1..Len(p) /\ v + 8 \in 1..Len(p)
      /\ 0 \in Nat /\ 1 \in Nat /\ 4 \in Nat /\ 6 \in Nat /\ 7 \in Nat /\ 8 \in Nat
  BY <1>2, <1>3
<1>13. \A k \in 0..9 : f[v + k + 1] = Exec(p, h, f[v + k])
  <2>1. \A k \in 0..9 : v + k \in 0..(Len(p) - 1)
    BY <1>2, <1>3
  <2> QED BY <1>5, <2>1
<1>8. \E acc : /\ IPv4(h, lk) => f[v] = At(v + 1, acc)
               /\ ~IPv4(h, lk) /\ lk = "ethernet" => f[v] = At(v + 9, acc)
               /\ ~IPv4(h, lk) /\ lk # "ethernet" => f[v] = At(v + 8, acc) /\ acc # "synack"
  <2>1. CASE lk = "ethernet"
    <3>1. v = 2 /\ p[1] = load("ethertype") /\ p[2] = jeq("ipv4", 0, 8)
      BY <1>2, <1>3, <2>1
    <3>2. 1 \in 1..Len(p) /\ 2 \in 1..Len(p)
      BY <1>2, <3>1
    <3>3. f[0 + 1] = Exec(p, h, f[0]) /\ f[1 + 1] = Exec(p, h, f[1])
      BY <1>2, <1>5, <3>1
    <3>4. f[1] = At(2, h["ethertype"])
      <4>1. Exec(p, h, At(1, "none")) = At(1 + 1, h["ethertype"])
        BY <1>3, <3>1, <3>2, DoLoad
      <4> QED BY <1>4, <3>3, <4>1
    <3>5. /\ h["ethertype"] = "ipv4" => f[2] = At(2 + 1 + 0, h["ethertype"])
          /\ h["ethertype"] # "ipv4" => f[2] = At(2 + 1 + 8, h["ethertype"])
      BY <1>3, <1>7, <3>1, <3>2, <3>3, <3>4, DoJeq
    <3>6. IPv4(h, lk) <=> h["ethertype"] = "ipv4"
      BY <2>1 DEF IPv4
    <3>7. v + 1 = 2 + 1 + 0 /\ v + 9 = 2 + 1 + 8
      BY <3>1
    <3> QED BY <2>1, <3>1, <3>5, <3>6, <3>7
  <2>2. CASE lk # "ethernet"
    <3>1. v = 3 /\ p[1] = load("version") /\ p[2] = skip /\ p[3] = jeq("4", 0, 7)
      BY <1>2, <1>3, <2>2
    <3>2. 1 \in 1..Len(p) /\ 2 \in 1..Len(p) /\ 3 \in 1..Len(p)
      BY <1>2, <3>1
    <3>3. f[0 + 1] = Exec(p, h, f[0]) /\ f[1 + 1] = Exec(p, h, f[1]) /\ f[2 + 1] = Exec(p, h, f[2])
      BY <1>2, <1>5, <3>1
    <3>4. f[1] = At(2, h["version"])
      <4>1. Exec(p, h, At(1, "none")) = At(1 + 1, h["version"])
        BY <1>3, <3>1, <3>2, DoLoad
      <4> QED BY <1>4, <3>3, <4>1
    <3>5. f[2] = At(3, h["version"])
      <4>1. Exec(p, h, At(2, h["version"])) = At(2 + 1, h["version"])
        BY <1>3, <3>1, <3>2, DoSkip
      <4> QED BY <3>3, <3>4, <4>1
    <3>6. /\ h["version"] = "4" => f[3] = At(3 + 1 + 0, h["version"])
          /\ h["version"] # "4" => f[3] = At(3 + 1 + 7, h["version"])
      BY <1>3, <1>7, <3>1, <3>2, <3>3, <3>5, DoJeq
    <3>7. (IPv4(h, lk) <=> h["version"] = "4") /\ h["version"] # "synack"
      BY <2>2 DEF IPv4, Header
    <3>8. v + 1 = 3 + 1 + 0 /\ v + 8 = 3 + 1 + 7
      BY <3>1
    <3> QED BY <2>2, <3>1, <3>6, <3>7, <3>8
  <2> QED BY <2>1, <2>2
<1>9. PICK a : /\ IPv4(h, lk) => f[v] = At(v + 1, a)
               /\ ~IPv4(h, lk) /\ lk = "ethernet" => f[v] = At(v + 9, a)
               /\ ~IPv4(h, lk) /\ lk # "ethernet" => f[v] = At(v + 8, a) /\ a # "synack"
  BY <1>8
<1>10. \A acc : /\ acc = "synack" => Exec(p, h, At(v + 8, acc)) = At(v + 9, acc)
                /\ acc # "synack" => Exec(p, h, At(v + 8, acc)) = At(v + 10, acc)
  <2> SUFFICES ASSUME NEW acc
               PROVE  /\ acc = "synack" => Exec(p, h, At(v + 8, acc)) = At(v + 9, acc)
                      /\ acc # "synack" => Exec(p, h, At(v + 8, acc)) = At(v + 10, acc)
    OBVIOUS
  <2>1. v + 8 \in 1..Len(p) /\ v + 8 + 1 + 0 = v + 9 /\ v + 8 + 1 + 1 = v + 10
    BY <1>3, <1>7
  <2>2. p[v + 8] = jeq("synack", 0, 1)
    BY <1>2
  <2>3. /\ acc = "synack" => Exec(p, h, At(v + 8, acc)) = At(v + 8 + 1 + 0, acc)
        /\ acc # "synack" => Exec(p, h, At(v + 8, acc)) = At(v + 8 + 1 + 1, acc)
    BY <1>3, <1>7, <2>1, <2>2, DoJeq
  <2> QED BY <2>1, <2>3
<1>11. CASE ~IPv4(h, lk)
  <2>1. CASE lk = "ethernet"
    <3>1. v \in 0..(v + 10)
      BY <1>3
    <3> QED BY <1>1, <1>6, <1>9, <1>11, <2>1, <3>1
  <2>2. CASE lk # "ethernet"
    <3>1. f[v + 0 + 1] = Exec(p, h, f[v + 0]) /\ v + 0 = v /\ v + 1 \in 0..(v + 10)
      BY <1>3, <1>13
    <3>2. f[v + 1] = At(v + 10, a)
      BY <1>9, <1>10, <1>11, <2>2, <3>1
    <3> QED BY <1>1, <1>6, <1>11, <2>2, <3>1, <3>2
  <2> QED BY <2>1, <2>2
<1>12. CASE IPv4(h, lk)
  <2>1. PICK b, c, d : b = h["protocol"] /\ c = h["fragment"] /\ d = h["flags"]
    OBVIOUS
  <2>2. c \in {"zero", "nonzero"}
    BY <2>1 DEF Header
  <2>3. /\ f[v + 1] = Exec(p, h, f[v]) /\ f[v + 2] = Exec(p, h, f[v + 1])
        /\ f[v + 3] = Exec(p, h, f[v + 2]) /\ f[v + 4] = Exec(p, h, f[v + 3])
        /\ f[v + 5] = Exec(p, h, f[v + 4]) /\ f[v + 6] = Exec(p, h, f[v + 5])
        /\ f[v + 7] = Exec(p, h, f[v + 6]) /\ f[v + 8] = Exec(p, h, f[v + 7])
    <3>1. /\ v + 0 = v /\ v + 0 + 1 = v + 1 /\ v + 1 + 1 = v + 2 /\ v + 2 + 1 = v + 3
          /\ v + 3 + 1 = v + 4 /\ v + 4 + 1 = v + 5 /\ v + 5 + 1 = v + 6
          /\ v + 6 + 1 = v + 7 /\ v + 7 + 1 = v + 8
      BY <1>3
    <3>2. /\ f[v + 0 + 1] = Exec(p, h, f[v + 0]) /\ f[v + 1 + 1] = Exec(p, h, f[v + 1])
          /\ f[v + 2 + 1] = Exec(p, h, f[v + 2]) /\ f[v + 3 + 1] = Exec(p, h, f[v + 3])
          /\ f[v + 4 + 1] = Exec(p, h, f[v + 4]) /\ f[v + 5 + 1] = Exec(p, h, f[v + 5])
          /\ f[v + 6 + 1] = Exec(p, h, f[v + 6]) /\ f[v + 7 + 1] = Exec(p, h, f[v + 7])
      BY <1>13
    <3> QED BY <3>1, <3>2
  <2>4. f[v + 1] = At(v + 2, b)
    <3>1. Exec(p, h, At(v + 1, a)) = At(v + 1 + 1, h["protocol"])
      BY <1>2, <1>3, <1>7, DoLoad
    <3>2. v + 1 + 1 = v + 2
      BY <1>3
    <3> QED BY <1>9, <1>12, <2>1, <2>3, <3>1, <3>2
  <2>5. /\ b = "tcp" => f[v + 2] = At(v + 3, b)
        /\ b # "tcp" => f[v + 2] = At(v + 9, b)
    <3>1. /\ b = "tcp" => Exec(p, h, At(v + 2, b)) = At(v + 2 + 1 + 0, b)
          /\ b # "tcp" => Exec(p, h, At(v + 2, b)) = At(v + 2 + 1 + 6, b)
      BY <1>2, <1>3, <1>7, DoJeq
    <3>2. v + 2 + 1 + 0 = v + 3 /\ v + 2 + 1 + 6 = v + 9
      BY <1>3
    <3> QED BY <2>3, <2>4, <3>1, <3>2
  <2>6. CASE b # "tcp"
    <3>1. v + 2 \in 0..(v + 10)
      BY <1>3
    <3> QED BY <1>1, <1>6, <1>12, <2>1, <2>5, <2>6, <3>1
  <2>7. ASSUME b = "tcp" PROVE f[v + 3] = At(v + 4, c)
    <3>1. Exec(p, h, At(v + 3, b)) = At(v + 3 + 1, h["fragment"])
      BY <1>2, <1>3, <1>7, DoLoad
    <3>2. v + 3 + 1 = v + 4
      BY <1>3
    <3> QED BY <2>1, <2>3, <2>5, <2>7, <3>1, <3>2
  <2>8. /\ c = "nonzero" => Exec(p, h, At(v + 4, c)) = At(v + 9, c)
        /\ c # "nonzero" => Exec(p, h, At(v + 4, c)) = At(v + 5, c)
    <3>1. PICK len \in Nat, jt \in Nat, jf \in Nat : len = Len(p) /\ jt = 4 /\ jf = 0
      BY <1>3
    <3>2. p[v + 4] = jset(jt, jf) /\ v + 4 \in 1..len
      BY <1>2, <1>7, <3>1
    <3>3. v + 4 + 1 + jt = v + 9 /\ v + 4 + 1 + jf = v + 5
      BY <1>3, <3>1
    <3>4. /\ c = "nonzero" => Exec(p, h, At(v + 4, c)) = At(v + 4 + 1 + jt, c)
          /\ c # "nonzero" => Exec(p, h, At(v + 4, c)) = At(v + 4 + 1 + jf, c)
      BY <3>1, <3>2, DoJset
    <3> QED BY <3>3, <3>4
  <2>9. CASE b = "tcp" /\ c = "nonzero"
    <3>1. f[v + 4] = At(v + 9, c) /\ v + 4 \in 0..(v + 10)
      BY <1>3, <2>3, <2>7, <2>8, <2>9
    <3> QED BY <1>1, <1>6, <1>12, <2>1, <2>9, <3>1
  <2>10. CASE b = "tcp" /\ c = "zero"
    <3>1. f[v + 4] = At(v + 5, c)
      BY <2>3, <2>7, <2>8, <2>10
    <3>2. /\ Exec(p, h, At(v + 5, c)) = At(v + 5 + 1, c)
          /\ Exec(p, h, At(v + 7, d)) = At(v + 7 + 1, d)
      BY <1>2, <1>3, <1>7, DoSkip
    <3>3. Exec(p, h, At(v + 6, c)) = At(v + 6 + 1, h["flags"])
      BY <1>2, <1>3, <1>7, DoLoad
    <3>4. v + 5 + 1 = v + 6 /\ v + 6 + 1 = v + 7 /\ v + 7 + 1 = v + 8 /\ v + 8 + 1 = v + 9
      BY <1>3
    <3>5. f[v + 5] = At(v + 6, c) /\ f[v + 6] = At(v + 7, d) /\ f[v + 7] = At(v + 8, d)
      BY <2>1, <2>3, <3>1, <3>2, <3>3, <3>4
    <3>6. /\ d = "synack" => f[v + 8] = At(v + 9, d)
          /\ d # "synack" => f[v + 8] = At(v + 10, d)
      BY <1>10, <2>3, <3>5
    <3>7. v + 8 \in 0..(v + 10)
      BY <1>3
    <3> QED BY <1>1, <1>6, <1>12, <2>1, <2>10, <3>6, <3>7
  <2> QED BY <2>2, <2>6, <2>9, <2>10
<1> QED BY <1>11, <1>12

\* Whatever the link type, generateUdpFilter's program is "ip and udp" and
\* generateSynAckFilter's lets through every SYN/ACK over IPv4, no other first fragment
\* of TCP, and what the jumps that fall short let through.
THEOREM FiltersAreRight == Spec => []FiltersPassTheirs
<1>1. ASSUME NEW h \in {x \in Header : Possible(x, link)}
      PROVE  Verdict(generateUdpFilter(link), h) = "accept"
                 <=> IPv4(h, link) /\ h.protocol = "udp"
  BY UdpExactly
<1>2. ASSUME NEW h \in {x \in Header : Possible(x, link)}
      PROVE  Verdict(generateSynAckFilter(link), h) = "accept"
                 <=> IF IPv4(h, link)
                     THEN h.protocol = "tcp" /\ h.fragment = "zero" => h.flags = "synack"
                     ELSE link = "ethernet"
  BY SynAckExactly
<1>3. HopInv => FiltersPassTheirs
  BY <1>1, <1>2 DEF FiltersPassTheirs, UdpExact, SynAckExact
<1> QED BY <1>3, HopInvariant, PTL

-------------------------------------------------------------------------------
(* The discovery's reader and the sniffer's socket. *)

\* The types of the state that the count of stolen packets depends on.
DiscoveryTypeOK ==
    /\ fds \in [FD -> Socket \cup {None}]
    /\ fdOf \in [Socket -> FD \cup {None}]
    /\ sockQ \in [Socket -> Seq(Frame)]
    /\ reader \in [Socket -> {"none", "call", "wait", "send", "ended"}]
    /\ inCall \in [Socket -> Socket \cup {None}]
    /\ inHand \in [Socket -> Frame \cup {None}]
    /\ packets \in [Socket -> Seq(Frame \cup {None})]
    /\ stolen \in Nat
    /\ \A r \in Socket : reader[r] = "wait" => inCall[r] \in Socket
    /\ \A r \in Socket : reader[r] # "none" => fdOf[r] \in FD

\* A MAC address is only there when captureARPReply has returned.
CaptureInv ==
    /\ main = "discover" => capture = "none"
    /\ macCh # <<>> \/ mac # None => capture = "ended"
    /\ main = "setup" => mac # None

\* The sniffer's socket is there, and packets can be taken from it, only then.
SnifferInv ==
    (\/ \E n \in FD : fds[n] = "tcp"
     \/ \E r \in Socket : inCall[r] = "tcp"
     \/ stolen > 0) => capture = "ended"

\* What was taken from the sniffer is in the channel, which nobody empties any
\* more, or in the reader's hand.
StolenInv ==
    /\ Len(packets["arp"]) <= Buffer
    /\ stolen <= Len(packets["arp"]) + 1
    /\ reader["arp"] # "send" => stolen <= Len(packets["arp"])

DiscoveryInv == DiscoveryTypeOK /\ CaptureInv /\ SnifferInv /\ StolenInv

\* The kernel and the readers keep the invariant: a packet that is taken goes
\* into the reader's hand, and from there into the channel.
LEMMA ReadersKeepDiscovery ==
    ASSUME DiscoveryInv, NEW r \in Socket, ReaderCalls(r) \/ ReaderGets(r) \/ ReaderSends(r)
    PROVE  DiscoveryInv'
<1> USE DiscoveryAssumption DEF DiscoveryInv, DiscoveryTypeOK, Socket, mainVars, osVars
<1>1. CASE ReaderCalls(r)
  <2> USE <1>1 DEF ReaderCalls
  <2>1. CASE fds[fdOf[r]] = None
    BY <2>1 DEF CaptureInv, SnifferInv, StolenInv
  <2>2. CASE fds[fdOf[r]] # None
    BY <2>2 DEF CaptureInv, SnifferInv, StolenInv
  <2> QED BY <2>1, <2>2
<1>2. CASE ReaderGets(r)
  BY <1>2 DEF ReaderGets, CaptureInv, SnifferInv, StolenInv
<1>3. CASE ReaderSends(r)
  <2> USE <1>3 DEF ReaderSends
  <2>1. DiscoveryTypeOK'
    OBVIOUS
  <2>2. StolenInv'
    <3>1. CASE r = "arp"
      <4>1. PICK n \in Nat : n = Len(packets["arp"])
        OBVIOUS
      <4>2. Len(packets'["arp"]) = n + 1 /\ n < Buffer
        BY <3>1, <4>1
      <4>3. stolen' <= n + 1 /\ reader'["arp"] = "call"
        BY <3>1, <4>1 DEF StolenInv
      <4> QED BY <4>2, <4>3 DEF StolenInv
    <3>2. CASE r = "tcp"
      <4>1. packets'["arp"] = packets["arp"] /\ reader'["arp"] = reader["arp"] /\ stolen' = stolen
        BY <3>2
      <4> QED BY <4>1 DEF StolenInv
    <3> QED BY <3>1, <3>2
  <2> QED BY <2>1, <2>2 DEF CaptureInv, SnifferInv
<1> QED BY <1>1, <1>2, <1>3

\* captureARPReply empties the channel only before it has passed an answer on.
LEMMA CaptureKeepsDiscovery ==
    ASSUME DiscoveryInv, CaptureReceives \/ CaptureEnds
    PROVE  DiscoveryInv'
<1> USE DiscoveryAssumption DEF DiscoveryInv, DiscoveryTypeOK, Socket, osVars, readerVars
<1>1. CASE CaptureReceives
  BY <1>1 DEF CaptureReceives, CaptureInv, SnifferInv, StolenInv
<1>2. CASE CaptureEnds
  BY <1>2 DEF CaptureEnds, CaptureInv, SnifferInv, StolenInv
<1> QED BY <1>1, <1>2

\* The steps of createServer keep the invariant.
LEMMA MainKeepsDiscovery ==
    ASSUME DiscoveryInv,
           \/ DiscoverEnds("failed") \/ DiscoverEnds("running") \/ OpenARP \/ Main
    PROVE  DiscoveryInv'
<1> USE DiscoveryAssumption DEF DiscoveryInv, DiscoveryTypeOK, Socket, osVars, readerVars
<1>1. CASE DiscoverEnds("failed") \/ DiscoverEnds("running")
  BY <1>1 DEF DiscoverEnds, CaptureInv, SnifferInv, StolenInv
<1>2. CASE OpenARP
  BY <1>2 DEF OpenARP, NewHandle, CaptureInv, SnifferInv, StolenInv
<1>3. CASE Settle
  BY <1>3 DEF Settle, CaptureInv, SnifferInv, StolenInv
<1>4. CASE ReceiveMAC
  BY <1>4 DEF ReceiveMAC, CaptureInv, SnifferInv, StolenInv
<1>5. CASE TimeOut
  BY <1>5 DEF TimeOut, CaptureInv, SnifferInv, StolenInv
<1>6. CASE CloseHandle
  BY <1>6 DEF CloseHandle, CaptureInv, SnifferInv, StolenInv
<1>7. CASE DiscoverCancel
  BY <1>7 DEF DiscoverCancel, CaptureInv, SnifferInv, StolenInv
<1>8. CASE OpenSniffer
  BY <1>8 DEF OpenSniffer, NewHandle, CaptureInv, SnifferInv, StolenInv
<1> QED BY <1>1, <1>2, <1>3, <1>4, <1>5, <1>6, <1>7, <1>8 DEF Main

\* The inductive invariant of discovery and sniffer, for any numbers of
\* descriptors and any capacity of the channels.
THEOREM DiscoveryInvariant == DiscoverySpec => []DiscoveryInv
<1>1. DiscoveryInit => DiscoveryInv
  BY DiscoveryAssumption
     DEF DiscoveryInit, DiscoveryInv, DiscoveryTypeOK, CaptureInv, SnifferInv, StolenInv, Socket
<1>2. DiscoveryInv /\ [DiscoveryNext]_discoveryVars => DiscoveryInv'
  <2> SUFFICES ASSUME DiscoveryInv, [DiscoveryNext]_discoveryVars PROVE DiscoveryInv'
    OBVIOUS
  <2>1. CASE UNCHANGED discoveryVars
    BY <2>1 DEF discoveryVars, mainVars, osVars, readerVars,
                DiscoveryInv, DiscoveryTypeOK, CaptureInv, SnifferInv, StolenInv
  <2>2. ASSUME NEW p \in Frame, Arrives(p) PROVE DiscoveryInv'
    <3>1. sockQ' \in [Socket -> Seq(Frame)]
      BY <2>2 DEF Arrives, DiscoveryInv, DiscoveryTypeOK
    <3> QED BY <2>2, <3>1 DEF Arrives, mainVars, readerVars,
                DiscoveryInv, DiscoveryTypeOK, CaptureInv, SnifferInv, StolenInv
  <2>3. CASE Sniff
    <3>1. /\ packets' \in [Socket -> Seq(Frame \cup {None})]
          /\ packets'["arp"] = packets["arp"]
      BY <2>3 DEF Sniff, Socket, DiscoveryInv, DiscoveryTypeOK
    <3> QED BY <2>3, <3>1 DEF Sniff, mainVars, osVars,
                DiscoveryInv, DiscoveryTypeOK, CaptureInv, SnifferInv, StolenInv
  <2>4. CASE ContextEnds
    BY <2>4 DEF ContextEnds, osVars, readerVars,
                DiscoveryInv, DiscoveryTypeOK, CaptureInv, SnifferInv, StolenInv
  <2> QED BY <2>1, <2>2, <2>3, <2>4, ReadersKeepDiscovery, CaptureKeepsDiscovery,
             MainKeepsDiscovery DEF DiscoveryNext, Main
<1> QED BY <1>1, <1>2, PTL DEF DiscoverySpec

\* However descriptors are reused, the discovery's reader takes no more packets
\* from the sniffer than its channel holds, and one.
THEOREM FewAreStolen == DiscoverySpec => []StolenAreFew
<1>1. DiscoveryInv => StolenAreFew
  <2> SUFFICES ASSUME DiscoveryInv PROVE StolenAreFew
    OBVIOUS
  <2>1. PICK n \in Nat : n = Len(packets["arp"])
    BY DEF DiscoveryInv, DiscoveryTypeOK, Socket
  <2>2. n <= Buffer /\ stolen <= n + 1 /\ stolen \in Nat
    BY <2>1 DEF DiscoveryInv, DiscoveryTypeOK, StolenInv
  <2> QED BY <2>2, DiscoveryAssumption DEF StolenAreFew
<1> QED BY <1>1, DiscoveryInvariant, PTL
===============================================================================
