------------------------------ MODULE TLSDesync ------------------------------
(***************************************************************************)
(* internal/desync/tls.go: how the ClientHello is cut and sent, so that    *)
(* it is hard to put together for an observer and easy for the server.     *)
(*                                                                         *)
(* A message is its length and the place of the server name in it; a       *)
(* segment is an interval of the message, from (inclusive) to (exclusive). *)
(* One Desync per behaviour; every write and every setsockopt may fail.    *)
(***************************************************************************)
EXTENDS Integers, Sequences

CONSTANTS MaxLen,    \* bound on the length of a message
          Sizes,     \* chunk sizes (uint8)
          MaskBits,  \* width of the random mask (64 in the code)
          Plans,     \* custom segment plans: sequences of SegmentPlan
          Modes,     \* split modes to look at
          FakePacket,\* the fake message
          MaxFakes,  \* bound on FakeCount
          MaxNoise   \* bound on the noise of a plan

DefaultTTL == 64    \* getDefaultTTL

\* sni = <<start, end>>, or <<>> when ExtractSNIOffset fails.  The name lies
\* behind the headers and may end with the message.
Message ==
    {m \in [len : 1..MaxLen, sni : {<<>>} \cup ((1..MaxLen) \X (1..MaxLen))] :
        m.sni # <<>> => m.sni[1] <= m.sni[2] /\ m.sni[2] <= m.len}

SegmentPlan == [from : {"head", "sni"}, at : Int, noise : 0..MaxNoise, lazy : BOOLEAN]

\* HTTPSOptions; an option that a mode does not read has one value.
Options ==
    {o \in [mode : Modes, disorder : BOOLEAN, size : Sizes, plans : Plans,
            fakes : 0..MaxFakes, skip : BOOLEAN] :
        /\ o.mode \notin {"chunk", "none"} => o.size = CHOOSE s \in Sizes : TRUE
        /\ o.mode # "custom" => o.plans = CHOOSE p \in Plans : TRUE}

ASSUME DesyncAssumption ==
    /\ MaxLen \in Nat
    /\ Sizes \subseteq 0..255
    /\ MaskBits \in Nat \ {0}
    /\ Plans \subseteq Seq(SegmentPlan)
    /\ Modes \subseteq {"sni", "random", "chunk", "first-byte", "custom", "none"}
    /\ FakePacket \in Message
    /\ MaxFakes \in Nat
    /\ MaxNoise \in Nat

Segment(from, to, lazy) == [from |-> from, to |-> to, lazy |-> lazy]

Whole(m) == <<Segment(0, m.len, FALSE)>>

Odd(i) == i % 2 = 1

-------------------------------------------------------------------------------
(* The ways to cut.  Where the code returns an error, split falls back to the
   whole message. *)

splitChunks(m, o) ==
    IF o.size = 0 THEN Whole(m)
    ELSE [i \in 1..((m.len + o.size - 1) \div o.size) |->
             Segment((i - 1) * o.size,
                     IF i * o.size < m.len THEN i * o.size ELSE m.len,
                     Odd(i) /\ o.disorder)]

splitFirstByte(m, o) ==
    IF m.len < 2 THEN Whole(m)
    ELSE <<Segment(0, 1, o.disorder), Segment(1, m.len, FALSE)>>

\* The server name byte by byte, and what is around it.
splitSNI(m, o) ==
    IF m.sni = <<>> \/ m.len <= m.sni[2] THEN Whole(m)
    ELSE LET size == m.sni[2] - m.sni[1]
         IN  <<Segment(0, m.sni[1], FALSE)>>
             \o [i \in 1..size |->
                    Segment(m.sni[1] + i - 1, m.sni[1] + i, Odd(i) /\ o.disorder)]
             \o <<Segment(m.sni[2], m.len, Odd(size + 1) /\ o.disorder)>>

\* splitMask: a byte under a set bit is a segment of its own, and so is every
\* run of bytes between two of them.
Cut(segs, from, to, o) ==
    IF from < to THEN Append(segs, Segment(from, to, Odd(Len(segs) + 1) /\ o.disorder))
                 ELSE segs

\* The round of the loop for the n-th byte: `acc' is where the next segment starts
\* and what there is before it.
MaskRound(acc, n, o, mask) ==
    IF (n - 1) % MaskBits \in mask
    THEN [start |-> n, segs |-> Cut(Cut(acc.segs, acc.start, n - 1, o), n - 1, n, o)]
    ELSE acc

MaskCuts(m, o, mask) ==
    LET cuts[n \in 0..m.len] == IF n = 0 THEN [start |-> 0, segs |-> <<>>]
                                ELSE MaskRound(cuts[n - 1], n, o, mask)
    IN  cuts

splitMask(m, o, mask) ==
    LET scan == MaskCuts(m, o, mask)[m.len] IN  Cut(scan.segs, scan.start, m.len, o)

\* applySegmentPlans with given random offsets: the split points are sorted,
\* and a point at the previous one is dropped.  Equal points may come in any
\* order (slices.SortFunc is not stable).
Clamp(at, m) == IF at < 0 THEN 0 ELSE IF at > m.len THEN m.len ELSE at

PointsOf(m, o, offset) ==
    [i \in 1..Len(o.plans) |->
        [at   |-> Clamp((IF o.plans[i].from = "sni" THEN m.sni[1] ELSE 0)
                        + o.plans[i].at + offset[i], m),
         lazy |-> o.plans[i].lazy]]

Sortings(points) ==
    {[i \in DOMAIN points |-> points[p[i]]] :
        p \in {q \in [DOMAIN points -> DOMAIN points] :
                 /\ \A i, j \in DOMAIN points : i # j => q[i] # q[j]
                 /\ \A i, j \in DOMAIN points :
                        i < j => points[q[i]].at <= points[q[j]].at}}

\* Slip: every segment starts where the message does.
SlipPointRound(acc, p) ==
    [prev |-> p.at, segs |-> Append(acc.segs, Segment(0, p.at, p.lazy))]

\* The round of the loop for a point: `acc' is prvAt and the segments before it.
PointRound(acc, p) ==
    IF p.at = acc.prev THEN acc
    ELSE [prev |-> p.at, segs |-> Append(acc.segs, Segment(acc.prev, p.at, p.lazy))]

CutsAt(sorted) ==
    LET cuts[n \in 0..Len(sorted)] == IF n = 0 THEN [prev |-> 0, segs |-> <<>>]
                                      ELSE PointRound(cuts[n - 1], sorted[n])
    IN  cuts

CutAt(m, sorted) ==
    LET cut == CutsAt(sorted)[Len(sorted)]
    IN  IF cut.prev < m.len THEN Append(cut.segs, Segment(cut.prev, m.len, FALSE))
                            ELSE cut.segs

Offsets(o) ==
    {f \in [1..Len(o.plans) -> -MaxNoise..MaxNoise] :
        \A i \in 1..Len(o.plans) : f[i] \in (-o.plans[i].noise)..o.plans[i].noise}

applySegmentPlans(m, o) ==
    IF m.sni = <<>> THEN {Whole(m)}
    ELSE {CutAt(m, s) : s \in UNION {Sortings(PointsOf(m, o, f)) : f \in Offsets(o)}}

\* The masks: the lowest bit is always set, the others are left open.
genPatternMask == {{0} \cup s : s \in SUBSET (1..(MaskBits - 1))}

\* split: what it may return, for the random choices of its modes.
split(m, o) ==
    CASE o.mode = "sni"        -> {splitSNI(m, o)}
      [] o.mode = "random"     -> {splitMask(m, o, mask) : mask \in genPatternMask}
      [] o.mode = "chunk"      -> {splitChunks(m, o)}
      [] o.mode = "first-byte" -> {splitFirstByte(m, o)}
      [] o.mode = "custom"     -> applySegmentPlans(m, o)
      [] o.mode = "none"       -> {Whole(m)}

-------------------------------------------------------------------------------
(* Desync. *)

VARIABLES msg, opts,
          step,        \* "fake", "split", "lower", "write", "restore", "ok", "error"
          fakeSegs,    \* segments of the fake message, <<>> before
          segs,        \* segments to send, <<>> before the split
          idx,         \* segment being sent
          ttl,         \* the socket's TTL
          ttlErrored,
          total        \* bytes written

desyncVars == <<msg, opts, step, fakeSegs, segs, idx, ttl, ttlErrored, total>>

DesyncInit ==
    /\ msg \in Message
    /\ opts \in Options
    /\ step = IF opts.skip THEN "split" ELSE "fake"
    /\ fakeSegs = <<>>
    /\ segs = <<>>
    /\ idx = 1
    /\ ttl = DefaultTTL
    /\ ttlErrored = FALSE
    /\ total = 0

\* sendFakePackets: the fake message is cut the same way as the real one.  A
\* failure is logged.  (The fakes are crafted: the socket is not touched.)
SendFakes ==
    /\ step = "fake"
    /\ fakeSegs' \in IF opts.fakes > 0 THEN split(FakePacket, opts) ELSE {<<>>}
    /\ step' = "split"
    /\ UNCHANGED <<msg, opts, segs, idx, ttl, ttlErrored, total>>

Split ==
    /\ step = "split"
    /\ segs' \in IF opts.skip THEN {Whole(msg)} ELSE split(msg, opts)
    /\ step' = "lower"
    /\ UNCHANGED <<msg, opts, fakeSegs, idx, ttl, ttlErrored, total>>

Held == ~ttlErrored /\ segs[idx].lazy

\* setTTLWrap(ttl), called for a lazy segment as long as it has not failed.
SetTTL(value) ==
    \/ ~Held /\ UNCHANGED <<ttl, ttlErrored>>
    \/ Held /\ ttl' = value /\ UNCHANGED ttlErrored
    \/ Held /\ ttlErrored' = TRUE /\ UNCHANGED ttl

Lower ==
    /\ step = "lower"
    /\ idx <= Len(segs)
    /\ SetTTL(1)
    /\ step' = "write"
    /\ UNCHANGED <<msg, opts, fakeSegs, segs, idx, total>>

WriteSegment ==
    /\ step = "write"
    /\ \/ total' = total + segs[idx].to - segs[idx].from /\ step' = "restore"
       \/ total' \in total..(total + segs[idx].to - segs[idx].from) /\ step' = "error"
    /\ UNCHANGED <<msg, opts, fakeSegs, segs, idx, ttl, ttlErrored>>

\* Slip: the TTL is restored before the next segment that is not held back.
SlipRestore ==
    /\ step = "restore"
    /\ IF idx < Len(segs) THEN SetTTL(DefaultTTL) ELSE UNCHANGED <<ttl, ttlErrored>>
    /\ idx' = idx + 1
    /\ step' = "lower"
    /\ UNCHANGED <<msg, opts, fakeSegs, segs, total>>

Restore ==
    /\ step = "restore"
    /\ SetTTL(DefaultTTL)
    /\ idx' = idx + 1
    /\ step' = "lower"
    /\ UNCHANGED <<msg, opts, fakeSegs, segs, total>>

AllSent ==
    /\ step = "lower"
    /\ idx > Len(segs)
    /\ step' = "ok"
    /\ UNCHANGED <<msg, opts, fakeSegs, segs, idx, ttl, ttlErrored, total>>

DesyncNext == SendFakes \/ Split \/ Lower \/ WriteSegment \/ Restore \/ AllSent

DesyncSpec == DesyncInit /\ [][DesyncNext]_desyncVars

-------------------------------------------------------------------------------
(* Properties. *)

Tiles(ss, n) ==
    /\ ss # <<>>
    /\ ss[1].from = 0
    /\ ss[Len(ss)].to = n
    /\ \A i \in 1..Len(ss) : ss[i].from < ss[i].to
    /\ \A i \in 1..(Len(ss) - 1) : ss[i].to = ss[i + 1].from

\* However the message is cut, the segments are the message: no byte is lost,
\* sent twice or out of place, and none is empty.
SegmentsAreMessage == segs # <<>> => Tiles(segs, msg.len)

\* A ClientHello reported as sent has been sent to the last byte, and the
\* socket has its TTL back unless a setsockopt failed: otherwise whatever
\* follows in the tunnel would die at the first hop.
SentWholeAndRestored ==
    step = "ok" => total = msg.len /\ (ttl = DefaultTTL \/ ttlErrored)

==============================================================================
