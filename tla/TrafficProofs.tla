----------------------------- MODULE TrafficProofs -----------------------------
(***************************************************************************)
(* What happens to the bytes of a connection: the TLS hello that is cut up *)
(* (TLSDesync), the tunnel that copies what follows (Tunnel), and the      *)
(* pumps under both when the traffic comes through a TUN device (TunPump). *)
(***************************************************************************)
EXTENDS TLSDesync, TunPump, Tunnel, WellFoundedInduction, TLAPS

-------------------------------------------------------------------------------
(***************************************************************************)
(* TLSDesync.  Each splitter is a loop that has cut a prefix of the        *)
(* message after every round (Covers), so that what split returns tiles    *)
(* the message whatever the options and the mask.                          *)
(***************************************************************************)

\* Segments of any message.
AnySegment == [from : Nat, to : Nat, lazy : BOOLEAN]

\* The segments are the first k bytes of a message.
Covers(ss, k) ==
    /\ ss \in Seq(AnySegment)
    /\ IF ss = <<>> THEN k = 0 ELSE Tiles(ss, k)

-------------------------------------------------------------------------------
(* Induction. *)

\* A set of naturals that is not empty has a least element.
LEMMA LeastNat ==
    ASSUME NEW T \in SUBSET Nat, T # {}
    PROVE  \E x \in T : \A y \in T : x <= y
  <1> DEFINE R == OpToRel(<, Nat)
  <1>1. \A x, y \in Nat : <<y, x>> \in R <=> y < x
    BY DEF OpToRel
  <1>2. IsWellFoundedOn(R, Nat)
    BY NatLessThanWellFounded
  <1> HIDE DEF R
  <1>3. PICK x \in T : \A y \in T : ~(<<y, x>> \in R)
    BY <1>2, WFMin
  <1>4. \A y \in T : ~(y < x)
    BY <1>1, <1>3
  <1> QED BY <1>4

\* Induction over the naturals, on a set.
LEMMA SetInduction ==
    ASSUME NEW P \in SUBSET Nat, 0 \in P, \A n \in P : n + 1 \in P
    PROVE  P = Nat
<1> SUFFICES ASSUME Nat \ P # {} PROVE FALSE
  OBVIOUS
<1>1. PICK x \in Nat \ P : \A y \in Nat \ P : x <= y
  BY LeastNat
<1>2. x # 0 /\ x - 1 \in Nat
  BY <1>1
<1>3. x - 1 \in P
  BY <1>1, <1>2
<1> QED BY <1>3

-------------------------------------------------------------------------------
(* The ways to cut. *)

\* The parts of a segment.
LEMMA SegmentShape ==
    ASSUME NEW a \in Nat, NEW b \in Nat, NEW lazy \in BOOLEAN
    PROVE  /\ Segment(a, b, lazy) \in AnySegment
           /\ Segment(a, b, lazy).from = a /\ Segment(a, b, lazy).to = b
<1>1. Segment(a, b, lazy) \in AnySegment
  BY Zenon DEF Segment, AnySegment
<1> QED BY <1>1 DEF Segment

\* A segment behind a cover extends it.
LEMMA AppendCovers ==
    ASSUME NEW ss, NEW a \in Nat, NEW b \in Nat, NEW lazy \in BOOLEAN, Covers(ss, a), a < b
    PROVE  Covers(Append(ss, Segment(a, b, lazy)), b)
<1>1. PICK s : s = Segment(a, b, lazy)
  OBVIOUS
<1>2. s \in AnySegment
  BY <1>1, SegmentShape, Zenon
<1>3. s.from = a /\ s.to = b
  BY <1>1, SegmentShape, Zenon
<1>4. PICK n : n = Len(ss)
  OBVIOUS
<1>5. PICK t : t = Append(ss, s)
  OBVIOUS
<1>6. /\ ss \in Seq(AnySegment) /\ n \in Nat
      /\ t \in Seq(AnySegment) /\ Len(t) = n + 1 /\ t # <<>> /\ t[n + 1] = s
      /\ \A i \in 1..n : t[i] = ss[i]
  BY <1>2, <1>4, <1>5 DEF Covers
<1> SUFFICES Covers(t, b)
  BY <1>1, <1>5
<1>7. CASE ss = <<>>
  <2>1. n = 0 /\ a = 0
    BY <1>4, <1>7 DEF Covers
  <2>2. Tiles(t, b)
    BY <1>3, <1>6, <2>1 DEF Tiles
  <2> QED BY <1>6, <2>2 DEF Covers
<1>8. CASE ss # <<>>
  <2>1. Tiles(ss, a) /\ n >= 1
    BY <1>4, <1>6, <1>8 DEF Covers
  <2>2. ASSUME NEW i \in 1..(n + 1) PROVE t[i].from < t[i].to
    BY <1>3, <1>4, <1>6, <2>1 DEF Tiles
  <2>3. ASSUME NEW i \in 1..n PROVE t[i].to = t[i + 1].from
    <3>1. CASE i = n
      BY <1>3, <1>4, <1>6, <2>1, <3>1 DEF Tiles
    <3>2. CASE i # n
      <4>1. i \in 1..(n - 1) /\ i + 1 \in 1..n
        BY <1>6, <3>2
      <4> QED BY <1>4, <1>6, <2>1, <4>1 DEF Tiles
    <3> QED BY <3>1, <3>2
  <2>4. t[1].from = 0
    BY <1>4, <1>6, <2>1 DEF Tiles
  <2>5. Len(t) - 1 = n
    BY <1>6
  <2>6. Tiles(t, b)
    BY <1>3, <1>6, <2>2, <2>3, <2>4, <2>5 DEF Tiles
  <2> QED BY <1>6, <2>6 DEF Covers
<1> QED BY <1>7, <1>8

\* A message that is not empty covers itself.
LEMMA WholeTiles ==
    ASSUME NEW m \in Message
    PROVE  Whole(m) # <<>> /\ Covers(Whole(m), m.len)
<1>1. m.len \in Nat /\ 0 < m.len
  BY DEF Message
<1>2. Whole(m) = Append(<<>>, Segment(0, m.len, FALSE))
  BY DEF Whole
<1>3. Covers(<<>>, 0)
  BY DEF Covers
<1> QED BY <1>1, <1>2, <1>3, AppendCovers DEF Whole

\* What is known of a message.
LEMMA MessageShape ==
    ASSUME NEW m \in Message
    PROVE  /\ m.len \in Nat /\ 0 < m.len
           /\ m.sni # <<>> => /\ m.sni[1] \in Nat /\ m.sni[2] \in Nat
                              /\ 0 < m.sni[1] /\ m.sni[1] <= m.sni[2] /\ m.sni[2] <= m.len
BY DEF Message

\* What is known of the options.
LEMMA OptionShape ==
    ASSUME NEW o \in Options
    PROVE  /\ o.disorder \in BOOLEAN /\ o.skip \in BOOLEAN
           /\ o.mode \in {"sni", "random", "chunk", "first-byte", "custom", "none"}
           /\ o.size \in Nat
           /\ o.plans \in Seq(SegmentPlan)
<1>1. /\ o.disorder \in BOOLEAN /\ o.skip \in BOOLEAN /\ o.mode \in Modes
      /\ o.size \in Sizes /\ o.plans \in Plans
  BY Zenon DEF Options
<1>2. Sizes \subseteq Nat
  BY DesyncAssumption
<1> QED BY <1>1, <1>2, DesyncAssumption, Zenon

\* splitFirstByte
LEMMA FirstByteTiles ==
    ASSUME NEW m \in Message, NEW o \in Options
    PROVE  Covers(splitFirstByte(m, o), m.len)
<1>1. CASE m.len < 2
  BY <1>1, WholeTiles DEF splitFirstByte
<1>2. CASE ~(m.len < 2)
  <2>1. m.len \in Nat /\ 1 < m.len
    BY <1>2, MessageShape
  <2>2. PICK d \in BOOLEAN : d = o.disorder
    BY OptionShape, Zenon
  <2>3. Covers(<<>>, 0)
    BY DEF Covers
  <2>4. Covers(Append(<<>>, Segment(0, 1, d)), 1)
    <3>1. 0 \in Nat /\ 1 \in Nat /\ 0 < 1
      OBVIOUS
    <3> QED BY <2>3, <3>1, AppendCovers, Zenon
  <2>5. Covers(Append(Append(<<>>, Segment(0, 1, d)), Segment(1, m.len, FALSE)), m.len)
    BY <2>1, <2>4, AppendCovers
  <2>6. splitFirstByte(m, o) = <<Segment(0, 1, d), Segment(1, m.len, FALSE)>>
    BY <1>2, <2>2, Zenon DEF splitFirstByte
  <2>7. ASSUME NEW x, NEW y PROVE <<x, y>> = Append(Append(<<>>, x), y)
    OBVIOUS
  <2> QED BY <2>5, <2>6, <2>7, Zenon
<1> QED BY <1>1, <1>2

\* The number of chunks: all but the last are full.
LEMMA ChunkCount ==
    ASSUME NEW len \in Nat \ {0}, NEW size \in Nat \ {0}
    PROVE  \E n \in Nat \ {0} : /\ n = (len + size - 1) \div size
                                /\ (n - 1) * size < len
                                /\ len <= n * size
<1>1. PICK n \in Nat : n = (len + size - 1) \div size
  OBVIOUS
<1>2. n * size <= len + size - 1 /\ len + size - 1 < n * size + size
  BY <1>1
<1>3. (n - 1) * size = n * size - size
  OBVIOUS
<1>4. n # 0
  BY <1>2
<1> QED BY <1>1, <1>2, <1>3, <1>4

\* splitChunks
LEMMA ChunksTile ==
    ASSUME NEW m \in Message, NEW o \in Options
    PROVE  Covers(splitChunks(m, o), m.len)
<1>1. CASE o.size = 0
  BY <1>1, WholeTiles DEF splitChunks
<1>2. CASE o.size # 0
  <2>1. PICK len \in Nat \ {0} : len = m.len
    BY MessageShape
  <2>2. PICK size \in Nat \ {0} : size = o.size
    BY <1>2, OptionShape
  <2>3. PICK n \in Nat \ {0} : /\ n = (len + size - 1) \div size
                               /\ (n - 1) * size < len
                               /\ len <= n * size
    BY ChunkCount
  <2> DEFINE end(i) == IF i * size < len THEN i * size ELSE len
             s == splitChunks(m, o)
  <2>4. s = [i \in 1..n |-> Segment((i - 1) * size, end(i), Odd(i) /\ o.disorder)]
    BY <1>2, <2>1, <2>2, <2>3 DEF splitChunks
  <2>5. ASSUME NEW i \in 1..n
        PROVE  /\ (i - 1) * size \in Nat /\ end(i) \in Nat
               /\ (i - 1) * size < end(i)
               /\ i < n => end(i) = i * size
    <3>1. (i - 1) * size <= (n - 1) * size /\ (i - 1) * size \in Nat /\ i * size \in Nat
      OBVIOUS
    <3>2. (i - 1) * size = i * size - size
      OBVIOUS
    <3>3. i < n => i * size <= (n - 1) * size
      OBVIOUS
    <3> QED BY <2>3, <3>1, <3>2, <3>3
  <2>6. ASSUME NEW i \in 1..n
        PROVE  s[i] \in AnySegment /\ s[i].from = (i - 1) * size /\ s[i].to = end(i)
    <3>1. PICK d \in BOOLEAN : d = (Odd(i) /\ o.disorder)
      OBVIOUS
    <3>2. s[i] = Segment((i - 1) * size, end(i), d)
      BY <2>4, <3>1
    <3>3. PICK a \in Nat : a = (i - 1) * size
      BY <2>5
    <3>4. PICK b \in Nat : b = end(i)
      BY <2>5
    <3> HIDE DEF end, s
    <3>5. s[i] = Segment(a, b, d)
      BY <3>2, <3>3, <3>4
    <3>6. Segment(a, b, d) \in AnySegment /\ Segment(a, b, d).from = a /\ Segment(a, b, d).to = b
      BY SegmentShape
    <3> QED BY <3>3, <3>4, <3>5, <3>6
  <2>7. s \in Seq(AnySegment) /\ Len(s) = n
    BY <2>4, <2>6
  <2> HIDE DEF s
  <2>8. end(n) = len
    BY <2>3
  <2> HIDE DEF end
  <2>9. \A i \in 1..(n - 1) : i + 1 \in 1..n /\ i \in 1..n /\ i + 1 - 1 = i
    OBVIOUS
  <2>10. Tiles(s, len) /\ s # <<>>
    BY <2>5, <2>6, <2>7, <2>8, <2>9 DEF Tiles
  <2> QED BY <2>1, <2>7, <2>10 DEF Covers, s
<1> QED BY <1>1, <1>2

\* splitSNI
LEMMA SNITiles ==
    ASSUME NEW m \in Message, NEW o \in Options
    PROVE  Covers(splitSNI(m, o), m.len)
<1>1. CASE m.sni = <<>> \/ m.len <= m.sni[2]
  BY <1>1, WholeTiles DEF splitSNI
<1>2. CASE ~(m.sni = <<>> \/ m.len <= m.sni[2])
  <2>1. PICK len \in Nat, start \in Nat, size \in Nat :
              /\ len = m.len /\ start = m.sni[1] /\ size = m.sni[2] - m.sni[1]
              /\ start + size = m.sni[2]
              /\ 0 < start /\ start + size < len
    <3>1. /\ m.len \in Nat /\ m.sni[1] \in Nat /\ m.sni[2] \in Nat /\ 0 < m.sni[1]
          /\ m.sni[1] <= m.sni[2] /\ m.sni[2] < m.len
      BY <1>2, MessageShape
    <3>2. m.sni[2] - m.sni[1] \in Nat /\ m.sni[1] + (m.sni[2] - m.sni[1]) = m.sni[2]
      BY <3>1
    <3> QED BY <3>1, <3>2
  <2>2. PICK d \in BOOLEAN : d = (Odd(size + 1) /\ o.disorder)
    OBVIOUS
  <2> DEFINE body == [i \in 1..size |->
                        Segment(start + i - 1, start + i, Odd(i) /\ o.disorder)]
  <2>3. splitSNI(m, o) = <<Segment(0, start, FALSE)>> \o body
                           \o <<Segment(start + size, len, d)>>
    BY <1>2, <2>1, <2>2 DEF splitSNI
  <2>4. ASSUME NEW i \in 1..size
        PROVE  body[i] \in AnySegment /\ body[i].from = start + i - 1 /\ body[i].to = start + i
    <3>1. PICK e \in BOOLEAN : e = (Odd(i) /\ o.disorder)
      OBVIOUS
    <3>2. body[i] = Segment(start + i - 1, start + i, e)
      BY <3>1
    <3>3. start + i - 1 \in Nat /\ start + i \in Nat
      OBVIOUS
    <3> HIDE DEF body
    <3>4. PICK x \in Nat, y \in Nat : x = start + i - 1 /\ y = start + i
      BY <3>3
    <3>5. body[i] = Segment(x, y, e)
      BY <3>2, <3>4
    <3>6. Segment(x, y, e) \in AnySegment /\ Segment(x, y, e).from = x /\ Segment(x, y, e).to = y
      BY SegmentShape
    <3> QED BY <3>4, <3>5, <3>6
  <2>5. body \in Seq(AnySegment) /\ Len(body) = size
    BY <2>4
  <2> HIDE DEF body
  <2>6. PICK a \in AnySegment : a = Segment(0, start, FALSE) /\ a.from = 0 /\ a.to = start
    BY SegmentShape
  <2>7. PICK z \in AnySegment : /\ z = Segment(start + size, len, d)
                                /\ z.from = start + size /\ z.to = len
    BY SegmentShape
  <2>8. PICK s : s = <<a>> \o body \o <<z>>
    OBVIOUS
  <2>9. /\ s \in Seq(AnySegment) /\ Len(s) = size + 2 /\ s # <<>>
        /\ s[1] = a /\ s[size + 2] = z
        /\ \A i \in 1..size : s[i + 1] = body[i]
    <3>1. PICK h : h = <<a>> \o body
      OBVIOUS
    <3>2. /\ h \in Seq(AnySegment) /\ Len(h) = size + 1 /\ h[1] = a
          /\ \A i \in 1..size : h[i + 1] = body[i]
      BY <2>5, <3>1
    <3> QED BY <2>8, <3>1, <3>2
  <2>10. ASSUME NEW i \in 1..(size + 2)
         PROVE  /\ s[i].from = IF i = 1 THEN 0 ELSE start + i - 2
                /\ s[i].to = IF i = size + 2 THEN len ELSE start + i - 1
    <3>1. CASE i = 1
      <4>1. i # size + 2 /\ start + i - 1 = start /\ s[i] = a
        BY <2>9, <3>1
      <4> QED BY <2>6, <3>1, <4>1
    <3>2. CASE i = size + 2
      <4>1. i # 1 /\ start + i - 2 = start + size /\ s[i] = z
        BY <2>9, <3>2
      <4> QED BY <2>7, <3>2, <4>1
    <3>3. CASE i # 1 /\ i # size + 2
      <4>1. i - 1 \in 1..size /\ i - 1 + 1 = i
        BY <3>3
      <4>2. s[i] = body[i - 1]
        BY <2>9, <4>1
      <4>3. s[i].from = start + (i - 1) - 1 /\ s[i].to = start + (i - 1)
        BY <2>4, <4>1, <4>2
      <4> QED BY <3>3, <4>3
    <3> QED BY <3>1, <3>2, <3>3
  <2>11. \A i \in 1..(size + 2) : s[i].from < s[i].to
    BY <2>1, <2>10
  <2>12. \A i \in 1..(size + 1) : s[i].to = s[i + 1].from
    BY <2>1, <2>10
  <2>13. s[1].from = 0 /\ s[size + 2].to = len
    BY <2>10
  <2>14. Len(s) - 1 = size + 1
    BY <2>9
  <2>15. Tiles(s, len)
    BY <2>9, <2>11, <2>12, <2>13, <2>14 DEF Tiles
  <2>16. Covers(s, len)
    BY <2>9, <2>15 DEF Covers
  <2> QED BY <2>1, <2>3, <2>6, <2>7, <2>8, <2>16
<1> QED BY <1>1, <1>2

\* Cut appends a segment unless it would be empty.
LEMMA CutCovers ==
    ASSUME NEW ss, NEW a \in Nat, NEW b \in Nat, NEW o, Covers(ss, a), a <= b
    PROVE  Covers(Cut(ss, a, b, o), b)
<1>1. CASE a < b
  <2>1. PICK d \in BOOLEAN : d = (Odd(Len(ss) + 1) /\ o.disorder)
    OBVIOUS
  <2>2. Cut(ss, a, b, o) = Append(ss, Segment(a, b, d))
    BY <1>1, <2>1 DEF Cut
  <2>3. Covers(Append(ss, Segment(a, b, d)), b)
    BY <1>1, AppendCovers
  <2> QED BY <2>2, <2>3
<1>2. CASE ~(a < b)
  BY <1>2 DEF Cut
<1> QED BY <1>1, <1>2

\* The recursion of MaskCuts has a solution, and its values are one.
LEMMA MaskCutsStep ==
    ASSUME NEW m \in Message, NEW o, NEW mask
    PROVE  \A n \in 0..m.len :
               MaskCuts(m, o, mask)[n] =
                   IF n = 0 THEN [start |-> 0, segs |-> <<>>]
                   ELSE MaskRound(MaskCuts(m, o, mask)[n - 1], n, o, mask)
<1>1. \E f : f = [n \in 0..m.len |-> IF n = 0 THEN [start |-> 0, segs |-> <<>>]
                                     ELSE MaskRound(f[n - 1], n, o, mask)]
  <2> DEFINE zero == [start |-> 0, segs |-> <<>>]
             Solves(f, k) == f = [n \in 0..k |-> IF n = 0 THEN zero
                                                 ELSE MaskRound(f[n - 1], n, o, mask)]
             P == {k \in Nat : \E f : Solves(f, k)}
  <2> HIDE DEF zero
  <2>1. 0 \in P
    <3> DEFINE f == [n \in 0..0 |-> zero]
    <3>1. Solves(f, 0)
      OBVIOUS
    <3> QED BY <3>1
  <2>2. \A k \in P : k + 1 \in P
    <3> TAKE k \in P
    <3>1. PICK f : Solves(f, k)
      OBVIOUS
    <3> DEFINE g == [n \in 0..(k + 1) |-> IF n = k + 1 THEN MaskRound(f[k], n, o, mask) ELSE f[n]]
    <3>2. \A n \in 0..k : f[n] = IF n = 0 THEN zero ELSE MaskRound(f[n - 1], n, o, mask)
      BY <3>1
    <3>3. \A n \in 0..(k + 1) : g[n] = IF n = 0 THEN zero ELSE MaskRound(g[n - 1], n, o, mask)
      BY <3>2
    <3>4. g = [n \in 0..(k + 1) |-> g[n]]
      OBVIOUS
    <3> HIDE DEF g
    <3>5. g = [n \in 0..(k + 1) |-> IF n = 0 THEN zero ELSE MaskRound(g[n - 1], n, o, mask)]
      BY <3>3, <3>4
    <3> QED BY <3>5
  <2>3. P = Nat
    <3> HIDE DEF P
    <3>1. P \in SUBSET Nat
      BY DEF P
    <3> QED BY <2>1, <2>2, <3>1, SetInduction
  <2>4. PICK f : Solves(f, m.len)
    BY <2>3, MessageShape
  <2> QED BY <2>4 DEF zero
<1>2. MaskCuts(m, o, mask) =
        [n \in 0..m.len |-> IF n = 0 THEN [start |-> 0, segs |-> <<>>]
                            ELSE MaskRound(MaskCuts(m, o, mask)[n - 1], n, o, mask)]
  BY <1>1, Zenon DEF MaskCuts
<1> QED BY <1>2

\* splitMask, for every mask.
LEMMA MaskTiles ==
    ASSUME NEW m \in Message, NEW o \in Options, NEW mask
    PROVE  Covers(splitMask(m, o, mask), m.len)
<1>1. PICK f : f = MaskCuts(m, o, mask)
  OBVIOUS
<1>2. PICK len \in Nat : len = m.len
  BY MessageShape
<1>3. \A n \in 0..len : f[n] = IF n = 0 THEN [start |-> 0, segs |-> <<>>]
                               ELSE MaskRound(f[n - 1], n, o, mask)
  BY <1>1, <1>2, MaskCutsStep
<1> DEFINE Good(n) == f[n].start \in 0..n /\ Covers(f[n].segs, f[n].start)
           P == {n \in Nat : n <= len => Good(n)}
<1>4. Good(0)
  <2>1. f[0].start = 0 /\ f[0].segs = <<>>
    BY <1>3
  <2> QED BY <2>1 DEF Covers
<1>5. ASSUME NEW n \in Nat, n + 1 <= len, Good(n) PROVE Good(n + 1)
  <2>1. f[n + 1] = MaskRound(f[n], n + 1, o, mask) /\ n + 1 - 1 = n
    BY <1>3, <1>5
  <2>2. CASE n % MaskBits \in mask
    <3>1. /\ f[n + 1].start = n + 1
          /\ f[n + 1].segs = Cut(Cut(f[n].segs, f[n].start, n, o), n, n + 1, o)
      BY <2>1, <2>2 DEF MaskRound
    <3>2. Covers(Cut(f[n].segs, f[n].start, n, o), n)
      BY <1>5, CutCovers
    <3>3. Covers(Cut(Cut(f[n].segs, f[n].start, n, o), n, n + 1, o), n + 1)
      BY <3>2, CutCovers
    <3> QED BY <3>1, <3>3
  <2>3. CASE ~(n % MaskBits \in mask)
    <3>1. f[n + 1] = f[n]
      BY <2>1, <2>3 DEF MaskRound
    <3> QED BY <1>5, <3>1
  <2> QED BY <2>2, <2>3
<1> HIDE DEF Good
<1>6. 0 \in P /\ \A n \in P : n + 1 \in P
  BY <1>4, <1>5
<1>7. P = Nat
  <2> HIDE DEF P
  <2>1. P \in SUBSET Nat
    BY DEF P
  <2> QED BY <1>6, <2>1, SetInduction
<1>8. len \in P
  BY <1>7
<1>9. f[len].start \in 0..len /\ Covers(f[len].segs, f[len].start)
  BY <1>8 DEF Good
<1>10. Covers(Cut(f[len].segs, f[len].start, len, o), len)
  BY <1>9, CutCovers
<1> QED BY <1>1, <1>2, <1>10 DEF splitMask

\* A split point of a message.
Point(m) == [at : 0..m.len, lazy : BOOLEAN]

\* Points in the order of the message.
Ascending(s) == \A i, j \in 1..Len(s) : i < j => s[i].at <= s[j].at

\* The recursion of CutsAt has a solution, and its values are one.
LEMMA CutsAtStep ==
    ASSUME NEW S, NEW s \in Seq(S)
    PROVE  \A n \in 0..Len(s) :
               CutsAt(s)[n] = IF n = 0 THEN [prev |-> 0, segs |-> <<>>]
                              ELSE PointRound(CutsAt(s)[n - 1], s[n])
<1>1. \E f : f = [n \in 0..Len(s) |-> IF n = 0 THEN [prev |-> 0, segs |-> <<>>]
                                      ELSE PointRound(f[n - 1], s[n])]
  <2> DEFINE zero == [prev |-> 0, segs |-> <<>>]
             Solves(f, k) == f = [n \in 0..k |-> IF n = 0 THEN zero
                                                 ELSE PointRound(f[n - 1], s[n])]
             P == {k \in Nat : \E f : Solves(f, k)}
  <2> HIDE DEF zero
  <2>1. 0 \in P
    <3> DEFINE f == [n \in 0..0 |-> zero]
    <3>1. Solves(f, 0)
      OBVIOUS
    <3> QED BY <3>1
  <2>2. \A k \in P : k + 1 \in P
    <3> TAKE k \in P
    <3>1. PICK f : Solves(f, k)
      OBVIOUS
    <3> DEFINE g == [n \in 0..(k + 1) |-> IF n = k + 1 THEN PointRound(f[k], s[n]) ELSE f[n]]
    <3>2. \A n \in 0..k : f[n] = IF n = 0 THEN zero ELSE PointRound(f[n - 1], s[n])
      BY <3>1
    <3>3. \A n \in 0..(k + 1) : g[n] = IF n = 0 THEN zero ELSE PointRound(g[n - 1], s[n])
      BY <3>2
    <3>4. g = [n \in 0..(k + 1) |-> g[n]]
      OBVIOUS
    <3> HIDE DEF g
    <3>5. g = [n \in 0..(k + 1) |-> IF n = 0 THEN zero ELSE PointRound(g[n - 1], s[n])]
      BY <3>3, <3>4
    <3> QED BY <3>5
  <2>3. P = Nat
    <3> HIDE DEF P
    <3>1. P \in SUBSET Nat
      BY DEF P
    <3> QED BY <2>1, <2>2, <3>1, SetInduction
  <2>4. PICK f : Solves(f, Len(s))
    BY <2>3
  <2> QED BY <2>4 DEF zero
<1>2. CutsAt(s) = [n \in 0..Len(s) |-> IF n = 0 THEN [prev |-> 0, segs |-> <<>>]
                                       ELSE PointRound(CutsAt(s)[n - 1], s[n])]
  BY <1>1, Zenon DEF CutsAt
<1> QED BY <1>2

\* CutAt, for points in ascending order.
LEMMA PointsTile ==
    ASSUME NEW m \in Message, NEW s \in Seq(Point(m)), Ascending(s)
    PROVE  Covers(CutAt(m, s), m.len)
<1>1. PICK f : f = CutsAt(s)
  OBVIOUS
<1>2. PICK len \in Nat : len = m.len
  BY MessageShape
<1>3. PICK count \in Nat : count = Len(s)
  OBVIOUS
<1>4. \A n \in 0..count : f[n] = IF n = 0 THEN [prev |-> 0, segs |-> <<>>]
                                 ELSE PointRound(f[n - 1], s[n])
  BY <1>1, <1>3, CutsAtStep
<1>5. \A n \in 1..count : s[n].at \in 0..len
  <2> TAKE n \in 1..count
  <2>1. s[n] \in Point(m)
    BY <1>3
  <2> QED BY <1>2, <2>1, Zenon DEF Point
<1>6. \A n \in 1..count : s[n].lazy \in BOOLEAN
  <2> TAKE n \in 1..count
  <2>1. s[n] \in Point(m)
    BY <1>3
  <2> QED BY <2>1, Zenon DEF Point
<1>7. \A n \in 1..count : n + 1 <= count => s[n].at <= s[n + 1].at
  BY <1>3 DEF Ascending
<1> DEFINE Good(n) == /\ f[n].prev \in 0..len
                      /\ Covers(f[n].segs, f[n].prev)
                      /\ n > 0 => f[n].prev = s[n].at
           P == {n \in Nat : n <= count => Good(n)}
<1>8. Good(0)
  <2>1. f[0].prev = 0 /\ f[0].segs = <<>>
    BY <1>4
  <2> QED BY <2>1 DEF Covers
<1>9. ASSUME NEW n \in Nat, n + 1 <= count, Good(n) PROVE Good(n + 1)
  <2>1. f[n + 1] = PointRound(f[n], s[n + 1]) /\ n + 1 \in 1..count
    BY <1>4, <1>9
  <2>2. PICK a \in 0..len, d \in BOOLEAN : a = s[n + 1].at /\ d = s[n + 1].lazy
    BY <1>5, <1>6, <2>1
  <2>3. f[n].prev <= a
    <3>1. CASE n = 0
      <4>1. f[n].prev = 0
        BY <1>4, <3>1
      <4> QED BY <4>1
    <3>2. CASE n # 0
      <4>1. n \in 1..count
        BY <1>9, <3>2
      <4> QED BY <1>7, <1>9, <2>2, <3>2, <4>1
    <3> QED BY <3>1, <3>2
  <2>4. CASE a = f[n].prev
    <3>1. f[n + 1] = f[n]
      BY <2>1, <2>2, <2>4 DEF PointRound
    <3> QED BY <1>9, <2>2, <2>4, <3>1
  <2>5. CASE a # f[n].prev
    <3>1. /\ f[n + 1].prev = a
          /\ f[n + 1].segs = Append(f[n].segs, Segment(f[n].prev, a, d))
      BY <2>1, <2>2, <2>5 DEF PointRound
    <3>2. Covers(Append(f[n].segs, Segment(f[n].prev, a, d)), a)
      <4>1. f[n].prev \in Nat /\ a \in Nat /\ f[n].prev < a
        BY <1>9, <2>3, <2>5
      <4> QED BY <1>9, <4>1, AppendCovers
    <3> QED BY <2>2, <3>1, <3>2
  <2> QED BY <2>4, <2>5
<1> HIDE DEF Good
<1>10. 0 \in P /\ \A n \in P : n + 1 \in P
  BY <1>8, <1>9
<1>11. P = Nat
  <2> HIDE DEF P
  <2>1. P \in SUBSET Nat
    BY DEF P
  <2> QED BY <1>10, <2>1, SetInduction
<1>12. count \in P
  BY <1>11
<1>13. PICK cut : cut = f[count]
  OBVIOUS
<1>14. cut.prev \in 0..len /\ Covers(cut.segs, cut.prev)
  BY <1>12, <1>13 DEF Good
<1>15. CutAt(m, s) = IF cut.prev < len THEN Append(cut.segs, Segment(cut.prev, len, FALSE))
                     ELSE cut.segs
  BY <1>1, <1>2, <1>3, <1>13 DEF CutAt
<1>16. CASE cut.prev < len
  <2>1. Covers(Append(cut.segs, Segment(cut.prev, len, FALSE)), len)
    <3>1. cut.prev \in Nat /\ Covers(cut.segs, cut.prev)
      BY <1>14
    <3> QED BY <1>16, <3>1, AppendCovers
  <2> QED BY <1>2, <1>15, <1>16, <2>1
<1>17. CASE ~(cut.prev < len)
  <2>1. cut.prev = len
    BY <1>14, <1>17
  <2> QED BY <1>2, <1>14, <1>15, <1>17, <2>1
<1> QED BY <1>16, <1>17

\* applySegmentPlans, for all offsets and all ways to sort equal points.
LEMMA PlansTile ==
    ASSUME NEW m \in Message, NEW o \in Options, NEW ss \in applySegmentPlans(m, o)
    PROVE  Covers(ss, m.len)
<1>1. CASE m.sni = <<>>
  <2>1. ss = Whole(m)
    BY <1>1 DEF applySegmentPlans
  <2> QED BY <2>1, WholeTiles
<1>2. CASE m.sni # <<>>
  <2>0. PICK f \in Offsets(o) : \E s \in Sortings(PointsOf(m, o, f)) : ss = CutAt(m, s)
    BY <1>2 DEF applySegmentPlans
  <2>1. PICK s \in Sortings(PointsOf(m, o, f)) : ss = CutAt(m, s)
    BY <2>0
  <2>2. PICK n \in Nat : n = Len(o.plans)
    BY OptionShape
  <2>3. PICK pts : pts = PointsOf(m, o, f)
    OBVIOUS
  <2>4. DOMAIN pts = 1..n
    BY <2>2, <2>3 DEF PointsOf
  <2>5. ASSUME NEW i \in 1..n PROVE pts[i] \in Point(m)
    <3>1. PICK plan : plan = o.plans[i]
      OBVIOUS
    <3>2. plan \in SegmentPlan
      BY <2>2, <3>1, OptionShape
    <3>3. plan.at \in Int /\ plan.lazy \in BOOLEAN
      BY <3>2, Zenon DEF SegmentPlan
    <3>4. f[i] \in Int
      BY <2>2, DesyncAssumption DEF Offsets
    <3>5. m.sni[1] \in Nat /\ m.len \in Nat
      BY <1>2, MessageShape
    <3>6. PICK at \in Int : at = (IF plan.from = "sni" THEN m.sni[1] ELSE 0) + plan.at + f[i]
      BY <3>3, <3>4, <3>5
    <3>7. PICK c \in 0..m.len : c = Clamp(at, m)
      BY <3>5 DEF Clamp
    <3>8. PICK d \in BOOLEAN : d = plan.lazy
      BY <3>3, Zenon
    <3>9. pts[i] = [at |-> c, lazy |-> d]
      BY <2>2, <2>3, <3>1, <3>6, <3>7, <3>8 DEF PointsOf
    <3>10. [at |-> c, lazy |-> d] \in Point(m)
      BY Zenon DEF Point
    <3> QED BY <3>9, <3>10
  <2>6. PICK q \in [1..n -> 1..n] :
              /\ s = [i \in 1..n |-> pts[q[i]]]
              /\ \A i, j \in 1..n : i < j => pts[q[i]].at <= pts[q[j]].at
    BY <2>1, <2>3, <2>4 DEF Sortings
  <2>7. s \in Seq(Point(m)) /\ Len(s) = n
    BY <2>5, <2>6
  <2>8. Ascending(s)
    BY <2>6, <2>7 DEF Ascending
  <2> QED BY <2>1, <2>7, <2>8, PointsTile
<1> QED BY <1>1, <1>2

\* Whatever split returns is the message.
LEMMA SplitTiles ==
    ASSUME NEW m \in Message, NEW o \in Options, NEW ss \in split(m, o)
    PROVE  Covers(ss, m.len)
<1> USE DEF split
<1>1. CASE o.mode = "sni"
  BY <1>1, SNITiles
<1>2. CASE o.mode = "random"
  BY <1>2, MaskTiles
<1>3. CASE o.mode = "chunk"
  BY <1>3, ChunksTile
<1>4. CASE o.mode = "first-byte"
  BY <1>4, FirstByteTiles
<1>5. CASE o.mode = "custom"
  BY <1>5, PlansTile
<1>6. CASE o.mode = "none"
  BY <1>6, WholeTiles
<1> QED BY <1>1, <1>2, <1>3, <1>4, <1>5, <1>6, OptionShape

-------------------------------------------------------------------------------
(* Sending. *)

\* Where the next byte to be written is: the segments before idx are sent.
SentUpTo == IF idx = 1 THEN 0 ELSE segs[idx - 1].to

\* The types of the variables.
DesyncTypeOK ==
    /\ msg \in Message
    /\ opts \in Options
    /\ step \in {"fake", "split", "lower", "write", "restore", "ok", "error"}
    /\ segs \in Seq(AnySegment)
    /\ idx \in Nat \ {0}
    /\ ttl \in {1, DefaultTTL}
    /\ ttlErrored \in BOOLEAN
    /\ total \in Nat

\* The count of bytes follows the segments, and the TTL is lowered only around
\* the write of a lazy segment.
SendingInv ==
    /\ step \in {"fake", "split"} => segs = <<>> /\ idx = 1 /\ total = 0 /\ ttl = DefaultTTL
    /\ step \notin {"fake", "split"} => segs # <<>> /\ Tiles(segs, msg.len)
    /\ step = "lower" => idx <= Len(segs) + 1
    /\ step \in {"write", "restore"} => idx <= Len(segs)
    /\ step \in {"lower", "write"} => total = SentUpTo
    /\ step = "restore" => total = segs[idx].to
    /\ step \in {"lower", "ok"} => ttl = DefaultTTL \/ ttlErrored
    /\ step \in {"write", "restore"} => ttl = DefaultTTL \/ ttlErrored \/ segs[idx].lazy
    /\ SentWholeAndRestored

DesyncInv == DesyncTypeOK /\ SendingInv

\* Nothing has been sent.
LEMMA DesyncStart == DesyncInit => DesyncInv
<1> SUFFICES ASSUME DesyncInit PROVE DesyncInv
  OBVIOUS
<1>1. ttlErrored \in BOOLEAN
  BY Zenon DEF DesyncInit
<1>2. step \in {"split", "fake"}
  BY DEF DesyncInit
<1> QED BY <1>1, <1>2 DEF DesyncInit, DesyncInv, DesyncTypeOK, SendingInv, SentWholeAndRestored

\* The fakes do not touch the socket.
LEMMA SendFakesKeepsInv == DesyncInv /\ SendFakes => DesyncInv'
BY DEF DesyncInv, DesyncTypeOK, SendingInv, SentUpTo, SentWholeAndRestored, SendFakes

\* The segments are the message from the start.
LEMMA SplitKeepsInv == DesyncInv /\ Split => DesyncInv'
<1> SUFFICES ASSUME DesyncInv, Split PROVE DesyncInv'
  OBVIOUS
<1>1. Covers(segs', msg.len)
  <2>1. CASE opts.skip
    BY <2>1, WholeTiles DEF Split, DesyncInv, DesyncTypeOK
  <2>2. CASE ~opts.skip
    BY <2>2, SplitTiles DEF Split, DesyncInv, DesyncTypeOK
  <2> QED BY <2>1, <2>2
<1>2. msg.len \in Nat /\ msg.len # 0
  BY MessageShape DEF DesyncInv, DesyncTypeOK
<1>3. segs' \in Seq(AnySegment) /\ segs' # <<>> /\ Tiles(segs', msg.len)
  BY <1>1, <1>2 DEF Covers
<1>4. DesyncTypeOK'
  BY <1>3 DEF Split, DesyncInv, DesyncTypeOK
<1>5. SendingInv'
  BY <1>3 DEF Split, DesyncInv, DesyncTypeOK, SendingInv, SentUpTo, SentWholeAndRestored
<1> QED BY <1>4, <1>5 DEF DesyncInv

\* setTTLWrap: a lazy segment's TTL is changed unless a setsockopt has failed.
LEMMA SetTTLEffect ==
    ASSUME NEW value \in {1, DefaultTTL}, DesyncTypeOK, SetTTL(value)
    PROVE  /\ ttl' \in {1, DefaultTTL} /\ ttlErrored' \in BOOLEAN
           /\ ttlErrored => ttlErrored'
           /\ \/ ttl' = ttl /\ (ttlErrored \/ ~segs[idx].lazy)
              \/ ttl' = value /\ segs[idx].lazy
              \/ ttlErrored'
BY DEF SetTTL, Held, DesyncTypeOK

\* Lowering the TTL marks it as changed, or as broken.
LEMMA LowerKeepsInv == DesyncInv /\ Lower => DesyncInv'
<1> SUFFICES ASSUME DesyncInv, Lower PROVE DesyncInv'
  OBVIOUS
<1>1. /\ ttl' \in {1, DefaultTTL} /\ ttlErrored' \in BOOLEAN
      /\ ttl' = DefaultTTL \/ ttlErrored' \/ segs[idx].lazy
  BY SetTTLEffect DEF DesyncInv, SendingInv, Lower
<1>2. DesyncTypeOK'
  BY <1>1 DEF Lower, DesyncInv, DesyncTypeOK
<1>3. SendingInv'
  BY <1>1 DEF Lower, DesyncInv, DesyncTypeOK, SendingInv, SentUpTo, SentWholeAndRestored
<1> QED BY <1>2, <1>3 DEF DesyncInv

\* A full write adds the segment to what was sent.
LEMMA WriteKeepsInv == DesyncInv /\ WriteSegment => DesyncInv'
<1> SUFFICES ASSUME DesyncInv, WriteSegment PROVE DesyncInv'
  OBVIOUS
<1> USE DEF DesyncInv, DesyncTypeOK, SendingInv
<1>1. idx \in 1..Len(segs) /\ segs[idx] \in AnySegment
  BY DEF WriteSegment
<1>2. segs[idx].from \in Nat /\ segs[idx].to \in Nat /\ segs[idx].from < segs[idx].to
  BY <1>1 DEF WriteSegment, AnySegment, Tiles
<1>3. total = segs[idx].from
  <2>1. CASE idx = 1
    BY <2>1 DEF WriteSegment, SentUpTo, Tiles
  <2>2. CASE idx # 1
    <3>1. idx - 1 \in 1..(Len(segs) - 1) /\ idx - 1 + 1 = idx
      BY <1>1, <2>2
    <3> QED BY <2>2, <3>1 DEF WriteSegment, SentUpTo, Tiles
  <2> QED BY <2>1, <2>2
<1>4. /\ total' \in Nat
      /\ \/ total' = segs[idx].to /\ step' = "restore"
         \/ step' = "error"
  BY <1>2, <1>3 DEF WriteSegment
<1> QED BY <1>4 DEF WriteSegment, SentUpTo, SentWholeAndRestored

\* Restoring goes on to the next segment.
LEMMA RestoreKeepsInv == DesyncInv /\ Restore => DesyncInv'
<1> SUFFICES ASSUME DesyncInv, Restore PROVE DesyncInv'
  OBVIOUS
<1>1. /\ ttl' \in {1, DefaultTTL} /\ ttlErrored' \in BOOLEAN
      /\ ttl' = DefaultTTL \/ ttlErrored'
  BY SetTTLEffect DEF DesyncInv, SendingInv, Restore
<1>2. idx' = idx + 1 /\ idx \in Nat \ {0} /\ idx' # 1 /\ idx' - 1 = idx
  BY DEF DesyncInv, DesyncTypeOK, Restore
<1>3. DesyncTypeOK'
  BY <1>1, <1>2 DEF Restore, DesyncInv, DesyncTypeOK
<1>4. SendingInv'
  BY <1>1, <1>2 DEF Restore, DesyncInv, DesyncTypeOK, SendingInv, SentUpTo, SentWholeAndRestored
<1> QED BY <1>3, <1>4 DEF DesyncInv

\* After the last segment the sum is the message.
LEMMA AllSentKeepsInv == DesyncInv /\ AllSent => DesyncInv'
<1> SUFFICES ASSUME DesyncInv, AllSent PROVE DesyncInv'
  OBVIOUS
<1> USE DEF DesyncInv, DesyncTypeOK, SendingInv
<1>1. idx = Len(segs) + 1 /\ idx # 1 /\ idx - 1 = Len(segs)
  BY DEF AllSent
<1>2. total = msg.len
  BY <1>1 DEF AllSent, SentUpTo, Tiles
<1> QED BY <1>1, <1>2 DEF AllSent, SentUpTo, SentWholeAndRestored

\* A Desync never leaves the inductive invariant.
THEOREM DesyncInvariant == DesyncSpec => []DesyncInv
<1>1. DesyncInv /\ [DesyncNext]_desyncVars => DesyncInv'
  <2>1. DesyncInv /\ UNCHANGED desyncVars => DesyncInv'
    BY DEF desyncVars, DesyncInv, DesyncTypeOK, SendingInv, SentUpTo, SentWholeAndRestored
  <2> QED BY <2>1, SendFakesKeepsInv, SplitKeepsInv, LowerKeepsInv, WriteKeepsInv,
             RestoreKeepsInv, AllSentKeepsInv DEF DesyncNext
<1> QED BY <1>1, DesyncStart, PTL DEF DesyncSpec

\* Every split mode cuts every message, with any mask, chunk size or plan, into
\* segments that are the message.
THEOREM SegmentsMakeTheMessage == DesyncSpec => []SegmentsAreMessage
<1>1. DesyncInv => SegmentsAreMessage
  BY DEF DesyncInv, SendingInv, SegmentsAreMessage
<1> QED BY <1>1, DesyncInvariant, PTL

\* A ClientHello that sendSegments reports as sent is complete, and the TTL is
\* back unless a setsockopt failed.
THEOREM ClientHelloIsWhole == DesyncSpec => []SentWholeAndRestored
<1>1. DesyncInv => SentWholeAndRestored
  BY DEF DesyncInv, SendingInv
<1> QED BY <1>1, DesyncInvariant, PTL

-------------------------------------------------------------------------------
(* TunPump.  PumpInv is inductive, for any number of writers and any queue. *)

\* No packet is queued and no pump sleeps at the start.
LEMMA PumpStart == PumpInit => PumpInv
<1> SUFFICES ASSUME PumpInit PROVE PumpInv
    OBVIOUS
<1>1. registered \in BOOLEAN /\ token \in BOOLEAN /\ done \in BOOLEAN
    BY Zenon DEF PumpInit
<1> QED BY <1>1, PumpAssumption DEF PumpInit, PumpInv, PumpTypeOK, NoLostWakeup

\* What stackToTun and the writers do keeps PumpInv: a writer that queues a
\* packet after the registration owes a token, and pays it before it goes on;
\* the pump goes to sleep only on an empty queue.
LEMMA PumpStep == PumpInv /\ [PumpNext]_pumpVars => PumpInv'
<1> SUFFICES ASSUME PumpInv, [PumpNext]_pumpVars PROVE PumpInv'
    OBVIOUS
<1> USE PumpAssumption DEF PumpInv, PumpTypeOK, NoLostWakeup, out
<1>1. ASSUME NEW w \in Writer, StackSends(w) PROVE PumpInv'
  <2>1. CASE queue < QueueCap
    <3>1. PumpTypeOK'
        BY <1>1, <2>1 DEF StackSends
    <3>2. NoLostWakeup'
      <4> SUFFICES ASSUME pump' \in {"empty", "wait"} PROVE \E v \in Writer : writer'[v] = "notify"
          OBVIOUS
      <4>1. registered
          BY <1>1 DEF StackSends
      <4>2. writer'[w] = "notify"
          BY <1>1, <2>1, <4>1 DEF StackSends
      <4> QED BY <4>2
    <3> QED BY <1>1, <3>1, <3>2 DEF StackSends
  <2>2. CASE ~(queue < QueueCap)
      BY <1>1, <2>2 DEF StackSends
  <2> QED BY <2>1, <2>2
<1>2. ASSUME NEW w \in Writer, WriteNotify(w) PROVE PumpInv'
  <2>1. token' \in BOOLEAN
      BY <1>2, Zenon DEF WriteNotify
  <2>2. PumpTypeOK'
      BY <1>2, <2>1 DEF WriteNotify
  <2>3. NoLostWakeup'
    <3>1. CASE writer[w] = "notify"
        BY <1>2, <3>1 DEF WriteNotify
    <3>2. CASE writer[w] # "notify"
      <4> SUFFICES ASSUME pump \in {"empty", "wait"}, queue > 0, ~token
                   PROVE  \E v \in Writer : writer'[v] = "notify"
          BY <1>2, <3>2 DEF WriteNotify
      <4>1. PICK v \in Writer : writer[v] = "notify"
          OBVIOUS
      <4>2. writer'[v] = "notify"
          BY <1>2, <3>2, <4>1 DEF WriteNotify
      <4> QED BY <4>2
    <3> QED BY <3>1, <3>2
  <2> QED BY <1>2, <2>2, <2>3 DEF WriteNotify
<1>3. CASE AddNotify
    BY <1>3 DEF AddNotify
<1>4. CASE CheckDone
    BY <1>4 DEF CheckDone
<1>5. CASE Take \/ Sleeps
    BY <1>5 DEF Take, Sleeps
<1>6. CASE Wakes
  <2>1. token' \in BOOLEAN
      BY <1>6, Zenon DEF Wakes
  <2> QED BY <1>6, <2>1 DEF Wakes
<1>7. CASE TunReads \/ TunReadFails \/ ContextEnds \/ CloseDevice
  <2>1. arrived' \in 0..MaxPackets
      BY <1>7 DEF TunReads, TunReadFails, ContextEnds, CloseDevice
  <2>2. done' \in BOOLEAN
      BY <1>7, Zenon DEF TunReads, TunReadFails, ContextEnds, CloseDevice
  <2> QED BY <1>7, <2>1, <2>2 DEF TunReads, TunReadFails, ContextEnds, CloseDevice
<1>8. CASE UNCHANGED pumpVars
    BY <1>8 DEF pumpVars
<1> QED BY <1>1, <1>2, <1>3, <1>4, <1>5, <1>6, <1>7, <1>8 DEF PumpNext

\* The pumps never leave the inductive invariant.
THEOREM PumpInvariant == PumpSpec => []PumpInv
<1>1. PumpInit => PumpInv
    BY PumpStart
<1>2. PumpInv /\ [PumpNext]_pumpVars => PumpInv'
    BY PumpStep
<1> QED BY <1>1, <1>2, PTL DEF PumpSpec

\* stackToTun never sleeps through a packet (WriteNotify and the channel with
\* room for one token), for any number of stack goroutines and any queue size.
THEOREM PumpNeverSleepsThrough == PumpSpec => []NoLostWakeup
<1>1. PumpInv => NoLostWakeup
    BY DEF PumpInv
<1> QED BY <1>1, PumpInvariant, PTL

-------------------------------------------------------------------------------
(***************************************************************************)
(* Tunnel.  A tunnel blames nobody for its own closing, reports whoever    *)
(* failed, and closes no connection without a cause, for any number of     *)
(* chunks and every kind of handler.                                       *)
(*                                                                         *)
(* The first needs a trail from the verdict back to the peer: every error  *)
(* that is held by a copier, waits in the channel or was received is one   *)
(* that a failed peer accounts for.  The second needs the trail the other  *)
(* way, with the count of the results that are on it; the third that what  *)
(* closing did to one copier is never the reason for closing.              *)
(***************************************************************************)

USE TunnelAssumption

\* What a result may be.
Result == {"nil", "reset", "other", "gonet"}

\* The types of the variables.
TunnelTypeOK ==
    /\ peer \in [Side -> {"up", "fin", "reset", "other"}]
    /\ sent \in [Side -> Nat]
    /\ conn \in [Side -> {"open", "closed"}]
    /\ pc \in [Dir -> {"start", "read", "write", "send", "close", "done"}]
    /\ taken \in [Dir -> Nat]
    /\ delivered \in [Dir -> Nat]
    /\ err \in [Dir -> {"none", "eof", "closed", "gonet", "pipe", "timeout", "reset", "other"}]
    /\ resCh \in Seq(Result)
    /\ errs \in Seq(Result)
    /\ received \in Nat
    /\ handler \in {"waiting", "returned"}
    /\ outcome \in {"none", "nil", "error", "blocked"}

\* A peer's connection has failed that way, or gVisor's was written after Close.
Accounted(e) ==
    /\ e \in {"reset", "other"} => \E s \in Side : peer[s] = e
    /\ e = "gonet" => \E d \in Dir : err[d] = "gonet"

\* Every error on its way from a copier to the verdict is accounted for.
TrailInv ==
    /\ \A d \in Dir : Accounted(err[d])
    /\ \A i \in 1..Len(resCh) : Accounted(resCh[i])
    /\ \A i \in 1..Len(errs) : errs[i] # "nil" /\ Accounted(errs[i])
    /\ NoSpuriousError

\* A copy that goes on has no error.
PhaseInv ==
    \A d \in Dir : pc[d] \in {"start", "read", "write"} <=> err[d] = "none"

\* The result of the copier was sent.
HasSent(d) == pc[d] \in {"close", "done"}

\* The error is on its way to the verdict.
OnItsWay(e) ==
    \/ \E i \in 1..Len(resCh) : resCh[i] = e
    \/ \E i \in 1..Len(errs) : errs[i] = e

\* No result is lost between the copiers and the verdict, which rests on both.
ReportInv ==
    /\ received + Len(resCh) = (IF HasSent("out") THEN 1 ELSE 0) + (IF HasSent("in") THEN 1 ELSE 0)
    /\ \A d \in Dir : HasSent(d) /\ err[d] \in {"reset", "other"} => OnItsWay(err[d])
    /\ handler = "returned" => received = 2 /\ outcome = Verdict

\* There was a reason to close the connections.
Cause == appDone \/ \E d \in Dir : EndsByItself(d)

\* The connections are not closed, and no copier has met a closed one, without
\* a reason.
CauseInv ==
    /\ \A s \in Side : conn[s] = "closed" => Cause
    /\ \A d \in Dir : err[d] \in {"closed", "gonet"} => Cause

\* What a copier has read it has written, but for the chunk in its hand, and it
\* drops that one when the destination cannot be written.
CountInv ==
    \A d \in Dir :
        /\ pc[d] \in {"start", "read"} => delivered[d] = taken[d]
        /\ pc[d] = "write" => delivered[d] + 1 = taken[d]
        /\ delivered[d] < taken[d] => \/ pc[d] = "write"
                                      \/ Failed(dst[d])
                                      \/ err[d] \in {"closed", "gonet", "timeout"}

TunnelInv == TunnelTypeOK /\ TrailInv /\ PhaseInv /\ ReportInv /\ CauseInv /\ CountInv

-------------------------------------------------------------------------------
\* Nothing has happened yet.
LEMMA TunnelInit == Init => TunnelInv
  <1> SUFFICES ASSUME Init PROVE TunnelInv
    OBVIOUS
  <1> USE DEF Init, Side, Dir
  <1>1. TunnelTypeOK
    BY DEF TunnelTypeOK, Result
  <1>2. TrailInv
    BY DEF TrailInv, Accounted, NoSpuriousError
  <1>3. PhaseInv /\ CauseInv
    BY DEF PhaseInv, CauseInv
  <1>4. ReportInv
    BY DEF ReportInv, HasSent
  <1>5. CountInv
    BY DEF CountInv
  <1> QED BY <1>1, <1>2, <1>3, <1>4, <1>5 DEF TunnelInv

\* The peers, and the end of the context.
LEMMA EnvironmentKeepsInv ==
    ASSUME TunnelInv,
           \/ \E s \in Side : \/ PeerSends(s)
                              \/ \E how \in {"fin", "reset", "other"} : PeerEnds(s, how)
           \/ CtxEnds
    PROVE  TunnelInv'
  <1>1. /\ UNCHANGED <<conn, pc, taken, delivered, err, resCh, errs, received, handler, outcome>>
        /\ appDone => appDone'
    BY DEF PeerSends, PeerEnds, CtxEnds, netVars, copyVars, onceVars, waitVars
  <1>2. /\ peer' \in [Side -> {"up", "fin", "reset", "other"}]
        /\ sent' \in [Side -> Nat]
        /\ \A s \in Side : peer[s] \in {"reset", "other"} => peer'[s] = peer[s]
    BY DEF PeerSends, PeerEnds, CtxEnds, netVars, TunnelInv, TunnelTypeOK, Side
  <1>3. TunnelTypeOK'
    BY <1>1, <1>2 DEF TunnelInv, TunnelTypeOK
  <1>4. TrailInv'
    BY <1>1, <1>2 DEF TunnelInv, TrailInv, Accounted, NoSpuriousError, Failed
  <1>5. PhaseInv'
    BY <1>1 DEF TunnelInv, PhaseInv
  <1>6. ReportInv'
    BY <1>1 DEF TunnelInv, ReportInv, HasSent, OnItsWay, Verdict
  <1>7. CauseInv'
    BY <1>1 DEF TunnelInv, CauseInv, Cause, EndsByItself
  <1>8. CountInv'
    BY <1>1, <1>2 DEF TunnelInv, CountInv, Failed, Dir, dst, Side
  <1> QED BY <1>3, <1>4, <1>5, <1>6, <1>7, <1>8 DEF TunnelInv

\* When a result was received, there is a reason to close.
LEMMA ResultIsCause ==
    ASSUME TunnelInv, NEW d \in Dir, err[d] # "none"
    PROVE  Cause
  BY DEF TunnelInv, TunnelTypeOK, CauseInv, Cause, EndsByItself

\* A handler that has returned had two results.
LEMMA ReturnIsCause ==
    ASSUME TunnelInv, received = 2
    PROVE  Cause /\ \A d \in Dir : HasSent(d)
  <1>1. Len(resCh) \in Nat
    BY DEF TunnelInv, TunnelTypeOK
  <1>2. HasSent("out") /\ HasSent("in")
    BY <1>1 DEF TunnelInv, ReportInv
  <1>3. err["out"] # "none"
    BY <1>2 DEF TunnelInv, PhaseInv, HasSent, Dir
  <1> QED BY <1>2, <1>3, ResultIsCause DEF Dir

\* The steps of io.CopyBuffer.
LEMMA CopyKeepsInv ==
    ASSUME TunnelInv, NEW d \in Dir, Start(d) \/ Read(d) \/ Write(d)
    PROVE  TunnelInv'
  <1>1. /\ UNCHANGED <<peer, sent, conn, err, resCh, errs, received, handler, outcome, appDone>>
        /\ pc[d] \in {"start", "read", "write"}
        /\ \E p \in {"read", "write"} : pc' = [pc EXCEPT ![d] = p]
    BY DEF Start, Read, Write, netVars, copyVars, onceVars, waitVars, TunnelInv, TunnelTypeOK
  <1>2. TunnelTypeOK'
    <2>1. pc' \in [Dir -> {"start", "read", "write", "send", "close", "done"}]
      BY <1>1 DEF TunnelInv, TunnelTypeOK
    <2>2. taken' \in [Dir -> Nat] /\ delivered' \in [Dir -> Nat]
      <3>1. taken \in [Dir -> Nat] /\ delivered \in [Dir -> Nat]
        BY DEF TunnelInv, TunnelTypeOK
      <3>2. \A f \in [Dir -> Nat] : [f EXCEPT ![d] = @ + 1] \in [Dir -> Nat]
        OBVIOUS
      <3>3. taken' \in {taken, [taken EXCEPT ![d] = @ + 1]}
        BY DEF Start, Read, Write
      <3>4. delivered' \in {delivered, [delivered EXCEPT ![d] = @ + 1]}
        BY DEF Start, Read, Write
      <3> QED BY <3>1, <3>2, <3>3, <3>4
    <2> QED BY <1>1, <2>1, <2>2 DEF TunnelInv, TunnelTypeOK
  <1>3. TrailInv'
    BY <1>1 DEF TunnelInv, TrailInv, Accounted, NoSpuriousError, Failed
  <1>4. PhaseInv'
    BY <1>1 DEF TunnelInv, TunnelTypeOK, PhaseInv
  <1>5. \A o \in Dir : HasSent(o)' = HasSent(o)
    BY <1>1 DEF HasSent, TunnelInv, TunnelTypeOK
  <1>6. ReportInv'
    BY <1>1, <1>5 DEF TunnelInv, ReportInv, OnItsWay, Verdict, Dir
  <1>7. CauseInv'
    BY <1>1 DEF TunnelInv, CauseInv, Cause, EndsByItself
  <1>8. CountInv'
    <2> USE <1>1 DEF TunnelInv, TunnelTypeOK, CountInv, Failed
    <2>1. CASE Start(d)
      BY <2>1 DEF Start
    <2>2. CASE Read(d)
      BY <2>2 DEF Read
    <2>3. CASE Write(d)
      BY <2>3 DEF Write
    <2> QED BY <2>1, <2>2, <2>3
  <1> QED BY <1>2, <1>3, <1>4, <1>6, <1>7, <1>8 DEF TunnelInv

\* The copy ends: of itself, or because it has met what a closing left.
LEMMA CopyReturnsKeepsInv ==
    ASSUME TunnelInv, NEW d \in Dir, CopyReturns(d)
    PROVE  TunnelInv'
  <1>1. /\ UNCHANGED <<peer, sent, conn, taken, delivered, resCh, errs, received, handler, outcome,
                       appDone>>
        /\ pc[d] \in {"read", "write"}
        /\ pc' = [pc EXCEPT ![d] = "send"]
    BY DEF CopyReturns, netVars, waitVars, onceVars
  <1>2. PICK e : /\ err' = [err EXCEPT ![d] = e]
                 /\ \/ pc[d] = "read" /\ e \in ReadEnds(d)
                    \/ pc[d] = "write" /\ e \in WriteEnds(d)
    BY DEF CopyReturns
  <1>3. e \in {"eof", "closed", "gonet", "pipe", "timeout", "reset", "other"}
    BY <1>2 DEF ReadEnds, WriteEnds, Failed
  <1>4. err[d] = "none" /\ err'[d] = e /\ \A o \in Dir \ {d} : err'[o] = err[o]
    BY <1>1, <1>2 DEF TunnelInv, TunnelTypeOK, PhaseInv
  <1>5. e \in {"closed", "gonet"} => \E s \in Side : conn[s] = "closed"
    BY <1>2 DEF ReadEnds, WriteEnds, Failed, Side, Dir, src, dst
  <1>6. e \in {"reset", "other"} => \E s \in Side : peer[s] = e
    BY <1>2 DEF ReadEnds, WriteEnds, Failed, Side, Dir, src, dst
  <1>7. TunnelTypeOK'
    BY <1>1, <1>2, <1>3 DEF TunnelInv, TunnelTypeOK
  <1>8. TrailInv'
    <2>1. \A x : Accounted(x) => Accounted(x)'
      BY <1>1, <1>4 DEF Accounted
    <2>2. Accounted(e)'
      BY <1>1, <1>4, <1>6 DEF Accounted
    <2>3. \A o \in Dir : Accounted(err[o])'
      BY <1>4, <2>1, <2>2 DEF TunnelInv, TrailInv
    <2>4. NoSpuriousError'
      BY <1>1, <1>4 DEF TunnelInv, TrailInv, NoSpuriousError, Failed
    <2> QED BY <1>1, <2>1, <2>3, <2>4 DEF TunnelInv, TrailInv
  <1>9. PhaseInv'
    BY <1>1, <1>3, <1>4 DEF TunnelInv, TunnelTypeOK, PhaseInv
  <1>10. ReportInv'
    <2>1. \A o \in Dir : HasSent(o)' = HasSent(o)
      BY <1>1 DEF HasSent, TunnelInv, TunnelTypeOK
    <2>2. \A o \in Dir : HasSent(o) => err'[o] = err[o]
      BY <1>1, <1>4 DEF HasSent
    <2>3. \A o \in Dir : (HasSent(o) /\ err[o] \in {"reset", "other"} => OnItsWay(err[o]))'
      BY <1>1, <2>1, <2>2 DEF TunnelInv, ReportInv, OnItsWay
    <2>4. "out" \in Dir /\ "in" \in Dir
      BY DEF Dir
    <2> QED BY <1>1, <2>1, <2>3, <2>4 DEF TunnelInv, ReportInv, Verdict
  <1>11. CauseInv'
    <2>1. Cause => Cause'
      BY <1>1, <1>4 DEF Cause, EndsByItself
    <2> QED BY <1>1, <1>3, <1>4, <1>5, <2>1 DEF TunnelInv, CauseInv
  <1>12. CountInv'
    <2>1. pc[d] = "write" => e \in {"closed", "gonet", "timeout"} \/ Failed(dst[d])
      BY <1>2 DEF WriteEnds
    <2> QED BY <1>1, <1>3, <1>4, <2>1 DEF TunnelInv, TunnelTypeOK, CountInv, Failed
  <1> QED BY <1>7, <1>8, <1>9, <1>10, <1>11, <1>12 DEF TunnelInv

\* The result is sent.
LEMMA SendResultKeepsInv ==
    ASSUME TunnelInv, NEW d \in Dir, SendResult(d)
    PROVE  TunnelInv'
  <1> DEFINE res == IF Benign(err[d]) THEN "nil" ELSE err[d]
  <1>1. /\ UNCHANGED <<peer, sent, conn, taken, delivered, err, errs, received, handler, outcome,
                       appDone>>
        /\ pc[d] = "send"
        /\ pc' = [pc EXCEPT ![d] = "close"]
        /\ resCh' = Append(resCh, res)
    BY DEF SendResult, netVars, onceVars
  <1>2. res \in Result /\ Accounted(res) /\ (err[d] \in {"reset", "other"} => res = err[d])
    BY <1>1 DEF Benign, Result, Accounted, TunnelInv, TunnelTypeOK, TrailInv, PhaseInv
  <1> HIDE DEF res
  <1>3. /\ resCh \in Seq(Result) /\ Len(resCh) \in Nat
        /\ Len(resCh') = Len(resCh) + 1
        /\ \A i \in 1..Len(resCh) : resCh'[i] = resCh[i]
        /\ resCh'[Len(resCh) + 1] = res
    BY <1>1, <1>2 DEF TunnelInv, TunnelTypeOK
  <1>4. TunnelTypeOK'
    BY <1>1, <1>2 DEF TunnelInv, TunnelTypeOK
  <1>5. TrailInv'
    <2>1. \A x : Accounted(x)' = Accounted(x)
      BY <1>1 DEF Accounted
    <2>2. \A i \in 1..Len(resCh') : Accounted(resCh'[i])
      BY <1>2, <1>3 DEF TunnelInv, TrailInv
    <2>3. NoSpuriousError'
      BY <1>1 DEF TunnelInv, TrailInv, NoSpuriousError, Failed
    <2> QED BY <1>1, <2>1, <2>2, <2>3 DEF TunnelInv, TrailInv
  <1>6. PhaseInv'
    BY <1>1 DEF TunnelInv, TunnelTypeOK, PhaseInv
  <1>7. ReportInv'
    <2>1. ~HasSent(d) /\ HasSent(d)' /\ \A o \in Dir \ {d} : HasSent(o)' = HasSent(o)
      BY <1>1 DEF HasSent, TunnelInv, TunnelTypeOK
    <2>2. (received + Len(resCh) = (IF HasSent("out") THEN 1 ELSE 0) + (IF HasSent("in") THEN 1 ELSE 0))'
      <3>1. received \in Nat /\ received' = received
        BY <1>1 DEF TunnelInv, TunnelTypeOK
      <3>2. CASE d = "out"
        <4>1. ~HasSent("out") /\ HasSent("out")' /\ HasSent("in")' = HasSent("in")
          BY <2>1, <3>2 DEF Dir
        <4> QED BY <1>3, <3>1, <4>1 DEF TunnelInv, ReportInv
      <3>3. CASE d = "in"
        <4>1. ~HasSent("in") /\ HasSent("in")' /\ HasSent("out")' = HasSent("out")
          BY <2>1, <3>3 DEF Dir
        <4> QED BY <1>3, <3>1, <4>1 DEF TunnelInv, ReportInv
      <3> QED BY <3>2, <3>3 DEF Dir
    <2>3. \A x : OnItsWay(x) => OnItsWay(x)'
      BY <1>1, <1>3 DEF OnItsWay
    <2>4. \A x : x = res => OnItsWay(x)'
      BY <1>3 DEF OnItsWay
    <2>5. \A o \in Dir : (HasSent(o) /\ err[o] \in {"reset", "other"} => OnItsWay(err[o]))'
      BY <1>1, <1>2, <2>1, <2>3, <2>4 DEF TunnelInv, ReportInv
    <2> QED BY <1>1, <2>2, <2>5 DEF TunnelInv, ReportInv, Verdict
  <1>8. CauseInv'
    BY <1>1 DEF TunnelInv, CauseInv, Cause, EndsByItself
  <1>9. CountInv'
    BY <1>1 DEF TunnelInv, TunnelTypeOK, CountInv, Failed
  <1> QED BY <1>4, <1>5, <1>6, <1>7, <1>8, <1>9 DEF TunnelInv

\* closeOnce, deferred or run by the context.
LEMMA CloseKeepsInv ==
    ASSUME TunnelInv, NEW d \in Dir, StopAndClose(d) \/ AfterFunc(d)
    PROVE  TunnelInv'
  <1>1. /\ UNCHANGED <<peer, sent, taken, delivered, err, resCh, errs, received, handler, outcome,
                       appDone>>
        /\ \/ pc' = pc
           \/ pc[d] = "close" /\ pc' = [pc EXCEPT ![d] = "done"]
        /\ conn' = conn \/ conn' = [s \in Side |-> "closed"]
    BY DEF StopAndClose, AfterFunc, CloseOnce, netVars, copyVars, waitVars
  <1>2. TunnelTypeOK'
    BY <1>1 DEF TunnelInv, TunnelTypeOK
  <1>3. TrailInv'
    BY <1>1 DEF TunnelInv, TrailInv, Accounted, NoSpuriousError, Failed
  <1>4. PhaseInv'
    BY <1>1 DEF TunnelInv, TunnelTypeOK, PhaseInv
  <1>5. \A o \in Dir : HasSent(o)' = HasSent(o)
    BY <1>1 DEF HasSent, TunnelInv, TunnelTypeOK
  <1>6. ReportInv'
    BY <1>1, <1>5 DEF TunnelInv, ReportInv, OnItsWay, Verdict, Dir
  <1>7. Cause
    <2>1. CASE StopAndClose(d)
      BY <2>1, ResultIsCause DEF StopAndClose, TunnelInv, PhaseInv
    <2>2. CASE AfterFunc(d)
      BY <2>2, ReturnIsCause DEF AfterFunc, CtxDone, TunnelInv, ReportInv, Cause
    <2> QED BY <2>1, <2>2
  <1>8. CauseInv'
    BY <1>1, <1>7 DEF TunnelInv, CauseInv, Cause, EndsByItself
  <1>9. CountInv'
    BY <1>1 DEF TunnelInv, TunnelTypeOK, CountInv, Failed
  <1> QED BY <1>2, <1>3, <1>4, <1>6, <1>8, <1>9 DEF TunnelInv

\* A result is received; only errors are kept.
LEMMA WaitKeepsInv ==
    ASSUME TunnelInv, WaitReceives
    PROVE  TunnelInv'
  <1>1. /\ UNCHANGED <<peer, sent, conn, pc, taken, delivered, err, handler, outcome, appDone>>
        /\ handler = "waiting"
        /\ resCh # <<>> /\ resCh' = Tail(resCh)
        /\ received' = received + 1
        /\ errs' = IF Head(resCh) = "nil" THEN errs ELSE Append(errs, Head(resCh))
    BY DEF WaitReceives, netVars, copyVars, onceVars
  <1>2. /\ resCh \in Seq(Result) /\ errs \in Seq(Result) /\ received \in Nat
        /\ Len(resCh) \in Nat \ {0}
        /\ Head(resCh) = resCh[1] /\ Head(resCh) \in Result
        /\ Len(resCh') = Len(resCh) - 1
        /\ \A i \in 1..Len(resCh') : resCh'[i] = resCh[i + 1]
    BY <1>1 DEF TunnelInv, TunnelTypeOK
  <1>3. TunnelTypeOK'
    BY <1>1, <1>2 DEF TunnelInv, TunnelTypeOK
  <1>4. TrailInv'
    <2>1. \A x : Accounted(x)' = Accounted(x)
      BY <1>1 DEF Accounted
    <2>2. \A i \in 1..Len(resCh') : Accounted(resCh'[i])
      BY <1>2 DEF TunnelInv, TrailInv
    <2>3. \A i \in 1..Len(errs') : errs'[i] # "nil" /\ Accounted(errs'[i])
      BY <1>1, <1>2 DEF TunnelInv, TrailInv
    <2>4. NoSpuriousError'
      BY <1>1 DEF TunnelInv, TrailInv, NoSpuriousError, Failed
    <2> QED BY <1>1, <2>1, <2>2, <2>3, <2>4 DEF TunnelInv, TrailInv
  <1>5. PhaseInv'
    BY <1>1 DEF TunnelInv, PhaseInv
  <1>6. ReportInv'
    <2>1. \A o \in Dir : HasSent(o)' = HasSent(o)
      BY <1>1 DEF HasSent
    <2>2. \A x \in {"reset", "other"} : OnItsWay(x) => OnItsWay(x)'
      <3> SUFFICES ASSUME NEW x \in {"reset", "other"}, OnItsWay(x) PROVE OnItsWay(x)'
        OBVIOUS
      <3>1. CASE \E i \in 1..Len(errs) : errs[i] = x
        BY <1>1, <1>2, <3>1 DEF OnItsWay
      <3>2. ASSUME NEW i \in 1..Len(resCh), resCh[i] = x PROVE OnItsWay(x)'
        <4>1. CASE i = 1
          <5>1. errs' = Append(errs, x)
            BY <1>1, <1>2, <3>2, <4>1
          <5>2. Len(errs') \in 1..Len(errs') /\ errs'[Len(errs')] = x
            BY <1>2, <5>1
          <5> QED BY <5>2 DEF OnItsWay
        <4>2. CASE i # 1
          <5>1. i - 1 \in 1..Len(resCh') /\ resCh'[i - 1] = x
            BY <1>2, <3>2, <4>2
          <5> QED BY <5>1 DEF OnItsWay
        <4> QED BY <4>1, <4>2
      <3> QED BY <3>1, <3>2 DEF OnItsWay
    <2>3. \A o \in Dir : (HasSent(o) /\ err[o] \in {"reset", "other"} => OnItsWay(err[o]))'
      BY <1>1, <2>1, <2>2 DEF TunnelInv, ReportInv
    <2>4. received' + Len(resCh') = received + Len(resCh)
      BY <1>1, <1>2
    <2> QED BY <1>1, <2>1, <2>3, <2>4 DEF TunnelInv, ReportInv, Dir
  <1>7. CauseInv'
    BY <1>1 DEF TunnelInv, CauseInv, Cause, EndsByItself
  <1>8. CountInv'
    BY <1>1 DEF TunnelInv, CountInv, Failed
  <1> QED BY <1>3, <1>4, <1>5, <1>6, <1>7, <1>8 DEF TunnelInv

\* The verdict, and the handler's own closes.
LEMMA ReturnKeepsInv ==
    ASSUME TunnelInv, HandlerReturns
    PROVE  TunnelInv'
  <1>1. /\ UNCHANGED <<peer, sent, pc, taken, delivered, err, resCh, errs, received, appDone>>
        /\ received = 2
        /\ handler' = "returned" /\ outcome' = Verdict
        /\ conn' = [s \in Side |-> IF s \in HandlerCloses THEN "closed" ELSE conn[s]]
    BY DEF HandlerReturns, netVars, copyVars, onceVars
  <1>2. TunnelTypeOK'
    BY <1>1 DEF TunnelInv, TunnelTypeOK, Verdict
  <1>3. TrailInv'
    <2>1. \A i \in 1..Len(errs) : errs[i] \in {"reset", "other", "gonet"}
      BY DEF TunnelInv, TunnelTypeOK, TrailInv, Result
    <2>2. errs # <<>> => 1 \in 1..Len(errs)
      BY DEF TunnelInv, TunnelTypeOK
    <2>3. NoSpuriousError'
      BY <1>1, <2>1, <2>2 DEF TunnelInv, TrailInv, Accounted, NoSpuriousError, Failed, Verdict
    <2> QED BY <1>1, <2>3 DEF TunnelInv, TrailInv, Accounted
  <1>4. PhaseInv'
    BY <1>1 DEF TunnelInv, PhaseInv
  <1>5. ReportInv'
    BY <1>1 DEF TunnelInv, ReportInv, HasSent, OnItsWay, Verdict
  <1>6. CauseInv'
    BY <1>1, ReturnIsCause DEF TunnelInv, CauseInv, Cause, EndsByItself
  <1>7. CountInv'
    BY <1>1 DEF TunnelInv, CountInv, Failed
  <1> QED BY <1>2, <1>3, <1>4, <1>5, <1>6, <1>7 DEF TunnelInv

\* A tunnel never leaves the inductive invariant.
THEOREM TunnelInvariant == Spec => []TunnelInv
  <1>1. TunnelInv /\ [Next]_vars => TunnelInv'
    <2> SUFFICES ASSUME TunnelInv, [Next]_vars PROVE TunnelInv'
      OBVIOUS
    <2>1. CASE UNCHANGED vars
      BY <2>1 DEF vars, copyVars, waitVars, netVars, onceVars, TunnelInv, TunnelTypeOK, TrailInv,
                  PhaseInv, ReportInv, CauseInv, CountInv, Accounted, NoSpuriousError, Failed,
                  HasSent, OnItsWay, Verdict, Cause, EndsByItself
    <2>2. ASSUME NEW d \in Dir, Copier(d) \/ AfterFunc(d) PROVE TunnelInv'
      BY <2>2, CopyKeepsInv, CopyReturnsKeepsInv, SendResultKeepsInv, CloseKeepsInv DEF Copier
    <2>3. CASE Handler
      BY <2>3, WaitKeepsInv, ReturnKeepsInv DEF Handler
    <2> QED BY <2>1, <2>2, <2>3, EnvironmentKeepsInv DEF Next
  <1> QED BY <1>1, TunnelInit, PTL DEF Spec

\* WaitForTunnelCompletion reports an error only after a peer's connection has
\* failed or a TUN client's was written after its Close, and "blocked" only
\* after a reset; and its verdict holds every failure that ended a copy,
\* whichever result arrived first.
THEOREM TunnelVerdictIsTrue == Spec => []VerdictIsTrue
  <1>1. TunnelInv => NoSpuriousError
    BY DEF TunnelInv, TrailInv
  <1>2. TunnelInv => FailuresAreReported
    <2> SUFFICES ASSUME TunnelInv, handler = "returned", NEW d \in Dir,
                        err[d] \in {"reset", "other"}
                 PROVE  /\ outcome # "nil"
                        /\ ReportsBlocked /\ err[d] = "reset" => outcome = "blocked"
      BY DEF FailuresAreReported
    <2>1. received = 2 /\ outcome = Verdict
      BY DEF TunnelInv, ReportInv
    <2>2. HasSent(d) /\ HasSent("out") /\ HasSent("in")
      BY <2>1, ReturnIsCause DEF Dir
    <2>3. Len(resCh) = 0
      BY <2>1, <2>2 DEF TunnelInv, TunnelTypeOK, ReportInv
    <2>4. \E i \in 1..Len(errs) : errs[i] = err[d]
      BY <2>2, <2>3 DEF TunnelInv, ReportInv, OnItsWay
    <2>5. errs # <<>>
      BY <2>4
    <2> QED BY <2>1, <2>4, <2>5 DEF Verdict
  <1>3. TunnelInv => VerdictIsTrue
    BY <1>1, <1>2 DEF VerdictIsTrue
  <1> QED BY <1>3, TunnelInvariant, PTL

\* TunnelConns drops a chunk only when the destination failed or timed out,
\* the application stops or the other direction came to its own end.
THEOREM TunnelDropsForCause == Spec => []DropsForCause
  <1>1. TunnelInv => DropsForCause
    <2> SUFFICES ASSUME TunnelInv, NEW d \in Dir, err[d] # "none", delivered[d] < taken[d],
                        ~Failed(dst[d]), err[d] # "timeout", ~appDone
                 PROVE  \E o \in Dir \ {d} : EndsByItself(o)
      BY DEF DropsForCause
    <2>1. err[d] \in {"closed", "gonet"}
      BY DEF TunnelInv, CountInv, PhaseInv
    <2>2. Cause /\ ~EndsByItself(d)
      BY <2>1 DEF TunnelInv, CauseInv, EndsByItself
    <2> QED BY <2>2 DEF Cause
  <1> QED BY <1>1, TunnelInvariant, PTL
===============================================================================
