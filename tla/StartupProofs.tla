----------------------------- MODULE StartupProofs -----------------------------
(***************************************************************************)
(* From the sources of the configuration to the rule of a connection, for  *)
(* any configuration, patterns and addresses.                              *)
(*                                                                         *)
(* The trie: every call of the search goes one level down, so by induction *)
(* over the levels a search that starts at a node answers with a stored    *)
(* pattern under it that matches, if there is one, and with none that      *)
(* another one comes before (Answers).  The case that needs care is "**",  *)
(* whose loop tries every number of segments.                              *)
(*                                                                         *)
(* The priorities: by induction over the loops of RuleSet.Add every key of *)
(* a rule ends up with the higher one of the old and the new rule          *)
(* (Merged), so every key holds the one rule with the highest priority of  *)
(* those accepted so far that name it (Held).  The tree of CIDRs is keyed  *)
(* by prefixes, the conflicts by what is written: a prefix holds what one  *)
(* of its spellings holds (Backed).                                        *)
(*                                                                         *)
(* The start: only rules that Load returned are in the rule set, so what   *)
(* any connection can be given was checked and provided for.               *)
(***************************************************************************)
EXTENDS Startup, WellFoundedInduction, TLAPS

-------------------------------------------------------------------------------
(* Induction. *)

\* A set of naturals that is not empty has a least element.
LEMMA LeastNat ==
    ASSUME NEW T \in SUBSET Nat, T # {}
    PROVE  \E x \in T : \A y \in T : x <= y
  <1> DEFINE R == OpToRel(<, Nat)
  <1>1. \A x, y \in Nat : <<y, x>> \in R <=> y < x
    BY DEF OpToRel
  <1>2. IsWellFoundedOn(R, Nat)
    BY NatLessThanWellFounded
  <1> HIDE DEF R
  <1>3. PICK x \in T : \A y \in T : ~(<<y, x>> \in R)
    BY <1>2, WFMin
  <1>4. \A y \in T : ~(y < x)
    BY <1>1, <1>3
  <1> QED BY <1>4

\* Induction over the naturals, on a set.
LEMMA SetInduction ==
    ASSUME NEW P \in SUBSET Nat, 0 \in P, \A n \in P : n + 1 \in P
    PROVE  P = Nat
<1> SUFFICES ASSUME Nat \ P # {} PROVE FALSE
  OBVIOUS
<1>1. PICK x \in Nat \ P : \A y \in Nat \ P : x <= y
  BY LeastNat
<1>2. x # 0 /\ x - 1 \in Nat
  BY <1>1
<1>3. x - 1 \in P
  BY <1>1, <1>2
<1> QED BY <1>3

-------------------------------------------------------------------------------
(* Sequences of bounded length. *)

\* SeqsUpTo(S, k) is what its name says.
LEMMA SeqsUpToShape ==
    ASSUME NEW S, NEW k \in Nat, NEW x
    PROVE  x \in SeqsUpTo(S, k) <=> x \in Seq(S) /\ Len(x) <= k
<1>1. ASSUME x \in SeqsUpTo(S, k) PROVE x \in Seq(S) /\ Len(x) <= k
  <2>1. PICK m \in 0..k : x \in [1..m -> S]
    BY <1>1 DEF SeqsUpTo
  <2> QED BY <2>1
<1>2. ASSUME x \in Seq(S), Len(x) <= k PROVE x \in SeqsUpTo(S, k)
  <2>1. x \in [1..Len(x) -> S] /\ Len(x) \in 0..k
    BY <1>2
  <2> QED BY <2>1 DEF SeqsUpTo
<1> QED BY <1>1, <1>2

\* Nodes and domains are sequences of segments.
LEMMA NodeShape ==
    ASSUME NEW n
    PROVE  n \in Node <=> n \in Seq(Label \cup Wildcard) /\ Len(n) <= MaxLen
BY SeqsUpToShape, TrieAssumption DEF Node

\* The same for domains.
LEMMA DomainShape ==
    ASSUME NEW d
    PROVE  d \in Domain <=> d \in Seq(Label \cup OtherLabel) /\ Len(d) <= MaxLen
BY SeqsUpToShape, TrieAssumption DEF Domain

\* What is left of a domain is a domain, and its labels are no wildcards.
LEMMA DomainRest ==
    ASSUME NEW d \in Domain
    PROVE  /\ \A i \in 0..Len(d) : SubSeq(d, i + 1, Len(d)) \in Domain
           /\ d # <<>> => Tail(d) \in Domain /\ Head(d) \notin Wildcard
<1>1. d \in Seq(Label \cup OtherLabel) /\ Len(d) <= MaxLen /\ Len(d) \in Nat /\ MaxLen \in Nat
  BY DomainShape, TrieAssumption
<1>2. ASSUME NEW i \in 0..Len(d) PROVE SubSeq(d, i + 1, Len(d)) \in Domain
  <2>1. SubSeq(d, i + 1, Len(d)) \in Seq(Label \cup OtherLabel)
    BY <1>1
  <2>2. Len(SubSeq(d, i + 1, Len(d))) <= Len(d)
    BY <1>1
  <2>3. Len(SubSeq(d, i + 1, Len(d))) \in Nat
    BY <2>1
  <2>4. Len(SubSeq(d, i + 1, Len(d))) <= MaxLen
    BY <1>1, <2>2, <2>3
  <2> QED BY <2>1, <2>4, DomainShape
<1>3. ASSUME d # <<>> PROVE Tail(d) \in Domain /\ Head(d) \notin Wildcard
  <2>1. Tail(d) \in Seq(Label \cup OtherLabel) /\ Len(Tail(d)) = Len(d) - 1
    BY <1>1, <1>3
  <2>2. Head(d) \in Label \cup OtherLabel
    <3>1. Len(d) # 0 /\ Head(d) = d[1]
      BY <1>1, <1>3
    <3>2. 1 \in 1..Len(d)
      BY <1>1, <3>1
    <3> QED BY <1>1, <3>1, <3>2
  <2>4. Len(Tail(d)) <= MaxLen
    BY <1>1, <2>1
  <2>3. Tail(d) \in Domain
    BY <2>1, <2>4, DomainShape
  <2> QED BY <2>2, <2>3, TrieAssumption
<1> QED BY <1>2, <1>3


-------------------------------------------------------------------------------
(***************************************************************************)
(* The trie.  A search that starts at a node answers with one of the       *)
(* stored patterns under the node that match (Under), and with none that   *)
(* another one of them comes before (Answers).                             *)
(***************************************************************************)

\* p is stored at n or below.
ExtendsNode(p, n) == Len(n) <= Len(p) /\ \A j \in 1..Len(n) : p[j] = n[j]

\* The stored patterns at or below n of which the rest matches s.
Under(n, s) ==
    {p \in stored : ExtendsNode(p, n) /\ s \in SuffixMatches(p)[Len(p) - Len(n)]}

\* Before, where the first l segments are the same and do not count.
BeforeBelow(p, q, l) ==
    \E i \in (l + 1)..Len(p) : /\ i <= Len(q)
                               /\ \A j \in 1..(i - 1) : p[j] = q[j]
                               /\ \A j \in (l + 1)..(i - 1) : p[j] # "**"
                               /\ Rank(p[i]) < Rank(q[i])

\* What a search for the segments s from the node is to return.
Answers(n, s, r) ==
    IF Under(n, s) = {} THEN r = NotFound
    ELSE r \in Under(n, s) /\ \A p \in Under(n, s) : ~BeforeBelow(p, r, Len(n))

\* A stored pattern is a sequence of segments, and none of them is empty.
LEMMA StoredShape ==
    ASSUME NEW p \in stored
    PROVE  /\ p \in Node /\ p \in Seq(Label \cup Wildcard)
           /\ Len(p) \in Nat /\ 0 < Len(p) /\ Len(p) <= MaxLen /\ p # NotFound
<1>1. p \in Node /\ p # <<>>
  BY DEF stored, Pattern
<1>2. p \in Seq(Label \cup Wildcard) /\ Len(p) <= MaxLen
  BY <1>1, NodeShape
<1> QED BY <1>1, <1>2 DEF NotFound

\* The child of a node.
LEMMA ChildShape ==
    ASSUME NEW n \in Node, NEW x
    PROVE  /\ Len(Append(n, x)) = Len(n) + 1 /\ Len(n) \in Nat
           /\ Append(n, x)[Len(n) + 1] = x
           /\ \A j \in 1..Len(n) : Append(n, x)[j] = n[j]
<1>1. n \in Seq(Label \cup Wildcard \cup {x}) /\ x \in Label \cup Wildcard \cup {x}
  BY NodeShape
<1> QED BY <1>1

\* A pattern that passes through a child passes through the node and goes on with
\* the child's segment.
LEMMA UnderChild ==
    ASSUME NEW n \in Node, NEW x, NEW p \in stored
    PROVE  ExtendsNode(p, Append(n, x)) <=>
               ExtendsNode(p, n) /\ Len(n) < Len(p) /\ p[Len(n) + 1] = x
<1>1. Len(p) \in Nat /\ Len(n) \in Nat /\ Len(Append(n, x)) = Len(n) + 1
  BY StoredShape, ChildShape
<1>2. ASSUME ExtendsNode(p, Append(n, x))
      PROVE  ExtendsNode(p, n) /\ Len(n) < Len(p) /\ p[Len(n) + 1] = x
  <2>1. \A j \in 1..(Len(n) + 1) : p[j] = Append(n, x)[j]
    BY <1>1, <1>2 DEF ExtendsNode
  <2>2. p[Len(n) + 1] = x /\ \A j \in 1..Len(n) : p[j] = n[j]
    BY <1>1, <2>1, ChildShape
  <2> QED BY <1>1, <1>2, <2>2 DEF ExtendsNode
<1>3. ASSUME ExtendsNode(p, n), Len(n) < Len(p), p[Len(n) + 1] = x
      PROVE  ExtendsNode(p, Append(n, x))
  <2>1. ASSUME NEW j \in 1..(Len(n) + 1) PROVE p[j] = Append(n, x)[j]
    <3>1. CASE j = Len(n) + 1
      BY <1>3, <3>1, ChildShape
    <3>2. CASE j \in 1..Len(n)
      BY <1>3, <3>2, ChildShape DEF ExtendsNode
    <3> QED BY <1>1, <3>1, <3>2
  <2> QED BY <1>1, <1>3, <2>1 DEF ExtendsNode
<1> QED BY <1>2, <1>3

\* A stored pattern at a node is the node.
LEMMA SameNode ==
    ASSUME NEW n \in Node, NEW p \in stored, ExtendsNode(p, n), Len(p) = Len(n)
    PROVE  p = n
<1>1. p \in Seq(Label \cup Wildcard) /\ n \in Seq(Label \cup Wildcard)
  BY StoredShape, NodeShape
<1>2. \A j \in 1..Len(n) : p[j] = n[j]
  BY DEF ExtendsNode
<1> QED BY <1>1, <1>2

\* What leads to a value is a node.
LEMMA NodesAreLed ==
    ASSUME NEW n \in Seq(Label \cup Wildcard)
    PROVE  n \in Nodes <=> \E p \in stored : ExtendsNode(p, n)
<1>1. ASSUME n \in Nodes PROVE \E p \in stored : ExtendsNode(p, n)
  <2>0. PICK p \in stored : n \in {SubSeq(p, 1, i) : i \in 0..Len(p)}
    BY <1>1 DEF Nodes
  <2>1. PICK i \in 0..Len(p) : n = SubSeq(p, 1, i)
    BY <2>0
  <2>2. p \in Seq(Label \cup Wildcard) /\ Len(p) \in Nat
    BY StoredShape
  <2>3. Len(n) = i /\ \A j \in 1..i : n[j] = p[j]
    BY <2>1, <2>2
  <2> QED BY <2>1, <2>2, <2>3 DEF ExtendsNode
<1>2. ASSUME NEW p \in stored, ExtendsNode(p, n) PROVE n \in Nodes
  <2>1. p \in Seq(Label \cup Wildcard) /\ Len(p) \in Nat /\ Len(n) \in 0..Len(p)
    BY <1>2, StoredShape DEF ExtendsNode
  <2>2. PICK q : q = SubSeq(p, 1, Len(n))
    OBVIOUS
  <2>3. q \in Seq(Label \cup Wildcard) /\ Len(q) = Len(n) /\ \A j \in 1..Len(n) : q[j] = p[j]
    BY <2>1, <2>2
  <2>4. q = n
    BY <1>2, <2>3 DEF ExtendsNode
  <2>5. n \in {SubSeq(p, 1, i) : i \in 0..Len(p)}
    BY <2>1, <2>2, <2>4
  <2> QED BY <2>5 DEF Nodes
<1> QED BY <1>1, <1>2


\* What searchAll returns, level by level.
LEMMA SearchStep ==
    ASSUME NEW nodes
    PROVE  \A n \in 0..(MaxLen + 1) :
               searchAll(nodes)[n] = IF n = 0 THEN [m \in Node |-> [segments \in Domain |-> NotFound]] ELSE SearchFrom(searchAll(nodes)[n - 1], nodes)
<1> DEFINE zero == [m \in Node |-> [segments \in Domain |-> NotFound]]
<1> HIDE DEF zero
<1>1. PICK len \in Nat : len = (MaxLen + 1)
  BY TrieAssumption
<1>2. \E f : f = [n \in 0..len |-> IF n = 0 THEN zero ELSE SearchFrom(f[n - 1], nodes)]
  <2> DEFINE Solves(f, k) == f = [n \in 0..k |-> IF n = 0 THEN zero ELSE SearchFrom(f[n - 1], nodes)]
             P == {k \in Nat : \E f : Solves(f, k)}
  <2>1. 0 \in P
    <3> DEFINE f == [n \in 0..0 |-> zero]
    <3>1. Solves(f, 0)
      OBVIOUS
    <3> QED BY <3>1
  <2>2. \A k \in P : k + 1 \in P
    <3> TAKE k \in P
    <3>1. PICK f : Solves(f, k)
      OBVIOUS
    <3> DEFINE g == [n \in 0..(k + 1) |-> IF n = k + 1 THEN SearchFrom(f[k], nodes) ELSE f[n]]
    <3>2. \A n \in 0..k : f[n] = IF n = 0 THEN zero ELSE SearchFrom(f[n - 1], nodes)
      BY <3>1
    <3>3. \A n \in 0..(k + 1) : g[n] = IF n = 0 THEN zero ELSE SearchFrom(g[n - 1], nodes)
      BY <3>2
    <3>4. g = [n \in 0..(k + 1) |-> g[n]]
      OBVIOUS
    <3> HIDE DEF g
    <3>5. g = [n \in 0..(k + 1) |-> IF n = 0 THEN zero ELSE SearchFrom(g[n - 1], nodes)]
      BY <3>3, <3>4
    <3> QED BY <3>5
  <2>3. P = Nat
    <3> HIDE DEF P
    <3>1. P \in SUBSET Nat
      BY DEF P
    <3> QED BY <2>1, <2>2, <3>1, SetInduction
  <2>4. PICK f : Solves(f, len)
    BY <2>3
  <2> QED BY <2>4
<1>3. searchAll(nodes) = [n \in 0..(MaxLen + 1) |-> IF n = 0 THEN [m \in Node |-> [segments \in Domain |-> NotFound]]
        ELSE SearchFrom(searchAll(nodes)[n - 1], nodes)]
  BY <1>1, <1>2, Zenon DEF searchAll, zero
<1> QED BY <1>3

\* What the last segments of a pattern match.
LEMMA MatchStep ==
    ASSUME NEW p \in Node
    PROVE  \A n \in 0..Len(p) :
               SuffixMatches(p)[n] = IF n = 0 THEN {<<>>} ELSE MatchedBy(p, n, SuffixMatches(p)[n - 1])
<1> DEFINE zero == {<<>>}
<1> HIDE DEF zero
<1>1. PICK len \in Nat : len = Len(p)
  BY NodeShape
<1>2. \E f : f = [n \in 0..len |-> IF n = 0 THEN zero ELSE MatchedBy(p, n, f[n - 1])]
  <2> DEFINE Solves(f, k) == f = [n \in 0..k |-> IF n = 0 THEN zero ELSE MatchedBy(p, n, f[n - 1])]
             P == {k \in Nat : \E f : Solves(f, k)}
  <2>1. 0 \in P
    <3> DEFINE f == [n \in 0..0 |-> zero]
    <3>1. Solves(f, 0)
      OBVIOUS
    <3> QED BY <3>1
  <2>2. \A k \in P : k + 1 \in P
    <3> TAKE k \in P
    <3>1. PICK f : Solves(f, k)
      OBVIOUS
    <3> DEFINE g == [n \in 0..(k + 1) |-> IF n = k + 1 THEN MatchedBy(p, n, f[k]) ELSE f[n]]
    <3>2. \A n \in 0..k : f[n] = IF n = 0 THEN zero ELSE MatchedBy(p, n, f[n - 1])
      BY <3>1
    <3>3. \A n \in 0..(k + 1) : g[n] = IF n = 0 THEN zero ELSE MatchedBy(p, n, g[n - 1])
      BY <3>2
    <3>4. g = [n \in 0..(k + 1) |-> g[n]]
      OBVIOUS
    <3> HIDE DEF g
    <3>5. g = [n \in 0..(k + 1) |-> IF n = 0 THEN zero ELSE MatchedBy(p, n, g[n - 1])]
      BY <3>3, <3>4
    <3> QED BY <3>5
  <2>3. P = Nat
    <3> HIDE DEF P
    <3>1. P \in SUBSET Nat
      BY DEF P
    <3> QED BY <2>1, <2>2, <3>1, SetInduction
  <2>4. PICK f : Solves(f, len)
    BY <2>3
  <2> QED BY <2>4
<1>3. SuffixMatches(p) = [n \in 0..Len(p) |-> IF n = 0 THEN {<<>>}
        ELSE MatchedBy(p, n, SuffixMatches(p)[n - 1])]
  BY <1>1, <1>2, Zenon DEF SuffixMatches, zero
<1> QED BY <1>3


\* ... for a first use and for the others.
LEMMA MatchFirst ==
    ASSUME NEW p \in Node
    PROVE  SuffixMatches(p)[0] = {<<>>}
<1>1. 0 \in 0..Len(p)
  BY NodeShape
<1> QED BY <1>1, MatchStep

\* What more segments match follows from what one segment less matches.
LEMMA MatchNext ==
    ASSUME NEW p \in Node, NEW k \in 1..Len(p)
    PROVE  SuffixMatches(p)[k] = MatchedBy(p, k, SuffixMatches(p)[k - 1])
<1>1. k \in 0..Len(p) /\ k # 0
  BY NodeShape
<1> QED BY <1>1, MatchStep

\* No segment left to match: the node itself, or a wildcard below it.
LEMMA UnderAtEnd ==
    ASSUME NEW n \in Node
    PROVE  Under(n, <<>>) = stored \cap {n, Append(n, "*"), Append(n, "**")}
<1> DEFINE End == {n, Append(n, "*"), Append(n, "**")}
<1> SUFFICES ASSUME NEW p \in stored PROVE p \in Under(n, <<>>) <=> p \in End
  BY DEF Under
<1>1. /\ p \in Node /\ Len(p) \in Nat /\ Len(n) \in Nat
  BY StoredShape, ChildShape
<1>2. p \in Under(n, <<>>) <=>
        ExtendsNode(p, n) /\ <<>> \in SuffixMatches(p)[Len(p) - Len(n)]
  BY DEF Under
<1>3. ASSUME p = n PROVE p \in Under(n, <<>>)
  <2>1. ExtendsNode(p, n) /\ Len(p) - Len(n) = 0
    BY <1>1, <1>3 DEF ExtendsNode
  <2>2. SuffixMatches(p)[0] = {<<>>}
    BY <1>1, MatchStep
  <2> QED BY <1>2, <2>1, <2>2
<1>4. ASSUME NEW x \in Wildcard, p = Append(n, x) PROVE p \in Under(n, <<>>)
  <2>1. ExtendsNode(p, Append(n, x)) /\ Len(p) = Len(n) + 1
    BY <1>1, <1>4, ChildShape DEF ExtendsNode
  <2>2. ExtendsNode(p, n) /\ p[Len(n) + 1] = x /\ Len(p) - Len(n) = 1 /\ Len(p) - 1 + 1 = Len(n) + 1
    BY <1>1, <2>1, UnderChild
  <2>3. SuffixMatches(p)[1] = MatchedBy(p, 1, SuffixMatches(p)[1 - 1])
    BY <1>1, <2>1, MatchStep
  <2>4. <<>> \in Domain
    <3>1. <<>> \in Seq(Label \cup OtherLabel) /\ Len(<<>>) = 0
      OBVIOUS
    <3>2. Len(<<>>) <= MaxLen
      BY <3>1, TrieAssumption
    <3> QED BY <3>1, <3>2, DomainShape
  <2>5. <<>> \in MatchedBy(p, 1, SuffixMatches(p)[1 - 1])
    BY <2>2, <2>4 DEF MatchedBy
  <2> QED BY <1>2, <2>2, <2>3, <2>5
<1>5. ASSUME p \in Under(n, <<>>) PROVE p \in End
  <2>1. PICK k \in Nat : k = Len(p) - Len(n) /\ k \in 0..Len(p)
    BY <1>1, <1>2, <1>5 DEF ExtendsNode
  <2>2. CASE k = 0
    BY <1>1, <1>2, <1>5, <2>1, <2>2, SameNode
  <2>3. CASE k # 0
    <3>1. <<>> \in MatchedBy(p, k, SuffixMatches(p)[k - 1])
      BY <1>1, <1>2, <1>5, <2>1, <2>3, MatchStep
    <3>2. k = 1 /\ p[Len(p) - k + 1] \in Wildcard
      BY <3>1 DEF MatchedBy
    <3>3. PICK x \in Wildcard : x = p[Len(n) + 1]
      BY <1>1, <2>1, <3>2
    <3>4. ExtendsNode(p, Append(n, x))
      BY <1>1, <1>2, <1>5, <2>1, <3>2, <3>3, UnderChild
    <3>5. Append(n, x) \in Node
      <4>1. n \in Seq(Label \cup Wildcard) /\ x \in Label \cup Wildcard
        BY NodeShape
      <4>2. Append(n, x) \in Seq(Label \cup Wildcard) /\ Len(Append(n, x)) = Len(n) + 1
        BY <4>1
      <4>3. Len(n) + 1 <= MaxLen
        BY <1>1, <2>1, <3>2, NodeShape
      <4> QED BY <4>2, <4>3, NodeShape
    <3>6. Len(p) = Len(Append(n, x))
      BY <1>1, <2>1, <3>2, ChildShape
    <3>7. p = Append(n, x)
      BY <3>4, <3>5, <3>6, SameNode
    <3> QED BY <3>3, <3>7 DEF Wildcard
  <2> QED BY <2>2, <2>3
<1>6. Wildcard = {"*", "**"}
  BY DEF Wildcard
<1> QED BY <1>3, <1>4, <1>5, <1>6

\* The patterns under n that match a domain go on with its first label, with
\* "*", or with "**"; what the rest of them match.
LEMMA UnderStep ==
    ASSUME NEW n \in Node, NEW s \in Domain, s # <<>>, NEW p \in stored
    PROVE  LET x == p[Len(n) + 1]
               glob == Append(n, "**")
           IN  /\ p \in Under(n, s) =>
                    /\ ExtendsNode(p, n) /\ Len(n) < Len(p)
                    /\ x \in {Head(s), "*", "**"}
               /\ ExtendsNode(p, n) /\ Len(n) < Len(p) /\ x # "**" =>
                    (p \in Under(n, s) <=>
                        x \in {Head(s), "*"} /\ p \in Under(Append(n, x), Tail(s)))
               /\ ExtendsNode(p, n) /\ Len(n) < Len(p) /\ x = "**" =>
                    (p \in Under(n, s) <=>
                        \/ p = glob
                        \/ \E i \in 0..Len(s) : p \in Under(glob, SubSeq(s, i + 1, Len(s))))
<1> DEFINE x == p[Len(n) + 1]
           glob == Append(n, "**")
<1>1. /\ p \in Node /\ Len(p) \in Nat /\ Len(n) \in Nat
  BY StoredShape, ChildShape
<1>2. /\ Tail(s) \in Domain /\ Head(s) \notin Wildcard
      /\ \A i \in 0..Len(s) : SubSeq(s, i + 1, Len(s)) \in Domain
  BY DomainRest
<1>3. \A t : p \in Under(n, t) <=> ExtendsNode(p, n) /\ t \in SuffixMatches(p)[Len(p) - Len(n)]
  BY DEF Under
<1>4. \A y, t : p \in Under(Append(n, y), t) <=>
        /\ ExtendsNode(p, Append(n, y))
        /\ t \in SuffixMatches(p)[Len(p) - (Len(n) + 1)]
  BY ChildShape DEF Under
<1>5. ASSUME ExtendsNode(p, n), ~(Len(n) < Len(p)) PROVE p \notin Under(n, s)
  <2>1. Len(p) - Len(n) = 0
    BY <1>1, <1>5 DEF ExtendsNode
  <2> QED BY <1>1, <1>3, <2>1, MatchFirst
<1>6. ASSUME ExtendsNode(p, n), Len(n) < Len(p)
      PROVE  /\ s \in SuffixMatches(p)[Len(p) - Len(n)] <=>
                  \/ x \in {Head(s), "*"} /\ Tail(s) \in SuffixMatches(p)[Len(p) - (Len(n) + 1)]
                  \/ /\ x = "**"
                     /\ \/ Len(p) = Len(n) + 1
                        \/ \E i \in 0..Len(s) :
                             SubSeq(s, i + 1, Len(s)) \in SuffixMatches(p)[Len(p) - (Len(n) + 1)]
             /\ \A y : ExtendsNode(p, Append(n, y)) <=> x = y
  <2>1. PICK k \in Nat : /\ k = Len(p) - Len(n) /\ k \in 1..Len(p) /\ k - 1 = Len(p) - (Len(n) + 1)
                         /\ Len(p) - k + 1 = Len(n) + 1
                         /\ k = 1 <=> Len(p) = Len(n) + 1
    BY <1>1, <1>6
  <2>2. SuffixMatches(p)[k] = MatchedBy(p, k, SuffixMatches(p)[k - 1])
    BY <1>1, <2>1, MatchNext
  <2>3. s \in MatchedBy(p, k, SuffixMatches(p)[k - 1]) <=>
          \/ x \in {Head(s), "*"} /\ Tail(s) \in SuffixMatches(p)[k - 1]
          \/ /\ x = "**"
             /\ k = 1 \/ \E i \in 0..Len(s) : SubSeq(s, i + 1, Len(s)) \in SuffixMatches(p)[k - 1]
    BY <2>1, Zenon DEF MatchedBy
  <2>4. \A y : ExtendsNode(p, Append(n, y)) <=> x = y
    BY <1>6, UnderChild
  <2> HIDE DEF x
  <2> QED BY <2>1, <2>2, <2>3, <2>4
<1>7. ASSUME ExtendsNode(p, n), Len(n) < Len(p), x = "**"
      PROVE  Len(p) = Len(n) + 1 <=> p = glob
  <2>1. ExtendsNode(p, glob)
    BY <1>6, <1>7
  <2>2. glob \in Node /\ Len(glob) = Len(n) + 1
    <3>1. n \in Seq(Label \cup Wildcard) /\ "**" \in Label \cup Wildcard
      BY NodeShape DEF Wildcard
    <3>2. glob \in Seq(Label \cup Wildcard) /\ Len(glob) = Len(n) + 1
      BY <3>1
    <3>3. Len(n) + 1 <= MaxLen
      BY <1>1, <1>7, StoredShape, TrieAssumption
    <3> QED BY <3>2, <3>3, NodeShape
  <2> HIDE DEF glob
  <2> QED BY <2>1, <2>2, SameNode
<1>8. "*" # "**" /\ "*" \in Wildcard /\ "**" \in Wildcard
  BY DEF Wildcard
<1> HIDE DEF x, glob
<1>9. p \in Under(n, s) => /\ ExtendsNode(p, n) /\ Len(n) < Len(p)
                           /\ x \in {Head(s), "*", "**"}
  BY <1>3, <1>5, <1>6
<1>10. ASSUME ExtendsNode(p, n), Len(n) < Len(p), x # "**"
       PROVE  p \in Under(n, s) <=> x \in {Head(s), "*"} /\ p \in Under(Append(n, x), Tail(s))
  BY <1>3, <1>4, <1>6, <1>10
<1>11. ASSUME ExtendsNode(p, n), Len(n) < Len(p), x = "**"
       PROVE  p \in Under(n, s) <=>
                 \/ p = glob
                 \/ \E i \in 0..Len(s) : p \in Under(glob, SubSeq(s, i + 1, Len(s)))
  <2>1. x \notin {Head(s), "*"}
    BY <1>2, <1>8, <1>11
  <2>2. \A t : p \in Under(glob, t) <=> t \in SuffixMatches(p)[Len(p) - (Len(n) + 1)]
    BY <1>4, <1>6, <1>11 DEF glob
  <2> QED BY <1>3, <1>6, <1>7, <1>11, <2>1, <2>2
<1> QED BY <1>9, <1>10, <1>11 DEF x, glob


\* A node has a value when its path is stored.
LEMMA HasValue ==
    ASSUME DOMAIN domain = Pattern, NEW n
    PROVE  hasValue(n) <=> n \in stored
BY DEF hasValue, stored

\* The ranks of the three kinds of segment.
LEMMA Ranks ==
    /\ Rank("*") = 2 /\ Rank("**") = 3
    /\ \A x : x \notin Wildcard => Rank(x) = 1
BY DEF Rank, Wildcard

\* Where a search ends, a value at the node is preferred to "*", and "*" to "**".
LEMMA AtEndAnswers ==
    ASSUME DOMAIN domain = Pattern, NEW n \in Node
    PROVE  Answers(n, <<>>, atEnd(n))
<1> DEFINE star == Append(n, "*")
           glob == Append(n, "**")
<1>1. /\ Len(n) \in Nat /\ Len(star) = Len(n) + 1 /\ Len(glob) = Len(n) + 1
      /\ star[Len(n) + 1] = "*" /\ glob[Len(n) + 1] = "**"
  BY ChildShape
<1>2. Under(n, <<>>) = stored \cap {n, star, glob}
  BY UnderAtEnd
<1>3. atEnd(n) = IF n \in stored THEN n
                 ELSE IF star \in stored THEN star
                 ELSE IF glob \in stored THEN glob ELSE NotFound
  BY HasValue DEF atEnd
<1> HIDE DEF star, glob
<1>4. CASE n \in stored
  <2>1. \A p : ~BeforeBelow(p, n, Len(n))
    BY <1>1 DEF BeforeBelow
  <2> QED BY <1>2, <1>3, <1>4, <2>1 DEF Answers
<1>5. CASE n \notin stored /\ star \in stored
  <2>1. ASSUME NEW p \in {star, glob}, BeforeBelow(p, star, Len(n)) PROVE FALSE
    <3>1. PICK i \in (Len(n) + 1)..Len(p) : i <= Len(star) /\ Rank(p[i]) < Rank(star[i])
      BY <2>1 DEF BeforeBelow
    <3>2. i = Len(n) + 1
      BY <1>1, <2>1, <3>1
    <3>3. Rank(p[i]) \in {2, 3} /\ Rank(star[i]) = 2
      BY <1>1, <2>1, <3>2, Ranks
    <3> QED BY <3>1, <3>3
  <2>2. atEnd(n) = star /\ star \in Under(n, <<>>) /\ \A p \in Under(n, <<>>) : p \in {star, glob}
    BY <1>2, <1>3, <1>5
  <2> QED BY <2>1, <2>2 DEF Answers
<1>6. CASE n \notin stored /\ star \notin stored /\ glob \in stored
  <2>1. ASSUME BeforeBelow(glob, glob, Len(n)) PROVE FALSE
    <3>1. PICK i \in (Len(n) + 1)..Len(glob) : Rank(glob[i]) < Rank(glob[i])
      BY <2>1 DEF BeforeBelow
    <3>2. i = Len(n) + 1
      BY <1>1, <2>1, <3>1
    <3>3. Rank(glob[i]) = 3
      BY <1>1, <3>2, Ranks
    <3> QED BY <3>1, <3>3
  <2>2. atEnd(n) = glob /\ glob \in Under(n, <<>>) /\ \A p \in Under(n, <<>>) : p = glob
    BY <1>2, <1>3, <1>6
  <2> QED BY <2>1, <2>2 DEF Answers
<1>7. CASE n \notin stored /\ star \notin stored /\ glob \notin stored
  <2>1. Under(n, <<>>) = {}
    BY <1>2, <1>7
  <2> QED BY <1>3, <1>7, <2>1 DEF Answers
<1> QED BY <1>4, <1>5, <1>6, <1>7

\* The patterns that the globstar child of n leads to.
GlobUnder(n, s) == {p \in Under(n, s) : p[Len(n) + 1] = "**"}

\* What the three children answer makes the answer of the node: a pattern that
\* comes before another takes the child that is asked earlier, or the same one.
LEMMA ChildrenAnswer ==
    ASSUME NEW n \in Node, NEW s \in Domain, s # <<>>, NEW a, NEW b, NEW g,
           Answers(Append(n, Head(s)), Tail(s), a),
           Answers(Append(n, "*"), Tail(s), b),
           IF GlobUnder(n, s) = {} THEN g = NotFound ELSE g \in GlobUnder(n, s)
    PROVE  Answers(n, s, IF a # NotFound THEN a ELSE IF b # NotFound THEN b ELSE g)
<1> DEFINE l == Len(n) + 1
           U == Under(n, s)
           A == Under(Append(n, Head(s)), Tail(s))
           B == Under(Append(n, "*"), Tail(s))
           G == GlobUnder(n, s)
<1>1. Len(n) \in Nat /\ Len(Append(n, Head(s))) = l /\ Len(Append(n, "*")) = l
  BY ChildShape
<1>2. Head(s) \notin Wildcard /\ Head(s) # "*" /\ Head(s) # "**" /\ "*" # "**"
  BY DomainRest DEF Wildcard
<1>3. \A p \in stored : Len(p) \in Nat /\ p # NotFound
  BY StoredShape
<1>4. U \subseteq stored /\ A \subseteq stored /\ B \subseteq stored /\ G \subseteq U
  BY DEF Under, GlobUnder
<1>5. \A p \in A : ExtendsNode(p, Append(n, Head(s)))
  BY DEF Under
<1>6. \A p \in B : ExtendsNode(p, Append(n, "*"))
  BY DEF Under
<1>7. ASSUME NEW p \in stored
      PROVE  p \in A <=> p \in U /\ p[l] = Head(s)
  <2>1. ExtendsNode(p, Append(n, Head(s))) <=> ExtendsNode(p, n) /\ Len(n) < Len(p) /\ p[l] = Head(s)
    BY UnderChild
  <2> QED BY <1>2, <1>5, <2>1, UnderStep
<1>8. ASSUME NEW p \in stored
      PROVE  p \in B <=> p \in U /\ p[l] = "*"
  <2>1. ExtendsNode(p, Append(n, "*")) <=> ExtendsNode(p, n) /\ Len(n) < Len(p) /\ p[l] = "*"
    BY UnderChild
  <2> QED BY <1>2, <1>6, <2>1, UnderStep
<1>9. \A p \in U : p[l] \in {Head(s), "*", "**"} /\ (p \in G <=> p[l] = "**")
  BY <1>4, UnderStep DEF GlobUnder
<1>10. Rank(Head(s)) = 1 /\ Rank("*") = 2 /\ Rank("**") = 3
  BY <1>2, Ranks
<1>11. /\ IF A = {} THEN a = NotFound ELSE a \in A /\ \A p \in A : ~BeforeBelow(p, a, l)
       /\ IF B = {} THEN b = NotFound ELSE b \in B /\ \A p \in B : ~BeforeBelow(p, b, l)
       /\ IF G = {} THEN g = NotFound ELSE g \in G
  BY <1>1 DEF Answers
<1>12. ASSUME NEW p \in U, NEW r \in U, BeforeBelow(p, r, Len(n))
       PROVE  \/ Rank(p[l]) < Rank(r[l])
              \/ p[l] = r[l] /\ p[l] # "**" /\ BeforeBelow(p, r, l)
  <2>1. Len(p) \in Nat /\ Len(r) \in Nat
    BY <1>3, <1>4
  <2>2. PICK i \in l..Len(p) : /\ i <= Len(r)
                               /\ \A j \in 1..(i - 1) : p[j] = r[j]
                               /\ \A j \in l..(i - 1) : p[j] # "**"
                               /\ Rank(p[i]) < Rank(r[i])
    BY <1>12 DEF BeforeBelow
  <2>3. CASE i = l
    BY <2>2, <2>3
  <2>4. CASE i # l
    <3>1. l \in 1..(i - 1) /\ l \in l..(i - 1) /\ i \in (l + 1)..Len(p)
      BY <1>1, <2>1, <2>4
    <3>2. p[l] = r[l] /\ p[l] # "**"
      BY <2>2, <3>1
    <3>3. \A j \in (l + 1)..(i - 1) : p[j] # "**"
      BY <1>1, <2>2
    <3>4. BeforeBelow(p, r, l)
      BY <2>2, <3>1, <3>3 DEF BeforeBelow
    <3> QED BY <3>2, <3>4
  <2> QED BY <2>3, <2>4
<1> HIDE DEF l, U, A, B, G
<1> SUFFICES \A r : r = (IF a # NotFound THEN a ELSE IF b # NotFound THEN b ELSE g) =>
                 IF U = {} THEN r = NotFound
                 ELSE r \in U /\ \A p \in U : ~BeforeBelow(p, r, Len(n))
  BY DEF Answers, U
<1> TAKE r
<1> HAVE r = (IF a # NotFound THEN a ELSE IF b # NotFound THEN b ELSE g)
<1>13. CASE A # {}
  <2>1. a \in A /\ r = a /\ r \in U /\ r[l] = Head(s)
    BY <1>3, <1>4, <1>7, <1>11, <1>13
  <2>2. ASSUME NEW p \in U, BeforeBelow(p, r, Len(n)) PROVE FALSE
    <3>1. Rank(p[l]) \in {1, 2, 3} /\ Rank(r[l]) = 1
      BY <1>9, <1>10, <2>1
    <3>2. p[l] = r[l] /\ BeforeBelow(p, r, l)
      BY <1>12, <2>1, <2>2, <3>1
    <3>3. p \in A
      BY <1>4, <1>7, <2>1, <3>2
    <3> QED BY <1>11, <2>1, <3>2, <3>3
  <2> QED BY <2>1, <2>2
<1>14. CASE A = {} /\ B # {}
  <2>1. b \in B /\ r = b /\ r \in U /\ r[l] = "*"
    BY <1>3, <1>4, <1>8, <1>11, <1>14
  <2>2. ASSUME NEW p \in U, BeforeBelow(p, r, Len(n)) PROVE FALSE
    <3>1. p[l] # Head(s)
      BY <1>4, <1>7, <1>14
    <3>2. Rank(p[l]) \in {2, 3} /\ Rank(r[l]) = 2
      BY <1>9, <1>10, <2>1, <3>1
    <3>3. p[l] = r[l] /\ BeforeBelow(p, r, l)
      BY <1>12, <2>1, <2>2, <3>2
    <3>4. p \in B
      BY <1>4, <1>8, <2>1, <3>3
    <3> QED BY <1>11, <2>1, <3>3, <3>4
  <2> QED BY <2>1, <2>2
<1>15. CASE A = {} /\ B = {}
  <2>1. \A p \in U : p[l] = "**" /\ p \in G
    BY <1>4, <1>7, <1>8, <1>9, <1>15
  <2>2. r = g /\ (U = {} <=> G = {})
    BY <1>4, <1>11, <1>15, <2>1
  <2>3. CASE U = {}
    BY <1>11, <2>2, <2>3
  <2>4. CASE U # {}
    <3>1. r \in U
      BY <1>4, <1>11, <2>2, <2>4
    <3>2. ASSUME NEW p \in U, BeforeBelow(p, r, Len(n)) PROVE FALSE
      <4>1. Rank(p[l]) = 3 /\ Rank(r[l]) = 3 /\ p[l] = "**"
        BY <1>10, <2>1, <3>1
      <4> QED BY <1>12, <3>1, <3>2, <4>1
    <3> QED BY <2>4, <3>1, <3>2
  <2> QED BY <2>3, <2>4
<1> QED BY <1>13, <1>14, <1>15


\* The paths that lead to a value are nodes of the bounded trie.
LEMMA NodesBounded == Nodes \subseteq Node
<1> SUFFICES ASSUME NEW n \in Nodes PROVE n \in Node
  OBVIOUS
<1>1. PICK p \in stored : n \in {SubSeq(p, 1, i) : i \in 0..Len(p)}
  BY DEF Nodes
<1>2. PICK i \in 0..Len(p) : n = SubSeq(p, 1, i)
  BY <1>1
<1>3. p \in Seq(Label \cup Wildcard) /\ Len(p) \in Nat /\ Len(p) <= MaxLen /\ MaxLen \in Nat
  BY StoredShape, TrieAssumption
<1>4. n \in Seq(Label \cup Wildcard) /\ Len(n) = i
  BY <1>2, <1>3
<1> QED BY <1>3, <1>4, NodeShape

\* There is no pattern under a child that is no node.
LEMMA NothingUnder ==
    ASSUME NEW n \in Node, NEW x, NEW p \in stored, ExtendsNode(p, Append(n, x))
    PROVE  Append(n, x) \in Nodes
<1>1. Len(n) < Len(p) /\ p[Len(n) + 1] = x
  BY UnderChild
<1>2. n \in Seq(Label \cup Wildcard) /\ Len(n) \in Nat /\ p \in Seq(Label \cup Wildcard) /\ Len(p) \in Nat
  BY StoredShape, NodeShape
<1>3. Len(n) + 1 \in 1..Len(p)
  BY <1>1, <1>2
<1>4. x \in Label \cup Wildcard
  BY <1>1, <1>2, <1>3
<1>5. Append(n, x) \in Seq(Label \cup Wildcard)
  BY <1>2, <1>4
<1> QED BY <1>5, NodesAreLed

\* Deeper calls answer at the children of n.
ChildrenDo(f, n) ==
    \A x : Append(n, x) \in Nodes =>
        \A t \in Domain : Answers(Append(n, x), t, f[Append(n, x)][t])

\* What a child answers when it is asked.
LEMMA AskAnswers ==
    ASSUME NEW n \in Node, NEW x, NEW t \in Domain, NEW f, ChildrenDo(f, n)
    PROVE  Answers(Append(n, x), t,
                   IF Append(n, x) \in Nodes THEN f[Append(n, x)][t] ELSE NotFound)
<1>1. CASE Append(n, x) \in Nodes
  BY <1>1 DEF ChildrenDo
<1>2. CASE Append(n, x) \notin Nodes
  <2>1. Under(Append(n, x), t) = {}
    BY <1>2, NothingUnder DEF Under
  <2> QED BY <1>2, <2>1 DEF Answers
<1> QED BY <1>1, <1>2

\* What search makes of the globstar child.
GlobHits(f, n, s) ==
    {i \in 0..Len(s) : f[Append(n, "**")][SubSeq(s, i + 1, Len(s))] # NotFound}

\* The first of them, and the answer with it.
GlobFirst(f, n, s) ==
    CHOOSE i \in GlobHits(f, n, s) : \A j \in GlobHits(f, n, s) : i <= j

GlobAnswer(f, n, s) ==
    IF Append(n, "**") \notin Nodes THEN NotFound
    ELSE IF hasValue(Append(n, "**")) THEN Append(n, "**")
    ELSE IF GlobHits(f, n, s) = {} THEN NotFound
    ELSE f[Append(n, "**")][SubSeq(s, GlobFirst(f, n, s) + 1, Len(s))]

\* The loop over the segments that "**" takes finds a pattern if there is one.
LEMMA GlobAnswers ==
    ASSUME DOMAIN domain = Pattern,
           NEW n \in Node, NEW s \in Domain, s # <<>>, NEW f, ChildrenDo(f, n)
    PROVE  IF GlobUnder(n, s) = {} THEN GlobAnswer(f, n, s) = NotFound
           ELSE GlobAnswer(f, n, s) \in GlobUnder(n, s)
<1> DEFINE glob == Append(n, "**")
           hits == GlobHits(f, n, s)
           first == GlobFirst(f, n, s)
           g == GlobAnswer(f, n, s)
<1>0. /\ hits \subseteq 0..Len(s)
      /\ \A i \in 0..Len(s) : i \in hits <=> f[glob][SubSeq(s, i + 1, Len(s))] # NotFound
      /\ g = IF glob \notin Nodes THEN NotFound
             ELSE IF hasValue(glob) THEN glob
             ELSE IF hits = {} THEN NotFound
             ELSE f[glob][SubSeq(s, first + 1, Len(s))]
  BY DEF GlobHits, GlobAnswer
<1>8. hits # {} => first \in hits
  <2>1. hits \in SUBSET Nat
    BY <1>0, DomainShape
  <2>2. hits # {} => \E i \in hits : \A j \in hits : i <= j
    BY <2>1, LeastNat
  <2> QED BY <2>2, Zenon DEF GlobFirst
<1>9. /\ Append(n, "**") = glob
      /\ \A p \in stored : ExtendsNode(p, glob) => glob \in Nodes
      /\ \A t \in Domain : glob \in Nodes => Answers(glob, t, f[glob][t])
  BY NothingUnder DEF ChildrenDo
<1>1. \A i \in 0..Len(s) : SubSeq(s, i + 1, Len(s)) \in Domain
  BY DomainRest
<1>2. \A p \in stored : ExtendsNode(p, glob) <=>
          ExtendsNode(p, n) /\ Len(n) < Len(p) /\ p[Len(n) + 1] = "**"
  BY UnderChild
<1>3. ASSUME NEW p \in stored
      PROVE  p \in GlobUnder(n, s) <=>
                /\ ExtendsNode(p, glob)
                /\ \/ p = glob
                   \/ \E i \in 0..Len(s) : p \in Under(glob, SubSeq(s, i + 1, Len(s)))
  BY <1>2, UnderStep DEF GlobUnder
<1>10. glob \in stored => g = glob \/ glob \notin Nodes
  BY <1>0, HasValue
<1>11. glob \notin stored => ~hasValue(glob)
  BY HasValue
<1> HIDE DEF glob, hits, first, g
<1>4. GlobUnder(n, s) \subseteq stored
  BY DEF GlobUnder, Under
<1>5. CASE glob \notin Nodes
  <2>1. \A p \in stored : ~ExtendsNode(p, glob)
    BY <1>5, <1>9
  <2>2. GlobUnder(n, s) = {}
    BY <1>3, <1>4, <2>1
  <2> QED BY <1>0, <1>5, <2>2 DEF g
<1>6. CASE glob \in Nodes /\ glob \in stored
  <2>1. Len(glob) \in Nat
    BY <1>6, StoredShape
  <2>2. ExtendsNode(glob, glob)
    BY <2>1 DEF ExtendsNode
  <2>3. glob \in GlobUnder(n, s)
    BY <1>3, <1>6, <2>2
  <2>4. g = glob
    BY <1>6, <1>10
  <2> QED BY <2>3, <2>4 DEF g
<1>7. CASE glob \in Nodes /\ glob \notin stored
  <2>1. ASSUME NEW i \in 0..Len(s)
        PROVE  LET t == SubSeq(s, i + 1, Len(s))
               IN  IF Under(glob, t) = {} THEN f[glob][t] = NotFound
                   ELSE f[glob][t] \in Under(glob, t) /\ f[glob][t] # NotFound
    <3>1. PICK t \in Domain : t = SubSeq(s, i + 1, Len(s))
      BY <1>1
    <3>2. Answers(glob, t, f[glob][t])
      BY <1>7, <1>9
    <3>3. \A p \in Under(glob, t) : p # NotFound
      BY StoredShape DEF Under
    <3>4. IF Under(glob, t) = {} THEN f[glob][t] = NotFound ELSE f[glob][t] \in Under(glob, t)
      BY <3>2 DEF Answers
    <3> QED BY <3>1, <3>3, <3>4
  <2>2. \A i \in 0..Len(s) : i \in hits <=> Under(glob, SubSeq(s, i + 1, Len(s))) # {}
    BY <1>0, <2>1
  <2>3. ASSUME NEW i \in 0..Len(s), NEW p \in Under(glob, SubSeq(s, i + 1, Len(s)))
        PROVE  p \in GlobUnder(n, s)
    <3>1. p \in stored /\ ExtendsNode(p, glob)
      BY <2>3 DEF Under
    <3> QED BY <1>3, <2>3, <3>1
  <2>4. CASE hits = {}
    <3>1. GlobUnder(n, s) = {}
      <4> SUFFICES ASSUME NEW p \in GlobUnder(n, s) PROVE FALSE
        OBVIOUS
      <4>1. p \in stored /\ p # glob
        BY <1>4, <1>7
      <4>2. PICK i \in 0..Len(s) : p \in Under(glob, SubSeq(s, i + 1, Len(s)))
        BY <1>3, <4>1
      <4> QED BY <2>2, <2>4, <4>2
    <3> QED BY <1>0, <1>7, <1>11, <2>4, <3>1 DEF g
  <2>5. CASE hits # {}
    <3>3. PICK i \in hits : i = first
      BY <1>8, <2>5
    <3>4. g = f[glob][SubSeq(s, i + 1, Len(s))]
      BY <1>0, <1>7, <1>11, <2>5, <3>3
    <3>5. i \in 0..Len(s)
      BY <1>0
    <3>6. g \in Under(glob, SubSeq(s, i + 1, Len(s)))
      BY <2>1, <2>2, <3>4, <3>5
    <3>7. g \in GlobUnder(n, s)
      BY <2>3, <3>5, <3>6
    <3> QED BY <3>7 DEF g
  <2> QED BY <2>4, <2>5
<1> QED BY <1>5, <1>6, <1>7

\* search answers at a node when its calls answer at the children.
LEMMA SearchAnswers ==
    ASSUME DOMAIN domain = Pattern, NEW n \in Node, NEW s \in Domain, NEW f, ChildrenDo(f, n)
    PROVE  Answers(n, s, search(f, Nodes, n, s))
<1>1. CASE s = <<>>
  BY <1>1, AtEndAnswers DEF search
<1>2. CASE s # <<>>
  <2>1. Tail(s) \in Domain
    BY <1>2, DomainRest
  <2>2. PICK a : a = IF Append(n, Head(s)) \in Nodes THEN f[Append(n, Head(s))][Tail(s)] ELSE NotFound
    OBVIOUS
  <2>3. PICK b : b = IF Append(n, "*") \in Nodes THEN f[Append(n, "*")][Tail(s)] ELSE NotFound
    OBVIOUS
  <2>4. PICK g : g = GlobAnswer(f, n, s)
    OBVIOUS
  <2>7. Answers(Append(n, Head(s)), Tail(s), a)
    BY <2>1, <2>2, AskAnswers
  <2>8. Answers(Append(n, "*"), Tail(s), b)
    BY <2>1, <2>3, AskAnswers
  <2>9. IF GlobUnder(n, s) = {} THEN g = NotFound ELSE g \in GlobUnder(n, s)
    BY <1>2, <2>4, GlobAnswers
  <2>10. Answers(n, s, IF a # NotFound THEN a ELSE IF b # NotFound THEN b ELSE g)
    BY <1>2, <2>7, <2>8, <2>9, ChildrenAnswer
  <2>11. search(f, Nodes, n, s) = IF a # NotFound THEN a ELSE IF b # NotFound THEN b ELSE g
    BY <1>2, <2>2, <2>3, <2>4 DEF search, oneSegmentChildren, GlobAnswer, GlobHits, GlobFirst
  <2> QED BY <2>10, <2>11
<1> QED BY <1>1, <1>2

\* So does a search that may go down to the leaves, from any node.
LEMMA LevelsAnswer ==
    ASSUME DOMAIN domain = Pattern
    PROVE  \A n \in Node, s \in Domain :
               Answers(n, s, searchAll(Nodes)[MaxLen + 1 - Len(n)][n][s])
<1> DEFINE all == searchAll(Nodes)
           Good(k) == \A n \in Node, s \in Domain :
                          MaxLen + 1 <= Len(n) + k => Answers(n, s, all[k][n][s])
           P == {k \in Nat : k <= MaxLen + 1 => Good(k)}
<1>0. MaxLen \in Nat /\ \A n \in Node : Len(n) \in Nat /\ Len(n) <= MaxLen
  BY TrieAssumption, NodeShape
<1>1. Good(0)
  BY <1>0
<1>2. ASSUME NEW k \in Nat, k + 1 <= MaxLen + 1, Good(k) PROVE Good(k + 1)
  <2>1. k + 1 \in 0..(MaxLen + 1) /\ k + 1 # 0 /\ k + 1 - 1 = k
    BY <1>0, <1>2
  <2>2. all[k + 1] = SearchFrom(all[k], Nodes)
    BY <2>1, SearchStep
  <2> SUFFICES ASSUME NEW n \in Node, NEW s \in Domain, MaxLen + 1 <= Len(n) + (k + 1)
               PROVE  Answers(n, s, all[k + 1][n][s])
    OBVIOUS
  <2>3. all[k + 1][n][s] = search(all[k], Nodes, n, s)
    BY <2>2 DEF SearchFrom
  <2>4. ChildrenDo(all[k], n)
    <3> SUFFICES ASSUME NEW x, Append(n, x) \in Nodes, NEW t \in Domain
                 PROVE  Answers(Append(n, x), t, all[k][Append(n, x)][t])
      BY DEF ChildrenDo
    <3>1. Append(n, x) \in Node
      BY NodesBounded
    <3>2. MaxLen + 1 <= Len(Append(n, x)) + k
      BY <1>0, ChildShape
    <3> HIDE DEF all
    <3> QED BY <1>2, <3>1, <3>2
  <2> HIDE DEF all
  <2> QED BY <2>3, <2>4, SearchAnswers
<1> HIDE DEF all, Good
<1>3. P = Nat
  <2>1. 0 \in P
    BY <1>1
  <2>2. \A k \in P : k + 1 \in P
    BY <1>0, <1>2
  <2>3. P \in SUBSET Nat
    OBVIOUS
  <2> HIDE DEF P
  <2> QED BY <2>1, <2>2, <2>3, SetInduction
<1>4. ASSUME NEW n \in Node, NEW s \in Domain
      PROVE  Answers(n, s, all[MaxLen + 1 - Len(n)][n][s])
  <2>0. PICK l \in Nat : l = Len(n) /\ l <= MaxLen
    BY <1>0
  <2>1. PICK k \in Nat : k = MaxLen + 1 - Len(n) /\ k <= MaxLen + 1 /\ MaxLen + 1 <= Len(n) + k
    <3>1. /\ MaxLen + 1 - l \in Nat /\ MaxLen + 1 - l <= MaxLen + 1
          /\ MaxLen + 1 <= l + (MaxLen + 1 - l)
      BY <1>0, <2>0
    <3> QED BY <2>0, <3>1
  <2>2. Good(k)
    BY <1>3, <2>1
  <2>3. Answers(n, s, all[k][n][s])
    BY <2>1, <2>2 DEF Good
  <2> QED BY <2>1, <2>3
<1> QED BY <1>4 DEF all

\* Search finds a stored pattern that matches whenever there is one, and one
\* that no other comes before, for every set of patterns and every domain.
LEMMA SearchIsRight ==
    ASSUME DOMAIN domain = Pattern
    PROVE  SearchFindsTheMostSpecific
<1>1. MaxLen \in Nat
  BY TrieAssumption
<1>2. <<>> \in Node /\ Len(<<>>) = 0
  <2>1. <<>> \in Seq(Label \cup Wildcard) /\ Len(<<>>) = 0
    OBVIOUS
  <2>2. Len(<<>>) <= MaxLen
    BY <1>1, <2>1
  <2> QED BY <2>1, <2>2, NodeShape
<1>3. ASSUME NEW d \in Domain PROVE Answers(<<>>, d, Search(d))
  <2>1. MaxLen + 1 - Len(<<>>) = MaxLen + 1
    BY <1>1, <1>2
  <2>2. Answers(<<>>, d, searchAll(Nodes)[MaxLen + 1 - Len(<<>>)][<<>>][d])
    BY <1>2, LevelsAnswer
  <2> QED BY <2>1, <2>2 DEF Search
<1>4. ASSUME NEW d \in Domain PROVE Under(<<>>, d) = Matching(d)
  <2> SUFFICES ASSUME NEW p \in stored PROVE p \in Under(<<>>, d) <=> Matches(p, d)
    BY DEF Under, Matching
  <2>1. Len(p) \in Nat /\ Len(p) - Len(<<>>) = Len(p)
    BY <1>2, StoredShape
  <2>2. ExtendsNode(p, <<>>)
    BY <1>2, <2>1 DEF ExtendsNode
  <2> QED BY <2>1, <2>2 DEF Under, Matches
<1>5. ASSUME NEW p \in stored, NEW q \in stored, Before(p, q) PROVE BeforeBelow(p, q, Len(<<>>))
  <2>1. p \in Seq(Label \cup Wildcard) /\ q \in Seq(Label \cup Wildcard) /\ Len(p) \in Nat /\ Len(q) \in Nat
    BY StoredShape
  <2>2. PICK i \in 1..Len(p) : /\ i <= Len(q)
                               /\ SubSeq(p, 1, i - 1) = SubSeq(q, 1, i - 1)
                               /\ \A j \in 1..(i - 1) : p[j] # "**"
                               /\ Rank(p[i]) < Rank(q[i])
    BY <1>5 DEF Before
  <2>3. ASSUME NEW j \in 1..(i - 1) PROVE p[j] = q[j]
    <3>1. SubSeq(p, 1, i - 1)[j] = p[j] /\ SubSeq(q, 1, i - 1)[j] = q[j]
      BY <2>1, <2>2
    <3> QED BY <2>2, <3>1
  <2>4. i \in (Len(<<>>) + 1)..Len(p) /\ \A j \in (Len(<<>>) + 1)..(i - 1) : p[j] # "**"
    BY <1>2, <2>2
  <2> QED BY <2>2, <2>3, <2>4 DEF BeforeBelow
<1>6. \A d \in Domain : Matching(d) \subseteq stored
  BY DEF Matching
<1>7. FindsIffMatches
  BY <1>3, <1>4 DEF Answers, FindsIffMatches
<1>8. SegmentOrder
  <2> SUFFICES ASSUME NEW d \in Domain, NEW p \in Matching(d), Before(p, Search(d)) PROVE FALSE
    BY DEF SegmentOrder
  <2>1. Search(d) \in Matching(d) /\ ~BeforeBelow(p, Search(d), Len(<<>>))
    BY <1>3, <1>4 DEF Answers
  <2> QED BY <1>5, <1>6, <2>1
<1> QED BY <1>7, <1>8 DEF SearchFindsTheMostSpecific


-------------------------------------------------------------------------------
(* Load. *)

\* resolveEntries, entry by entry.
LEMMA ResolveStep ==
    ASSUME NEW entries, Len(entries) \in Nat
    PROVE  \E f : /\ resolveEntries(entries) = f[Len(entries)]
                 /\ \A n \in 0..Len(entries) :
                        f[n] = IF n = 0 THEN <<>> ELSE expand(f[n - 1], entries[n])
<1>1. PICK len \in Nat : len = Len(entries)
  OBVIOUS
<1>2. \E f : f = [n \in 0..len |-> IF n = 0 THEN <<>> ELSE expand(f[n - 1], entries[n])]
  <2> DEFINE Solves(f, k) == f = [n \in 0..k |-> IF n = 0 THEN <<>> ELSE expand(f[n - 1], entries[n])]
             P == {k \in Nat : \E f : Solves(f, k)}
  <2>1. 0 \in P
    <3> DEFINE f == [n \in 0..0 |-> <<>>]
    <3>1. Solves(f, 0)
      OBVIOUS
    <3> QED BY <3>1
  <2>2. \A k \in P : k + 1 \in P
    <3> TAKE k \in P
    <3>1. PICK f : Solves(f, k)
      OBVIOUS
    <3> DEFINE g == [n \in 0..(k + 1) |->
                       IF n = k + 1 THEN expand(f[k], entries[n]) ELSE f[n]]
    <3>2. \A n \in 0..k : f[n] = IF n = 0 THEN <<>> ELSE expand(f[n - 1], entries[n])
      BY <3>1
    <3>3. \A n \in 0..(k + 1) : g[n] = IF n = 0 THEN <<>> ELSE expand(g[n - 1], entries[n])
      BY <3>2
    <3>4. g = [n \in 0..(k + 1) |-> g[n]]
      OBVIOUS
    <3> HIDE DEF g
    <3>5. g = [n \in 0..(k + 1) |-> IF n = 0 THEN <<>> ELSE expand(g[n - 1], entries[n])]
      BY <3>3, <3>4
    <3> QED BY <3>5
  <2>3. P = Nat
    <3> HIDE DEF P
    <3>1. P \in SUBSET Nat
      BY DEF P
    <3> QED BY <2>1, <2>2, <3>1, SetInduction
  <2>4. PICK f : Solves(f, len)
    BY <2>3
  <2> QED BY <2>4
<1>3. PICK f : /\ f = [n \in 0..Len(entries) |-> IF n = 0 THEN <<>> ELSE expand(f[n - 1], entries[n])]
               /\ resolveEntries(entries) = f[Len(entries)]
  BY <1>1, <1>2, Zenon DEF resolveEntries
<1>4. \A n \in 0..Len(entries) : f[n] = IF n = 0 THEN <<>> ELSE expand(f[n - 1], entries[n])
  BY <1>1, <1>3
<1> QED BY <1>3, <1>4


\* The lines of an entry, and of all of them: well written, or marked.
LEMMA LinesShape ==
    ASSUME NEW S, NEW e, IsEntry(e, S)
    PROVE  LinesOf(e) \in Seq(S \cup {Invalid, Unreadable})
<1>1. CASE "file" \in DOMAIN e
  <2>1. CASE FileLines[e.file] \in Seq(S \cup {Invalid})
    <3>1. FileLines[e.file] \in Seq(S \cup {Invalid, Unreadable})
      BY <2>1
    <3> QED BY <1>1, <3>1 DEF LinesOf
  <2>2. CASE FileLines[e.file] = <<Missing>>
    BY <1>1, <2>2 DEF LinesOf
  <2>3. CASE FileLines[e.file] = <<Unreadable>>
    <3>1. LinesOf(e) \in {<<>>, <<Unreadable>>}
      BY <1>1, <2>3 DEF LinesOf
    <3>2. <<>> \in Seq(S \cup {Invalid, Unreadable}) /\ <<Unreadable>> \in Seq(S \cup {Invalid, Unreadable})
      OBVIOUS
    <3> QED BY <3>1, <3>2, Zenon
  <2> QED BY <1>1, <2>1, <2>2, <2>3 DEF IsEntry
<1>2. CASE "file" \notin DOMAIN e
  <2>1. e.value \in S \cup {Bad, Invalid}
    BY <1>2 DEF IsEntry
  <2>2. CASE e.value = Bad
    BY <1>2, <2>2 DEF LinesOf
  <2>3. CASE e.value \in S \cup {Invalid}
    <3>1. PICK v \in S \cup {Invalid} : v = e.value
      BY <2>3
    <3>2. LinesOf(e) \in {<<>>, <<v>>}
      BY <1>2, <3>1 DEF LinesOf
    <3>3. <<>> \in Seq(S \cup {Invalid, Unreadable}) /\ <<v>> \in Seq(S \cup {Invalid, Unreadable})
      OBVIOUS
    <3> QED BY <3>2, <3>3, Zenon
  <2> QED BY <2>1, <2>2, <2>3
<1> QED BY <1>1, <1>2

\* So do the entries of a list that are readable, all together.
LEMMA ResolveShape ==
    ASSUME NEW S, NEW entries, AreEntries(entries, S), Readable(resolveEntries(entries))
    PROVE  resolveEntries(entries) \in Seq(S)
<1> DEFINE M == S \cup {Invalid, Unreadable}
<1>1. PICK len \in Nat : len = Len(entries)
  BY DEF AreEntries, IsSequence
<1>2. PICK f : /\ resolveEntries(entries) = f[len]
               /\ \A n \in 0..len : f[n] = IF n = 0 THEN <<>> ELSE expand(f[n - 1], entries[n])
  BY <1>1, ResolveStep
<1> DEFINE P == {n \in Nat : n <= len => f[n] \in Seq(M)}
<1>3. 0 \in P
  <2>1. f[0] = <<>>
    BY <1>2
  <2>2. <<>> \in Seq(M)
    OBVIOUS
  <2> QED BY <2>1, <2>2
<1>4. ASSUME NEW n \in P PROVE n + 1 \in P
  <2> SUFFICES ASSUME n + 1 <= len PROVE f[n + 1] \in Seq(M)
    OBVIOUS
  <2>1. n + 1 \in 0..len /\ n + 1 # 0 /\ n + 1 - 1 = n /\ n <= len
    OBVIOUS
  <2>0. f[n + 1] = expand(f[n], entries[n + 1])
    BY <1>2, <2>1
  <2>2. f[n + 1] = f[n] \o LinesOf(entries[n + 1])
    BY <2>0 DEF expand
  <2>3. LinesOf(entries[n + 1]) \in Seq(M)
    <3>1. IsEntry(entries[n + 1], S)
      BY <1>1, <2>1 DEF AreEntries
    <3> QED BY <3>1, LinesShape
  <2>4. f[n] \in Seq(M)
    BY <2>1
  <2> HIDE DEF M, P
  <2> QED BY <2>2, <2>3, <2>4
<1>5. P = Nat
  <2>1. P \in SUBSET Nat
    OBVIOUS
  <2> HIDE DEF P
  <2> QED BY <1>3, <1>4, <2>1, SetInduction
<1>6. PICK lines : lines = resolveEntries(entries)
  OBVIOUS
<1>7. lines \in Seq(M)
  BY <1>2, <1>5, <1>6
<1>8. \A i \in 1..Len(lines) : lines[i] \in M /\ lines[i] \notin {Invalid, Unreadable}
  BY <1>6, <1>7 DEF Readable
<1>9. lines \in Seq(S)
  BY <1>7, <1>8
<1> QED BY <1>6, <1>9

\* What RuleSet.Add relies on.
IsRule(r) == /\ r # NoRule
             /\ r.priority \in Nat
             /\ r.domains \in Seq(Pattern)
             /\ r.cidrs \in Seq(CIDR)

\* Load makes rules of the items that it accepts, one of each and in order.
LEMMA LoadShape ==
    ASSUME NEW in \in Inputs
    PROVE  /\ Load(in).rules \in Seq({Load(in).rules[i] : i \in DOMAIN Load(in).rules})
           /\ Load(in).ok => \A i \in DOMAIN Load(in).rules : IsRule(Load(in).rules[i])
<1> DEFINE file == loadTOML(in)
           items == rulesFromMap(file)
           base == Finalize(Overlay(Overlay(DefaultConfig, file.base), in.cli))
<1>1. \E S : items \in Seq(S) /\ \A x \in S : IsItem(x)
  <2>1. CASE file = NoFile
    <3>1. items = <<>> \o <<>>
      BY <2>1 DEF rulesFromMap, NoFile
    <3>2. items \in Seq({})
      BY <3>1
    <3> HIDE DEF items
    <3> QED BY <3>2
  <2>2. CASE file = in.file
    <3>1. PICK a, b : a = in.file.rules /\ b = in.file.overrides
      OBVIOUS
    <3>2. /\ IsSequence(a) /\ IsSequence(b)
          /\ \A i \in 1..Len(a) : IsItem(a[i])
          /\ \A i \in 1..Len(b) : IsItem(b[i])
      BY <3>1, InputAssumption
    <3> DEFINE S == {a[i] : i \in 1..Len(a)} \cup {b[i] : i \in 1..Len(b)}
    <3>3. a \in Seq(S) /\ b \in Seq(S)
      BY <3>2 DEF IsSequence
    <3>4. \A x \in S : IsItem(x)
      BY <3>2
    <3>5. items = a \o b
      BY <2>2, <3>1 DEF rulesFromMap
    <3> HIDE DEF S, items
    <3>6. items \in Seq(S)
      BY <3>3, <3>5
    <3> QED BY <3>4, <3>6
  <2> QED BY <2>1, <2>2 DEF loadTOML
<1> HIDE DEF file, items, base
<1>2. PICK S : items \in Seq(S) /\ \A x \in S : IsItem(x)
  BY <1>1
<1>3. PICK rules : rules = Load(in).rules
  OBVIOUS
<1>4. rules = [i \in DOMAIN items |-> resolveRule(items[i], base)]
  BY <1>3 DEF Load, file, items, base
<1>5. rules \in Seq({rules[i] : i \in DOMAIN rules}) /\ DOMAIN rules = DOMAIN items
  BY <1>2, <1>4
<1>6. ASSUME Load(in).ok, NEW i \in DOMAIN rules PROVE IsRule(rules[i])
  <2>1. i \in DOMAIN items /\ RuleIsOK(items[i], base)
    BY <1>5, <1>6 DEF Load, file, items, base
  <2>2. PICK item : item = items[i] /\ IsItem(item)
    BY <1>2, <2>1
  <2>3. rules[i] = resolveRule(item, base)
    BY <1>4, <2>1, <2>2
  <2>4. item.priority \in Nat
    BY <2>1, <2>2 DEF RuleIsOK, IsItem
  <2>5. resolveEntries(item.domains) \in Seq(Pattern)
    BY <2>1, <2>2, ResolveShape DEF RuleIsOK, checkMatch, IsItem
  <2>6. resolveEntries(item.cidrs) \in Seq(CIDR)
    BY <2>1, <2>2, ResolveShape DEF RuleIsOK, checkMatch, IsItem
  <2>7. rules[i] # NoRule
    BY <1>3, InputAssumption
  <2>8. /\ resolveRule(item, base).priority = item.priority
        /\ resolveRule(item, base).domains = resolveEntries(item.domains)
        /\ resolveRule(item, base).cidrs = resolveEntries(item.cidrs)
    BY Zenon DEF resolveRule
  <2> QED BY <2>3, <2>4, <2>5, <2>6, <2>7, <2>8 DEF IsRule
<1> QED BY <1>3, <1>5, <1>6


-------------------------------------------------------------------------------
(***************************************************************************)
(* RuleSet.Add.  After a loop that did not fail, every key of the new rule *)
(* holds the one of the old and the new rule with the higher priority      *)
(* (Merged), and every other key what it held before.                      *)
(***************************************************************************)

\* The loop of Add, round by round.
LEMMA PutStep ==
    ASSUME NEW acc, NEW r, NEW keys, NEW nodes, Len(keys) \in Nat
    PROVE  \E f : /\ PutAll(acc, r, keys, nodes) = f[Len(keys)]
                 /\ \A n \in 0..Len(keys) :
                        f[n] = IF n = 0 THEN acc ELSE Put(f[n - 1], r, keys[n], nodes[n])
<1>1. PICK len \in Nat : len = Len(keys)
  OBVIOUS
<1>2. \E f : f = [n \in 0..len |-> IF n = 0 THEN acc ELSE Put(f[n - 1], r, keys[n], nodes[n])]
  <2> DEFINE Solves(f, k) == f = [n \in 0..k |-> IF n = 0 THEN acc ELSE Put(f[n - 1], r, keys[n], nodes[n])]
             P == {k \in Nat : \E f : Solves(f, k)}
  <2>1. 0 \in P
    <3> DEFINE f == [n \in 0..0 |-> acc]
    <3>1. Solves(f, 0)
      OBVIOUS
    <3> QED BY <3>1
  <2>2. \A k \in P : k + 1 \in P
    <3> TAKE k \in P
    <3>1. PICK f : Solves(f, k)
      OBVIOUS
    <3> DEFINE g == [n \in 0..(k + 1) |->
                       IF n = k + 1 THEN Put(f[k], r, keys[n], nodes[n]) ELSE f[n]]
    <3>2. \A n \in 0..k : f[n] = IF n = 0 THEN acc ELSE Put(f[n - 1], r, keys[n], nodes[n])
      BY <3>1
    <3>3. \A n \in 0..(k + 1) : g[n] = IF n = 0 THEN acc ELSE Put(g[n - 1], r, keys[n], nodes[n])
      BY <3>2
    <3>4. g = [n \in 0..(k + 1) |-> g[n]]
      OBVIOUS
    <3> HIDE DEF g
    <3>5. g = [n \in 0..(k + 1) |-> IF n = 0 THEN acc ELSE Put(g[n - 1], r, keys[n], nodes[n])]
      BY <3>3, <3>4
    <3> QED BY <3>5
  <2>3. P = Nat
    <3> HIDE DEF P
    <3>1. P \in SUBSET Nat
      BY DEF P
    <3> QED BY <2>1, <2>2, <3>1, SetInduction
  <2>4. PICK f : Solves(f, len)
    BY <2>3
  <2> QED BY <2>4
<1>3. PICK f : /\ f = [n \in 0..Len(keys) |-> IF n = 0 THEN acc ELSE Put(f[n - 1], r, keys[n], nodes[n])]
               /\ PutAll(acc, r, keys, nodes) = f[Len(keys)]
  BY <1>1, <1>2, Zenon DEF PutAll
<1>4. \A n \in 0..Len(keys) : f[n] = IF n = 0 THEN acc ELSE Put(f[n - 1], r, keys[n], nodes[n])
  BY <1>1, <1>3
<1> QED BY <1>3, <1>4

\* The higher of two priorities stays; equal ones do not meet.
Merged(old, r, new) ==
    IF old = NoRule THEN new = r
    ELSE old.priority # r.priority /\ new = IF old.priority < r.priority THEN r ELSE old

\* Rules can be compared.
AreRules(V) == \A v \in V : v # NoRule /\ v.priority \in Nat

\* The states of the loop over keys K with places T.
Loop(K, T, V) == [ok : BOOLEAN, tree : [T -> V \cup {NoRule}], keys : [K -> V \cup {NoRule}]]

\* A round that makes b of a.
Round(a, b, r, key, node) ==
    LET old == a.keys[key]
    IN  \/ ~a.ok /\ b = a
        \/ /\ a.ok /\ ~b.ok /\ old # NoRule /\ old.priority = r.priority
           /\ b.keys = a.keys /\ b.tree = a.tree
        \/ a.ok /\ b = a /\ old # NoRule /\ r.priority < old.priority
        \/ /\ a.ok /\ b.ok
           /\ old = NoRule \/ (old # NoRule /\ old.priority < r.priority)
           /\ b.keys = [a.keys EXCEPT ![key] = r]
           /\ b.tree = [a.tree EXCEPT ![node] = r]

\* A round of the loop is a Round, and keeps the types.
LEMMA PutShape ==
    ASSUME NEW K, NEW T, NEW V, AreRules(V), NEW acc \in Loop(K, T, V),
           NEW r \in V, NEW key \in K, NEW node \in T
    PROVE  /\ Put(acc, r, key, node) \in Loop(K, T, V)
           /\ Round(acc, Put(acc, r, key, node), r, key, node)
<1> DEFINE old == acc.keys[key]
           res == Put(acc, r, key, node)
<1>1. /\ acc.ok \in BOOLEAN /\ acc.tree \in [T -> V \cup {NoRule}] /\ acc.keys \in [K -> V \cup {NoRule}]
      /\ acc = [ok |-> acc.ok, tree |-> acc.tree, keys |-> acc.keys]
  BY Zenon DEF Loop
<1>2. old \in V \cup {NoRule}
  BY <1>1
<1>3. old = NoRule \/ (old # NoRule /\ old.priority \in Nat)
  BY <1>2 DEF AreRules
<1>4. r.priority \in Nat
  BY DEF AreRules
<1>5. CASE ~acc.ok
  <2>1. res = acc
    BY <1>5 DEF Put
  <2> QED BY <1>5, <2>1 DEF Round
<1>6. CASE acc.ok /\ old # NoRule /\ old.priority = r.priority
  <2>1. Decide(old, r) = "conflict"
    BY <1>6 DEF Decide
  <2>2. res = [acc EXCEPT !.ok = FALSE]
    BY <1>6, <2>1 DEF Put
  <2>3. /\ res \in Loop(K, T, V)
        /\ ~res.ok /\ res.keys = acc.keys /\ res.tree = acc.tree
    BY <1>1, <2>2 DEF Loop
  <2> QED BY <1>6, <2>3 DEF Round
<1>7. CASE acc.ok /\ old # NoRule /\ r.priority < old.priority
  <2>1. Decide(old, r) = "skip"
    BY <1>3, <1>4, <1>7 DEF Decide
  <2>2. res = acc
    BY <1>7, <2>1 DEF Put
  <2> QED BY <1>7, <2>2 DEF Round
<1>8. CASE acc.ok /\ (old = NoRule \/ (old # NoRule /\ old.priority < r.priority))
  <2>1. Decide(old, r) = "store"
    BY <1>3, <1>4, <1>8 DEF Decide
  <2>2. res = [acc EXCEPT !.keys[key] = r, !.tree[node] = r]
    BY <1>8, <2>1 DEF Put
  <2>3. /\ res.keys = [acc.keys EXCEPT ![key] = r]
        /\ res.tree = [acc.tree EXCEPT ![node] = r]
        /\ res.ok = acc.ok
    BY <1>1, <2>2 DEF Loop
  <2>4. res \in Loop(K, T, V)
    <3>1. PICK k \in [K -> V \cup {NoRule}] : k = [acc.keys EXCEPT ![key] = r]
      BY <1>1
    <3>2. PICK t \in [T -> V \cup {NoRule}] : t = [acc.tree EXCEPT ![node] = r]
      BY <1>1
    <3>3. PICK o \in BOOLEAN : o = acc.ok
      BY <1>1
    <3>4. res = [ok |-> o, tree |-> t, keys |-> k]
      BY <1>1, <2>2, <3>1, <3>2, <3>3
    <3>5. [ok |-> o, tree |-> t, keys |-> k] \in Loop(K, T, V)
      BY DEF Loop
    <3> QED BY <3>4, <3>5
  <2> QED BY <1>8, <2>3, <2>4 DEF Round
<1> HIDE DEF old, res
<1>9. \/ acc.ok /\ old # NoRule /\ old.priority = r.priority
      \/ acc.ok /\ old # NoRule /\ r.priority < old.priority
      \/ acc.ok /\ (old = NoRule \/ (old # NoRule /\ old.priority < r.priority))
      \/ ~acc.ok
  BY <1>3, <1>4
<1> QED BY <1>5, <1>6, <1>7, <1>8, <1>9 DEF old, res


\* The whole loop.
LEMMA PutAllMerges ==
    ASSUME NEW K, NEW T, NEW V, AreRules(V), NEW acc \in Loop(K, T, V),
           NEW r \in V, NEW keys \in Seq(K), NEW nodes,
           \A j \in 1..Len(keys) : nodes[j] \in T
    PROVE  LET res == PutAll(acc, r, keys, nodes)
           IN  /\ res \in Loop(K, T, V)
               /\ res.ok => /\ acc.ok
                            /\ \A key \in K :
                                 IF \E j \in 1..Len(keys) : keys[j] = key
                                 THEN Merged(acc.keys[key], r, res.keys[key])
                                 ELSE res.keys[key] = acc.keys[key]
<1>1. PICK len \in Nat : len = Len(keys)
  OBVIOUS
<1>2. PICK f : /\ PutAll(acc, r, keys, nodes) = f[len]
               /\ \A n \in 0..len :
                      f[n] = IF n = 0 THEN acc ELSE Put(f[n - 1], r, keys[n], nodes[n])
  <2>1. Len(keys) \in Nat
    BY <1>1
  <2>2. \E f : /\ PutAll(acc, r, keys, nodes) = f[Len(keys)]
               /\ \A n \in 0..Len(keys) :
                      f[n] = IF n = 0 THEN acc ELSE Put(f[n - 1], r, keys[n], nodes[n])
    BY <2>1, PutStep
  <2> QED BY <1>1, <2>2, Zenon
<1> DEFINE Has(n, key) == \E j \in 1..n : keys[j] = key
           Good(n) == /\ f[n] \in Loop(K, T, V)
                      /\ f[n].ok => /\ acc.ok
                                    /\ \A key \in K :
                                         IF Has(n, key) THEN Merged(acc.keys[key], r, f[n].keys[key])
                                         ELSE f[n].keys[key] = acc.keys[key]
           P == {n \in Nat : n <= len => Good(n)}
<1>3. r # NoRule /\ r.priority \in Nat
  BY DEF AreRules
<1>4. ASSUME NEW k \in K, NEW l \in Loop(K, T, V)
      PROVE  l.keys[k] = NoRule \/ (l.keys[k] # NoRule /\ l.keys[k].priority \in Nat)
  <2>1. l.keys[k] \in V \cup {NoRule}
    BY DEF Loop
  <2> QED BY <2>1 DEF AreRules
<1>5. Good(0)
  <2>1. f[0] = acc
    BY <1>2
  <2> QED BY <2>1
<1>6. ASSUME NEW n \in Nat, n + 1 <= len, Good(n) PROVE Good(n + 1)
  <2>1. n + 1 \in 0..len /\ n + 1 # 0 /\ n + 1 - 1 = n /\ n + 1 \in 1..len
    BY <1>6
  <2>2. PICK key \in K, node \in T : key = keys[n + 1] /\ node = nodes[n + 1]
    BY <1>1, <2>1
  <2>3. PICK a, b : a = f[n] /\ b = f[n + 1]
    OBVIOUS
  <2>0. f[n + 1] = Put(f[n], r, keys[n + 1], nodes[n + 1])
    BY <1>2, <2>1
  <2>4. b = Put(a, r, key, node)
    BY <2>0, <2>2, <2>3
  <2>5. a \in Loop(K, T, V)
    BY <1>6, <2>3
  <2>14. b \in Loop(K, T, V) /\ Round(a, b, r, key, node)
    BY <2>4, <2>5, PutShape
  <2>6. /\ b \in Loop(K, T, V)
        /\ \/ ~a.ok /\ b = a
           \/ /\ a.ok /\ ~b.ok /\ a.keys[key] # NoRule /\ a.keys[key].priority = r.priority
              /\ b.keys = a.keys /\ b.tree = a.tree
           \/ a.ok /\ b = a /\ a.keys[key] # NoRule /\ r.priority < a.keys[key].priority
           \/ /\ a.ok /\ b.ok
              /\ a.keys[key] = NoRule \/ (a.keys[key] # NoRule /\ a.keys[key].priority < r.priority)
              /\ b.keys = [a.keys EXCEPT ![key] = r]
              /\ b.tree = [a.tree EXCEPT ![node] = r]
    BY <2>14 DEF Round
  <2>7. \A k : Has(n + 1, k) <=> Has(n, k) \/ k = key
    BY <2>1, <2>2
  <2> SUFFICES ASSUME b.ok
               PROVE  /\ acc.ok
                      /\ \A k \in K : IF Has(n + 1, k) THEN Merged(acc.keys[k], r, b.keys[k])
                                      ELSE b.keys[k] = acc.keys[k]
    BY <2>3, <2>6
  <2>8. a.ok /\ acc.ok
    BY <1>6, <2>3, <2>6
  <2>9. \A k \in K : IF Has(n, k) THEN Merged(acc.keys[k], r, a.keys[k])
                     ELSE a.keys[k] = acc.keys[k]
    BY <1>6, <2>3, <2>8
  <2>10. ASSUME NEW k \in K, k # key PROVE b.keys[k] = a.keys[k]
    BY <2>5, <2>6, <2>8, <2>10 DEF Loop
  <2>11. \/ b.keys[key] = a.keys[key] /\ a.keys[key] # NoRule /\ r.priority < a.keys[key].priority
         \/ /\ b.keys[key] = r
            /\ a.keys[key] = NoRule \/ (a.keys[key] # NoRule /\ a.keys[key].priority < r.priority)
    BY <2>5, <2>6, <2>8 DEF Loop
  <2>12. Merged(acc.keys[key], r, b.keys[key])
    <3>1. /\ acc.keys[key] = NoRule \/ (acc.keys[key] # NoRule /\ acc.keys[key].priority \in Nat)
          /\ a.keys[key] = NoRule \/ (a.keys[key] # NoRule /\ a.keys[key].priority \in Nat)
      BY <1>4, <2>5
    <3>2. IF Has(n, key) THEN Merged(acc.keys[key], r, a.keys[key])
          ELSE a.keys[key] = acc.keys[key]
      BY <2>9
    <3> HIDE DEF Has
    <3> QED BY <1>3, <2>11, <3>1, <3>2 DEF Merged
  <2> HIDE DEF Has
  <2>13. ASSUME NEW k \in K
         PROVE  IF Has(n + 1, k) THEN Merged(acc.keys[k], r, b.keys[k])
                ELSE b.keys[k] = acc.keys[k]
    <3>1. CASE k = key
      BY <2>7, <2>12, <3>1
    <3>2. CASE k # key
      BY <2>7, <2>9, <2>10, <3>2
    <3> QED BY <3>1, <3>2
  <2> QED BY <2>8, <2>13
<1> HIDE DEF Good
<1>7. P = Nat
  <2>1. 0 \in P
    BY <1>5
  <2>2. \A n \in P : n + 1 \in P
    BY <1>6
  <2>3. P \in SUBSET Nat
    OBVIOUS
  <2> HIDE DEF P
  <2> QED BY <2>1, <2>2, <2>3, SetInduction
<1>8. Good(len)
  BY <1>7
<1> QED BY <1>1, <1>2, <1>8 DEF Good

\* The keys have these places, several of them perhaps the same one.
Placed(keys, nodes, K, place) == \A j \in 1..Len(keys) : keys[j] \in K /\ nodes[j] = place[keys[j]]

\* A place holds what one of its keys holds, and nothing only if none holds anything.
Backed(tree, kept, K, T, place) ==
    /\ \A c \in K : kept[c] # NoRule => tree[place[c]] # NoRule
    /\ \A n \in T : tree[n] # NoRule => \E c \in K : place[c] = n /\ kept[c] = tree[n]

\* The tree follows the keys.
LEMMA PutAllBacks ==
    ASSUME NEW K, NEW T, NEW V, AreRules(V), NEW acc \in Loop(K, T, V),
           NEW r \in V, NEW keys \in Seq(K), NEW nodes, NEW place \in [K -> T],
           Placed(keys, nodes, K, place), Backed(acc.tree, acc.keys, K, T, place)
    PROVE  LET res == PutAll(acc, r, keys, nodes) IN Backed(res.tree, res.keys, K, T, place)
<1>1. PICK len \in Nat : len = Len(keys)
  OBVIOUS
<1>2. PICK f : /\ PutAll(acc, r, keys, nodes) = f[len]
               /\ \A n \in 0..len :
                      f[n] = IF n = 0 THEN acc ELSE Put(f[n - 1], r, keys[n], nodes[n])
  <2>1. Len(keys) \in Nat
    BY <1>1
  <2>2. \E f : /\ PutAll(acc, r, keys, nodes) = f[Len(keys)]
               /\ \A n \in 0..Len(keys) :
                      f[n] = IF n = 0 THEN acc ELSE Put(f[n - 1], r, keys[n], nodes[n])
    BY <2>1, PutStep
  <2> QED BY <1>1, <2>2, Zenon
<1> DEFINE Good(n) == f[n] \in Loop(K, T, V) /\ Backed(f[n].tree, f[n].keys, K, T, place)
           P == {n \in Nat : n <= len => Good(n)}
<1>3. Good(0)
  <2>1. f[0] = acc
    BY <1>2
  <2> QED BY <2>1
<1>4. ASSUME NEW n \in Nat, n + 1 <= len, Good(n) PROVE Good(n + 1)
  <2>1. n + 1 \in 0..len /\ n + 1 # 0 /\ n + 1 - 1 = n /\ n + 1 \in 1..len
    BY <1>4
  <2>2. PICK key \in K, node \in T : key = keys[n + 1] /\ node = nodes[n + 1] /\ node = place[key]
    BY <1>1, <2>1 DEF Placed
  <2>3. PICK a, b : a = f[n] /\ b = f[n + 1]
    OBVIOUS
  <2>0. f[n + 1] = Put(f[n], r, keys[n + 1], nodes[n + 1])
    BY <1>2, <2>1
  <2>4. b = Put(a, r, key, node)
    BY <2>0, <2>2, <2>3
  <2>5. a \in Loop(K, T, V) /\ key \in K
    BY <1>4, <2>3
  <2>14. b \in Loop(K, T, V) /\ Round(a, b, r, key, node)
    BY <2>4, <2>5, PutShape
  <2>6. /\ b \in Loop(K, T, V)
        /\ \/ b.keys = a.keys /\ b.tree = a.tree
           \/ /\ b.keys = [a.keys EXCEPT ![key] = r]
              /\ b.tree = [a.tree EXCEPT ![node] = r]
    BY <2>14 DEF Round
  <2>7. a.keys \in [K -> V \cup {NoRule}] /\ a.tree \in [T -> V \cup {NoRule}]
    BY <2>5 DEF Loop
  <2>8. r # NoRule /\ Backed(a.tree, a.keys, K, T, place)
    BY <1>4, <2>3 DEF AreRules
  <2>9. CASE b.keys = a.keys /\ b.tree = a.tree
    BY <2>3, <2>6, <2>8, <2>9
  <2>10. CASE b.keys = [a.keys EXCEPT ![key] = r] /\ b.tree = [a.tree EXCEPT ![node] = r]
    <3>1. /\ b.keys[key] = r /\ \A c \in K : c # key => b.keys[c] = a.keys[c]
          /\ b.tree[node] = r /\ \A m \in T : m # node => b.tree[m] = a.tree[m]
      BY <2>5, <2>7, <2>10
    <3>2. ASSUME NEW c \in K, b.keys[c] # NoRule PROVE b.tree[place[c]] # NoRule
      <4>1. place[c] \in T
        OBVIOUS
      <4>2. CASE place[c] = node
        BY <2>8, <3>1, <4>2
      <4>3. CASE place[c] # node
        <5>1. c # key /\ b.tree[place[c]] = a.tree[place[c]]
          BY <2>2, <3>1, <4>1, <4>3
        <5>2. a.keys[c] # NoRule
          BY <3>1, <3>2, <5>1
        <5>3. a.tree[place[c]] # NoRule
          BY <2>8, <5>2 DEF Backed
        <5> QED BY <5>1, <5>3
      <4> QED BY <4>2, <4>3
    <3>3. ASSUME NEW m \in T, b.tree[m] # NoRule
          PROVE  \E c \in K : place[c] = m /\ b.keys[c] = b.tree[m]
      <4>1. CASE m = node
        BY <2>2, <3>1, <4>1
      <4>2. CASE m # node
        <5>1. PICK c \in K : place[c] = m /\ a.keys[c] = a.tree[m]
          <6>1. a.tree[m] # NoRule
            BY <3>1, <3>3, <4>2
          <6> QED BY <2>8, <6>1 DEF Backed
        <5>2. c # key
          BY <2>2, <4>2, <5>1
        <5> QED BY <3>1, <4>2, <5>1, <5>2
      <4> QED BY <4>1, <4>2
    <3>4. Backed(b.tree, b.keys, K, T, place)
      BY <3>2, <3>3 DEF Backed
    <3> QED BY <2>3, <2>6, <3>4
  <2> QED BY <2>6, <2>9, <2>10
<1> HIDE DEF Good
<1>5. P = Nat
  <2>1. 0 \in P
    BY <1>3
  <2>2. \A n \in P : n + 1 \in P
    BY <1>4
  <2>3. P \in SUBSET Nat
    OBVIOUS
  <2> HIDE DEF P
  <2> QED BY <2>1, <2>2, <2>3, SetInduction
<1>6. Good(len)
  BY <1>5
<1> QED BY <1>1, <1>2, <1>6 DEF Good


-------------------------------------------------------------------------------
(***************************************************************************)
(* The rule set.  Under every key there is the one rule, of those accepted *)
(* so far that name it, with the highest priority (Held); the trie and the *)
(* tree hold what is kept under the keys.                                  *)
(***************************************************************************)

\* val is the rule, of those at the positions S, with the highest priority.
Held(val, S, rules) ==
    IF S = {} THEN val = NoRule
    ELSE \E i \in S : /\ val = rules[i]
                      /\ \A j \in S : j # i => rules[j].priority < rules[i].priority

\* The places in the CIDR tree.
Prefixes == {PrefixOf(c) : c \in CIDR}
PlaceOf  == [c \in CIDR |-> PrefixOf(c)]

\* Only these rules are anywhere.
TreesHold(V) ==
    /\ domain \in [Pattern -> V \cup {NoRule}]
    /\ domainKeys \in [Pattern -> V \cup {NoRule}]
    /\ cidr \in [Prefixes -> V \cup {NoRule}]
    /\ cidrKeys \in [CIDR -> V \cup {NoRule}]
    /\ added \in Seq(V)

\* What is kept under each key, and that the trees agree with it.
PriorityInv ==
    ~failed =>
        /\ \A p \in Pattern : domain[p] = domainKeys[p] /\ Held(domainKeys[p], Naming(p), added)
        /\ \A c \in CIDR : Held(cidrKeys[c], Writing(c), added)
        /\ Backed(cidr, cidrKeys, CIDR, Prefixes, PlaceOf)

\* A rule that is accepted after others.
LEMMA HeldGrows ==
    ASSUME NEW V, AreRules(V), NEW rules \in Seq(V), NEW r \in V,
           NEW S \in SUBSET (1..Len(rules)), NEW old, Held(old, S, rules)
    PROVE  /\ Held(old, S, Append(rules, r))
           /\ \A new : Merged(old, r, new) =>
                  Held(new, S \cup {Len(rules) + 1}, Append(rules, r))
<1> DEFINE n == Len(rules)
           more == Append(rules, r)
<1>1. /\ n \in Nat /\ more[n + 1] = r /\ \A i \in 1..n : more[i] = rules[i]
  OBVIOUS
<1>2. /\ r.priority \in Nat
      /\ \A i \in 1..n : rules[i] # NoRule /\ rules[i].priority \in Nat
  BY DEF AreRules
<1>3. n + 1 \notin S
  BY <1>1
<1> HIDE DEF n, more
<1>4. CASE S = {}
  <2>1. Held(old, S, more) /\ old = NoRule
    BY <1>4 DEF Held
  <2>2. Held(r, S \cup {n + 1}, more)
    BY <1>1, <1>4 DEF Held
  <2> QED BY <2>1, <2>2 DEF Merged, n, more
<1>5. CASE S # {}
  <2>1. PICK i \in S : old = rules[i] /\ \A j \in S : j # i => rules[j].priority < rules[i].priority
    BY <1>5 DEF Held
  <2>2. \A j \in S : j \in 1..n /\ more[j] = rules[j] /\ j # n + 1
    BY <1>1, <1>3 DEF n
  <2>3. Held(old, S, more)
    BY <1>5, <2>1, <2>2 DEF Held
  <2>4. old # NoRule /\ old.priority \in Nat
    BY <1>2, <2>1, <2>2
  <2>5. ASSUME NEW new, Merged(old, r, new) PROVE Held(new, S \cup {n + 1}, more)
    <3>1. CASE old.priority < r.priority
      <4>1. new = r
        BY <2>4, <2>5, <3>1 DEF Merged
      <4>2. \A j \in S : rules[j].priority < r.priority
        BY <1>2, <2>1, <2>2, <2>4, <3>1
      <4>3. \A j \in S \cup {n + 1} : j # n + 1 => more[j].priority < more[n + 1].priority
        BY <1>1, <2>2, <4>2
      <4> QED BY <1>1, <4>1, <4>3 DEF Held
    <3>2. CASE ~(old.priority < r.priority)
      <4>1. new = old /\ r.priority < old.priority
        BY <1>2, <2>4, <2>5, <3>2 DEF Merged
      <4>2. \A j \in S \cup {n + 1} : j # i => more[j].priority < more[i].priority
        BY <1>1, <2>1, <2>2, <4>1
      <4>3. new = more[i] /\ i \in S \cup {n + 1}
        BY <2>1, <2>2, <4>1
      <4> QED BY <4>2, <4>3 DEF Held
    <3> QED BY <3>1, <3>2
  <2> QED BY <2>3, <2>5 DEF n, more
<1> QED BY <1>4, <1>5

\* Who names a key, with one more rule.
LEMMA NamingGrows ==
    ASSUME NEW V, NEW rules \in Seq(V), NEW r \in V, added = rules, added' = Append(rules, r)
    PROVE  /\ \A p : Naming(p) \in SUBSET (1..Len(rules)) /\ Writing(p) \in SUBSET (1..Len(rules))
           /\ \A p : Naming(p)' = IF \E j \in 1..Len(r.domains) : r.domains[j] = p
                                  THEN Naming(p) \cup {Len(rules) + 1} ELSE Naming(p)
           /\ \A p : Writing(p)' = IF \E j \in 1..Len(r.cidrs) : r.cidrs[j] = p
                                      THEN Writing(p) \cup {Len(rules) + 1} ELSE Writing(p)
<1> DEFINE n == Len(rules)
<1>1. /\ n \in Nat /\ Len(added') = n + 1 /\ added'[n + 1] = r
      /\ \A i \in 1..n : added'[i] = added[i]
  OBVIOUS
<1>2. \A i : i \in 1..(n + 1) <=> i \in 1..n \/ i = n + 1
  BY <1>1
<1>3. \A p : Naming(p) \in SUBSET (1..n) /\ Writing(p) \in SUBSET (1..n)
  BY DEF Naming, Writing
<1>4. ASSUME NEW p
      PROVE  Naming(p)' = IF \E j \in 1..Len(r.domains) : r.domains[j] = p
                          THEN Naming(p) \cup {n + 1} ELSE Naming(p)
  <2>1. Naming(p)' = {i \in 1..(n + 1) : \E j \in 1..Len(added'[i].domains) : added'[i].domains[j] = p}
    BY <1>1 DEF Naming
  <2>2. Naming(p) = {i \in 1..n : \E j \in 1..Len(added[i].domains) : added[i].domains[j] = p}
    BY DEF Naming
  <2>3. \A i \in 1..n : i \in Naming(p)' <=> i \in Naming(p)
    BY <1>1, <1>2, <2>1, <2>2
  <2>4. n + 1 \in Naming(p)' <=> \E j \in 1..Len(r.domains) : r.domains[j] = p
    BY <1>1, <1>2, <2>1
  <2>5. /\ \A i \in Naming(p)' : i \in 1..n \/ i = n + 1
        /\ \A i \in Naming(p) : i \in 1..n
    BY <1>2, <2>1, <2>2
  <2>6. n + 1 \notin 1..n
    BY <1>1
  <2> HIDE DEF n
  <2>7. PICK A, B : A = Naming(p)' /\ B = Naming(p)
    OBVIOUS
  <2>8. CASE \E j \in 1..Len(r.domains) : r.domains[j] = p
    <3>1. A = B \cup {n + 1}
      BY <2>3, <2>4, <2>5, <2>6, <2>7, <2>8
    <3> QED BY <2>7, <2>8, <3>1
  <2>9. CASE ~\E j \in 1..Len(r.domains) : r.domains[j] = p
    <3>1. A = B
      BY <2>3, <2>4, <2>5, <2>6, <2>7, <2>9
    <3> QED BY <2>7, <2>9, <3>1
  <2> QED BY <2>8, <2>9
<1>5. ASSUME NEW p
      PROVE  Writing(p)' = IF \E j \in 1..Len(r.cidrs) : r.cidrs[j] = p
                              THEN Writing(p) \cup {n + 1} ELSE Writing(p)
  <2>1. Writing(p)' = {i \in 1..(n + 1) : \E j \in 1..Len(added'[i].cidrs) : added'[i].cidrs[j] = p}
    BY <1>1 DEF Writing
  <2>2. Writing(p) = {i \in 1..n : \E j \in 1..Len(added[i].cidrs) : added[i].cidrs[j] = p}
    BY DEF Writing
  <2>3. \A i \in 1..n : i \in Writing(p)' <=> i \in Writing(p)
    BY <1>1, <1>2, <2>1, <2>2
  <2>4. n + 1 \in Writing(p)' <=> \E j \in 1..Len(r.cidrs) : r.cidrs[j] = p
    BY <1>1, <1>2, <2>1
  <2>5. /\ \A i \in Writing(p)' : i \in 1..n \/ i = n + 1
        /\ \A i \in Writing(p) : i \in 1..n
    BY <1>2, <2>1, <2>2
  <2>6. n + 1 \notin 1..n
    BY <1>1
  <2> HIDE DEF n
  <2>7. PICK A, B : A = Writing(p)' /\ B = Writing(p)
    OBVIOUS
  <2>8. CASE \E j \in 1..Len(r.cidrs) : r.cidrs[j] = p
    <3>1. A = B \cup {n + 1}
      BY <2>3, <2>4, <2>5, <2>6, <2>7, <2>8
    <3> QED BY <2>7, <2>8, <3>1
  <2>9. CASE ~\E j \in 1..Len(r.cidrs) : r.cidrs[j] = p
    <3>1. A = B
      BY <2>3, <2>4, <2>5, <2>6, <2>7, <2>9
    <3> QED BY <2>7, <2>9, <3>1
  <2> QED BY <2>8, <2>9
<1> QED BY <1>3, <1>4, <1>5


\* What the first loop of Add makes of the trie.
LEMMA DomainsPut ==
    ASSUME NEW V, \A v \in V : IsRule(v), TreesHold(V), PriorityInv, ~failed, NEW r \in V
    PROVE  LET res == PutDomains(r)
           IN  /\ res \in Loop(Pattern, Pattern, V)
               /\ res.ok => \A p \in Pattern :
                      /\ res.tree[p] = res.keys[p]
                      /\ IF \E j \in 1..Len(r.domains) : r.domains[j] = p
                         THEN Merged(domainKeys[p], r, res.keys[p])
                         ELSE res.keys[p] = domainKeys[p]
<1> DEFINE acc == [ok |-> TRUE, tree |-> domain, keys |-> domainKeys]
           place == [p \in Pattern |-> p]
<1>1. AreRules(V)
  BY DEF AreRules, IsRule
<1>2. acc \in Loop(Pattern, Pattern, V)
  BY DEF TreesHold, Loop
<1>3. PICK keys \in Seq(Pattern) : keys = r.domains
  BY DEF IsRule
<1>4. place \in [Pattern -> Pattern] /\ \A p \in Pattern : place[p] = p
  OBVIOUS
<1>5. \A j \in 1..Len(keys) : keys[j] \in Pattern
  OBVIOUS
<1>6. \A p \in Pattern : acc.tree[p] = acc.keys[p]
  BY DEF PriorityInv
<1>7. acc.keys = domainKeys
  OBVIOUS
<1>8. PutDomains(r) = PutAll(acc, r, keys, keys)
  BY <1>3 DEF PutDomains
<1> HIDE DEF acc, place
<1>9. LET res == PutAll(acc, r, keys, keys)
      IN  /\ res \in Loop(Pattern, Pattern, V)
          /\ res.ok => /\ acc.ok
                       /\ \A key \in Pattern :
                            IF \E j \in 1..Len(keys) : keys[j] = key
                            THEN Merged(acc.keys[key], r, res.keys[key])
                            ELSE res.keys[key] = acc.keys[key]
  BY <1>1, <1>2, <1>5, PutAllMerges
<1>10. LET res == PutAll(acc, r, keys, keys) IN Backed(res.tree, res.keys, Pattern, Pattern, place)
  <2>1. Placed(keys, keys, Pattern, place)
    BY <1>4, <1>5 DEF Placed
  <2>2. Backed(acc.tree, acc.keys, Pattern, Pattern, place)
    BY <1>4, <1>6 DEF Backed
  <2> QED BY <1>1, <1>2, <1>4, <2>1, <2>2, PutAllBacks
<1>11. PICK res : res = PutDomains(r)
  OBVIOUS
<1>12. /\ res \in Loop(Pattern, Pattern, V)
       /\ res.ok => \A p \in Pattern :
              IF \E j \in 1..Len(r.domains) : r.domains[j] = p
              THEN Merged(domainKeys[p], r, res.keys[p])
              ELSE res.keys[p] = domainKeys[p]
  BY <1>3, <1>7, <1>8, <1>9, <1>11
<1>13. \A p \in Pattern : res.tree[p] = res.keys[p]
  BY <1>4, <1>8, <1>10, <1>11 DEF Backed
<1> QED BY <1>11, <1>12, <1>13

\* What the second loop makes of the tree of prefixes.
LEMMA CIDRsPut ==
    ASSUME NEW V, \A v \in V : IsRule(v), TreesHold(V), PriorityInv, ~failed, NEW r \in V,
           NEW ok \in BOOLEAN
    PROVE  LET res == PutCIDRs(r, ok)
           IN  /\ res \in Loop(CIDR, Prefixes, V)
               /\ res.ok =>
                    /\ ok
                    /\ \A c \in CIDR :
                           IF \E j \in 1..Len(r.cidrs) : r.cidrs[j] = c
                           THEN Merged(cidrKeys[c], r, res.keys[c])
                           ELSE res.keys[c] = cidrKeys[c]
               /\ Backed(res.tree, res.keys, CIDR, Prefixes, PlaceOf)
<1> DEFINE acc == [ok |-> ok, tree |-> cidr, keys |-> cidrKeys]
<1>1. AreRules(V)
  BY DEF AreRules, IsRule
<1>2. acc \in Loop(CIDR, Prefixes, V)
  BY DEF TreesHold, Loop
<1>3. PICK keys \in Seq(CIDR) : keys = r.cidrs
  BY DEF IsRule
<1> DEFINE nodes == [j \in DOMAIN keys |-> PrefixOf(keys[j])]
<1>4. PlaceOf \in [CIDR -> Prefixes] /\ \A c \in CIDR : PlaceOf[c] = PrefixOf(c)
  BY DEF Prefixes, PlaceOf
<1>5. \A j \in 1..Len(keys) : keys[j] \in CIDR /\ nodes[j] = PrefixOf(keys[j]) /\ nodes[j] \in Prefixes
  BY DEF Prefixes
<1>7. acc.keys = cidrKeys /\ acc.tree = cidr /\ acc.ok = ok
  OBVIOUS
<1>8. PutCIDRs(r, ok) = PutAll(acc, r, keys, nodes)
  BY <1>3 DEF PutCIDRs
<1> HIDE DEF acc, nodes
<1>9. LET res == PutAll(acc, r, keys, nodes)
      IN  /\ res \in Loop(CIDR, Prefixes, V)
          /\ res.ok => /\ acc.ok
                       /\ \A key \in CIDR :
                            IF \E j \in 1..Len(keys) : keys[j] = key
                            THEN Merged(acc.keys[key], r, res.keys[key])
                            ELSE res.keys[key] = acc.keys[key]
  BY <1>1, <1>2, <1>5, PutAllMerges
<1>10. LET res == PutAll(acc, r, keys, nodes) IN Backed(res.tree, res.keys, CIDR, Prefixes, PlaceOf)
  <2>1. Placed(keys, nodes, CIDR, PlaceOf)
    BY <1>4, <1>5 DEF Placed
  <2>2. Backed(acc.tree, acc.keys, CIDR, Prefixes, PlaceOf)
    BY <1>7 DEF PriorityInv
  <2> QED BY <1>1, <1>2, <1>4, <2>1, <2>2, PutAllBacks
<1>11. PICK res : res = PutCIDRs(r, ok)
  OBVIOUS
<1>12. /\ res \in Loop(CIDR, Prefixes, V)
       /\ res.ok =>
            /\ ok
            /\ \A c \in CIDR :
                   IF \E j \in 1..Len(r.cidrs) : r.cidrs[j] = c
                   THEN Merged(cidrKeys[c], r, res.keys[c])
                   ELSE res.keys[c] = cidrKeys[c]
  BY <1>3, <1>7, <1>8, <1>9, <1>11
<1>13. Backed(res.tree, res.keys, CIDR, Prefixes, PlaceOf)
  BY <1>8, <1>10, <1>11
<1> QED BY <1>11, <1>12, <1>13


\* Add keeps what the rule set promises.
LEMMA AddKeeps ==
    ASSUME NEW V, \A v \in V : IsRule(v), TreesHold(V), PriorityInv, NEW r \in V, Add(r)
    PROVE  TreesHold(V)' /\ PriorityInv' /\ failed' \in BOOLEAN
<1>1. PICK d : d = PutDomains(r)
  OBVIOUS
<1>2. ~failed
  BY DEF Add
<1>3. /\ d \in Loop(Pattern, Pattern, V)
      /\ d.ok => \A p \in Pattern :
             /\ d.tree[p] = d.keys[p]
             /\ IF \E j \in 1..Len(r.domains) : r.domains[j] = p
                THEN Merged(domainKeys[p], r, d.keys[p])
                ELSE d.keys[p] = domainKeys[p]
  BY <1>1, <1>2, DomainsPut
<1>4. PICK ok \in BOOLEAN : ok = d.ok
  BY <1>3, Zenon DEF Loop
<1>5. PICK c : c = PutCIDRs(r, ok)
  OBVIOUS
<1>6. /\ c \in Loop(CIDR, Prefixes, V)
      /\ c.ok =>
           /\ ok
           /\ \A x \in CIDR :
                  IF \E j \in 1..Len(r.cidrs) : r.cidrs[j] = x
                  THEN Merged(cidrKeys[x], r, c.keys[x])
                  ELSE c.keys[x] = cidrKeys[x]
      /\ Backed(c.tree, c.keys, CIDR, Prefixes, PlaceOf)
  BY <1>2, <1>5, CIDRsPut
<1>7. /\ domain' = d.tree /\ domainKeys' = d.keys /\ cidr' = c.tree /\ cidrKeys' = c.keys
      /\ failed' = ~c.ok
      /\ added' = IF c.ok THEN Append(added, r) ELSE added
  BY <1>1, <1>4, <1>5, Zenon DEF Add
<1>8. /\ d.tree \in [Pattern -> V \cup {NoRule}] /\ d.keys \in [Pattern -> V \cup {NoRule}]
      /\ c.tree \in [Prefixes -> V \cup {NoRule}] /\ c.keys \in [CIDR -> V \cup {NoRule}]
  BY <1>3, <1>6 DEF Loop
<1>9. PICK fine \in BOOLEAN : fine = c.ok
  BY <1>6, Zenon DEF Loop
<1>10. added \in Seq(V)
  BY DEF TreesHold
<1>11. added' \in Seq(V)
  BY <1>7, <1>10
<1>12. TreesHold(V)'
  BY <1>7, <1>8, <1>11 DEF TreesHold, Pattern, Node, Prefixes, PrefixOf, CIDR
<1>13. failed' = ~fine
  BY <1>7, <1>9
<1>14. ASSUME fine PROVE PriorityInv'
  <2>1. added' = Append(added, r) /\ c.ok /\ d.ok
    BY <1>4, <1>6, <1>7, <1>9, <1>14
  <2>2. AreRules(V)
    BY DEF AreRules, IsRule
  <2>3. PICK rules \in Seq(V) : rules = added
    BY <1>10
  <2>4. /\ \A p : Naming(p) \in SUBSET (1..Len(rules)) /\ Writing(p) \in SUBSET (1..Len(rules))
        /\ \A p : Naming(p)' = IF \E j \in 1..Len(r.domains) : r.domains[j] = p
                               THEN Naming(p) \cup {Len(rules) + 1} ELSE Naming(p)
        /\ \A p : Writing(p)' = IF \E j \in 1..Len(r.cidrs) : r.cidrs[j] = p
                                   THEN Writing(p) \cup {Len(rules) + 1} ELSE Writing(p)
    BY <2>1, <2>3, NamingGrows
  <2>5. ASSUME NEW p \in Pattern
        PROVE  domain'[p] = domainKeys'[p] /\ Held(domainKeys'[p], Naming(p)', added')
    <3>1. Held(domainKeys[p], Naming(p), rules)
      BY <1>2, <2>3 DEF PriorityInv
    <3>2. /\ Held(domainKeys[p], Naming(p), Append(rules, r))
          /\ \A new : Merged(domainKeys[p], r, new) =>
                  Held(new, Naming(p) \cup {Len(rules) + 1}, Append(rules, r))
      BY <2>2, <2>4, <3>1, HeldGrows
    <3>3. /\ d.tree[p] = d.keys[p]
          /\ IF \E j \in 1..Len(r.domains) : r.domains[j] = p
             THEN Merged(domainKeys[p], r, d.keys[p])
             ELSE d.keys[p] = domainKeys[p]
      BY <1>3, <2>1
    <3>4. CASE \E j \in 1..Len(r.domains) : r.domains[j] = p
      <4>1. Naming(p)' = Naming(p) \cup {Len(rules) + 1}
        BY <2>4, <3>4
      <4> QED BY <1>7, <2>1, <2>3, <3>2, <3>3, <3>4, <4>1
    <3>5. CASE ~\E j \in 1..Len(r.domains) : r.domains[j] = p
      <4>1. Naming(p)' = Naming(p)
        BY <2>4, <3>5
      <4> QED BY <1>7, <2>1, <2>3, <3>2, <3>3, <3>5, <4>1
    <3> QED BY <3>4, <3>5
  <2>6. ASSUME NEW x \in CIDR
        PROVE  Held(cidrKeys'[x], Writing(x)', added')
    <3>1. Held(cidrKeys[x], Writing(x), rules)
      BY <1>2, <2>3 DEF PriorityInv
    <3>2. /\ Held(cidrKeys[x], Writing(x), Append(rules, r))
          /\ \A new : Merged(cidrKeys[x], r, new) =>
                  Held(new, Writing(x) \cup {Len(rules) + 1}, Append(rules, r))
      BY <2>2, <2>4, <3>1, HeldGrows
    <3>3. IF \E j \in 1..Len(r.cidrs) : r.cidrs[j] = x
          THEN Merged(cidrKeys[x], r, c.keys[x])
          ELSE c.keys[x] = cidrKeys[x]
      BY <1>6, <2>1
    <3>4. CASE \E j \in 1..Len(r.cidrs) : r.cidrs[j] = x
      <4>1. Writing(x)' = Writing(x) \cup {Len(rules) + 1}
        BY <2>4, <3>4
      <4> QED BY <1>7, <2>1, <2>3, <3>2, <3>3, <3>4, <4>1
    <3>5. CASE ~\E j \in 1..Len(r.cidrs) : r.cidrs[j] = x
      <4>1. Writing(x)' = Writing(x)
        BY <2>4, <3>5
      <4> QED BY <1>7, <2>1, <2>3, <3>2, <3>3, <3>5, <4>1
    <3> QED BY <3>4, <3>5
  <2>7. Backed(cidr', cidrKeys', CIDR, Prefixes, PlaceOf)
    BY <1>6, <1>7
  <2> QED BY <2>5, <2>6, <2>7, Zenon DEF PriorityInv, Backed, PlaceOf
<1>15. ASSUME ~fine PROVE PriorityInv'
  BY <1>13, <1>15 DEF PriorityInv
<1> QED BY <1>12, <1>13, <1>14, <1>15


\* The best of the rules that are held comes out on top.
LEMMA HeldIsTop ==
    ASSUME NEW V, AreRules(V), added \in Seq(V), NEW val, NEW S \in SUBSET (1..Len(added)), S # {},
           Held(val, S, added)
    PROVE  \E i \in Top(S) : Top(S) = {i} /\ val = added[i]
<1>1. PICK i \in S : val = added[i] /\ \A j \in S : j # i => added[j].priority < added[i].priority
  BY DEF Held
<1>2. \A j \in S : added[j] \in V /\ added[j].priority \in Nat
  BY DEF AreRules
<1>3. i \in Top(S)
  BY <1>1, <1>2 DEF Top
<1>4. \A j \in Top(S) : j = i
  BY <1>1, <1>2 DEF Top
<1> QED BY <1>1, <1>3, <1>4

\* From this follows what PriorityWins says of patterns ...
LEMMA PatternsByPriority ==
    ASSUME NEW V, \A v \in V : IsRule(v), TreesHold(V), PriorityInv
    PROVE  DomainPriority
<1> SUFFICES ASSUME ~failed, NEW p \in Pattern
             PROVE  /\ domain[p] = domainKeys[p]
                    /\ IF Naming(p) = {} THEN domain[p] = NoRule
                       ELSE \E i \in Top(Naming(p)) :
                                Top(Naming(p)) = {i} /\ domain[p] = added[i]
  BY DEF DomainPriority
<1>1. domain[p] = domainKeys[p] /\ Held(domain[p], Naming(p), added)
  BY DEF PriorityInv
<1>2. Naming(p) \in SUBSET (1..Len(added))
  BY DEF Naming
<1>3. AreRules(V) /\ added \in Seq(V)
  BY DEF AreRules, IsRule, TreesHold
<1>4. CASE Naming(p) = {}
  BY <1>1, <1>4 DEF Held
<1>5. CASE Naming(p) # {}
  <2>1. \E i \in Top(Naming(p)) : Top(Naming(p)) = {i} /\ domain[p] = added[i]
    BY <1>1, <1>2, <1>3, <1>5, HeldIsTop
  <2> QED BY <1>1, <1>5, <2>1
<1> QED BY <1>4, <1>5

\* ... and of CIDRs, since a place holds what one of its spellings holds.
LEMMA PrefixesByPriority ==
    ASSUME NEW V, \A v \in V : IsRule(v), TreesHold(V), PriorityInv
    PROVE  CIDRPriority
<1> SUFFICES ASSUME ~failed, NEW n \in DOMAIN cidr
             PROVE  IF Covering(n) = {} THEN cidr[n] = NoRule
                    ELSE \E c \in CIDR :
                            /\ PrefixOf(c) = n
                            /\ \E i \in Top(Writing(c)) : Top(Writing(c)) = {i} /\ cidr[n] = added[i]
  BY DEF CIDRPriority
<1>1. AreRules(V) /\ added \in Seq(V) /\ n \in Prefixes
  BY DEF AreRules, IsRule, TreesHold
<1>2. /\ \A c \in CIDR : cidrKeys[c] # NoRule => cidr[PrefixOf(c)] # NoRule
      /\ cidr[n] # NoRule => \E c \in CIDR : PrefixOf(c) = n /\ cidrKeys[c] = cidr[n]
  BY <1>1 DEF PriorityInv, Backed, PlaceOf
<1>3. \A c \in CIDR : Held(cidrKeys[c], Writing(c), added)
  BY DEF PriorityInv
<1>4. \A c \in CIDR : Writing(c) \in SUBSET (1..Len(added))
  BY DEF Writing
<1>5. ASSUME NEW c \in CIDR, Writing(c) # {}
      PROVE  /\ cidrKeys[c] # NoRule
             /\ \E i \in Top(Writing(c)) : Top(Writing(c)) = {i} /\ cidrKeys[c] = added[i]
  <2>1. \E i \in Top(Writing(c)) : Top(Writing(c)) = {i} /\ cidrKeys[c] = added[i]
    BY <1>1, <1>3, <1>4, <1>5, HeldIsTop
  <2>2. \A i \in Top(Writing(c)) : added[i] # NoRule
    BY <1>1, <1>4 DEF Top, AreRules
  <2> QED BY <2>1, <2>2
<1>6. \A c \in CIDR : cidrKeys[c] # NoRule => Writing(c) # {}
  BY <1>3 DEF Held
<1>7. \A c \in CIDR : PrefixOf(c) = n /\ Writing(c) # {} => Covering(n) # {}
  BY DEF Writing, Covering
<1>8. Covering(n) # {} => \E c \in CIDR : PrefixOf(c) = n /\ Writing(c) # {}
  <2> SUFFICES ASSUME NEW i \in 1..Len(added), NEW j \in 1..Len(added[i].cidrs),
                      PrefixOf(added[i].cidrs[j]) = n
               PROVE  \E c \in CIDR : PrefixOf(c) = n /\ Writing(c) # {}
    BY DEF Covering
  <2>1. IsRule(added[i])
    BY <1>1
  <2>2. added[i].cidrs[j] \in CIDR
    BY <2>1 DEF IsRule
  <2>3. i \in Writing(added[i].cidrs[j])
    BY DEF Writing
  <2> QED BY <2>2, <2>3
<1>9. CASE Covering(n) = {}
  BY <1>2, <1>6, <1>7, <1>9
<1>10. CASE Covering(n) # {}
  <2>1. cidr[n] # NoRule
    BY <1>2, <1>5, <1>8, <1>10
  <2>2. PICK c \in CIDR : PrefixOf(c) = n /\ cidrKeys[c] = cidr[n]
    BY <1>2, <2>1
  <2>3. Writing(c) # {}
    BY <1>6, <2>1, <2>2
  <2> QED BY <1>5, <1>10, <2>2, <2>3
<1> QED BY <1>9, <1>10

\* A search finds a rule that is held, or none.
LEMMA DomainFinds ==
    ASSUME NEW V, TreesHold(V), NEW d \in Domain
    PROVE  searchDomain(d) \in V \cup {NoRule}
<1>1. domain \in [Pattern -> V \cup {NoRule}] /\ DOMAIN domain = Pattern
  BY DEF TreesHold
<1>2. IF Matching(d) = {} THEN Search(d) = NotFound ELSE Search(d) \in Matching(d)
  BY <1>1, SearchIsRight DEF SearchFindsTheMostSpecific, FindsIffMatches
<1>3. Search(d) = NotFound \/ Search(d) \in Pattern
  BY <1>2 DEF Matching, stored
<1> QED BY <1>1, <1>3 DEF searchDomain

\* FindDeepestTag returns what some prefix of the address holds.
LEMMA AddrFinds ==
    ASSUME NEW V, TreesHold(V), NEW a \in Addr
    PROVE  searchAddr(a) \in V \cup {NoRule}
<1> DEFINE hits == {n \in 0..AddrBits : cidr[SubSeq(a, 1, n)] # NoRule}
           deepest == CHOOSE n \in hits : \A m \in hits : n >= m
<1>1. AddrBits \in Nat
  BY AddrAssumption
<1>2. CASE hits = {}
  BY <1>2 DEF searchAddr
<1>3. CASE hits # {}
  <2> DEFINE T == {AddrBits - n : n \in hits}
  <2>1. T \in SUBSET Nat /\ T # {}
    BY <1>1, <1>3
  <2>2. PICK x \in T : \A y \in T : x <= y
    BY <2>1, LeastNat
  <2>3. PICK n \in hits : x = AddrBits - n
    OBVIOUS
  <2>4. ASSUME NEW m \in hits PROVE n >= m
    <3>1. AddrBits - m \in T
      OBVIOUS
    <3>2. AddrBits - n <= AddrBits - m
      BY <2>2, <2>3, <3>1
    <3> HIDE DEF T
    <3> QED BY <1>1, <3>2
  <2>5. deepest \in hits
    BY <2>3, <2>4
  <2>6. searchAddr(a) = cidr[SubSeq(a, 1, deepest)]
    BY <1>3 DEF searchAddr
  <2> HIDE DEF deepest
  <2>7. deepest \in 0..AddrBits
    BY <2>5
  <2>11. PICK text \in Spelling : TRUE
    BY AddrAssumption
  <2>8. [addr |-> a, len |-> deepest, text |-> text] \in CIDR
    BY <2>7, <2>11 DEF CIDR
  <2>9. PrefixOf([addr |-> a, len |-> deepest, text |-> text]) = SubSeq(a, 1, deepest)
    BY DEF PrefixOf
  <2>10. SubSeq(a, 1, deepest) \in Prefixes
    BY <2>8, <2>9 DEF Prefixes
  <2> QED BY <2>6, <2>10 DEF TreesHold
<1> QED BY <1>2, <1>3


\* HigherPriority loses neither of two matches.
Outranks(best, r) == r # NoRule => best # NoRule /\ best.priority >= r.priority

\* HigherPriority outranks both of its arguments.
LEMMA HigherIsBest ==
    ASSUME NEW V, AreRules(V), NEW a \in V \cup {NoRule}, NEW b \in V \cup {NoRule}
    PROVE  /\ HigherPriority(a, b) \in V \cup {NoRule}
           /\ Outranks(HigherPriority(a, b), a) /\ Outranks(HigherPriority(a, b), b)
<1>1. /\ a = NoRule \/ (a # NoRule /\ a.priority \in Nat)
      /\ b = NoRule \/ (b # NoRule /\ b.priority \in Nat)
  BY DEF AreRules
<1> QED BY <1>1 DEF HigherPriority, Outranks

\* Outranking is transitive.
LEMMA OutranksTrans ==
    ASSUME NEW V, AreRules(V), NEW a \in V \cup {NoRule}, NEW b \in V \cup {NoRule},
           NEW c \in V \cup {NoRule}, Outranks(a, b), Outranks(b, c)
    PROVE  Outranks(a, c)
<1>1. /\ a = NoRule \/ (a # NoRule /\ a.priority \in Nat)
      /\ b = NoRule \/ (b # NoRule /\ b.priority \in Nat)
      /\ c = NoRule \/ (c # NoRule /\ c.priority \in Nat)
  BY DEF AreRules
<1> QED BY <1>1 DEF Outranks

\* The loop over the addresses outranks the rule of each of them.
LEMMA SearchTwoAddrs ==
    ASSUME NEW a1, NEW a2
    PROVE  SearchAddrs(<<a1, a2>>) =
               HigherPriority(HigherPriority(NoRule, searchAddr(a1)), searchAddr(a2))
<1> DEFINE one == HigherPriority(NoRule, searchAddr(a1))
           two == HigherPriority(one, searchAddr(a2))
           f == [j \in 0..2 |-> IF j = 0 THEN NoRule ELSE IF j = 1 THEN one ELSE two]
           as == <<a1, a2>>
<1>1. Len(as) = 2 /\ as[1] = a1 /\ as[2] = a2
  OBVIOUS
<1>2. f[0] = NoRule /\ f[1] = one /\ f[2] = two
  <2> HIDE DEF one, two
  <2> QED OBVIOUS
<1>4. f = [j \in 0..2 |-> f[j]]
  OBVIOUS
<1>11. one = HigherPriority(NoRule, searchAddr(a1)) /\ two = HigherPriority(one, searchAddr(a2))
  OBVIOUS
<1> HIDE DEF as, f, one, two
<1>3. ASSUME NEW j \in 0..2
      PROVE  f[j] = IF j = 0 THEN NoRule ELSE HigherPriority(f[j - 1], searchAddr(as[j]))
  <2>1. CASE j = 0
    BY <1>2, <2>1
  <2>2. CASE j = 1
    <3>1. j - 1 = 0 /\ j # 0
      BY <2>2
    <3> QED BY <1>1, <1>2, <1>11, <2>2, <3>1
  <2>3. CASE j = 2
    <3>1. j - 1 = 1 /\ j # 0
      BY <2>3
    <3> QED BY <1>1, <1>2, <1>11, <2>3, <3>1
  <2>4. j = 0 \/ j = 1 \/ j = 2
    OBVIOUS
  <2> QED BY <2>1, <2>2, <2>3, <2>4
<1>5. f = [j \in 0..2 |-> IF j = 0 THEN NoRule ELSE HigherPriority(f[j - 1], searchAddr(as[j]))]
  BY <1>3, <1>4
<1>6. PICK g : /\ g = [j \in 0..Len(as) |->
                           IF j = 0 THEN NoRule ELSE HigherPriority(g[j - 1], searchAddr(as[j]))]
               /\ SearchAddrs(as) = g[Len(as)]
  BY <1>1, <1>5, Zenon DEF SearchAddrs
<1>12. \A j \in 0..2 : g[j] = IF j = 0 THEN NoRule ELSE HigherPriority(g[j - 1], searchAddr(as[j]))
  BY <1>1, <1>6
<1>7. /\ g[0] = NoRule
      /\ g[1] = HigherPriority(g[1 - 1], searchAddr(as[1]))
      /\ g[2] = HigherPriority(g[2 - 1], searchAddr(as[2]))
  <2>1. 0 \in 0..2 /\ 1 \in 0..2 /\ 2 \in 0..2 /\ 1 # 0 /\ 2 # 0
    OBVIOUS
  <2> QED BY <1>12, <2>1
<1>8. 1 - 1 = 0 /\ 2 - 1 = 1
  OBVIOUS
<1>9. g[1] = one
  BY <1>1, <1>7, <1>8, <1>11
<1>10. g[2] = two
  BY <1>1, <1>7, <1>8, <1>9, <1>11
<1> QED BY <1>1, <1>6, <1>10, <1>11 DEF as

\* And the rule of a connection those of its name and its addresses.
LEMMA ConnectionGetsTheBest ==
    ASSUME NEW V, \A v \in V : IsRule(v), TreesHold(V)
    PROVE  BestMatchIsBest
<1>1. AreRules(V)
  BY DEF AreRules, IsRule
<1>2. ASSUME NEW d \in Domain, NEW a1 \in Addr, NEW a2 \in Addr
      PROVE  \A r \in {searchDomain(d), searchAddr(a1), searchAddr(a2)} :
                 Outranks(bestMatch(searchDomain(d), <<a1, a2>>), r)
  <2>1. PICK n, x, y \in V \cup {NoRule} : n = searchDomain(d) /\ x = searchAddr(a1) /\ y = searchAddr(a2)
    BY DomainFinds, AddrFinds
  <2>2. PICK one : one = HigherPriority(NoRule, x)
    OBVIOUS
  <2>3. PICK two : two = HigherPriority(one, y)
    OBVIOUS
  <2>4. PICK best : best = HigherPriority(two, n)
    OBVIOUS
  <2>5. best = bestMatch(searchDomain(d), <<a1, a2>>)
    BY <2>1, <2>2, <2>3, <2>4, SearchTwoAddrs DEF bestMatch
  <2>6. one \in V \cup {NoRule} /\ Outranks(one, x)
    <3>1. NoRule \in V \cup {NoRule}
      OBVIOUS
    <3> QED BY <1>1, <2>1, <2>2, <3>1, HigherIsBest
  <2>7. two \in V \cup {NoRule} /\ Outranks(two, one) /\ Outranks(two, y)
    BY <1>1, <2>1, <2>3, <2>6, HigherIsBest
  <2>8. best \in V \cup {NoRule} /\ Outranks(best, two) /\ Outranks(best, n)
    BY <1>1, <2>1, <2>4, <2>7, HigherIsBest
  <2>9. Outranks(two, x)
    BY <1>1, <2>1, <2>6, <2>7, OutranksTrans
  <2>10. Outranks(best, x) /\ Outranks(best, y)
    BY <1>1, <2>1, <2>7, <2>8, <2>9, OutranksTrans
  <2> QED BY <2>1, <2>5, <2>8, <2>10
<1> QED BY <1>2 DEF BestMatchIsBest, Outranks


-------------------------------------------------------------------------------
(***************************************************************************)
(* From the start of the program to a rule set in use.  What Load returned *)
(* is kept; only its rules are in the rule set, and nothing is there while *)
(* there is no configuration.                                              *)
(***************************************************************************)

\* The rules that may be in the rule set.
Known == IF step = "load" \/ ~cfg.ok THEN {} ELSE {cfg.rules[i] : i \in DOMAIN cfg.rules}

\* The inductive invariant.
StartInv ==
    /\ input \in Inputs
    /\ step \in {"load", "rules", "ready", "error"}
    /\ failed \in BOOLEAN
    /\ step = "load" => ~failed
    /\ step # "load" => cfg = Load(input)
    /\ step \in {"rules", "ready"} => cfg.ok /\ ~failed
    /\ step = "ready" => sniffers = {fake \in {"fake", "udpFake"} : NeedsPcap(cfg, fake)}
    /\ TreesHold(Known)
    /\ PriorityInv

\* What Load returned are rules.
LEMMA KnownAreRules ==
    ASSUME StartInv
    PROVE  \A v \in Known : IsRule(v)
<1>1. CASE step = "load" \/ ~cfg.ok
  BY <1>1 DEF Known
<1>2. CASE step # "load" /\ cfg.ok
  <2>1. input \in Inputs /\ cfg = Load(input)
    BY <1>2 DEF StartInv
  <2>2. \A i \in DOMAIN cfg.rules : IsRule(cfg.rules[i])
    BY <1>2, <2>1, LoadShape
  <2>3. Known = {cfg.rules[i] : i \in DOMAIN cfg.rules}
    BY <1>2 DEF Known
  <2> QED BY <2>2, <2>3
<1> QED BY <1>1, <1>2

\* Types may be widened.
LEMMA TreesGrow ==
    ASSUME NEW V, NEW W, V \subseteq W, TreesHold(V)
    PROVE  TreesHold(W)
<1>1. added \in Seq(W)
  BY DEF TreesHold
<1>2. V \cup {NoRule} \subseteq W \cup {NoRule}
  OBVIOUS
<1>3. ASSUME NEW D, NEW f \in [D -> V \cup {NoRule}] PROVE f \in [D -> W \cup {NoRule}]
  BY <1>2
<1> QED BY <1>1, <1>3 DEF TreesHold

\* Nothing is loaded and nothing stored at the start.
LEMMA StartInvInit == StartInit => StartInv
<1> SUFFICES ASSUME StartInit PROVE StartInv
  OBVIOUS
<1>1. Known = {} /\ failed = FALSE /\ added = <<>>
  BY DEF StartInit, Init, Known
<1>2. TreesHold({})
  <2>1. added \in Seq({})
    BY <1>1
  <2> QED BY <2>1 DEF StartInit, Init, TreesHold, Prefixes
<1>3. ~\E i : i \in 1..Len(added)
  BY <1>1
<1>4. \A p : Naming(p) = {} /\ Writing(p) = {}
  BY <1>3 DEF Naming, Writing
<1>5. PriorityInv
  <2>1. \A p \in Pattern : domain[p] = domainKeys[p] /\ Held(domainKeys[p], Naming(p), added)
    BY <1>4 DEF StartInit, Init, Held
  <2>2. \A c \in CIDR : Held(cidrKeys[c], Writing(c), added)
    BY <1>4 DEF StartInit, Init, Held
  <2>3. Backed(cidr, cidrKeys, CIDR, Prefixes, PlaceOf)
    BY DEF StartInit, Init, Backed, Prefixes
  <2> QED BY <2>1, <2>2, <2>3 DEF PriorityInv
<1> QED BY <1>1, <1>2, <1>5 DEF StartInv, StartInit

\* Load leaves the rule set alone.
LEMMA LoadKeeps == StartInv /\ LoadConfig => StartInv'
<1> SUFFICES ASSUME StartInv, LoadConfig PROVE StartInv'
  OBVIOUS
<1>1. /\ step = "load" /\ cfg' = Load(input) /\ input' = input
      /\ step' = IF Load(input).ok THEN "rules" ELSE "error"
      /\ domain' = domain /\ domainKeys' = domainKeys /\ cidr' = cidr /\ cidrKeys' = cidrKeys
      /\ added' = added /\ failed' = failed
  BY DEF LoadConfig, vars
<1>2. Known = {}
  BY <1>1 DEF Known
<1>3. TreesHold({})
  BY <1>2 DEF StartInv
<1>4. TreesHold(Known')
  BY <1>3, TreesGrow
<1>5. TreesHold(Known)'
  BY <1>1, <1>4 DEF TreesHold
<1>6. PriorityInv'
  BY <1>1 DEF StartInv, PriorityInv, Naming, Writing
<1>7. step' \in {"rules", "error"} /\ (step' = "rules" => Load(input).ok)
  BY <1>1
<1> QED BY <1>1, <1>5, <1>6, <1>7 DEF StartInv

\* Adding the next rule is AddKeeps, with one more position.
LEMMA AddRuleKeeps == StartInv /\ AddRule => StartInv'
<1> SUFFICES ASSUME StartInv, AddRule PROVE StartInv'
  OBVIOUS
<1>1. /\ step = "rules" /\ cfg' = cfg /\ input' = input /\ sniffers' = sniffers
      /\ step' = IF failed' THEN "error" ELSE step
      /\ Len(added) < Len(cfg.rules)
      /\ Add(cfg.rules[Len(added) + 1])
  BY DEF AddRule
<1>2. cfg = Load(input) /\ cfg.ok /\ ~failed /\ input \in Inputs
  BY <1>1 DEF StartInv
<1>3. Known = {cfg.rules[i] : i \in DOMAIN cfg.rules} /\ step' \in {"rules", "error"}
  BY <1>1, <1>2 DEF Known
<1>4. PICK V : V = Known
  OBVIOUS
<1>5. Known' = V
  <2>1. step' # "load" /\ cfg'.ok
    BY <1>1, <1>2, <1>3
  <2> QED BY <1>1, <1>3, <1>4, <2>1 DEF Known
<1>6. \A v \in V : IsRule(v)
  BY <1>4, KnownAreRules
<1>7. TreesHold(V) /\ PriorityInv
  BY <1>4 DEF StartInv
<1>8. PICK r \in V : r = cfg.rules[Len(added) + 1]
  <2>1. cfg.rules \in Seq(V)
    BY <1>2, <1>3, <1>4, LoadShape
  <2>2. Len(added) \in Nat
    BY <1>7 DEF TreesHold
  <2>3. Len(added) + 1 \in 1..Len(cfg.rules)
    BY <1>1, <2>1, <2>2
  <2>4. cfg.rules[Len(added) + 1] \in V
    BY <2>1, <2>3
  <2> QED BY <2>4
<1>9. TreesHold(V)' /\ PriorityInv' /\ failed' \in BOOLEAN
  BY <1>1, <1>6, <1>7, <1>8, AddKeeps
<1>10. TreesHold(Known)'
  BY <1>5, <1>9 DEF TreesHold
<1>11. step' = "rules" => ~failed'
  BY <1>1, <1>9
<1> QED BY <1>1, <1>2, <1>3, <1>9, <1>10, <1>11 DEF StartInv

\* setupPcapIO touches neither the rules nor what was loaded.
LEMMA SetupKeeps == StartInv /\ setupPcapIO => StartInv'
<1> SUFFICES ASSUME StartInv, setupPcapIO PROVE StartInv'
  OBVIOUS
<1>1. /\ step = "rules" /\ step' = "ready" /\ cfg' = cfg /\ input' = input
      /\ sniffers' = {fake \in {"fake", "udpFake"} : NeedsPcap(cfg, fake)}
      /\ domain' = domain /\ domainKeys' = domainKeys /\ cidr' = cidr /\ cidrKeys' = cidrKeys
      /\ added' = added /\ failed' = failed
  BY DEF setupPcapIO, vars
<1>2. Known' = Known
  BY <1>1 DEF Known
<1>3. TreesHold(Known)'
  BY <1>1, <1>2 DEF TreesHold, StartInv
<1>4. PriorityInv'
  BY <1>1 DEF StartInv, PriorityInv, Naming, Writing
<1>5. cfg = Load(input) /\ cfg.ok /\ ~failed
  BY <1>1 DEF StartInv
<1> QED BY <1>1, <1>3, <1>4, <1>5 DEF StartInv, NeedsPcap

\* Nor does a step that changes nothing.
LEMMA StutterKeeps == StartInv /\ UNCHANGED <<vars, startVars>> => StartInv'
<1> SUFFICES ASSUME StartInv, UNCHANGED <<vars, startVars>> PROVE StartInv'
  OBVIOUS
<1>1. /\ step' = step /\ cfg' = cfg /\ input' = input /\ sniffers' = sniffers
      /\ domain' = domain /\ domainKeys' = domainKeys /\ cidr' = cidr /\ cidrKeys' = cidrKeys
      /\ added' = added /\ failed' = failed
  BY DEF vars, startVars
<1>2. Known' = Known
  BY <1>1 DEF Known
<1>3. TreesHold(Known)'
  BY <1>1, <1>2 DEF TreesHold, StartInv
<1>4. PriorityInv'
  BY <1>1 DEF StartInv, PriorityInv, Naming, Writing
<1> QED BY <1>1, <1>3, <1>4 DEF StartInv, NeedsPcap

\* Throughout a start, the rule set holds rules of the configuration that was
\* loaded and nothing else, and under every key the best of those accepted so far.
THEOREM StartInvariant == StartSpec => []StartInv
<1>1. StartInit => StartInv
  BY StartInvInit
<1>2. StartInv /\ [StartNext]_<<vars, startVars>> => StartInv'
  BY LoadKeeps, AddRuleKeeps, SetupKeeps, StutterKeeps DEF StartNext
<1> QED BY <1>1, <1>2, PTL DEF StartSpec

\* In every rule set that the program builds, the search in the trie answers exactly
\* when a stored pattern matches, and with the most specific one (domain.go, search).
THEOREM TrieSearchIsRight == StartSpec => []SearchFindsTheMostSpecific
<1>1. StartInv => SearchFindsTheMostSpecific
  <2> SUFFICES ASSUME StartInv PROVE SearchFindsTheMostSpecific
    OBVIOUS
  <2>1. DOMAIN domain = Pattern
    BY DEF StartInv, TreesHold
  <2> QED BY <2>1, SearchIsRight
<1> QED BY <1>1, StartInvariant, PTL

\* Whatever the order of the rules in the file, RuleSet.Add leaves the one with the
\* highest priority under every pattern and every spelling of a CIDR, and one of
\* these under a prefix; and no match of a connection outranks the rule that it gets.
THEOREM PriorityDecides == StartSpec => []PriorityWins
<1>1. StartInv => PriorityWins
  <2> SUFFICES ASSUME StartInv PROVE PriorityWins
    OBVIOUS
  <2>1. PICK V : V = Known
    OBVIOUS
  <2>2. /\ \A v \in V : IsRule(v)
        /\ TreesHold(V) /\ PriorityInv
    BY <2>1, KnownAreRules DEF StartInv
  <2>3. DomainPriority /\ CIDRPriority /\ BestMatchIsBest
    BY <2>2, PatternsByPriority, PrefixesByPriority, ConnectionGetsTheBest
  <2> QED BY <2>3 DEF PriorityWins
<1> QED BY <1>1, StartInvariant, PTL


-------------------------------------------------------------------------------
(* The layers of the configuration. *)

\* The strongest of three tables that has the field.
LEMMA WinnerOfThree ==
    ASSUME NEW a, NEW b, NEW c, NEW f, f \in DOMAIN c
    PROVE  Winner(<<a, b, c>>, f) = IF f \in DOMAIN a THEN a[f]
                                    ELSE IF f \in DOMAIN b THEN b[f] ELSE c[f]
<1> DEFINE tables == <<a, b, c>>
           givers == {i \in DOMAIN tables : f \in DOMAIN tables[i]}
           least == CHOOSE i \in givers : \A j \in givers : i <= j
<1>1. DOMAIN tables = 1..3 /\ tables[1] = a /\ tables[2] = b /\ tables[3] = c
  OBVIOUS
<1>2. Winner(tables, f) = tables[least][f]
  BY DEF Winner
<1> HIDE DEF tables
<1>3. \A i : i \in givers <=> i \in 1..3 /\ f \in DOMAIN tables[i]
  BY <1>1
<1>4. 3 \in givers /\ (1 \in givers <=> f \in DOMAIN a) /\ (2 \in givers <=> f \in DOMAIN b)
  BY <1>1, <1>3
<1>5. \A i \in givers : i \in Nat /\ (i = 1 \/ i = 2 \/ i = 3)
  BY <1>3
<1> HIDE DEF givers
<1>6. \E i \in givers : \A j \in givers : i <= j
  <2>1. CASE 1 \in givers
    BY <1>5, <2>1
  <2>2. CASE 1 \notin givers /\ 2 \in givers
    BY <1>5, <2>2
  <2>3. CASE 1 \notin givers /\ 2 \notin givers
    BY <1>4, <1>5, <2>3
  <2> QED BY <2>1, <2>2, <2>3
<1>7. least \in givers /\ \A j \in givers : least <= j
  BY <1>6
<1> HIDE DEF least
<1>8. least = IF f \in DOMAIN a THEN 1 ELSE IF f \in DOMAIN b THEN 2 ELSE 3
  BY <1>4, <1>5, <1>7
<1>9. tables[least][f] = IF f \in DOMAIN a THEN a[f] ELSE IF f \in DOMAIN b THEN b[f] ELSE c[f]
  BY <1>1, <1>8
<1> QED BY <1>2, <1>9 DEF tables

\* What Load finds in the sources, where it does not fail.
LEMMA LoadedLayers ==
    ASSUME StartInv, step = "ready"
    PROVE  LET base == Finalize(Overlay(Overlay(DefaultConfig, File.base), input.cli))
               items == rulesFromMap(File)
           IN  /\ cfg.runtime = base
               /\ cfg.rules = [i \in DOMAIN items |-> resolveRule(items[i], base)]
               /\ Decodes(DefaultConfig, File.base)
               /\ \A i \in DOMAIN items : RuleIsOK(items[i], base)
               /\ input \in Inputs
<1>1. cfg = Load(input) /\ cfg.ok /\ input \in Inputs
  BY DEF StartInv
<1>2. input.path \in {"found", "none", "missing"}
  BY <1>1, InputAssumption
<1>3. PICK file : file = loadTOML(input)
  OBVIOUS
<1>4. PICK items : items = rulesFromMap(file)
  OBVIOUS
<1>5. PICK base : base = Finalize(Overlay(Overlay(DefaultConfig, file.base), input.cli))
  OBVIOUS
<1>6. PICK good \in BOOLEAN : good = (/\ input.clean \/ input.path # "missing"
                                      /\ Decodes(DefaultConfig, file.base)
                                      /\ \A i \in DOMAIN items : RuleIsOK(items[i], base))
  BY Zenon
<1>7. PICK rules : rules = [i \in DOMAIN items |-> resolveRule(items[i], base)]
  OBVIOUS
<1>8. Load(input) = [ok |-> good, runtime |-> base, rules |-> rules]
  BY <1>3, <1>4, <1>5, <1>6, <1>7, Zenon DEF Load
<1>9. cfg.runtime = base /\ cfg.rules = rules /\ cfg.ok = good
  BY <1>1, <1>8
<1>11. /\ input.clean \/ input.path # "missing"
       /\ Decodes(DefaultConfig, file.base)
       /\ \A i \in DOMAIN items : RuleIsOK(items[i], base)
  BY <1>1, <1>6, <1>9, Zenon
<1>10. file = File
  BY <1>2, <1>3, <1>11 DEF loadTOML, File
<1> QED BY <1>1, <1>4, <1>5, <1>7, <1>9, <1>10, <1>11, Zenon

\* What a rule starts from.
LEMMA RuleBaseFields ==
    ASSUME NEW base, DOMAIN base = Field, NEW f \in Field
    PROVE  RuleBase(base)[f] = IF f \in {"skip", "udpSkip"} THEN FALSE ELSE base[f]
<1>1. "skip" \in Field /\ "udpSkip" \in Field
  BY DEF Field, RuleField, HTTPSKeys, UDPKeys
<1> QED BY <1>1 DEF RuleBase

\* The fields of an overlay.
LEMMA OverlayFields ==
    ASSUME NEW config, NEW table
    PROVE  /\ DOMAIN Overlay(config, table) = Field
           /\ \A f \in Field : Overlay(config, table)[f] =
                                   IF f \in DOMAIN table THEN table[f] ELSE config[f]
BY DEF Overlay

\* Finalize fills in the listen address only.
LEMMA FinalizeFields ==
    ASSUME NEW config, DOMAIN config = Field
    PROVE  /\ DOMAIN Finalize(config) = Field
           /\ \A f \in Field \ {"listen"} : Finalize(config)[f] = config[f]
BY DEF Finalize

\* The flags override the file, the file the defaults, and a rule's own table all of
\* them but for the skip flags, which it never inherits (config.go, resolveRules).
THEOREM LayersKeepTheirOrder == StartSpec => []LayersInOrder
<1>1. StartInv => LayersInOrder
  <2> SUFFICES ASSUME StartInv, step = "ready"
               PROVE  /\ \A f \in Field \ {"listen"} :
                            cfg.runtime[f] = Winner(<<input.cli, File.base, DefaultConfig>>, f)
                      /\ \A i \in DOMAIN cfg.rules : \A f \in RuleField :
                            LET item == (File.rules \o File.overrides)[i].config
                                none == [skip |-> FALSE, udpSkip |-> FALSE]
                            IN  cfg.rules[i].config[f] = Winner(<<item, none, cfg.runtime>>, f)
    BY DEF LayersInOrder
  <2>1. PICK items : items = rulesFromMap(File)
    OBVIOUS
  <2>2. PICK low : low = Overlay(DefaultConfig, File.base)
    OBVIOUS
  <2>3. PICK high : high = Overlay(low, input.cli)
    OBVIOUS
  <2>4. PICK base : base = Finalize(high)
    OBVIOUS
  <2>5. /\ cfg.runtime = base
        /\ cfg.rules = [i \in DOMAIN items |-> resolveRule(items[i], base)]
    BY <2>1, <2>2, <2>3, <2>4, LoadedLayers
  <2>6. DOMAIN DefaultConfig = Field
    BY DEF DefaultConfig, Field, AppKeys, RuleField, ConnKeys, DNSKeys, HTTPSKeys, UDPKeys
  <2>7. /\ DOMAIN high = Field
        /\ \A f \in Field : /\ high[f] = IF f \in DOMAIN input.cli THEN input.cli[f] ELSE low[f]
                            /\ low[f] = IF f \in DOMAIN File.base THEN File.base[f] ELSE DefaultConfig[f]
    BY <2>2, <2>3, OverlayFields
  <2>8. DOMAIN base = Field /\ \A f \in Field \ {"listen"} : base[f] = high[f]
    BY <2>4, <2>7, FinalizeFields
  <2>9. ASSUME NEW f \in Field \ {"listen"}
        PROVE  cfg.runtime[f] = Winner(<<input.cli, File.base, DefaultConfig>>, f)
    <3>1. Winner(<<input.cli, File.base, DefaultConfig>>, f) =
              IF f \in DOMAIN input.cli THEN input.cli[f]
              ELSE IF f \in DOMAIN File.base THEN File.base[f] ELSE DefaultConfig[f]
      BY <2>6, WinnerOfThree
    <3> QED BY <2>5, <2>7, <2>8, <3>1
  <2>10. ASSUME NEW i \in DOMAIN cfg.rules, NEW f \in RuleField
         PROVE  LET item == (File.rules \o File.overrides)[i].config
                    none == [skip |-> FALSE, udpSkip |-> FALSE]
                IN  cfg.rules[i].config[f] = Winner(<<item, none, cfg.runtime>>, f)
    <3>1. f \in Field
      BY DEF Field
    <3>2. PICK item, none : item = (File.rules \o File.overrides)[i].config
                            /\ none = [skip |-> FALSE, udpSkip |-> FALSE]
      OBVIOUS
    <3>3. i \in DOMAIN items /\ item = items[i].config
      BY <2>1, <2>5, <3>2 DEF rulesFromMap
    <3>4. cfg.rules[i].config = Overlay(RuleBase(base), item)
      BY <2>5, <3>3 DEF resolveRule
    <3>5. cfg.rules[i].config[f] = IF f \in DOMAIN item THEN item[f] ELSE RuleBase(base)[f]
      BY <3>1, <3>4, OverlayFields
    <3>6. RuleBase(base)[f] = IF f \in {"skip", "udpSkip"} THEN FALSE ELSE base[f]
      BY <2>8, <3>1, RuleBaseFields
    <3>7. DOMAIN none = {"skip", "udpSkip"} /\ none["skip"] = FALSE /\ none["udpSkip"] = FALSE
      BY <3>2
    <3>8. Winner(<<item, none, base>>, f) = IF f \in DOMAIN item THEN item[f]
                                            ELSE IF f \in DOMAIN none THEN none[f] ELSE base[f]
      BY <2>8, <3>1, WinnerOfThree
    <3>9. cfg.rules[i].config[f] = Winner(<<item, none, base>>, f)
      BY <3>5, <3>6, <3>7, <3>8
    <3> QED BY <2>5, <3>2, <3>9
  <2> QED BY <2>9, <2>10
<1> QED BY <1>1, StartInvariant, PTL


\* The flag that gets past the check.
CustomFlag == "split" \in DOMAIN input.cli /\ input.cli.split = "custom"

\* The check of the segments reads two fields.
LEMMA SegmentsAgree ==
    ASSUME NEW c, NEW d, c["split"] = d["split"], c["segments"] = d["segments"], HasSegments(d)
    PROVE  HasSegments(c)
BY DEF HasSegments

\* The base, and with it each rule, has its segments.
LEMMA SegmentsChecked ==
    ASSUME StartInv, step = "ready"
    PROVE  \/ CustomFlag
           \/ HasSegments(cfg.runtime) /\ \A i \in DOMAIN cfg.rules : HasSegments(cfg.rules[i].config)
<1> SUFFICES ASSUME ~CustomFlag
             PROVE  HasSegments(cfg.runtime) /\ \A i \in DOMAIN cfg.rules : HasSegments(cfg.rules[i].config)
  OBVIOUS
<1>1. PICK items : items = rulesFromMap(File)
  OBVIOUS
<1>2. PICK low : low = Overlay(DefaultConfig, File.base)
  OBVIOUS
<1>3. PICK high : high = Overlay(low, input.cli)
  OBVIOUS
<1>4. PICK base : base = Finalize(high)
  OBVIOUS
<1>5. /\ cfg.runtime = base
      /\ cfg.rules = [i \in DOMAIN items |-> resolveRule(items[i], base)]
      /\ Decodes(DefaultConfig, File.base)
      /\ \A i \in DOMAIN items : RuleIsOK(items[i], base)
      /\ input \in Inputs
  BY <1>1, <1>2, <1>3, <1>4, LoadedLayers
<1>6. /\ "split" \in Field \ {"listen"} /\ "segments" \in Field \ {"listen"}
      /\ "split" \in HTTPSKeys /\ "segments" \in HTTPSKeys
      /\ "split" \notin {"skip", "udpSkip"} /\ "segments" \notin {"skip", "udpSkip"}
  BY DEF Field, RuleField, HTTPSKeys
<1>7. "segments" \notin DOMAIN input.cli
  BY <1>5, InputAssumption DEF Flag
<1>8. HasSegments(low)
  <2>1. CASE DOMAIN File.base \cap HTTPSKeys # {}
    BY <1>2, <1>5, <2>1 DEF Decodes
  <2>2. CASE DOMAIN File.base \cap HTTPSKeys = {}
    <3>1. "split" \notin DOMAIN File.base
      BY <1>6, <2>2
    <3>2. low["split"] = DefaultConfig["split"]
      BY <1>2, <1>6, <3>1, OverlayFields
    <3>3. DefaultConfig["split"] = "sni"
      BY DEF DefaultConfig
    <3> QED BY <3>2, <3>3 DEF HasSegments
  <2> QED BY <2>1, <2>2
<1>9. HasSegments(high)
  <2>1. /\ high["segments"] = low["segments"]
        /\ high["split"] = IF "split" \in DOMAIN input.cli THEN input.cli["split"] ELSE low["split"]
    BY <1>3, <1>6, <1>7, OverlayFields
  <2>2. CASE "split" \in DOMAIN input.cli
    <3>1. high["split"] # "custom"
      BY <2>1, <2>2 DEF CustomFlag
    <3> QED BY <3>1 DEF HasSegments
  <2>3. CASE "split" \notin DOMAIN input.cli
    BY <1>8, <2>1, <2>3, SegmentsAgree
  <2> QED BY <2>2, <2>3
<1>10. DOMAIN base = Field /\ base["split"] = high["split"] /\ base["segments"] = high["segments"]
  <2>1. DOMAIN high = Field
    BY <1>3, OverlayFields
  <2> QED BY <1>4, <1>6, <2>1, FinalizeFields
<1>11. HasSegments(base)
  BY <1>9, <1>10, SegmentsAgree
<1>12. ASSUME NEW i \in DOMAIN cfg.rules PROVE HasSegments(cfg.rules[i].config)
  <2>1. i \in DOMAIN items
    BY <1>5
  <2>2. PICK item : item = items[i].config
    OBVIOUS
  <2>3. PICK own : own = Overlay(RuleBase(base), item)
    OBVIOUS
  <2>4. cfg.rules[i].config = own
    BY <1>5, <2>1, <2>2, <2>3 DEF resolveRule
  <2>5. Decodes(RuleBase(base), item)
    BY <1>5, <2>1, <2>2 DEF RuleIsOK
  <2>6. CASE DOMAIN item \cap HTTPSKeys # {}
    BY <2>3, <2>4, <2>5, <2>6 DEF Decodes
  <2>7. CASE DOMAIN item \cap HTTPSKeys = {}
    <3>1. "split" \notin DOMAIN item /\ "segments" \notin DOMAIN item
      BY <1>6, <2>7
    <3>2. own["split"] = RuleBase(base)["split"] /\ own["segments"] = RuleBase(base)["segments"]
      BY <1>6, <2>3, <3>1, OverlayFields
    <3>3. RuleBase(base)["split"] = base["split"] /\ RuleBase(base)["segments"] = base["segments"]
      BY <1>6, <1>10, RuleBaseFields
    <3> QED BY <1>11, <2>4, <3>2, <3>3, SegmentsAgree
  <2> QED BY <2>6, <2>7
<1> QED BY <1>5, <1>11, <1>12

\* What a connection may get is the base or the configuration of a loaded rule.
LEMMA InUseIsLoaded ==
    ASSUME StartInv, step = "ready", NEW c \in InUse
    PROVE  c = cfg.runtime \/ \E i \in DOMAIN cfg.rules : c = cfg.rules[i].config
<1>1. cfg.ok /\ TreesHold(Known)
  BY DEF StartInv
<1>2. Known = {cfg.rules[i] : i \in DOMAIN cfg.rules}
  BY <1>1 DEF Known
<1>3. PICK V : V = Known
  OBVIOUS
<1>4. PICK found : found = {searchDomain(d) : d \in Domain} \cup {searchAddr(a) : a \in Addr}
  OBVIOUS
<1>5. \A r \in found : r \in V \cup {NoRule}
  BY <1>1, <1>3, <1>4, DomainFinds, AddrFinds
<1>6. InUse = {cfg.runtime} \cup {r.config : r \in found \ {NoRule}}
  BY <1>4, Zenon DEF InUse
<1>7. CASE c # cfg.runtime
  <2>1. PICK r \in found \ {NoRule} : c = r.config
    BY <1>6, <1>7
  <2>2. r \in V
    BY <1>5, <2>1
  <2>3. PICK i \in DOMAIN cfg.rules : r = cfg.rules[i]
    BY <1>2, <1>3, <2>2
  <2> QED BY <2>1, <2>3
<1> QED BY <1>7

\* A server that has started has the sniffers and the segments that any configuration
\* of a connection asks for (main.go, createServer; config.go, NeedsPcap).
THEOREM ServerHasWhatItNeeds == StartSpec => []ConfigIsComplete
<1>1. StartInv => ConfigIsComplete
  <2> SUFFICES ASSUME StartInv, step = "ready", NEW c \in InUse
               PROVE  /\ \A fake \in {"fake", "udpFake"} : c[fake] > 0 => fake \in sniffers
                      /\ HasSegments(c) \/ CustomFlag
    BY DEF ConfigIsComplete, CustomFlag
  <2>1. c = cfg.runtime \/ \E i \in DOMAIN cfg.rules : c = cfg.rules[i].config
    BY InUseIsLoaded
  <2>2. ASSUME NEW fake \in {"fake", "udpFake"}, c[fake] > 0 PROVE fake \in sniffers
    <3>1. NeedsPcap(cfg, fake)
      BY <2>1, <2>2 DEF NeedsPcap
    <3>2. sniffers = {x \in {"fake", "udpFake"} : NeedsPcap(cfg, x)}
      BY DEF StartInv
    <3> QED BY <3>1, <3>2
  <2>3. HasSegments(c) \/ CustomFlag
    BY <2>1, SegmentsChecked
  <2> QED BY <2>2, <2>3
<1> QED BY <1>1, StartInvariant, PTL
==============================================================================
