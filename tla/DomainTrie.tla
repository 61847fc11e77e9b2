------------------------------ MODULE DomainTrie ------------------------------
(***************************************************************************)
(* internal/trie/domain.go: the trie of domain patterns behind the rules.  *)
(*                                                                         *)
(* A pattern and a domain are sequences of segments from the top-level     *)
(* label down, as splitDomain produces them: "*.b.a" is <<"a","b","*">>.    *)
(* A node is the sequence of segments on its path; it exists when some     *)
(* stored pattern starts with that path, and has a value when the path is  *)
(* a stored pattern.  A search returns the pattern whose value it finds.   *)
(***************************************************************************)
EXTENDS Naturals, Sequences

CONSTANTS Label,      \* labels that occur in patterns
          OtherLabel, \* labels that occur in domains only
          MaxLen,     \* bound on the number of segments
          NoRule      \* nil

Wildcard == {"*", "**"}

ASSUME TrieAssumption == MaxLen \in Nat /\ (Label \cup OtherLabel) \cap Wildcard = {}

SeqsUpTo(S, n) == UNION {[1..m -> S] : m \in 0..n}

Node == SeqsUpTo(Label \cup Wildcard, MaxLen)

Pattern == Node \ {<<>>}

Domain == SeqsUpTo(Label \cup OtherLabel, MaxLen)

NotFound == <<>>   \* the root never holds a value

VARIABLE domain    \* the trie: [Pattern -> rule, or NoRule where there is no value]

-------------------------------------------------------------------------------
\* (Patterns are added in module RuleSet.)
stored == {p \in Pattern : domain[p] # NoRule}

hasValue(n) == n \in DOMAIN domain /\ domain[n] # NoRule

\* The nodes that Add has made: the paths that lead to a value.
Nodes == UNION {{SubSeq(p, 1, i) : i \in 0..Len(p)} : p \in stored}

\* No segment left: the node, then "*", then "**" below it (the apex domain).
atEnd(n) ==
    IF hasValue(n) THEN n
    ELSE IF hasValue(Append(n, "*")) THEN Append(n, "*")
    ELSE IF hasValue(Append(n, "**")) THEN Append(n, "**")
    ELSE NotFound

\* Slip: the wildcard child is asked before the exact one.
SlipWildcardFirst(n, segment) == <<Append(n, "*"), Append(n, segment)>>

\* The two children that consume one segment, in the order they are asked.
oneSegmentChildren(n, segment) == <<Append(n, segment), Append(n, "*")>>

\* search in a trie with these nodes; deeper[child][segments] is what the
\* recursive calls return.
search(deeper, nodes, n, segments) ==
    IF segments = <<>> THEN atEnd(n)
    ELSE LET rest == Tail(segments)
             ask(child) == IF child \in nodes THEN deeper[child][rest] ELSE NotFound
             children == oneSegmentChildren(n, Head(segments))
             glob == Append(n, "**")
             from(i) == deeper[glob][SubSeq(segments, i + 1, Len(segments))]
             hits == {i \in 0..Len(segments) : from(i) # NotFound}
         IN  IF ask(children[1]) # NotFound THEN ask(children[1])
             ELSE IF ask(children[2]) # NotFound THEN ask(children[2])
             ELSE IF glob \notin nodes THEN NotFound
             ELSE IF hasValue(glob) THEN glob
             ELSE IF hits = {} THEN NotFound
             ELSE from(CHOOSE i \in hits : \A j \in hits : i <= j)

SearchFrom(deeper, nodes) ==
    [n \in Node |-> [segments \in Domain |-> search(deeper, nodes, n, segments)]]

\* Every call goes one level down the trie, which has MaxLen levels below the
\* root: searchAll(nodes)[k] needs no more than k calls inside each other.
searchAll(nodes) ==
    LET all[k \in 0..(MaxLen + 1)] ==
            IF k = 0 THEN [n \in Node |-> [segments \in Domain |-> NotFound]]
            ELSE SearchFrom(all[k - 1], nodes)
    IN  all

Search(d) == searchAll(Nodes)[MaxLen + 1][<<>>][d]

-------------------------------------------------------------------------------
(* What the patterns mean, and the properties. *)

\* A domain is matched segment by segment; "*" stands for one segment, "**"
\* for any number; as the last segment either may stand for none.  The domains
\* that the last k segments of p match, if the last k - 1 match `rest'.
MatchedBy(p, k, rest) ==
    LET segment == p[Len(p) - k + 1]
    IN  {d \in Domain :
            IF d = <<>> THEN k = 1 /\ segment \in Wildcard
            ELSE \/ segment \in {Head(d), "*"} /\ Tail(d) \in rest
                 \/ /\ segment = "**"
                    /\ k = 1 \/ \E i \in 0..Len(d) : SubSeq(d, i + 1, Len(d)) \in rest}

SuffixMatches(p) ==
    LET matched[k \in 0..Len(p)] ==
            IF k = 0 THEN {<<>>} ELSE MatchedBy(p, k, matched[k - 1])
    IN  matched

Matches(p, d) == d \in SuffixMatches(p)[Len(p)]

Matching(d) == {p \in stored : Matches(p, d)}

\* The search, with its backtracking, answers exactly when some stored pattern
\* matches, and then with a pattern that does.
FindsIffMatches ==
    \A d \in Domain :
        IF Matching(d) = {} THEN Search(d) = NotFound ELSE Search(d) \in Matching(d)

Rank(segment) == IF segment = "*" THEN 2 ELSE IF segment = "**" THEN 3 ELSE 1

\* p comes before q: at the first segment in which they differ it is the more
\* specific one of exact, "*" and "**", and no "**" came earlier.
Before(p, q) ==
    \E i \in 1..Len(p) : /\ i <= Len(q)
                         /\ SubSeq(p, 1, i - 1) = SubSeq(q, 1, i - 1)
                         /\ \A j \in 1..(i - 1) : p[j] # "**"
                         /\ Rank(p[i]) < Rank(q[i])

\* "Specificity order: exact > * > **", decided from the top-level label down:
\* no matching pattern comes before the one that is found.
SegmentOrder ==
    \A d \in Domain :
        LET found == Search(d) IN \A p \in Matching(d) : ~Before(p, found)

==============================================================================
