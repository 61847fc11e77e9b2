------------------------------- MODULE RuleSet -------------------------------
(***************************************************************************)
(* internal/rule/set.go, with internal/trie/cidr.go: the rules of the      *)
(* configuration, [priority, domains, cidrs, ...], stored by domain        *)
(* pattern and by CIDR.                                                    *)
(*                                                                         *)
(* createServer adds the rules one by one in file order and gives up at    *)
(* the first error.  A CIDR is kept as it is written in the file: an       *)
(* address of AddrBits bits, host bits included, a prefix length, and how  *)
(* both are spelled (upper or lower case, zeros left out or not: fd00::/8, *)
(* FD00::/8 and fd00:0::/08 are one prefix).  The patricia tree (external) *)
(* is a map from prefixes that finds the longest one.  A domain pattern in *)
(* the file and its path in the trie determine each other: the check of    *)
(* the configuration refuses the one other spelling, with a final dot.     *)
(***************************************************************************)
EXTENDS DomainTrie

CONSTANTS AddrBits,   \* width of an address
          Spelling    \* ways to write the same address and length

ASSUME AddrAssumption == AddrBits \in Nat /\ Spelling # {}

Addr == [1..AddrBits -> {0, 1}]

\* A string of the file: different records are different strings.
CIDR == [addr : Addr, len : 0..AddrBits, text : Spelling]

\* net.ParseCIDR reads any spelling and masks the host bits away.
PrefixOf(c) == SubSeq(c.addr, 1, c.len)

VARIABLES domainKeys, \* the rule each pattern was last stored for
          cidr,       \* the tree: [prefix -> rule or NoRule]
          cidrKeys,   \* the rule each CIDR, as written, was last stored for
          added,      \* rules accepted so far, in file order
          failed      \* Add returned an error: the program does not start

vars == <<domain, domainKeys, cidr, cidrKeys, added, failed>>

Init ==
    /\ domain = [p \in Pattern |-> NoRule]
    /\ domainKeys = [p \in Pattern |-> NoRule]
    /\ cidr = [p \in {PrefixOf(c) : c \in CIDR} |-> NoRule]
    /\ cidrKeys = [c \in CIDR |-> NoRule]
    /\ added = <<>>
    /\ failed = FALSE

-------------------------------------------------------------------------------
(* RuleSet.Add: one loop over the patterns, then one over the CIDRs. *)

\* Slip: the rule that comes last always stays.
SlipLastStays(existing, r) == "store"

\* What to do about a key under which `existing' was stored.
Decide(existing, r) ==
    IF existing = NoRule THEN "store"
    ELSE IF existing.priority = r.priority THEN "conflict"
    ELSE IF r.priority <= existing.priority THEN "skip"
    ELSE "store"

\* A round of the loop: `key' as written, `node' its place in the trie.
Put(acc, r, key, node) ==
    LET todo == IF acc.ok THEN Decide(acc.keys[key], r) ELSE "skip"
    IN  CASE todo = "skip"     -> acc
          [] todo = "conflict" -> [acc EXCEPT !.ok = FALSE]
          [] todo = "store"    -> [acc EXCEPT !.keys[key] = r, !.tree[node] = r]

\* The loop, over keys that have the given places.
PutAll(acc, r, keys, nodes) ==
    LET put[j \in 0..Len(keys)] ==
            IF j = 0 THEN acc ELSE Put(put[j - 1], r, keys[j], nodes[j])
    IN  put[Len(keys)]

PutDomains(r) ==
    PutAll([ok |-> TRUE, tree |-> domain, keys |-> domainKeys], r, r.domains, r.domains)

\* (Not reached when the first loop has returned an error.)
PutCIDRs(r, ok) ==
    PutAll([ok |-> ok, tree |-> cidr, keys |-> cidrKeys], r, r.cidrs,
           [j \in DOMAIN r.cidrs |-> PrefixOf(r.cidrs[j])])

Add(r) ==
    LET d == PutDomains(r)
        c == PutCIDRs(r, d.ok)
    IN  /\ ~failed
        /\ domain' = d.tree
        /\ domainKeys' = d.keys
        /\ cidr' = c.tree
        /\ cidrKeys' = c.keys
        /\ failed' = ~c.ok
        /\ added' = IF c.ok THEN Append(added, r) ELSE added

-------------------------------------------------------------------------------
(* RuleSet.Search. *)

HigherPriority(a, b) ==
    IF a = NoRule THEN b
    ELSE IF b = NoRule THEN a
    ELSE IF a.priority >= b.priority THEN a ELSE b

searchDomain(d) ==
    LET p == Search(d)
    IN  IF p = NotFound THEN NoRule ELSE domain[p]

\* FindDeepestTag
searchAddr(a) ==
    LET hits == {n \in 0..AddrBits : cidr[SubSeq(a, 1, n)] # NoRule}
    IN  IF hits = {} THEN NoRule
        ELSE cidr[SubSeq(a, 1, CHOOSE n \in hits : \A m \in hits : n >= m)]

\* handleNewConnection and handleConnection: the rule for a connection whose
\* name matches nameMatch and was resolved to the addresses as.
SearchAddrs(as) ==
    LET best[j \in 0..Len(as)] ==
            IF j = 0 THEN NoRule ELSE HigherPriority(best[j - 1], searchAddr(as[j]))
    IN  best[Len(as)]

bestMatch(nameMatch, as) == HigherPriority(SearchAddrs(as), nameMatch)

-------------------------------------------------------------------------------
(* Properties. *)

\* The rules accepted so far that name a pattern, a prefix, or a CIDR in this very
\* spelling.
Naming(p)    == {i \in 1..Len(added) : \E j \in 1..Len(added[i].domains) :
                                           added[i].domains[j] = p}
Covering(n)  == {i \in 1..Len(added) : \E j \in 1..Len(added[i].cidrs) :
                                           PrefixOf(added[i].cidrs[j]) = n}
Writing(c)   == {i \in 1..Len(added) : \E j \in 1..Len(added[i].cidrs) :
                                           added[i].cidrs[j] = c}

Top(S) == {i \in S : \A j \in S : added[i].priority >= added[j].priority}

\* "Priority resolves conflicts at Add time": of the accepted rules that name
\* a pattern, the trie holds the one with the highest priority, in whatever
\* order the file lists them, and no two rules share that place.
DomainPriority ==
    ~failed =>
        \A p \in Pattern :
            /\ domain[p] = domainKeys[p]
            /\ IF Naming(p) = {} THEN domain[p] = NoRule
               ELSE \E i \in Top(Naming(p)) :
                        Top(Naming(p)) = {i} /\ domain[p] = added[i]

\* The search in the trie, with its backtracking, answers exactly when some
\* stored pattern matches, and with a pattern that does; and, "Specificity order:
\* exact > * > **", from the top-level label down, no matching pattern is
\* preferable to the one that is found.
SearchFindsTheMostSpecific == FindsIffMatches /\ SegmentOrder

\* The rule for a connection is never outranked by the rule of any single one
\* of its matches, and there is one as soon as there is any match.
BestMatchIsBest ==
    \A nameMatch \in {searchDomain(d) : d \in Domain} : \A a1, a2 \in Addr :
        LET best == bestMatch(nameMatch, <<a1, a2>>)
        IN  \A r \in {nameMatch, searchAddr(a1), searchAddr(a2)} :
                r # NoRule => best # NoRule /\ best.priority >= r.priority

\* The same for CIDRs.  The tree is keyed by the prefix, the conflict check by the
\* text in the file, so what the tree holds for a prefix is the highest priority
\* among the rules that write it in one and the same way.  That is the highest
\* of all when the file always writes it like that; between two spellings of a
\* prefix the priority does not decide, but the one that is stored last stays.
CIDRPriority ==
    ~failed =>
        \A n \in DOMAIN cidr :
            IF Covering(n) = {} THEN cidr[n] = NoRule
            ELSE \E c \in CIDR :
                    /\ PrefixOf(c) = n
                    /\ \E i \in Top(Writing(c)) : Top(Writing(c)) = {i} /\ cidr[n] = added[i]

\* The order of the rules in the file does not matter: RuleSet.Add lets the
\* priority decide, for domain patterns and for the spellings of CIDRs, and so does
\* the choice between the matches of a connection's name and addresses.
PriorityWins == DomainPriority /\ CIDRPriority /\ BestMatchIsBest
==============================================================================
