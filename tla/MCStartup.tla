------------------------------ MODULE MCStartup ------------------------------
(* Starts that differ in the fields the sources give, in how a rule spells its *)
(* match, or in the rules of the file.                                       *)
EXTENDS Startup, TLC

MCFileLines ==
    [two |-> << <<"a">>, <<"*">> >>, none |-> <<Missing>>, locked |-> <<Unreadable>>]

\* The values a layer may give; those that are only copied say where they are from.
ValuesOf(f, layer) ==
    CASE f = "mode"                    -> {"socks5"}
      [] f \in {"listen", "qtype"}     -> {layer}
      [] f = "timeout"                 -> {layer, Bad}
      [] f = "split"                   -> {"sni", "custom"}
      [] f \in {"skip", "udpSkip"}     -> BOOLEAN
      [] f = "udpFake"                 -> {1}
      [] OTHER                         -> {0, 1}

Keys(fields, layer) == UNION {{f :> v : v \in ValuesOf(f, layer)} : f \in fields}

\* No key, one key, or two of the https section.
Tables(fields, layer) ==
    {<<>>} \cup Keys(fields, layer)
    \cup {s @@ t : s \in Keys({"split"} \cap fields, layer),
                   t \in Keys(HTTPSKeys \cap fields, layer)}

Flags == {t \in Tables(Flag, "cli") : \A f \in DOMAIN t : t[f] # Bad}

Lit(values) == [i \in DOMAIN values |-> [value |-> values[i]]]

Item(priority, domains, cidrs) ==
    [priority |-> priority, block |-> FALSE, match |-> TRUE, domains |-> Lit(domains),
     cidrs |-> Lit(cidrs), config |-> <<>>]

A == <<"a">>

Item1 == Item(1, <<A>>, <<>>)

InFile(base, rules) ==
    [clean |-> FALSE, path |-> "found", cli |-> <<>>,
     file |-> [base |-> base, rules |-> rules, overrides |-> <<>>]]

\* All layers, with a rule of the file.
Layered ==
    {[InFile(base, <<[Item1 EXCEPT !.config = own]>>) EXCEPT !.cli = cli] :
         base \in Tables(Field, "file"), cli \in Flags, own \in Tables(RuleField, "rule")}

\* Which file there is.
Found ==
    {[InFile(base, <<Item1>>) EXCEPT !.clean = clean, !.path = path] :
         base \in Tables(Field, "file"), clean \in BOOLEAN,
         path \in {"found", "none", "missing"}}

\* How a rule spells what it matches, and the fields that are checked alone.
Entry == {[value |-> v] : v \in {A, Bad, Invalid}}
         \cup {[file |-> f] : f \in DOMAIN MCFileLines}

Spelled ==
    {InFile(<<>>, <<[Item1 EXCEPT !.domains = entries, !.match = match, !.block = block,
                                  !.priority = priority]>>) :
         entries \in {<<>>} \cup {<<e>> : e \in Entry} \cup {<<e, f>> : e, f \in Entry},
         match \in BOOLEAN, block \in {TRUE, Bad}, priority \in {1, Bad}}

\* Rules with a pattern, two patterns or a CIDR: the prefix 0/1 plain, with host
\* bits or in other letters, and a longer one.
Patterns == {<<"a">>, <<"*">>, <<"**">>,
             <<"a", "a">>, <<"a", "*">>, <<"a", "**">>, <<"*", "a">>, <<"**", "a">>,
             <<"a", "**", "a">>, <<"*", "**", "a">>}

C(addr, len, text) == <<[addr |-> addr, len |-> len, text |-> text]>>

CIDRs == {C(<<0, 0>>, 1, "lower"), C(<<0, 1>>, 2, "lower"), C(<<0, 1>>, 1, "lower"),
          C(<<0, 0>>, 1, "upper")}

Single == {Item(n, <<p>>, <<>>) : n \in 1..2, p \in Patterns}
          \cup {Item(n, d, c) : n \in 1..2, d \in {<<>>, <<<<"*">>>>}, c \in CIDRs}

Double == {Item(1, <<p, q>>, <<>>) : p, q \in Patterns}

\* The same key three times.
Same == {Item(n, d, C(<<0, 0>>, 1, "lower")) : n \in 1..3, d \in {<<A>>, <<>>}}

Listed ==
    {InFile(<<>>, <<r, s>>) : r \in Single \cup Double, s \in Single}
    \cup {InFile(<<>>, <<r, s, t>>) : r, s, t \in Same}
    \cup {[InFile(<<>>, <<r>>) EXCEPT !.file.overrides = <<s>>] : r, s \in Same}

MCInputs == Layered \cup Found \cup Spelled \cup Listed
==============================================================================
