---------------------------- MODULE Configuration ----------------------------
(***************************************************************************)
(* internal/config: what Load makes of the three sources, defaults, TOML   *)
(* file and command-line flags, and of the rules in the file.              *)
(*                                                                         *)
(* A table of the file is a partial function from fields to values; Bad is *)
(* a value that its parser refuses.  `timeout' and `qtype' stand for all   *)
(* the fields of their sections that are copied and nothing else.          *)
(***************************************************************************)
EXTENDS Naturals, Sequences

CONSTANTS Bad,        \* a value of the wrong type or out of range
          Invalid,    \* a string that is neither a pattern nor a CIDR
          FileLines,  \* ["file:" entry -> its lines, or <<Missing>>, <<Unreadable>>]
          Missing, Unreadable

DefaultConfig ==
    [mode |-> "http", listen |-> "unset",               \* app
     timeout |-> "default",                             \* connection
     qtype |-> "default",                               \* dns
     split |-> "sni", segments |-> 0, skip |-> FALSE, fake |-> 0,    \* https
     udpSkip |-> FALSE, udpFake |-> 0]                  \* udp

\* The keys that the decoder of each section knows.
AppKeys == {"mode", "listen"}

ConnKeys == {"timeout"}

DNSKeys == {"qtype"}

HTTPSKeys == {"split", "segments", "skip", "fake"}

UDPKeys == {"udpSkip", "udpFake"}

\* RuntimeConfig, which is all that a rule's table may give.
RuleField == ConnKeys \cup DNSKeys \cup HTTPSKeys \cup UDPKeys

Field == AppKeys \cup RuleField

\* There is a flag for everything but the custom segments.
Flag == Field \ {"segments"}

-------------------------------------------------------------------------------
(* Decoding a table onto a configuration. *)

\* A key that is absent keeps what is there.
Overlay(config, table) ==
    [f \in Field |-> IF f \in DOMAIN table THEN table[f] ELSE config[f]]

\* The last check of HTTPSOptions.UnmarshalTOML, on what is there so far.
HasSegments(config) == config.split = "custom" => config.segments > 0

Decodes(config, table) ==
    /\ \A f \in DOMAIN table : table[f] # Bad
    /\ DOMAIN table \cap HTTPSKeys # {} => HasSegments(Overlay(config, table))

-------------------------------------------------------------------------------
(* The patterns of a rule. *)

\* expandFileMatchList: an entry [file |-> name] gives way to the lines of the
\* file, none if it is missing (one that cannot be read is an error), and an
\* entry that is not a string is left out.
LinesOf(entry) ==
    LET lines == IF "file" \in DOMAIN entry THEN FileLines[entry.file] ELSE <<entry.value>>
    IN  IF lines \in {<<Missing>>, <<Bad>>} THEN <<>> ELSE lines

expand(lines, entry) == lines \o LinesOf(entry)

resolveEntries(entries) ==
    LET lines[j \in 0..Len(entries)] ==
            IF j = 0 THEN <<>> ELSE expand(lines[j - 1], entries[j])
    IN  lines[Len(entries)]

Readable(lines) == \A i \in DOMAIN lines : lines[i] \notin {Invalid, Unreadable}

\* MatchAttrs.UnmarshalTOML
checkMatch(domains, cidrs) ==
    /\ Readable(domains)
    /\ Readable(cidrs)
    /\ domains # <<>> \/ cidrs # <<>>

-------------------------------------------------------------------------------
(* Rules. *)

\* Slip: the skip flags are inherited like everything else.
SlipInheritsSkip(base) == base

\* Where a rule starts from.  "https.skip is intentionally NOT inherited".
RuleBase(base) == [base EXCEPT !.skip = FALSE, !.udpSkip = FALSE]

\* One round of resolveRules.  A name or block of the wrong type is ignored.
resolveRule(item, base) ==
    [priority |-> item.priority,
     block    |-> item.block \notin {Bad, FALSE},
     domains  |-> resolveEntries(item.domains),
     cidrs    |-> resolveEntries(item.cidrs),
     config   |-> Overlay(RuleBase(base), item.config)]

\* ... and its errors, with the one of Validate (checkRule: no match at all).
RuleIsOK(item, base) ==
    /\ item.priority # Bad
    /\ item.match
    /\ checkMatch(resolveEntries(item.domains), resolveEntries(item.cidrs))
    /\ Decodes(RuleBase(base), item.config)

-------------------------------------------------------------------------------
(* Load. *)

NoFile == [base |-> <<>>, rules |-> <<>>, overrides |-> <<>>]

\* The file that is used: none with --clean or when none is found.
loadTOML(input) ==
    IF input.clean \/ input.path = "none" THEN NoFile ELSE input.file

\* [[rules]], then the deprecated [[policy.overrides]].
rulesFromMap(file) == file.rules \o file.overrides

\* The address to listen on depends on the mode.
Finalize(config) ==
    [config EXCEPT !.listen = IF @ # "unset" THEN @
                              ELSE IF config.mode = "socks5" THEN "1080" ELSE "8080"]

Load(input) ==
    LET file == loadTOML(input)
        items == rulesFromMap(file)
        base == Finalize(Overlay(Overlay(DefaultConfig, file.base), input.cli))
    IN  [ok      |-> /\ input.clean \/ input.path # "missing"
                     /\ Decodes(DefaultConfig, file.base)
                     /\ \A i \in DOMAIN items : RuleIsOK(items[i], base),
         runtime |-> base,
         rules   |-> [i \in DOMAIN items |-> resolveRule(items[i], base)]]

-------------------------------------------------------------------------------
(* What the configuration needs. *)

\* Slip: the rules are not looked at.
SlipBaseOnly(cfg, fake) == cfg.runtime[fake] > 0

\* NeedsPcapTCP (fake-count of https) and NeedsPcapUDP (of udp).
NeedsPcap(cfg, fake) ==
    \/ cfg.runtime[fake] > 0
    \/ \E i \in DOMAIN cfg.rules : cfg.rules[i].config[fake] > 0
==============================================================================
