------------------------------- MODULE Startup -------------------------------
(***************************************************************************)
(* From the sources of the configuration to a rule set in use: Load, then  *)
(* createServer, which adds the loaded rules one after the other and opens *)
(* what the configuration needs to send fake packets.                      *)
(***************************************************************************)
EXTENDS RuleSet, Configuration

CONSTANTS Inputs,   \* what the program may be started with
          NoConfig  \* nothing loaded

IsSequence(s) == Len(s) \in Nat /\ s = [i \in 1..Len(s) |-> s[i]]

\* An entry of a match list, where a string that is written well is in S.
IsEntry(entry, S) ==
    IF "file" \in DOMAIN entry
    THEN \/ FileLines[entry.file] \in {<<Missing>>, <<Unreadable>>}
         \/ FileLines[entry.file] \in Seq(S \cup {Invalid})
    ELSE entry.value \in S \cup {Bad, Invalid}

AreEntries(entries, S) ==
    IsSequence(entries) /\ \A i \in 1..Len(entries) : IsEntry(entries[i], S)

\* A rule in the file.
IsItem(item) ==
    /\ item.priority \in Nat \cup {Bad}
    /\ AreEntries(item.domains, Pattern)
    /\ AreEntries(item.cidrs, CIDR)

ASSUME InputAssumption ==
    \A in \in Inputs :
        /\ in.clean \in BOOLEAN
        /\ in.path \in {"found", "none", "missing"}
        /\ DOMAIN in.cli \subseteq Flag
        /\ IsSequence(in.file.rules) /\ IsSequence(in.file.overrides)
        /\ \A i \in 1..Len(in.file.rules) : IsItem(in.file.rules[i])
        /\ \A i \in 1..Len(in.file.overrides) : IsItem(in.file.overrides[i])
        /\ \A i \in DOMAIN Load(in).rules : Load(in).rules[i] # NoRule

VARIABLES step,     \* "load", "rules", "ready", "error"
          input,    \* what the program was started with
          cfg,      \* what Load returned
          sniffers  \* sniffers and writers that were made

startVars == <<step, input, cfg, sniffers>>

StartInit ==
    /\ Init
    /\ step = "load"
    /\ input \in Inputs
    /\ cfg = NoConfig
    /\ sniffers = {}

LoadConfig ==
    /\ step = "load"
    /\ cfg' = Load(input)
    /\ step' = IF Load(input).ok THEN "rules" ELSE "error"
    /\ UNCHANGED <<vars, input, sniffers>>

\* The next rule of the loop in createServer.
AddRule ==
    /\ step = "rules"
    /\ Len(added) < Len(cfg.rules)
    /\ Add(cfg.rules[Len(added) + 1])
    /\ step' = IF failed' THEN "error" ELSE step
    /\ UNCHANGED <<input, cfg, sniffers>>

setupPcapIO ==
    /\ step = "rules"
    /\ Len(added) = Len(cfg.rules)
    /\ sniffers' = {fake \in {"fake", "udpFake"} : NeedsPcap(cfg, fake)}
    /\ step' = "ready"
    /\ UNCHANGED <<vars, input, cfg>>

StartNext == LoadConfig \/ AddRule \/ setupPcapIO

StartSpec == StartInit /\ [][StartNext]_<<vars, startVars>>

-------------------------------------------------------------------------------
(* Properties. *)

\* The value of a field that wins, of several tables with the strongest first.
Winner(tables, f) ==
    LET givers == {i \in DOMAIN tables : f \in DOMAIN tables[i]}
    IN  tables[CHOOSE i \in givers : \A j \in givers : i <= j][f]

File == IF input.clean \/ input.path # "found" THEN NoFile ELSE input.file

\* "Command-line flags will always override values set in the TOML config file",
\* for unmatched traffic and for what the rules leave open; a rule's own table
\* overrides both, and its skip flags are false unless it sets them.
LayersInOrder ==
    step = "ready" =>
        /\ \A f \in Field \ {"listen"} :
               cfg.runtime[f] = Winner(<<input.cli, File.base, DefaultConfig>>, f)
        /\ \A i \in DOMAIN cfg.rules : \A f \in RuleField :
               LET item == (File.rules \o File.overrides)[i].config
                   none == [skip |-> FALSE, udpSkip |-> FALSE]
               IN  cfg.rules[i].config[f] = Winner(<<item, none, cfg.runtime>>, f)

\* The configurations a connection may get: what is found for it, or the base.
InUse ==
    LET found == {searchDomain(d) : d \in Domain} \cup {searchAddr(a) : a \in Addr}
    IN  {cfg.runtime} \cup {r.config : r \in found \ {NoRule}}

\* A server that has started can do what any of these configurations asks for:
\* there are a sniffer and a writer where fakes are configured, and custom
\* segments where the mode is "custom".  (Only the decoder of the file checks the
\* latter: the flag alone gets through, and the message is sent in one piece.)
ConfigIsComplete ==
    step = "ready" =>
        \A c \in InUse :
            /\ \A fake \in {"fake", "udpFake"} : c[fake] > 0 => fake \in sniffers
            /\ \/ HasSegments(c)
               \/ "split" \in DOMAIN input.cli /\ input.cli.split = "custom"
==============================================================================
