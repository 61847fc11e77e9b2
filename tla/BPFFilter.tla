------------------------------ MODULE BPFFilter ------------------------------
(***************************************************************************)
(* generateSynAckFilter (internal/packet/tcp_sniffer.go) and               *)
(* generateUdpFilter (internal/packet/udp_sniffer.go): the BPF programs    *)
(* that decide which packets the sniffers get to see.                      *)
(*                                                                         *)
(* The kernel's BPF machine (external) runs a program on a packet; a jump  *)
(* offset counts from the instruction after the jump.  A packet is the     *)
(* header fields that the programs look at.                                *)
(***************************************************************************)
EXTENDS Naturals, Sequences

CONSTANT Links   \* link types: "ethernet", "null" (and loop), "raw".  (Any other
                 \* gets the offset of Ethernet and the program of "raw".)

Header == [ethertype : {"ipv4", "other"},
           version   : {"4", "other"},
           protocol  : {"tcp", "udp", "other"},
           fragment  : {"zero", "nonzero"},            \* fragment offset
           flags     : {"none", "syn", "ack", "synack"}]

\* An IPv4 header follows exactly when the frame says so, and only TCP has
\* flags to look at.
Possible(h, link) ==
    /\ link = "ethernet" => (h.ethertype = "ipv4" <=> h.version = "4")
    /\ link # "ethernet" => h.ethertype = "other"
    /\ h.protocol # "tcp" => h.flags = "none"

-------------------------------------------------------------------------------
(* The programs. *)

load(field)          == [op |-> "load", arg |-> field, jt |-> 0, jf |-> 0]
skip                 == [op |-> "skip", arg |-> "none", jt |-> 0, jf |-> 0]  \* and, ldx
jeq(value, jt, jf)   == [op |-> "jeq", arg |-> value, jt |-> jt, jf |-> jf]
jset(jt, jf)         == [op |-> "jset", arg |-> "none", jt |-> jt, jf |-> jf]
ret(verdict)         == [op |-> "ret", arg |-> verdict, jt |-> 0, jf |-> 0]

\* EtherType, or the version nibble of the IP header.
ProtocolVerification(link, jfEther, jfOther) ==
    IF link = "ethernet"
    THEN <<load("ethertype"), jeq("ipv4", 0, jfEther)>>
    ELSE <<load("version"), skip, jeq("4", 0, jfOther)>>

\* Variants a slip would produce are named Slip...; no specification uses them.
\* Slip: the mask and the comparison are those of SYN alone.
SlipSynOnly(link) ==
    ProtocolVerification(link, 8, 7)
    \o <<load("protocol"), jeq("tcp", 0, 6)>>
    \o <<load("fragment"), jset(4, 0)>>
    \o <<skip>>
    \o <<load("flags"), skip, jeq("syn", 0, 1)>>
    \o <<ret("accept"), ret("reject")>>

generateSynAckFilter(link) ==
    ProtocolVerification(link, 8, 7)
    \o <<load("protocol"), jeq("tcp", 0, 6)>>
    \o <<load("fragment"), jset(4, 0)>>
    \o <<skip>>
    \o <<load("flags"), skip, jeq("synack", 0, 1)>>
    \o <<ret("accept"), ret("reject")>>

generateUdpFilter(link) ==
    ProtocolVerification(link, 3, 3)
    \o <<load("protocol"), jeq("udp", 0, 1)>>
    \o <<ret("accept"), ret("reject")>>

-------------------------------------------------------------------------------
(* The machine (external).  A state is the next instruction and the accumulator. *)

At(pc, acc) == [pc |-> pc, acc |-> acc]

\* One instruction; "ret" ends the program.
Exec(program, h, m) ==
    LET ins == program[m.pc]
        jump(offset) == At(m.pc + 1 + offset, m.acc)
    IN  IF m.pc > Len(program) THEN m
        ELSE CASE ins.op = "load" -> At(m.pc + 1, h[ins.arg])
               [] ins.op = "skip" -> jump(0)
               [] ins.op = "jeq"  -> jump(IF m.acc = ins.arg THEN ins.jt ELSE ins.jf)
               [] ins.op = "jset" -> jump(IF m.acc = "nonzero" THEN ins.jt ELSE ins.jf)
               [] ins.op = "ret"  -> m

\* Where a program ends: jumps only go forward, so no run is longer than it is.
End(program, h) ==
    LET run[n \in 0..Len(program)] ==
            IF n = 0 THEN At(1, "none") ELSE Exec(program, h, run[n - 1])
    IN  run[Len(program)].pc

\* What the program says of a header.
Verdict(program, h) ==
    LET end == End(program, h)
    IN  IF end \in 1..Len(program) /\ program[end].op = "ret" THEN program[end].arg
        ELSE "invalid"

-------------------------------------------------------------------------------
(* What the programs are to do, over all headers and link types. *)

IPv4(h, link) == IF link = "ethernet" THEN h.ethertype = "ipv4" ELSE h.version = "4"

\* "ip and udp": exactly the UDP packets over IPv4 pass.
UdpExact(link) ==
    \A h \in {x \in Header : Possible(x, link)} :
        Verdict(generateUdpFilter(link), h) = "accept"
            <=> IPv4(h, link) /\ h.protocol = "udp"

\* Every SYN/ACK over IPv4 passes, and of the first fragments of TCP nothing else.
\* But the jumps of the tests before the last one end one instruction short of
\* "reject": other protocols and later fragments pass as well, and on Ethernet
\* what is not IPv4.  (On other links that jump ends at the last test, and fails it.)
SynAckExact(link) ==
    \A h \in {x \in Header : Possible(x, link)} :
        Verdict(generateSynAckFilter(link), h) = "accept"
            <=> IF IPv4(h, link)
                THEN h.protocol = "tcp" /\ h.fragment = "zero" => h.flags = "synack"
                ELSE link = "ethernet"
==============================================================================
