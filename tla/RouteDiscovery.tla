---------------------------- MODULE RouteDiscovery -----------------------------
(***************************************************************************)
(* internal/packet/discover.go and handle_linux.go, as createServer uses   *)
(* them: the gateway's MAC address is asked for by ARP on a raw socket,    *)
(* which is closed again; then setupPcapIO opens the sniffer's socket.     *)
(*                                                                         *)
(*   main     DiscoverRoute, resolveGatewayMAC, then setupPcapIO           *)
(*   capture  the goroutine captureARPReply                                *)
(*   reader   one goroutine per gopacket.PacketSource (external): it calls *)
(*            ReadPacketData in a loop, passes packets on through a        *)
(*            buffered channel and closes the channel at EBADF             *)
(*                                                                         *)
(* The kernel (external) resolves the number of a descriptor when a call   *)
(* starts; a call that waits keeps its socket although the descriptor is   *)
(* closed; a new socket may get the number of a closed one.                *)
(***************************************************************************)
EXTENDS Naturals, Sequences

CONSTANTS FD,        \* numbers of descriptors
          Buffer,    \* capacity of a PacketSource's channel (1000 in gopacket)
          MaxQueue,  \* bound on the packets waiting in a socket
          None

Socket == {"arp", "tcp"}     \* of the discovery, of the TCP sniffer

ASSUME DiscoveryAssumption ==
    /\ Buffer \in Nat \ {0}
    /\ MaxQueue \in Nat \ {0}
    /\ None \notin Socket

\* An ARP reply of the gateway or of another host, or any other packet.
Frame == {"gateway", "neighbour", "other"}

VARIABLES main,     \* step of createServer
          mac,      \* the answer of resolveGatewayMAC, or None
          ctxDone,  \* discoverCtx has timed out or is cancelled
          fds,      \* [FD -> the open socket behind a number, or None]
          fdOf,     \* [Socket -> h.fd of its handle, or None before NewHandle]
          sockQ,    \* [Socket -> packets waiting in the kernel]
          reader,   \* [Socket -> step of the reader of its handle]
          inCall,   \* [Socket -> socket its reader waits at, or None]
          inHand,   \* [Socket -> packet its reader has read, or None]
          packets,  \* [Socket -> channel of its PacketSource]
          closed,   \* PacketSources whose channel is closed
          capture,  \* "none", "running" or "ended"
          macCh,    \* channel of capacity 1
          stolen    \* packets the discovery's reader took from the sniffer

osVars     == <<fds, fdOf, sockQ>>
readerVars == <<reader, inCall, inHand, packets, closed, stolen>>
mainVars   == <<main, mac, ctxDone, capture, macCh>>
discoveryVars == <<mainVars, osVars, readerVars>>

DiscoveryInit ==
    /\ main = "discover"
    /\ mac = None
    /\ ctxDone = FALSE
    /\ fds = [n \in FD |-> None]
    /\ fdOf = [s \in Socket |-> None]
    /\ sockQ = [s \in Socket |-> <<>>]
    /\ reader = [s \in Socket |-> "none"]
    /\ inCall = [s \in Socket |-> None]
    /\ inHand = [s \in Socket |-> None]
    /\ packets = [s \in Socket |-> <<>>]
    /\ closed = {}
    /\ capture = "none"
    /\ macCh = <<>>
    /\ stolen = 0

-------------------------------------------------------------------------------
(* The kernel and the readers. *)

IsOpen(s) == \E n \in FD : fds[n] = s

\* A socket lives as long as a descriptor or a call refers to it.
Alive(s) == IsOpen(s) \/ \E r \in Socket : inCall[r] = s

\* A packet arrives at every raw socket that is alive and has room.
Arrives(p) ==
    /\ \E s \in Socket : Alive(s) /\ Len(sockQ[s]) < MaxQueue
    /\ sockQ' = [s \in Socket |-> IF Alive(s) /\ Len(sockQ[s]) < MaxQueue
                                  THEN Append(sockQ[s], p) ELSE sockQ[s]]
    /\ UNCHANGED <<mainVars, fds, fdOf, readerVars>>

\* ReadPacketData: Recvfrom(h.fd).
ReaderCalls(r) ==
    /\ reader[r] = "call"
    /\ IF fds[fdOf[r]] = None
       THEN /\ reader' = [reader EXCEPT ![r] = "ended"]
            /\ closed' = closed \cup {r}
            /\ UNCHANGED inCall
       ELSE /\ reader' = [reader EXCEPT ![r] = "wait"]
            /\ inCall' = [inCall EXCEPT ![r] = fds[fdOf[r]]]
            /\ UNCHANGED closed
    /\ UNCHANGED <<mainVars, osVars, inHand, packets, stolen>>

ReaderGets(r) ==
    /\ reader[r] = "wait"
    /\ sockQ[inCall[r]] # <<>>
    /\ inHand' = [inHand EXCEPT ![r] = Head(sockQ[inCall[r]])]
    /\ sockQ' = [sockQ EXCEPT ![inCall[r]] = Tail(@)]
    /\ inCall' = [inCall EXCEPT ![r] = None]
    /\ reader' = [reader EXCEPT ![r] = "send"]
    /\ stolen' = IF r = "arp" /\ inCall[r] = "tcp" THEN stolen + 1 ELSE stolen
    /\ UNCHANGED <<mainVars, fds, fdOf, packets, closed>>

ReaderSends(r) ==
    /\ reader[r] = "send"
    /\ Len(packets[r]) < Buffer
    /\ packets' = [packets EXCEPT ![r] = Append(@, inHand[r])]
    /\ inHand' = [inHand EXCEPT ![r] = None]
    /\ reader' = [reader EXCEPT ![r] = "call"]
    /\ UNCHANGED <<mainVars, osVars, inCall, closed, stolen>>

-------------------------------------------------------------------------------
(* captureARPReply *)

IsGatewayReply(p) == p = "gateway"

\* Slip: no return after the answer was passed on.
SlipGoesOnReading ==
    /\ capture = "running"
    /\ packets["arp"] # <<>>
    /\ packets' = [packets EXCEPT !["arp"] = Tail(@)]
    /\ macCh' = IF IsGatewayReply(Head(packets["arp"])) /\ macCh = <<>>
                THEN <<Head(packets["arp"])>> ELSE macCh
    /\ UNCHANGED <<main, mac, ctxDone, capture, osVars, reader, inCall, inHand, closed, stolen>>

CaptureReceives ==
    /\ capture = "running"
    /\ packets["arp"] # <<>>
    /\ packets' = [packets EXCEPT !["arp"] = Tail(@)]
    /\ IF IsGatewayReply(Head(packets["arp"]))
       THEN /\ macCh' = IF macCh = <<>> THEN <<Head(packets["arp"])>> ELSE macCh
            /\ capture' = "ended"
       ELSE UNCHANGED <<macCh, capture>>
    /\ UNCHANGED <<main, mac, ctxDone, osVars, reader, inCall, inHand, closed, stolen>>

\* Slip: the goroutine watches its channel only.
SlipWatchesChannel ==
    /\ capture = "running"
    /\ "arp" \in closed /\ packets["arp"] = <<>>
    /\ capture' = "ended"
    /\ UNCHANGED <<main, mac, ctxDone, macCh, osVars, readerVars>>

\* The context is done, or the channel is closed and empty.
CaptureEnds ==
    /\ capture = "running"
    /\ ctxDone \/ ("arp" \in closed /\ packets["arp"] = <<>>)
    /\ capture' = "ended"
    /\ UNCHANGED <<main, mac, ctxDone, macCh, osVars, readerVars>>

-------------------------------------------------------------------------------
(* DiscoverRoute and setupPcapIO *)

\* NewHandle: a raw socket under some free number.  (One sniffer stands for both:
\* the UDP sniffer's handle, opened behind the TCP sniffer's, may be given the
\* number just as well.)
NewHandle(s) ==
    \E n \in {m \in FD : fds[m] = None} :
        /\ fds' = [fds EXCEPT ![n] = s]
        /\ fdOf' = [fdOf EXCEPT ![s] = n]
        /\ UNCHANGED sockQ

\* No route, no interface, no socket; or no need for a MAC address.
DiscoverEnds(result) ==
    /\ main = "discover"
    /\ main' = result
    /\ UNCHANGED <<mac, ctxDone, capture, macCh, osVars, readerVars>>

\* The handle is open and captureARPReply started (its PacketSource, too).
OpenARP ==
    /\ main = "discover"
    /\ NewHandle("arp")
    /\ main' = "settle"
    /\ capture' = "running"
    /\ reader' = [reader EXCEPT !["arp"] = "call"]
    /\ UNCHANGED <<mac, ctxDone, macCh, inCall, inHand, packets, closed, stolen>>

\* After 100 ms, or the end of the context.
Settle ==
    /\ main = "settle"
    /\ main' \in {"resolve"} \cup (IF ctxDone THEN {"close"} ELSE {})
    /\ UNCHANGED <<mac, ctxDone, capture, macCh, osVars, readerVars>>

ReceiveMAC ==
    /\ main = "resolve"
    /\ macCh # <<>>
    /\ mac' = Head(macCh)
    /\ macCh' = <<>>
    /\ main' = "close"
    /\ UNCHANGED <<ctxDone, capture, osVars, readerVars>>

\* "timed out".  (The ticker sends another request meanwhile.)
TimeOut ==
    /\ main = "resolve"
    /\ ctxDone
    /\ main' = "close"
    /\ UNCHANGED <<mac, ctxDone, capture, macCh, osVars, readerVars>>

\* defer handle.Close()
CloseHandle ==
    /\ main = "close"
    /\ fds' = [fds EXCEPT ![fdOf["arp"]] = None]
    /\ main' = "cancel"
    /\ UNCHANGED <<mac, ctxDone, capture, macCh, fdOf, sockQ, readerVars>>

\* discoverCancel()
DiscoverCancel ==
    /\ main = "cancel"
    /\ ctxDone' = TRUE
    /\ main' = IF mac = None THEN "failed" ELSE "setup"
    /\ UNCHANGED <<mac, capture, macCh, osVars, readerVars>>

\* setupPcapIO and StartCapturing.
OpenSniffer ==
    /\ main = "setup"
    /\ NewHandle("tcp")
    /\ reader' = [reader EXCEPT !["tcp"] = "call"]
    /\ main' = "running"
    /\ UNCHANGED <<mac, ctxDone, capture, macCh, inCall, inHand, packets, closed, stolen>>

\* The loop of StartCapturing: processPacket (module HopSniffer).
Sniff ==
    /\ packets["tcp"] # <<>>
    /\ packets' = [packets EXCEPT !["tcp"] = Tail(@)]
    /\ UNCHANGED <<mainVars, osVars, reader, inCall, inHand, closed, stolen>>

\* context.WithTimeout(appctx, 10*time.Second)
ContextEnds ==
    /\ ~ctxDone
    /\ ctxDone' = TRUE
    /\ UNCHANGED <<main, mac, capture, macCh, osVars, readerVars>>

-------------------------------------------------------------------------------
Main == Settle \/ ReceiveMAC \/ TimeOut \/ CloseHandle \/ DiscoverCancel \/ OpenSniffer

DiscoveryNext ==
    \/ \E p \in Frame : Arrives(p)
    \/ \E r \in Socket : ReaderCalls(r) \/ ReaderGets(r) \/ ReaderSends(r)
    \/ CaptureReceives \/ CaptureEnds
    \/ DiscoverEnds("failed") \/ DiscoverEnds("running")
    \/ OpenARP \/ Settle \/ ReceiveMAC \/ TimeOut \/ CloseHandle
    \/ DiscoverCancel \/ OpenSniffer \/ Sniff \/ ContextEnds

DiscoverySpec == DiscoveryInit /\ [][DiscoveryNext]_discoveryVars

\* Go runs a goroutine that can go on and its select does not starve a case;
\* the timeout passes.  Nothing is assumed of the network.
FairDiscoverySpec ==
    /\ DiscoverySpec
    /\ WF_discoveryVars(Main)
    /\ WF_discoveryVars(CaptureReceives)
    /\ WF_discoveryVars(CaptureEnds)
    /\ WF_discoveryVars(ContextEnds)

-------------------------------------------------------------------------------
(* Properties. *)

\* Also on a silent network the discovery comes to an end, with its raw socket
\* closed and captureARPReply gone, although its reader may be left.
DiscoveryEnds ==
    main = "settle" ~> /\ main \in {"failed", "setup", "running"}
                       /\ capture = "ended"
                       /\ ~IsOpen("arp")

\* The discovery's reader may outlive its handle and go on at the sniffer's
\* socket, when that got the same number.  Nobody empties its channel then: it
\* takes no more packets from the sniffer than the channel holds, and one.
StolenAreFew == stolen <= Buffer + 1
===============================================================================
