------------------------------ MODULE Admission ------------------------------
(***************************************************************************)
(* What each way into the proxy does with a connection before it becomes a *)
(* tunnel: read the request, find the rule, refuse or dial, forward the    *)
(* first message.                                                          *)
(*                                                                         *)
(*   "http", "https"    HTTPProxy.handleNewConnection with HTTPHandler and *)
(*                      HTTPSHandler.HandleRequest                         *)
(*   "connect", "bind"  SOCKS5Proxy.handleConnection with ConnectHandler    *)
(*                      or BindHandler                                     *)
(*   "tuntcp", "tunudp" TCPHandler and UDPHandler of the TUN server        *)
(*                                                                         *)
(* One connection per behaviour.  The handlers call DialFastest (module    *)
(* DialFastest), whose goroutines go on when it has returned; a BIND       *)
(* request is handed over to the module BindHandler.  Which rules the name *)
(* and the addresses match (RuleSet.Search), whether the destination is    *)
(* the proxy itself (Destination.IsValid) and every I/O result are inputs. *)
(* The tunnel is the module Tunnel, here one step that closes both ends.   *)
(***************************************************************************)
EXTENDS DialFastest, BindHandler

CONSTANTS Entries,     \* the ways in that are looked at
          Rule,        \* rules a search may find: records [priority, block]
          Addrs,       \* [Entries -> numbers of addresses a destination has]
          NoRule       \* nil

ASSUME AdmissionAssumption ==
    /\ Entries \subseteq {"http", "https", "connect", "bind", "tuntcp", "tunudp"}
    /\ Rule \subseteq [priority : Nat, block : BOOLEAN]
    /\ Addrs \in [Entries -> SUBSET (1..N)]
    /\ \A e \in Entries \cap {"tuntcp", "tunudp"} : Addrs[e] = {1}

VARIABLES entry,     \* the way in
          nameMatch, \* rule found for the destination's name, or NoRule
          addrMatch, \* rule found for the destination's addresses, or NoRule
          step,      \* where the handler is
          rule,      \* the rule in force (cfg comes from it), or NoRule
          replies,   \* answers the client has got
          first,     \* the client's first message: "unread" in the socket, "peeked"
                     \* in the BufferedConn, "read" by the handler, or "sent" on
          ahead      \* bytes behind the request or the first message that were taken
                     \* with it: "none", in the "bufConn" or in the HTTP "reader"

found       == <<nameMatch, addrMatch>>
taken       == <<first, ahead>>
handlerVars == <<entry, found, step, rule, replies, taken>>
vars        == <<handlerVars, dialVars, bindVars>>

\* What a handler leaves to DialFastest and BindHandler: all but the two
\* connections, lConn and the dialled one.
callees == <<call, launched, spawner, sem, dpc, results, dial, handled, winner, cancelled,
             bind, mon, acc, listener, ch, remote, stop, deadline, stolen, replied, net>>

\* Where a new connection starts.
FirstStep ==
    IF entry \in {"http", "https"} THEN "request"
    ELSE IF entry \in {"connect", "bind"} THEN "negotiate"
    ELSE "accept"

Init ==
    /\ entry \in Entries
    /\ nameMatch = NoRule
    /\ addrMatch = NoRule
    /\ step = FirstStep
    /\ rule = NoRule
    /\ replies = {}
    /\ first = "unread"
    /\ ahead = "none"
    /\ DialInit
    /\ BindInit

\* The remote connection of the handler.
rConn == IF dial = "ok" THEN conns[winner] ELSE "none"

HigherPriority(a, b) ==
    IF a = NoRule THEN b
    ELSE IF b = NoRule THEN a
    ELSE IF a.priority >= b.priority THEN a ELSE b

Blocks(r) == r # NoRule /\ r.block

Refusals == {"not implemented", "bad request", "bad gateway", "forbidden", "failure"}

Proceed(s) == step' = s

\* Slip: ConnectHandler does not defer the close.
SlipConnectKeeps ==
    entry \in {"http", "https"} \/ (entry # "connect" /\ first \in {"read", "sent"})

\* Deferred closes: the client's connection always, the remote one where the
\* handler defers it (not in the plain TCP and the UDP handler of the TUN
\* server, which leave that to the tunnel).
DefersRemote == entry \in {"http", "https", "connect"} \/ first \in {"read", "sent"}

Finish ==
    /\ step' = "done"
    /\ lConn' = "closed"
    /\ conns' = [i \in Addr |-> IF dial = "ok" /\ i = winner /\ DefersRemote
                              THEN "closed" ELSE conns[i]]

Tell(answers) == replies' = replies \cup answers

Stay == UNCHANGED <<lConn, conns>>

-------------------------------------------------------------------------------
(* Up to the rule. *)

\* A TCP or UDP forwarder of the TUN server: without an endpoint, or without a
\* destination, the connection ends here.
TunAccepts(ok) ==
    /\ step = "accept"
    /\ IF ok THEN Proceed("request") /\ Stay ELSE Finish
    /\ UNCHANGED <<entry, found, rule, replies, taken>>

\* SOCKS5Proxy.negotiate: another protocol or a failed read or write.
Negotiate(ok) ==
    /\ step = "negotiate"
    /\ IF ok THEN Proceed("request") /\ Stay ELSE Finish
    /\ UNCHANGED <<entry, found, rule, replies, taken>>

\* The HTTP request cannot be read, has an unknown method or a bad port, or
\* its host cannot be resolved.
BadHTTPRequest ==
    /\ step = "request"
    /\ entry \in {"http", "https"}
    /\ \/ UNCHANGED replies
       \/ \E answer \in {"not implemented", "bad request", "bad gateway"} : Tell({answer})
    /\ Finish
    /\ UNCHANGED <<entry, found, rule, taken>>

\* The SOCKS5 request cannot be read, names no host, its host cannot be
\* resolved (no answer in these cases), or its command is unknown.
BadSOCKS5Request ==
    /\ step = "request"
    /\ entry \in {"connect", "bind"}
    /\ UNCHANGED replies \/ Tell({"command not supported"})
    /\ Finish
    /\ UNCHANGED <<entry, found, rule, taken>>

\* RuleSet.Search, for the name and for the addresses it resolves to.
Search(name, addr) == nameMatch' = name /\ addrMatch' = addr

\* proto.ReadHttpRequest reads through a bufio.Reader that is dropped with its
\* buffer: what a client has sent behind its request may be in there, and the
\* handlers go on reading the connection.
ReadHttpRequest(over) ==
    /\ first' = IF entry = "http" THEN "read" ELSE first
    /\ ahead' = IF over THEN "reader" ELSE ahead

\* The HTTP proxy looks at the destination here: it answers when that is its
\* own listener, and goes on.
MatchHTTP(name, addr, self, over) ==
    /\ step = "request"
    /\ entry \in {"http", "https"}
    /\ Search(name, addr)
    /\ rule' = HigherPriority(addr, name)
    /\ IF self THEN Tell({"forbidden"}) ELSE UNCHANGED replies
    /\ ReadHttpRequest(over)
    /\ Proceed("check")
    /\ Stay
    /\ UNCHANGED entry

\* Slip: the rule for the addresses always wins.
SlipAddrFirst(name, addr) ==
    /\ step = "request"
    /\ entry = "connect"
    /\ Search(name, addr)
    /\ rule' = IF addr # NoRule THEN addr ELSE name
    /\ Proceed("check")
    /\ Stay
    /\ UNCHANGED <<entry, replies, taken>>

MatchSOCKS5(name, addr) ==
    /\ step = "request"
    /\ entry = "connect"
    /\ Search(name, addr)
    /\ rule' = HigherPriority(addr, name)
    /\ Proceed("check")
    /\ Stay
    /\ UNCHANGED <<entry, replies, taken>>

\* The rules are searched for a BIND request, too; the handler is not told.
MatchBind ==
    /\ step = "request"
    /\ entry = "bind"
    /\ StartBind
    /\ Proceed("bind")
    /\ UNCHANGED <<entry, found, rule, replies, taken, dialVars>>

\* The TUN handlers know the address only.
MatchAddr(addr) ==
    /\ step = "request"
    /\ entry \in {"tuntcp", "tunudp"}
    /\ Search(NoRule, addr)
    /\ rule' = addr
    /\ Proceed(IF entry = "tuntcp" THEN "peek" ELSE "dial")
    /\ Stay
    /\ UNCHANGED <<entry, replies, taken>>

\* handleNewConnection drops a blocked request without an answer.
CheckHTTP ==
    /\ step = "check"
    /\ entry \in {"http", "https"}
    /\ IF Blocks(rule)
       THEN Finish
       ELSE Proceed(IF entry = "https" THEN "establish" ELSE "dial") /\ Stay
    /\ UNCHANGED <<entry, found, rule, replies, taken>>

\* Slip: the refused SOCKS5 request is answered but not given up.
SlipRefusalGoesOn(self) ==
    /\ step = "check"
    /\ entry = "connect"
    /\ IF self \/ Blocks(rule) THEN Tell({"failure"}) ELSE UNCHANGED replies
    /\ Proceed("dial")
    /\ Stay
    /\ UNCHANGED <<entry, found, rule, taken>>

\* ConnectHandler refuses its own address and blocked destinations.
CheckConnect(self) ==
    /\ step = "check"
    /\ entry = "connect"
    /\ IF self \/ Blocks(rule)
       THEN Finish /\ Tell({"failure"})
       ELSE Proceed("dial") /\ Stay /\ UNCHANGED replies
    /\ UNCHANGED <<entry, found, rule, taken>>

-------------------------------------------------------------------------------
(* From the rule to the tunnel. *)

\* HTTPSHandler answers 200 before it dials.
Establish(ok) ==
    /\ step = "establish"
    /\ IF ok THEN Proceed("dial") /\ Stay /\ Tell({"established"})
             ELSE Finish /\ UNCHANGED replies
    /\ UNCHANGED <<entry, found, rule, taken>>

\* What else has arrived comes into the BufferedConn with a peeked byte.
PeekBuffers == ahead' \in {"none", "bufConn"}

\* TCPHandler waits a second for the first byte.  A TLS record is read at
\* once; a ClientHello with a server name brings in the rule for that name.
Peek(name) ==
    /\ step = "peek"
    /\ \/ Finish /\ UNCHANGED <<nameMatch, rule, taken>>
       \/ /\ Proceed("dial") /\ Stay
          /\ first' = "peeked"
          /\ PeekBuffers
          /\ UNCHANGED <<nameMatch, rule>>
       \/ /\ Proceed("dial") /\ Stay
          /\ first' = "read"
          /\ PeekBuffers
          /\ nameMatch' = name
          /\ rule' = IF name # NoRule THEN name ELSE rule
    /\ UNCHANGED <<entry, addrMatch, replies>>

\* DialFastest: the TUN handlers dial one address, from a bound socket, the
\* proxies all addresses of the name.  Only SOCKS5 handlers run in a context
\* that the end of the program cancels.
Dial ==
    /\ step = "dial"
    /\ \E n \in Addrs[entry] :
          StartDial(n, entry \in {"tuntcp", "tunudp"}, entry = "connect" /\ ctxDone)
    /\ Proceed("dialling")
    /\ UNCHANGED <<entry, found, rule, replies, taken, bindVars>>

\* Where the handler goes with a fresh connection.
AfterDial ==
    IF entry = "connect" THEN "succeed"
    ELSE IF entry \in {"http", "https"} \/ (entry = "tuntcp" /\ first = "read") THEN "forward"
    ELSE "tunnel"

DialOK ==
    /\ step = "dialling"
    /\ dial = "ok"
    /\ Proceed(AfterDial)
    /\ Stay
    /\ UNCHANGED <<entry, found, rule, replies, taken>>

DialFailed == step = "dialling" /\ dial \in {"failed", "cancelled"}

\* The HTTP handler reports the failure, the HTTPS handler has answered already.
DialFailsHTTP ==
    /\ DialFailed
    /\ entry = "http"
    /\ Tell({"bad gateway"})
    /\ Finish
    /\ UNCHANGED <<entry, found, rule, taken>>

DialFailsConnect ==
    /\ DialFailed
    /\ entry = "connect"
    /\ Tell({"failure"})
    /\ Finish
    /\ UNCHANGED <<entry, found, rule, taken>>

DialFailsSilently ==
    /\ DialFailed
    /\ entry \in {"https", "tuntcp", "tunudp"}
    /\ Finish
    /\ UNCHANGED <<entry, found, rule, replies, taken>>

\* ConnectHandler's success reply.
Succeed(ok) ==
    /\ step = "succeed"
    /\ IF ok THEN Proceed("forward") /\ Stay /\ Tell({"success"})
             ELSE Finish /\ UNCHANGED replies
    /\ UNCHANGED <<entry, found, rule, taken>>

\* req.WriteProxy
ForwardRequest ==
    /\ step = "forward"
    /\ entry = "http"
    /\ \/ Finish /\ UNCHANGED taken
       \/ Proceed("tunnel") /\ Stay /\ first' = "sent" /\ UNCHANGED ahead
    /\ UNCHANGED <<entry, found, rule, replies>>

\* HTTPSHandler reads a TLS record from the connection, the one behind those
\* that the request's reader took, and gives up if it is no ClientHello.
ForwardHello ==
    /\ step = "forward"
    /\ entry = "https"
    /\ \/ Finish /\ first' \in {"unread", "read"}
       \/ Proceed("tunnel") /\ Stay /\ first' = "sent"
    /\ UNCHANGED <<entry, found, rule, replies, ahead>>

\* ConnectHandler sends a ClientHello in pieces and any other TLS record as it
\* is.  What is not TLS stays in the BufferedConn, for the tunnel; a failed Peek
\* is left to the tunnel as well.
ForwardPeeked ==
    /\ step = "forward"
    /\ entry = "connect"
    /\ \/ Finish /\ first' = "read" /\ PeekBuffers
       \/ Proceed("tunnel") /\ Stay /\ first' \in {"peeked", "sent"} /\ PeekBuffers
       \/ Proceed("tunnel") /\ Stay /\ UNCHANGED taken
    /\ UNCHANGED <<entry, found, rule, replies>>

\* TCPHandler.handleTLS after the dial.
ForwardTunHello ==
    /\ step = "forward"
    /\ entry = "tuntcp"
    /\ \/ Finish /\ UNCHANGED taken
       \/ Proceed("tunnel") /\ Stay /\ first' = "sent" /\ UNCHANGED ahead
    /\ UNCHANGED <<entry, found, rule, replies>>

\* Slip: the tunnel is given the client's connection, not the one it was peeked
\* through.
SlipTunnelReadsPlain == "lConn"

\* What the tunnel reads the client's bytes from.
TunnelSource == IF entry \in {"connect", "tuntcp"} THEN "bufConn" ELSE "lConn"

\* TunnelConns and WaitForTunnelCompletion (module Tunnel).
TunnelEnds ==
    /\ step = "tunnel"
    /\ step' = "done"
    /\ lConn' = "closed"
    /\ conns' = [conns EXCEPT ![winner] = "closed"]
    /\ UNCHANGED <<entry, found, rule, replies, taken>>

\* BindHandler.Handle has returned to handleConnection.
BindHandled ==
    /\ step = "bind"
    /\ CloseClient
    /\ Proceed("done")
    /\ UNCHANGED <<entry, found, rule, replies, taken, dialVars>>

\* appctx, the parent of every SOCKS5 handler's context, is done.
AppStops ==
    /\ entry \in {"connect", "bind"}
    /\ ContextEnds
    /\ IF dial # "off" /\ ~cancelled THEN ParentCancels ELSE UNCHANGED dialVars
    /\ UNCHANGED handlerVars

-------------------------------------------------------------------------------
\* Steps of the handler itself, by the way in.
HTTPStep ==
    \/ BadHTTPRequest
    \/ \E name, addr \in {NoRule} \cup Rule, self, over \in BOOLEAN :
          MatchHTTP(name, addr, self, over)
    \/ CheckHTTP
    \/ \E ok \in BOOLEAN : Establish(ok)
    \/ DialFailsHTTP
    \/ ForwardRequest
    \/ ForwardHello

SOCKS5Step ==
    \/ \E ok \in BOOLEAN : Negotiate(ok) \/ Succeed(ok) \/ CheckConnect(ok)
    \/ BadSOCKS5Request
    \/ \E name, addr \in {NoRule} \cup Rule : MatchSOCKS5(name, addr)
    \/ DialFailsConnect
    \/ ForwardPeeked

TunStep ==
    \/ \E ok \in BOOLEAN : TunAccepts(ok)
    \/ \E r \in {NoRule} \cup Rule : MatchAddr(r) \/ Peek(r)
    \/ ForwardTunHello

HandlerStep == HTTPStep \/ SOCKS5Step \/ TunStep \/ DialOK \/ DialFailsSilently \/ TunnelEnds

InDial(A) == A /\ UNCHANGED <<handlerVars, bindVars>>

InBind(A) == A /\ UNCHANGED <<handlerVars, dialVars>>

Next ==
    \/ HandlerStep /\ UNCHANGED callees
    \/ Dial
    \/ InDial(DialStep)
    \/ MatchBind
    \/ InBind(BindStep)
    \/ BindHandled
    \/ AppStops

Spec == Init /\ [][Next]_vars

\* Go schedules every goroutine.  A dial returns (it has a deadline, or the
\* kernel's connect timeout), a deadline passes, and the monitor of BIND does
\* not reach every single Read later than the 200 ms it has just set.  A tunnel
\* ends when its client has dropped or the program stops (module Tunnel).
\* Nothing is assumed of clients and peers.
FairSpec ==
    /\ Spec
    /\ WF_vars(InDial(Launch)) /\ WF_vars(InDial(SpawnerEnds)) /\ WF_vars(InDial(Caller))
    /\ \A i \in Addr : WF_vars(InDial(Dialer(i)))
    /\ WF_vars(InBind(BindHandle)) /\ WF_vars(BindHandled)
    /\ WF_vars(InBind(Monitor))
    /\ SF_vars(InBind(deadline # "past" /\ MonReads))
    /\ WF_vars(InBind(Accept))
    /\ WF_vars(InBind(DeadlinePasses))
    /\ WF_vars(InBind((gone \/ ctxDone) /\ BindTunnelEnds))

-------------------------------------------------------------------------------
(* Properties. *)

\* However the handler ends, both connections are closed, and the one that a
\* BIND handler has accepted, too; the handlers that do not defer the close of
\* the remote one never end without the tunnel.
NothingLeftOpen ==
    /\ step = "done" => lConn = "closed" /\ rConn # "open"
    /\ AcceptedIsClosed

\* The connection handed to the handler stays open until the handler closes
\* it: no goroutine that loses the race against cancel() closes the winner's.
WinnerStaysOpen == step \in {"succeed", "forward", "tunnel"} => rConn = "open"

\* "completely blocks connections matching this rule" (docs), by the rule with
\* the highest priority among those that match the name and the address: so it
\* is for the proxies.  (The TUN handlers do not look at the Block field.)
BlockedIsNotDialled ==
    dial # "off" /\ entry \in {"http", "https", "connect"}
        => ~Blocks(HigherPriority(addrMatch, nameMatch))

\* What a client is told is true.  One that has been refused is not connected,
\* but for the HTTP proxy's "forbidden", after which it goes on; a SOCKS5 client
\* that has been told of success is connected, whatever it sends then.  (HTTPS
\* clients are told before the dial: their "established" promises nothing.)
\* And a handler takes the dial for failed only when every address has been
\* tried and none answered, or the program stops.
RepliesAreHonest ==
    /\ (\E a \in replies \cap Refusals : ~(a = "forbidden" /\ entry \in {"http", "https"}))
          => "success" \notin replies /\ rConn # "open"
    /\ "success" \in replies => rConn # "none"
    /\ FailureIsHonest
    /\ dial = "cancelled" => ctxDone

\* What the handler has taken from the client has been sent on when the tunnel
\* starts, or the tunnel reads it from where it is: peeked bytes, and what came
\* with them into the buffer.  The exception is HTTP: what a client sends behind
\* its request without waiting for the answer may be lost with the request's
\* reader.
TakenBytesArrive ==
    step = "tunnel" =>
        /\ first \in {"unread", "sent"} \/ (first = "peeked" /\ TunnelSource = "bufConn")
        /\ ahead \in {"none", TunnelSource}
              \/ (ahead = "reader" /\ entry \in {"http", "https"})
==============================================================================
