----------------------------- MODULE BindHandler -----------------------------
(***************************************************************************)
(* internal/server/socks5/handler_bind.go: the SOCKS5 BIND command.        *)
(*                                                                         *)
(* The handler listens for one peer on behalf of the client.  While it     *)
(* waits, a monitor goroutine polls the client's connection with a read    *)
(* deadline, to close the listener when the client drops, and an acceptor  *)
(* goroutine sits in Accept.  Before the tunnel starts the monitor must be *)
(* out of the way.                                                         *)
(*                                                                         *)
(* One BIND request; the module Admission reads it.  A byte of the client is "early" when   *)
(* it is sent before the second reply and "late" after it.  The tunnel is  *)
(* the module Tunnel, here one step that closes both ends.                 *)
(***************************************************************************)
EXTENDS Naturals, Sequences

CONSTANT MaxBytes   \* bound on the bytes the client sends

ASSUME BindAssumption == MaxBytes \in Nat

VARIABLES bind,      \* step of Handle, "off" before it is called
          mon,       \* step of the monitor, "off" before it is started
          acc,       \* step of the acceptor, "off" before it is started
          listener,  \* "none", "open", "closed"
          ch,        \* the acceptor's channel: "empty", "conn", "error"
          remote,    \* the accepted connection: "none", "open", "closed"
          stop,      \* stopMonitor is closed
          deadline,  \* read deadline of lConn: "none", "future", "past"
          lConn,     \* the client's connection, on our side: "open", "closed"
          peer,      \* who has connected: "nobody", "expected", "stranger"
          inbox,     \* client bytes that nobody has read
          sent,      \* number of bytes the client has sent
          stolen,    \* kinds of bytes the monitor has read
          replied,   \* replies written: 0, 1 or 2
          gone,      \* the client has dropped
          ctxDone    \* the program's context (appctx) is done

net      == <<inbox, sent, peer, gone, ctxDone>>
bindVars == <<bind, mon, acc, listener, ch, remote, stop, deadline, lConn, stolen,
          replied, net>>

BindInit ==
    /\ bind = "off"
    /\ mon = "off"
    /\ acc = "off"
    /\ listener = "none"
    /\ ch = "empty"
    /\ remote = "none"
    /\ stop = FALSE
    /\ deadline = "none"
    /\ lConn = "open"
    /\ peer = "nobody"
    /\ inbox = <<>>
    /\ sent = 0
    /\ stolen = {}
    /\ replied = 0
    /\ gone = FALSE
    /\ ctxDone = FALSE

Shut(c) == IF c = "open" THEN "closed" ELSE c

-------------------------------------------------------------------------------
(* The environment. *)

ClientSends ==
    /\ bind # "off"
    /\ ~gone
    /\ lConn = "open"
    /\ sent < MaxBytes
    /\ sent' = sent + 1
    /\ inbox' = Append(inbox, IF replied = 2 THEN "late" ELSE "early")
    /\ UNCHANGED <<bind, mon, acc, listener, ch, remote, stop, deadline, lConn,
                   stolen, replied, peer, gone, ctxDone>>

ClientDrops ==
    /\ bind # "off"
    /\ ~gone
    /\ gone' = TRUE
    /\ UNCHANGED <<bind, mon, acc, listener, ch, remote, stop, deadline, lConn,
                   stolen, replied, inbox, sent, peer, ctxDone>>

PeerConnects ==
    /\ listener = "open"
    /\ peer = "nobody"
    /\ peer' \in {"expected", "stranger"}
    /\ UNCHANGED <<bind, mon, acc, listener, ch, remote, stop, deadline, lConn,
                   stolen, replied, inbox, sent, gone, ctxDone>>

ContextEnds ==
    /\ ~ctxDone
    /\ ctxDone' = TRUE
    /\ UNCHANGED <<bind, mon, acc, listener, ch, remote, stop, deadline, lConn,
                   stolen, replied, inbox, sent, peer, gone>>

DeadlinePasses ==
    /\ deadline = "future"
    /\ deadline' = "past"
    /\ UNCHANGED <<bind, mon, acc, listener, ch, remote, stop, lConn, stolen,
                   replied, net>>

-------------------------------------------------------------------------------
(* Handle. *)

\* Handle returns: its deferred closes run.
Return ==
    /\ bind' = "returned"
    /\ listener' = Shut(listener)
    /\ remote' = IF bind \in {"verify", "reply2", "tunnel"} THEN Shut(remote) ELSE remote

StartBind ==
    /\ bind = "off"
    /\ bind' = "listen"
    /\ UNCHANGED <<mon, acc, listener, ch, remote, stop, deadline, lConn, stolen,
                   replied, net>>

Listen(ok) ==
    /\ bind = "listen"
    /\ IF ok THEN bind' = "reply1" /\ listener' = "open" /\ UNCHANGED remote
             ELSE Return
    /\ UNCHANGED <<mon, acc, ch, stop, deadline, lConn, stolen, replied, net>>

\* The first reply.  Then the monitor and the acceptor are started.
Reply1(ok) ==
    /\ bind = "reply1"
    /\ ok \/ gone
    /\ IF ok THEN /\ bind' = "select"
                  /\ mon' = "arm"
                  /\ acc' = "accept"
                  /\ replied' = 1
                  /\ UNCHANGED <<listener, remote>>
             ELSE Return /\ UNCHANGED <<mon, acc, replied>>
    /\ UNCHANGED <<ch, stop, deadline, lConn, stolen, net>>

\* case <-ctx.Done()
SelectDone ==
    /\ bind = "select"
    /\ ctxDone
    /\ listener' = "closed"
    /\ bind' = "drain"
    /\ UNCHANGED <<mon, acc, ch, remote, stop, deadline, lConn, stolen, replied, net>>

\* res := <-ch closes a connection that was accepted at the same time.
Drain ==
    /\ bind = "drain"
    /\ ch # "empty"
    /\ ch' = "empty"
    /\ bind' = "returned"
    /\ remote' = IF ch = "conn" THEN Shut(remote) ELSE remote
    /\ UNCHANGED <<mon, acc, listener, stop, deadline, lConn, stolen, replied, net>>

\* case res := <-ch
SelectResult ==
    /\ bind = "select"
    /\ ch # "empty"
    /\ ch' = "empty"
    /\ IF ch = "conn" THEN bind' = "stop" /\ UNCHANGED <<listener, remote>> ELSE Return
    /\ UNCHANGED <<mon, acc, stop, deadline, lConn, stolen, replied, net>>

\* close(stopMonitor)
StopMonitor ==
    /\ bind = "stop"
    /\ stop' = TRUE
    /\ bind' = "unblock"
    /\ UNCHANGED <<mon, acc, listener, ch, remote, deadline, lConn, stolen, replied, net>>

\* Unblocks a Read in progress.
Unblock ==
    /\ bind = "unblock"
    /\ deadline' = "past"
    /\ bind' = "wait"
    /\ UNCHANGED <<mon, acc, listener, ch, remote, stop, lConn, stolen, replied, net>>

\* Slip: no monitorWg.Wait.
SlipNoWait ==
    /\ bind = "wait"
    /\ bind' = "restore"
    /\ UNCHANGED <<mon, acc, listener, ch, remote, stop, deadline, lConn, stolen,
                   replied, net>>

\* monitorWg.Wait()
WaitMonitor ==
    /\ bind = "wait"
    /\ mon = "exited"
    /\ bind' = "restore"
    /\ UNCHANGED <<mon, acc, listener, ch, remote, stop, deadline, lConn, stolen,
                   replied, net>>

Restore ==
    /\ bind = "restore"
    /\ deadline' = "none"
    /\ bind' = "verify"
    /\ UNCHANGED <<mon, acc, listener, ch, remote, stop, lConn, stolen, replied, net>>

\* A stranger is turned away, unless the request names no address.
Verify(any) ==
    /\ bind = "verify"
    /\ IF peer = "stranger" /\ ~any
       THEN Return
       ELSE bind' = "reply2" /\ UNCHANGED <<listener, remote>>
    /\ UNCHANGED <<mon, acc, ch, stop, deadline, lConn, stolen, replied, net>>

Reply2(ok) ==
    /\ bind = "reply2"
    /\ ok \/ gone
    /\ IF ok THEN bind' = "tunnel" /\ replied' = 2 /\ UNCHANGED <<listener, remote>>
             ELSE Return /\ UNCHANGED replied
    /\ UNCHANGED <<mon, acc, ch, stop, deadline, lConn, stolen, net>>

\* A tunnel copier takes a byte to the peer.
BindTunnelReads ==
    /\ bind = "tunnel"
    /\ deadline # "past"
    /\ inbox # <<>>
    /\ inbox' = Tail(inbox)
    /\ UNCHANGED <<bind, mon, acc, listener, ch, remote, stop, deadline, lConn, stolen,
                   replied, sent, peer, gone, ctxDone>>

\* TunnelConns and WaitForTunnelCompletion (module Tunnel).
BindTunnelEnds ==
    /\ bind = "tunnel"
    /\ Return
    /\ lConn' = "closed"
    /\ UNCHANGED <<mon, acc, ch, stop, deadline, stolen, replied, net>>

\* handleConnection returns and closes the client's connection.
CloseClient ==
    /\ bind = "returned"
    /\ bind' = "done"
    /\ lConn' = "closed"
    /\ UNCHANGED <<mon, acc, listener, ch, remote, stop, deadline, stolen, replied, net>>

-------------------------------------------------------------------------------
(* The monitor. *)

\* SetReadDeadline(200 ms from now); on a closed connection it does nothing.
MonArms ==
    /\ mon = "arm"
    /\ deadline' = IF lConn = "open" THEN "future" ELSE deadline
    /\ mon' = "read"
    /\ UNCHANGED <<bind, acc, listener, ch, remote, stop, lConn, stolen, replied, net>>

MonReads ==
    /\ mon = "read"
    /\ IF lConn = "closed" THEN mon' = "dropped" /\ UNCHANGED <<inbox, stolen>>
       ELSE IF deadline = "past" THEN mon' = "timeout" /\ UNCHANGED <<inbox, stolen>>
       ELSE IF inbox # <<>> THEN /\ inbox' = Tail(inbox)
                                 /\ stolen' = stolen \cup {Head(inbox)}
                                 /\ mon' = "byte"
       ELSE gone /\ mon' = "dropped" /\ UNCHANGED <<inbox, stolen>>
    /\ UNCHANGED <<bind, acc, listener, ch, remote, stop, deadline, lConn, replied,
                   sent, peer, gone, ctxDone>>

\* Slip: an error other than the deadline does not close the listener.
SlipNeverCloses ==
    /\ mon \in {"timeout", "dropped", "byte"}
    /\ mon' = IF stop \/ mon = "dropped" THEN "exited" ELSE "arm"
    /\ UNCHANGED <<bind, acc, listener, ch, remote, stop, deadline, lConn, stolen,
                   replied, net>>

\* The select on stopMonitor; then a timeout polls again, a drop goes on to
\* close the listener.
MonChecks ==
    /\ mon \in {"timeout", "dropped", "byte"}
    /\ mon' = IF stop THEN "exited" ELSE IF mon = "dropped" THEN "close" ELSE "arm"
    /\ UNCHANGED <<bind, acc, listener, ch, remote, stop, deadline, lConn, stolen,
                   replied, net>>

MonCloses ==
    /\ mon = "close"
    /\ listener' = "closed"
    /\ mon' = "exited"
    /\ UNCHANGED <<bind, acc, ch, remote, stop, deadline, lConn, stolen, replied, net>>

-------------------------------------------------------------------------------
(* The acceptor. *)

Accept ==
    /\ acc = "accept"
    /\ \/ /\ listener = "open"
          /\ peer # "nobody"
          /\ ch' = "conn"
          /\ remote' = "open"
       \/ listener = "closed" /\ ch' = "error" /\ UNCHANGED remote
    /\ acc' = "exited"
    /\ UNCHANGED <<bind, mon, listener, stop, deadline, lConn, stolen, replied, net>>

-------------------------------------------------------------------------------
BindEnvironment ==
    \/ ClientSends
    \/ ClientDrops
    \/ PeerConnects
    \/ DeadlinePasses

BindHandle ==
    \/ \E ok \in BOOLEAN : Listen(ok) \/ Reply1(ok) \/ Verify(ok) \/ Reply2(ok)
    \/ SelectDone
    \/ Drain
    \/ SelectResult
    \/ StopMonitor
    \/ Unblock
    \/ WaitMonitor
    \/ Restore

Monitor ==
    \/ MonArms
    \/ MonReads
    \/ MonChecks
    \/ MonCloses

BindStep ==
    BindEnvironment \/ BindHandle \/ BindTunnelReads \/ BindTunnelEnds \/ Monitor \/ Accept

-------------------------------------------------------------------------------
(* Properties. *)

\* "The monitoring goroutine must exit before tunneling begins to avoid
\* stealing bytes": no byte the client sends after the second reply is read by
\* the monitor, and its polling leaves no deadline behind that would end an
\* idle tunnel, however its last poll overlaps with the accept.
MonitorIsGone ==
    /\ "late" \notin stolen
    /\ bind = "tunnel" => deadline = "none"

\* An accepted connection is always in somebody's hands, and closed once the
\* handler is done, also when the accept and the cancellation coincide.
AcceptedIsClosed ==
    bind \in {"returned", "done"} /\ acc \in {"off", "exited"} => remote # "open"

AllReleased ==
    /\ bind = "done"
    /\ mon \in {"off", "exited"}
    /\ acc \in {"off", "exited"}
    /\ listener # "open"
    /\ remote # "open"
    /\ lConn = "closed"

\* A client that drops, or the end of the program, releases the listener, both
\* connections and both goroutines.
DropReleasesAll == bind # "off" /\ (gone \/ ctxDone) ~> AllReleased
==============================================================================
