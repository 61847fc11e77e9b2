-------------------------------- MODULE Tunnel --------------------------------
(***************************************************************************)
(* internal/netutil/conn.go: TunnelConns and WaitForTunnelCompletion, the  *)
(* last phase of every proxied connection (HTTP, HTTPS, SOCKS5 CONNECT and *)
(* BIND, TUN TCP and UDP).                                                 *)
(*                                                                         *)
(* Two copier goroutines share the client and the remote connection.  Each *)
(* registers an AfterFunc on the context, copies until an end of file or   *)
(* an error, sends one result into a buffered channel, and then closes     *)
(* both connections; the handler waits for two results and returns, which  *)
(* cancels the context and runs its own deferred closes.                   *)
(*                                                                         *)
(* Data is counted in chunks.  An error is one of                          *)
(*   "eof"      io.CopyBuffer returned nil         "closed"  net.ErrClosed *)
(*   "pipe"     EPIPE                              "timeout" os.IsTimeout  *)
(*   "reset"    ECONNRESET                         "other"   anything else *)
(*   "gonet"    what gVisor's connections (TUN) return for a write after   *)
(*              our own Close; unlike net.Conn's, it is not net.ErrClosed, *)
(*              so the filter lets it through.  Their Read returns io.EOF  *)
(*              after Close, which counts as "closed" here: it is filtered *)
(*              as well, and is not the peer's.                            *)
(***************************************************************************)
EXTENDS Naturals, Sequences

CONSTANTS MaxChunks,     \* bound on the chunks each peer sends
          Idle,          \* TRUE when both ends are IdleTimeoutConns (TUN UDP)
          Gonet,         \* TRUE when the client's end is gVisor's (TUN)
          HandlerCloses, \* ends the handler closes with its own defers
          Cancellable,   \* TRUE when the context derives from appctx (SOCKS5)
          ReportsBlocked \* TRUE when errHandler maps a reset to ErrBlocked

Side == {"client", "remote"}
Dir  == {"out", "in"}

ASSUME TunnelAssumption ==
    /\ MaxChunks \in Nat \ {0}
    /\ Idle \in BOOLEAN
    /\ Gonet \in BOOLEAN
    /\ Cancellable \in BOOLEAN
    /\ ReportsBlocked \in BOOLEAN
    /\ HandlerCloses \subseteq Side
    /\ "client" \in HandlerCloses

src == [out |-> "client", in |-> "remote"]
dst == [out |-> "remote", in |-> "client"]

VARIABLES
    peer,      \* [Side -> "up", "fin", "reset" or "other"]: the far end
    sent,      \* [Side -> chunks its peer has sent]
    conn,      \* [Side -> "open" or "closed"]: our end
    pc,        \* [Dir -> step of TunnelConns]
    taken,     \* [Dir -> chunks read from src]
    delivered, \* [Dir -> chunks written to dst]
    err,       \* [Dir -> how io.CopyBuffer ended, "none" before]
    after,     \* [Dir -> "none", "armed", "fired" or "stopped"]: the AfterFunc
    once,      \* [Dir -> the sync.Once has run]
    resCh,     \* the results not yet received
    errs,      \* the errors received
    received,  \* results received
    handler,   \* "waiting" or "returned"
    outcome,   \* "none", "nil", "error" or "blocked"
    appDone    \* the context the handler was called with is done

netVars  == <<peer, sent>>
copyVars == <<pc, taken, delivered, err>>
waitVars == <<resCh, errs, received, handler, outcome>>
onceVars == <<after, once>>
vars     == <<netVars, conn, copyVars, onceVars, waitVars, appDone>>

Init ==
    /\ peer = [s \in Side |-> "up"]
    /\ sent = [s \in Side |-> 0]
    /\ conn = [s \in Side |-> "open"]
    /\ pc = [d \in Dir |-> "start"]
    /\ taken = [d \in Dir |-> 0]
    /\ delivered = [d \in Dir |-> 0]
    /\ err = [d \in Dir |-> "none"]
    /\ after = [d \in Dir |-> "none"]
    /\ once = [d \in Dir |-> FALSE]
    /\ resCh = <<>>
    /\ errs = <<>>
    /\ received = 0
    /\ handler = "waiting"
    /\ outcome = "none"
    /\ appDone = FALSE

\* Slip: the tunnel is given the context of the dial, which is cancelled by now.
SlipDialContext == TRUE

\* The tunnel's context ends with its parent or with the handler's cancel().
CtxDone == appDone \/ handler = "returned"

Failed(s) == peer[s] \in {"reset", "other"}

-------------------------------------------------------------------------------
(* The two peers.  What they do after our end is closed no longer matters. *)

PeerSends(s) ==
    /\ conn[s] = "open"
    /\ peer[s] = "up"
    /\ sent[s] < MaxChunks
    /\ sent' = [sent EXCEPT ![s] = @ + 1]
    /\ UNCHANGED <<peer, conn, copyVars, onceVars, waitVars, appDone>>

\* The far end finishes sending, or its connection fails.
PeerEnds(s, how) ==
    /\ conn[s] = "open"
    /\ \/ peer[s] = "up" /\ how \in {"fin", "reset", "other"}
       \/ peer[s] = "fin" /\ how \in {"reset", "other"}
    /\ peer' = [peer EXCEPT ![s] = how]
    /\ UNCHANGED <<sent, conn, copyVars, onceVars, waitVars, appDone>>

\* The application stops (SOCKS5: the context derives from appctx).
CtxEnds ==
    /\ Cancellable
    /\ ~appDone
    /\ appDone' = TRUE
    /\ UNCHANGED <<netVars, conn, copyVars, onceVars, waitVars>>

-------------------------------------------------------------------------------
(* TunnelConns. *)

Start(d) ==
    /\ pc[d] = "start"
    /\ pc' = [pc EXCEPT ![d] = "read"]
    /\ after' = [after EXCEPT ![d] = "armed"]
    /\ UNCHANGED <<netVars, conn, taken, delivered, err, once, waitVars, appDone>>

\* How a Read on src can end the copy now: io.CopyBuffer sees the end of file
\* behind the data, whatever else may have happened on the other connection.
ReadEnds(d) ==
    IF conn[src[d]] = "closed" THEN {"closed"}
    ELSE (IF peer[src[d]] = "fin" /\ taken[d] = sent[src[d]] THEN {"eof"} ELSE {})
         \cup (IF Failed(src[d]) THEN {peer[src[d]]} ELSE {})
         \cup (IF Idle THEN {"timeout"} ELSE {})

\* How a Write to dst can end the copy now.  After a reset the kernel reports
\* ECONNRESET once and EPIPE from then on.
WriteEnds(d) ==
    IF conn[dst[d]] = "closed"
    THEN {IF Gonet /\ dst[d] = "client" THEN "gonet" ELSE "closed"}
    ELSE (IF Failed(dst[d]) THEN {peer[dst[d]], "pipe"} ELSE {})
         \cup (IF Idle THEN {"timeout"} ELSE {})

Read(d) ==
    /\ pc[d] = "read"
    /\ conn[src[d]] = "open"
    /\ taken[d] < sent[src[d]]
    /\ taken' = [taken EXCEPT ![d] = @ + 1]
    /\ pc' = [pc EXCEPT ![d] = "write"]
    /\ UNCHANGED <<netVars, conn, delivered, err, onceVars, waitVars, appDone>>

Write(d) ==
    /\ pc[d] = "write"
    /\ conn[dst[d]] = "open"
    /\ ~Failed(dst[d])
    /\ delivered' = [delivered EXCEPT ![d] = @ + 1]
    /\ pc' = [pc EXCEPT ![d] = "read"]
    /\ UNCHANGED <<netVars, conn, taken, err, onceVars, waitVars, appDone>>

CopyReturns(d) ==
    /\ \/ pc[d] = "read" /\ \E e \in ReadEnds(d) : err' = [err EXCEPT ![d] = e]
       \/ pc[d] = "write" /\ \E e \in WriteEnds(d) : err' = [err EXCEPT ![d] = e]
    /\ pc' = [pc EXCEPT ![d] = "send"]
    /\ UNCHANGED <<netVars, conn, taken, delivered, onceVars, waitVars, appDone>>

Benign(e) == e \in {"eof", "closed", "pipe", "timeout"}

SendResult(d) ==
    /\ pc[d] = "send"
    /\ resCh' = Append(resCh, IF Benign(err[d]) THEN "nil" ELSE err[d])
    /\ pc' = [pc EXCEPT ![d] = "close"]
    /\ UNCHANGED <<netVars, conn, taken, delivered, err, onceVars, errs, received,
                   handler, outcome, appDone>>

\* closeOnce
CloseOnce(d) ==
    /\ conn' = IF once[d] THEN conn ELSE [s \in Side |-> "closed"]
    /\ once' = [once EXCEPT ![d] = TRUE]

\* Slip: the deferred function only stops the AfterFunc.
SlipStopsOnly(d) ==
    /\ pc[d] = "close"
    /\ after' = [after EXCEPT ![d] = IF @ = "armed" THEN "stopped" ELSE @]
    /\ pc' = [pc EXCEPT ![d] = "done"]
    /\ UNCHANGED <<netVars, conn, once, taken, delivered, err, waitVars, appDone>>

\* The deferred function: stop() and closeOnce().
StopAndClose(d) ==
    /\ pc[d] = "close"
    /\ after' = [after EXCEPT ![d] = IF @ = "armed" THEN "stopped" ELSE @]
    /\ CloseOnce(d)
    /\ pc' = [pc EXCEPT ![d] = "done"]
    /\ UNCHANGED <<netVars, taken, delivered, err, waitVars, appDone>>

\* context.AfterFunc runs closeOnce in a goroutine of its own.
AfterFunc(d) ==
    /\ CtxDone
    /\ after[d] = "armed"
    /\ after' = [after EXCEPT ![d] = "fired"]
    /\ CloseOnce(d)
    /\ UNCHANGED <<netVars, copyVars, waitVars, appDone>>

-------------------------------------------------------------------------------
(* WaitForTunnelCompletion and the handler's return. *)

WaitReceives ==
    /\ handler = "waiting"
    /\ received < 2
    /\ resCh # <<>>
    /\ resCh' = Tail(resCh)
    /\ received' = received + 1
    /\ errs' = IF Head(resCh) = "nil" THEN errs ELSE Append(errs, Head(resCh))
    /\ UNCHANGED <<netVars, conn, copyVars, onceVars, handler, outcome, appDone>>

\* Slip: only the error that came first is looked at.
SlipFirstErrorDecides ==
    IF errs = <<>> THEN "nil"
    ELSE IF ReportsBlocked /\ Head(errs) = "reset" THEN "blocked"
    ELSE "error"

Verdict ==
    IF errs = <<>> THEN "nil"
    ELSE IF ReportsBlocked /\ \E i \in 1..Len(errs) : errs[i] = "reset" THEN "blocked"
    ELSE "error"

\* The deferred cancel() and closes of the handler are part of its return.
HandlerReturns ==
    /\ handler = "waiting"
    /\ received = 2
    /\ handler' = "returned"
    /\ outcome' = Verdict
    /\ conn' = [s \in Side |-> IF s \in HandlerCloses THEN "closed" ELSE conn[s]]
    /\ UNCHANGED <<netVars, copyVars, onceVars, resCh, errs, received, appDone>>

-------------------------------------------------------------------------------
Copier(d) ==
    \/ Start(d)
    \/ Read(d)
    \/ Write(d)
    \/ CopyReturns(d)
    \/ SendResult(d)
    \/ StopAndClose(d)

Handler == WaitReceives \/ HandlerReturns

Next ==
    \/ \E s \in Side : \/ PeerSends(s)
                       \/ \E how \in {"fin", "reset", "other"} : PeerEnds(s, how)
    \/ \E d \in Dir : Copier(d) \/ AfterFunc(d)
    \/ Handler
    \/ CtxEnds

\* Every goroutine is scheduled; a copier blocked in Read or Write is not
\* enabled.  Nothing is assumed of the peers.
Spec == /\ Init /\ [][Next]_vars
        /\ \A d \in Dir : WF_vars(Copier(d)) /\ WF_vars(AfterFunc(d))
        /\ WF_vars(Handler)

-------------------------------------------------------------------------------
(* Properties. *)

\* The handler reports an error only when a peer's connection really failed,
\* and "request blocked" only after a reset: the errors the tunnel causes
\* itself, by closing both ends when one direction is finished or the context
\* ends, stay inside (the filter in TunnelConns).  The one exception is a write
\* to a TUN client's connection that was closed in between.
NoSpuriousError ==
    /\ outcome \in {"error", "blocked"} =>
           (\E s \in Side : Failed(s)) \/ (\E d \in Dir : err[d] = "gonet")
    /\ outcome = "blocked" => \E s \in Side : peer[s] = "reset"

\* A peer's failure that ended a copy is in the handler's verdict, and a reset
\* makes it "request blocked", although the other copier ends too and its
\* result, an error of the closing or another failure, may arrive first.
FailuresAreReported ==
    handler = "returned" =>
        /\ (\E d \in Dir : err[d] \in {"reset", "other"}) => outcome # "nil"
        /\ ReportsBlocked /\ (\E d \in Dir : err[d] = "reset") => outcome = "blocked"

\* What WaitForTunnelCompletion returns is neither made by the tunnel's own
\* closing nor without a failure that ended a copy, in whatever order copiers,
\* AfterFuncs and results come: both filters, in TunnelConns and here, are right.
VerdictIsTrue == NoSpuriousError /\ FailuresAreReported

\* The direction has come to an end that was not made by closing.
EndsByItself(d) == err[d] \in {"eof", "pipe", "timeout", "reset", "other"}

\* A copier drops the chunk it has read and not yet written only when the
\* destination failed or timed out, the application stops, or the other
\* direction came to an end of its own, after which TunnelConns closes both
\* connections: no copier, AfterFunc or handler closes them before that.
DropsForCause ==
    \A d \in Dir :
        err[d] # "none" /\ delivered[d] < taken[d] =>
            \/ Failed(dst[d])
            \/ err[d] = "timeout"
            \/ appDone
            \/ \E o \in Dir \ {d} : EndsByItself(o)

Finished ==
    /\ handler = "returned"
    /\ \A d \in Dir : pc[d] = "done" /\ after[d] \in {"fired", "stopped"}
    /\ \A s \in Side : conn[s] = "closed"

\* When one direction has ended for whatever reason, or the context has, even
\* of an idle tunnel, all is torn down: both sockets are closed, both goroutines
\* end and the handler returns.
OneEndsAllEnd == (CtxDone \/ \E d \in Dir : pc[d] = "send") ~> Finished
==============================================================================
