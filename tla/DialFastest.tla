----------------------------- MODULE DialFastest -----------------------------
(***************************************************************************)
(* internal/netutil/dial.go: DialFastest dials all addresses of a          *)
(* destination, at most maxConcurrency at a time, and returns the first    *)
(* connection.                                                             *)
(*                                                                         *)
(* A spawner goroutine starts one goroutine per address; each sends its    *)
(* result into a channel with room for all of them, or gives up when the   *)
(* context is done; the caller reads the channel.  Returning cancels the   *)
(* context (defer cancel()).  One call; the module Admission makes it.     *)
(***************************************************************************)
EXTENDS Naturals, Sequences

CONSTANTS N,               \* bound on len(dst.Addrs)
          MaxConcurrency   \* capacity of sem

ASSUME DialAssumption == N \in Nat \ {0} /\ MaxConcurrency \in Nat \ {0}

Addr == 1..N

VARIABLES addrs,     \* len(dst.Addrs), not 0: that is an error at once
          binds,     \* a bindFunc is given
          launched,  \* addresses the spawner has started a goroutine for
          spawner,   \* "off", "running" or "ended"
          sem,       \* tokens in the semaphore channel
          dpc,       \* [Addr -> step of the dialing goroutine]
          conns,     \* [Addr -> "none", "open" or "closed"]
          results,   \* the buffered channel: sequence of [addr, ok]
          dial,      \* the caller: "off", "reading", "ok", "failed" or "cancelled"
          handled,   \* results read so far (failureCount)
          winner,    \* address of the returned connection, 0 if none
          cancelled  \* ctx is done

call     == <<addrs, binds>>
dialVars == <<call, launched, spawner, sem, dpc, conns, results, dial, handled, winner, cancelled>>

DialInit ==
    /\ addrs = 0
    /\ binds = FALSE
    /\ launched = 0
    /\ spawner = "off"
    /\ sem = 0
    /\ dpc = [i \in Addr |-> "none"]
    /\ conns = [i \in Addr |-> "none"]
    /\ results = <<>>
    /\ dial = "off"
    /\ handled = 0
    /\ winner = 0
    /\ cancelled = FALSE

\* DialFastest is called with n addresses, on a context that may be done.
StartDial(n, b, done) ==
    /\ dial = "off"
    /\ addrs' = n
    /\ binds' = b
    /\ dial' = "reading"
    /\ spawner' = "running"
    /\ cancelled' = done
    /\ UNCHANGED <<launched, sem, dpc, conns, results, handled, winner>>

-------------------------------------------------------------------------------
(* The spawner: select on a free semaphore slot and ctx.Done(). *)

Launch ==
    /\ spawner = "running"
    /\ launched < addrs
    /\ sem < MaxConcurrency
    /\ sem' = sem + 1
    /\ launched' = launched + 1
    /\ dpc' = [dpc EXCEPT ![launched + 1] = IF binds THEN "bind" ELSE "dial"]
    /\ UNCHANGED <<call, spawner, conns, results, dial, handled, winner, cancelled>>

SpawnerEnds ==
    /\ spawner = "running"
    /\ launched = addrs \/ cancelled
    /\ spawner' = "ended"
    /\ UNCHANGED <<call, launched, sem, dpc, conns, results, dial, handled, winner, cancelled>>

-------------------------------------------------------------------------------
(* The goroutine of address i. *)

BindReturns(i, ok) ==
    /\ dpc[i] = "bind"
    /\ dpc' = [dpc EXCEPT ![i] = IF ok THEN "dial" ELSE "offer"]
    /\ UNCHANGED <<call, launched, spawner, sem, conns, results, dial, handled, winner, cancelled>>

\* DialContext: a connection, or an error (always, once the context is done).
DialReturns(i, ok) ==
    /\ dpc[i] = "dial"
    /\ ok => ~cancelled
    /\ conns' = [conns EXCEPT ![i] = IF ok THEN "open" ELSE "none"]
    /\ dpc' = [dpc EXCEPT ![i] = "offer"]
    /\ UNCHANGED <<call, launched, spawner, sem, results, dial, handled, winner, cancelled>>

\* The first case of the select; the buffer always has room.
SendResult(i) ==
    /\ dpc[i] = "offer"
    /\ Len(results) < addrs
    /\ results' = Append(results, [addr |-> i, ok |-> conns[i] = "open"])
    /\ dpc' = [dpc EXCEPT ![i] = "release"]
    /\ UNCHANGED <<call, launched, spawner, sem, conns, dial, handled, winner, cancelled>>

\* The second case: close the connection, if there is one.
DropResult(i) ==
    /\ dpc[i] = "offer"
    /\ cancelled
    /\ conns' = [conns EXCEPT ![i] = IF @ = "open" THEN "closed" ELSE @]
    /\ dpc' = [dpc EXCEPT ![i] = "release"]
    /\ UNCHANGED <<call, launched, spawner, sem, results, dial, handled, winner, cancelled>>

\* Variants a slip would produce are named Slip...; no specification uses them.
\* Slip: the goroutine closes its connection whenever the context is done.
SlipReleaseCloses(i) ==
    /\ dpc[i] = "release"
    /\ sem' = sem - 1
    /\ dpc' = [dpc EXCEPT ![i] = "done"]
    /\ conns' = [conns EXCEPT ![i] = IF cancelled /\ @ = "open" THEN "closed" ELSE @]
    /\ UNCHANGED <<call, launched, spawner, results, dial, handled, winner, cancelled>>

ReleaseSem(i) ==
    /\ dpc[i] = "release"
    /\ sem' = sem - 1
    /\ dpc' = [dpc EXCEPT ![i] = "done"]
    /\ UNCHANGED <<call, launched, spawner, conns, results, dial, handled, winner, cancelled>>

-------------------------------------------------------------------------------
(* The caller: select on results and ctx.Done(). *)

ReceiveOK ==
    /\ dial = "reading"
    /\ results # <<>>
    /\ Head(results).ok
    /\ results' = Tail(results)
    /\ winner' = Head(results).addr
    /\ dial' = "ok"
    /\ cancelled' = TRUE
    /\ UNCHANGED <<call, launched, spawner, sem, dpc, conns, handled>>

\* Slip: the caller waits for one failure more than there are addresses.
SlipWaitsForOneMore ==
    /\ dial = "reading"
    /\ results # <<>>
    /\ ~Head(results).ok
    /\ results' = Tail(results)
    /\ handled' = handled + 1
    /\ UNCHANGED <<call, launched, spawner, sem, dpc, conns, dial, winner, cancelled>>

ReceiveError ==
    /\ dial = "reading"
    /\ results # <<>>
    /\ ~Head(results).ok
    /\ results' = Tail(results)
    /\ handled' = handled + 1
    /\ dial' = IF handled + 1 = addrs THEN "failed" ELSE "reading"
    /\ cancelled' = (cancelled \/ handled + 1 = addrs)
    /\ UNCHANGED <<call, launched, spawner, sem, dpc, conns, winner>>

SeeCancelled ==
    /\ dial = "reading"
    /\ cancelled
    /\ dial' = "cancelled"
    /\ UNCHANGED <<call, launched, spawner, sem, dpc, conns, results, handled, winner, cancelled>>

\* The parent context ends.
ParentCancels ==
    /\ dial # "off"
    /\ ~cancelled
    /\ cancelled' = TRUE
    /\ UNCHANGED <<call, launched, spawner, sem, dpc, conns, results, dial, handled, winner>>

-------------------------------------------------------------------------------
Dialer(i) ==
    \/ \E ok \in BOOLEAN : BindReturns(i, ok) \/ DialReturns(i, ok)
    \/ SendResult(i)
    \/ DropResult(i)
    \/ ReleaseSem(i)

Caller == ReceiveOK \/ ReceiveError \/ SeeCancelled

AllEnded == /\ dial # "reading"
            /\ spawner = "ended"
            /\ \A i \in Addr : dpc[i] \in {"none", "done"}

DialStep == Launch \/ SpawnerEnds \/ (\E i \in Addr : Dialer(i)) \/ Caller

-------------------------------------------------------------------------------
(* Properties. *)

\* "All attempts failed" is only said when every address has been tried and
\* none has a connection.
FailureIsHonest ==
    dial = "failed" =>
        \A i \in 1..addrs : dpc[i] \in {"release", "done"} /\ conns[i] = "none"

\* DialFastest returns, and every goroutine it started ends.
DialTerminates == dial = "reading" ~> AllEnded
==============================================================================
