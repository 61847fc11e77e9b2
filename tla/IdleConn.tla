------------------------------- MODULE IdleConn -------------------------------
(***************************************************************************)
(* internal/netutil/conn.go: IdleTimeoutConn in time, as the sessions of   *)
(* UDP ASSOCIATE use it.  (The module NatPool has the pool of sessions and *)
(* lets them expire at any moment.)                                        *)
(*                                                                         *)
(* Every Read and Write first calls ExtendDeadline, which moves the        *)
(* deadline only when less than 70% of the timeout remain.  Two goroutines *)
(* call it at the same time and share atomics only:                        *)
(*                                                                         *)
(*   "reader"  relayInboundUDP: Read, relay to the client, and so on       *)
(*   "writer"  the read loop of the association: Write for every packet    *)
(*                                                                         *)
(* A session ends when its blocked Read meets the deadline or the sweeper  *)
(* finds it expired.  Time passes in ticks, but a goroutine is not held up *)
(* inside ExtendDeadline, between two reads or by a timer for more than    *)
(* MaxDelay.                                                               *)
(***************************************************************************)
EXTENDS Naturals

CONSTANTS Timeout,   \* of the session
          Second,    \* onActivity is called at most that often
          MaxDelay,  \* bound on the time a goroutine is not scheduled
          MaxTime    \* bound on the clock

ASSUME IdleAssumption ==
    /\ Timeout \in Nat \ {0}
    /\ Second \in Nat
    /\ MaxDelay \in Nat
    /\ MaxTime \in Nat

Proc == {"reader", "writer"}

VARIABLES now,           \* the clock
          expiredAt,     \* atomic
          lastActivity,  \* atomic; onActivity was called then
          deadline,      \* read deadline of the socket
          pc,            \* [Proc -> step]
          at,            \* [Proc -> time.Now() of its call, or of its last step]
          exp,           \* [Proc -> expUnix of its call]
          last,          \* the last call that came through
          ended          \* somebody has decided to evict the session

idleVars == <<now, expiredAt, lastActivity, deadline, pc, at, exp, last, ended>>

\* NewIdleTimeoutConn; the relay is started, the first packet is being sent.
IdleInit ==
    /\ now = 0
    /\ lastActivity = 0
    /\ expiredAt = Timeout
    /\ deadline = Timeout
    /\ pc = [p \in Proc |-> IF p = "reader" THEN "relay" ELSE "idle"]
    /\ at = [p \in Proc |-> 0]
    /\ exp = [p \in Proc |-> 0]
    /\ last = 0
    /\ ended = FALSE

\* Steps that a goroutine does not stay at.
Busy == {"relay", "load", "touch", "mark", "store", "set"}

Tick ==
    /\ now < MaxTime
    /\ \A p \in Proc : pc[p] \in Busy => now < at[p] + MaxDelay
    /\ pc["reader"] = "blocked" => now < deadline + MaxDelay
    /\ ~ended
    /\ now' = now + 1
    /\ UNCHANGED <<expiredAt, lastActivity, deadline, pc, at, exp, last, ended>>

-------------------------------------------------------------------------------
(* ExtendDeadline, called by Read and Write. *)

Later(a, b) == IF a > b THEN a ELSE b

\* Where the goroutine goes on: Conn.Read or, at once, the end of Conn.Write.
\* The call has come through when it found the session alive.
Leave(p, alive) ==
    /\ pc' = [pc EXCEPT ![p] = IF p = "reader" THEN "blocked" ELSE "idle"]
    /\ last' = IF alive THEN Later(last, at[p]) ELSE last

Call(p) ==
    /\ pc[p] \in {"relay", "idle"}
    /\ at' = [at EXCEPT ![p] = now]
    /\ pc' = [pc EXCEPT ![p] = "load"]
    /\ UNCHANGED <<now, expiredAt, lastActivity, deadline, exp, last, ended>>

LoadExpiredAt(p) ==
    /\ pc[p] = "load"
    /\ IF at[p] > expiredAt
       THEN Leave(p, FALSE) /\ UNCHANGED exp
       ELSE /\ exp' = [exp EXCEPT ![p] = expiredAt]
            /\ pc' = [pc EXCEPT ![p] = "touch"]
            /\ UNCHANGED last
    /\ UNCHANGED <<now, expiredAt, lastActivity, deadline, at, ended>>

\* Slip: another share of the timeout.
SlipUnderThirty(p) == exp[p] - at[p] < (Timeout * 3) \div 10

\* Less than 70% remain.
Extends(p) == exp[p] - at[p] < (Timeout * 7) \div 10

\* What follows the look at the last activity.
Proceed(p) ==
    IF Extends(p) THEN pc' = [pc EXCEPT ![p] = "store"] /\ UNCHANGED last
                  ELSE Leave(p, TRUE)

LoadLastActivity(p) ==
    /\ pc[p] = "touch"
    /\ IF at[p] > lastActivity + Second
       THEN pc' = [pc EXCEPT ![p] = "mark"] /\ UNCHANGED last
       ELSE Proceed(p)
    /\ UNCHANGED <<now, expiredAt, lastActivity, deadline, at, exp, ended>>

\* The store, and onActivity.
StoreLastActivity(p) ==
    /\ pc[p] = "mark"
    /\ lastActivity' = at[p]
    /\ Proceed(p)
    /\ UNCHANGED <<now, expiredAt, deadline, at, exp, ended>>

\* Slip: the timeout is added to the old expiry.
SlipAddsUp(p) == exp[p] + Timeout

NewExpiry(p) == at[p] + Timeout

StoreExpiredAt(p) ==
    /\ pc[p] = "store"
    /\ expiredAt' = NewExpiry(p)
    /\ pc' = [pc EXCEPT ![p] = "set"]
    /\ UNCHANGED <<now, lastActivity, deadline, at, exp, last, ended>>

\* SetReadDeadline and SetWriteDeadline.
SetDeadlines(p) ==
    /\ pc[p] = "set"
    /\ deadline' = NewExpiry(p)
    /\ Leave(p, TRUE)
    /\ UNCHANGED <<now, expiredAt, lastActivity, at, exp, ended>>

-------------------------------------------------------------------------------
(* The end of a read, and of the session. *)

PacketArrives ==
    /\ pc["reader"] = "blocked"
    /\ now < deadline
    /\ pc' = [pc EXCEPT !["reader"] = "relay"]
    /\ at' = [at EXCEPT !["reader"] = now]
    /\ UNCHANGED <<now, expiredAt, lastActivity, deadline, exp, last, ended>>

\* os.ErrDeadlineExceeded: relayInboundUDP returns and evicts the session.
ReadTimesOut ==
    /\ pc["reader"] = "blocked"
    /\ now >= deadline
    /\ pc' = [pc EXCEPT !["reader"] = "returned"]
    /\ ended' = TRUE
    /\ UNCHANGED <<now, expiredAt, lastActivity, deadline, at, exp, last>>

\* evictExpired, whenever the sweeper's ticker comes round.
Sweep ==
    /\ ~ended
    /\ now > expiredAt
    /\ ended' = TRUE
    /\ UNCHANGED <<now, expiredAt, lastActivity, deadline, pc, at, exp, last>>

-------------------------------------------------------------------------------
ExtendDeadlineStep(p) ==
    \/ Call(p)
    \/ LoadExpiredAt(p)
    \/ LoadLastActivity(p)
    \/ StoreLastActivity(p)
    \/ StoreExpiredAt(p)
    \/ SetDeadlines(p)

IdleNext ==
    \/ Tick
    \/ ~ended /\ \E p \in Proc : ExtendDeadlineStep(p)
    \/ ~ended /\ PacketArrives
    \/ ~ended /\ ReadTimesOut
    \/ Sweep

IdleSpec == IdleInit /\ [][IdleNext]_idleVars

-------------------------------------------------------------------------------
(* Properties. *)

\* "sessions which should stay alive as long as there is activity": a session
\* is only ended when no call came through for 70% of the timeout (less the
\* delay of a goroutine), whichever of two racing calls writes last.  The one
\* exception: a goroutine has stored expiredAt and not yet set the deadlines.
\* The other one then relies on an expiry that the socket does not have yet.
EndsOnlyWhenIdle ==
    [][ended' /\ ~ended =>
          \/ now + MaxDelay >= last + (Timeout * 7) \div 10
          \/ pc["writer"] = "set"]_idleVars

\* An idle session is ended when its timeout has passed (and two delays): no
\* race leaves it with a later deadline, or with none.  Its place in the pool's
\* LRU order lags behind its calls by no more than a second.
IdleSessionEnds ==
    /\ ~ended => now <= last + Timeout + 2 * MaxDelay
    /\ last <= lastActivity + Second + MaxDelay
===============================================================================
