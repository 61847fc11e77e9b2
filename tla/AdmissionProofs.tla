--------------------------- MODULE AdmissionProofs ---------------------------
(***************************************************************************)
(* A connection's way into the proxy, for any number of addresses, any set *)
(* of rules and any number of bytes a client sends: the race of            *)
(* DialFastest, the monitor of BindHandler and the handlers of Admission.  *)
(***************************************************************************)
EXTENDS Admission, FiniteSetTheorems, TLAPS

-------------------------------------------------------------------------------
(* DialFastest. *)

\* What the channel carries.
Result == [addr : Addr, ok : BOOLEAN]

\* The types of its variables.
DialTypeOK ==
    /\ addrs \in 0..N
    /\ launched \in 0..addrs
    /\ dpc \in [Addr -> {"none", "bind", "dial", "offer", "release", "done"}]
    /\ conns \in [Addr -> {"none", "open", "closed"}]
    /\ results \in Seq(Result)
    /\ dial \in {"off", "reading", "ok", "failed", "cancelled"}
    /\ handled \in Nat

\* Goroutines exist for the launched addresses, and have a connection of their
\* own only between the dial and the select that gives it away.
GoroutineInv ==
    \A i \in Addr :
        /\ i > launched => dpc[i] = "none"
        /\ dpc[i] \in {"none", "bind", "dial"} => conns[i] = "none"
        /\ dpc[i] = "offer" => conns[i] # "closed"

\* A goroutine that has its select behind it.
Sent(i) == dpc[i] \in {"release", "done"}

Queued(i) == \E k \in 1..Len(results) : results[k].addr = i

\* The channel holds one result per address at most, and tells the truth.
ChannelInv ==
    /\ \A k \in 1..Len(results) :
          /\ Sent(results[k].addr)
          /\ conns[results[k].addr] = IF results[k].ok THEN "open" ELSE "none"
    /\ \A j, k \in 1..Len(results) : results[j].addr = results[k].addr => j = k

\* The connection that was returned is in nobody else's hands.
WinnerInv ==
    dial = "ok" => /\ winner \in Addr
                   /\ Sent(winner)
                   /\ conns[winner] # "none"
                   /\ ~Queued(winner)

\* H are the addresses whose failure the caller has read.
FailuresRead(H) ==
    /\ Cardinality(H) = handled
    /\ \A i \in H : Sent(i) /\ conns[i] = "none" /\ ~Queued(i)

\* The failures read so far belong to as many different addresses.
FailureInv ==
    /\ \E H \in SUBSET Addr : FailuresRead(H)
    /\ dial = "failed" => handled = addrs
    /\ dial = "off" => launched = 0 /\ spawner = "off" /\ results = <<>>

DialInv == DialTypeOK /\ GoroutineInv /\ ChannelInv /\ WinnerInv /\ FailureInv

\* Before the call nothing is dialled and nothing counted.
LEMMA DialInitInv == DialInit => DialInv
  <1> SUFFICES ASSUME DialInit PROVE DialInv
    OBVIOUS
  <1> USE DEF DialInit
  <1>1. DialTypeOK
    BY DialAssumption DEF DialTypeOK, Addr
  <1>2. GoroutineInv /\ ChannelInv /\ WinnerInv
    BY DEF GoroutineInv, ChannelInv, WinnerInv
  <1>3. FailureInv
    <2>1. Cardinality({}) = 0
      BY FS_EmptySet
    <2>2. QED
      BY <2>1 DEF FailureInv, FailuresRead
  <1>4. QED
    BY <1>1, <1>2, <1>3 DEF DialInv

\* The call, the spawner and the end of the parent context.
LEMMA SpawnerKeepsInv ==
    ASSUME DialInv,
           \/ \E n \in 1..N, b \in BOOLEAN, done \in BOOLEAN : StartDial(n, b, done)
           \/ Launch \/ SpawnerEnds \/ ParentCancels \/ UNCHANGED dialVars
    PROVE  DialInv'
  <1> USE DialAssumption DEF DialInv, dialVars, call, Addr, Sent, Queued
  <1>1. CASE \E n \in 1..N, b \in BOOLEAN, done \in BOOLEAN : StartDial(n, b, done)
    <2> PICK n \in 1..N, b \in BOOLEAN, done \in BOOLEAN : StartDial(n, b, done)
      BY <1>1
    <2> USE DEF StartDial
    <2>1. DialTypeOK'
      BY DEF DialTypeOK, FailureInv
    <2>2. GoroutineInv' /\ ChannelInv' /\ WinnerInv'
      BY DEF DialTypeOK, GoroutineInv, ChannelInv, WinnerInv
    <2>3. \A H \in SUBSET Addr : FailuresRead(H) => FailuresRead(H)'
      BY DEF FailuresRead
    <2>4. QED
      BY <2>1, <2>2, <2>3 DEF FailureInv
  <1>2. CASE Launch
    <2> USE <1>2 DEF Launch
    <2>1. launched + 1 \in Addr /\ dpc[launched + 1] = "none"
      BY DEF DialTypeOK, GoroutineInv
    <2>2. DialTypeOK'
      BY <2>1 DEF DialTypeOK
    <2>3. GoroutineInv'
      BY <2>1 DEF DialTypeOK, GoroutineInv
    <2>4. \A i \in Addr : Sent(i) => Sent(i)'
      BY <2>1 DEF DialTypeOK
    <2>5. ChannelInv' /\ WinnerInv'
      BY <2>2, <2>4 DEF DialTypeOK, ChannelInv, WinnerInv
    <2>6. \A H \in SUBSET Addr : FailuresRead(H) => FailuresRead(H)'
      BY <2>4 DEF FailuresRead
    <2>7. QED
      BY <2>2, <2>3, <2>5, <2>6 DEF FailureInv
  <1>3. CASE SpawnerEnds \/ ParentCancels \/ UNCHANGED dialVars
    <2>1. /\ UNCHANGED <<addrs, launched, dpc, conns, results, dial, handled, winner>>
          /\ UNCHANGED spawner \/ dial # "off"
      BY <1>3 DEF SpawnerEnds, ParentCancels, FailureInv
    <2>2. DialTypeOK' /\ GoroutineInv' /\ ChannelInv' /\ WinnerInv'
      BY <2>1 DEF DialTypeOK, GoroutineInv, ChannelInv, WinnerInv
    <2>3. \A H \in SUBSET Addr : FailuresRead(H) => FailuresRead(H)'
      BY <2>1 DEF FailuresRead
    <2>4. QED
      BY <2>1, <2>2, <2>3 DEF FailureInv
  <1>4. QED
    BY <1>1, <1>2, <1>3

\* Every result names the address it is for.
LEMMA ResultsAreAddressed ==
    ASSUME DialTypeOK
    PROVE  \A k \in 1..Len(results) : results[k].addr \in Addr /\ results[k].ok \in BOOLEAN
  <1>1. \A k \in 1..Len(results) : results[k] \in Result
    BY DEF DialTypeOK
  <1>2. QED
    BY <1>1 DEF Result

\* The goroutine of an address moves on before its select.
LEMMA DialerWorksKeepsInv ==
    ASSUME DialInv, NEW i \in Addr, NEW ok \in BOOLEAN,
           BindReturns(i, ok) \/ DialReturns(i, ok) \/ ReleaseSem(i)
    PROVE  DialInv'
  <1> USE DialAssumption DEF DialInv, call, Addr, Sent, Queued, BindReturns, DialReturns, ReleaseSem
  <1>1. DialTypeOK'
    BY DEF DialTypeOK
  <1>2. GoroutineInv'
    BY DEF DialTypeOK, GoroutineInv
  <1>3. \A j \in Addr : Sent(j) => Sent(j)' /\ conns'[j] = conns[j]
    BY DEF DialTypeOK
  <1>4. ChannelInv' /\ WinnerInv'
    BY <1>3, ResultsAreAddressed DEF ChannelInv, WinnerInv
  <1>5. \A H \in SUBSET Addr : FailuresRead(H) => FailuresRead(H)'
    BY <1>3 DEF FailuresRead
  <1>6. QED
    BY <1>1, <1>2, <1>4, <1>5 DEF FailureInv

\* The select with its result in the channel.
LEMMA SendKeepsInv ==
    ASSUME DialInv, NEW i \in Addr, SendResult(i)
    PROVE  DialInv'
  <1> USE DialAssumption DEF DialInv, call, Addr, SendResult
  <1>1. DialTypeOK'
    <2>1. [addr |-> i, ok |-> conns[i] = "open"] \in Result
      BY Zenon DEF Result
    <2>2. results' \in Seq(Result)
      BY <2>1 DEF DialTypeOK
    <2>3. QED
      BY <2>2 DEF DialTypeOK
  <1>2. GoroutineInv'
    BY DEF DialTypeOK, GoroutineInv
  <1>3. /\ ~Sent(i)
        /\ \A j \in Addr : Sent(j) => Sent(j)' /\ j # i
        /\ Sent(i)'
    BY DEF DialTypeOK, Sent
  <1>4. /\ Len(results') = Len(results) + 1
        /\ Len(results) \in Nat
        /\ \A k \in 1..Len(results) : results'[k] = results[k]
        /\ results'[Len(results) + 1] = [addr |-> i, ok |-> conns[i] = "open"]
    BY DEF DialTypeOK
  <1>41. /\ results'[Len(results) + 1].addr = i
         /\ results'[Len(results) + 1].ok = (conns[i] = "open")
    BY <1>4
  <1>42. conns[i] \in {"none", "open"}
    BY DEF DialTypeOK, GoroutineInv
  <1>5. \A j \in Addr : j # i => (Queued(j)' <=> Queued(j))
    BY <1>4, <1>41 DEF Queued
  <1>6. ChannelInv'
    <2>1. \A k \in 1..Len(results') : k \in 1..Len(results) \/ k = Len(results) + 1
      BY <1>4
    <2>2. (\A k \in 1..Len(results) :
              /\ Sent(results[k].addr)
              /\ conns[results[k].addr] = IF results[k].ok THEN "open" ELSE "none")'
      <3>1. \A k \in 1..Len(results) : dpc'[results[k].addr] \in {"release", "done"}
        BY <1>3, ResultsAreAddressed DEF ChannelInv, Sent
      <3>2. \A k \in 1..Len(results) :
               /\ dpc'[results'[k].addr] \in {"release", "done"}
               /\ conns'[results'[k].addr] = IF results'[k].ok THEN "open" ELSE "none"
        BY <3>1, <1>4 DEF ChannelInv
      <3>3. /\ dpc'[i] \in {"release", "done"}
            /\ conns'[i] = IF results'[Len(results) + 1].ok THEN "open" ELSE "none"
        BY <1>3, <1>41, <1>42 DEF Sent
      <3>4. QED
        BY <3>2, <3>3, <2>1, <1>41 DEF Sent
    <2>3. (\A j, k \in 1..Len(results) : results[j].addr = results[k].addr => j = k)'
      BY <2>1, <1>3, <1>4, <1>41, ResultsAreAddressed DEF ChannelInv
    <2>4. QED
      BY <2>2, <2>3 DEF ChannelInv
  <1>7. WinnerInv'
    BY <1>3, <1>5 DEF WinnerInv
  <1>8. \A H \in SUBSET Addr : FailuresRead(H) => FailuresRead(H)'
    BY <1>3, <1>5 DEF FailuresRead
  <1>9. QED
    <2>1. dial # "off"
      BY DEF FailureInv, GoroutineInv
    <2>2. QED
      BY <1>1, <1>2, <1>6, <1>7, <1>8, <2>1 DEF FailureInv

\* The select that finds the context done.
LEMMA DropKeepsInv ==
    ASSUME DialInv, NEW i \in Addr, DropResult(i)
    PROVE  DialInv'
  <1> USE DialAssumption DEF DialInv, call, Addr, DropResult
  <1>1. DialTypeOK'
    BY DEF DialTypeOK
  <1>2. GoroutineInv'
    BY DEF DialTypeOK, GoroutineInv
  <1>3. \A j \in Addr : Sent(j) => Sent(j)' /\ conns'[j] = conns[j]
    BY DEF DialTypeOK, Sent
  <1>4. ChannelInv' /\ WinnerInv'
    BY <1>3, ResultsAreAddressed DEF ChannelInv, WinnerInv, Queued
  <1>5. \A H \in SUBSET Addr : FailuresRead(H) => FailuresRead(H)'
    BY <1>3 DEF FailuresRead, Queued
  <1>6. QED
    BY <1>1, <1>2, <1>4, <1>5 DEF FailureInv

\* What taking the first result out of the channel does to it.
LEMMA ReceiveFromChannel ==
    ASSUME DialInv, results # <<>>, results' = Tail(results), UNCHANGED <<dpc, conns>>,
           NEW a, a = Head(results).addr
    PROVE  /\ a \in Addr
           /\ Sent(a)
           /\ conns[a] = IF Head(results).ok THEN "open" ELSE "none"
           /\ ~Queued(a)'
           /\ \A j \in Addr : Queued(j)' => Queued(j)
           /\ ChannelInv'
  <1> USE DEF DialInv, DialTypeOK, ChannelInv
  <1>1. /\ results[1] = Head(results)
        /\ 1 \in 1..Len(results)
        /\ Len(results') = Len(results) - 1
        /\ Len(results) \in Nat
        /\ \A k \in 1..Len(results') : /\ results'[k] = results[k + 1]
                                      /\ k + 1 \in 1..Len(results)
                                      /\ k + 1 # 1
    OBVIOUS
  <1>2. /\ a \in Addr
        /\ Sent(a)
        /\ conns[a] = IF Head(results).ok THEN "open" ELSE "none"
    BY <1>1, ResultsAreAddressed
  <1>3. ~Queued(a)'
    <2>1. \A k \in 1..Len(results') : results[k + 1].addr # a
      BY <1>1
    <2>2. QED
      BY <1>1, <2>1 DEF Queued
  <1>4. \A j \in Addr : Queued(j)' => Queued(j)
    BY <1>1 DEF Queued
  <1>5. ChannelInv'
    BY <1>1 DEF Sent
  <1>6. QED
    BY <1>2, <1>3, <1>4, <1>5

\* The caller's select.
LEMMA CallerKeepsInv ==
    ASSUME DialInv, ReceiveOK \/ ReceiveError \/ SeeCancelled
    PROVE  DialInv'
  <1>1. CASE SeeCancelled
    <2> USE <1>1 DEF SeeCancelled, call
    <2>1. DialTypeOK' /\ GoroutineInv' /\ ChannelInv' /\ WinnerInv'
      BY DEF DialInv, DialTypeOK, GoroutineInv, ChannelInv, WinnerInv, Sent
    <2>2. \A H \in SUBSET Addr : FailuresRead(H) => FailuresRead(H)'
      BY DEF FailuresRead, Sent, Queued
    <2>3. QED
      BY <2>1, <2>2 DEF DialInv, FailureInv
  <1>2. CASE ReceiveOK \/ ReceiveError
    <2>0. /\ results # <<>>
          /\ results' = Tail(results)
          /\ dial = "reading"
          /\ UNCHANGED <<addrs, launched, spawner, dpc, conns>>
      BY <1>2 DEF ReceiveOK, ReceiveError, call
    <2> DEFINE a == Head(results).addr
    <2>1. /\ a \in Addr
          /\ Sent(a)
          /\ conns[a] = IF Head(results).ok THEN "open" ELSE "none"
          /\ \A j \in Addr : Queued(j)' => Queued(j)
          /\ ChannelInv'
      BY <2>0, ReceiveFromChannel
    <2>2. \A x : x = a => ~Queued(x)'
      BY <2>0, ReceiveFromChannel
    <2>3. DialTypeOK'
      <3>1. results' \in Seq(Result)
        BY <2>0 DEF DialInv, DialTypeOK
      <3>2. QED
        BY <1>2, <2>0, <3>1 DEF ReceiveOK, ReceiveError, DialInv, DialTypeOK
    <2>4. GoroutineInv'
      BY <2>0 DEF DialInv, GoroutineInv
    <2>5. CASE ReceiveOK
      <3>1. winner' = a /\ dial' = "ok" /\ handled' = handled /\ Head(results).ok
        BY <2>5 DEF ReceiveOK
      <3>2. WinnerInv'
        BY <3>1, <2>0, <2>1, <2>2 DEF WinnerInv, Sent
      <3>3. \A H \in SUBSET Addr : FailuresRead(H) => FailuresRead(H)'
        BY <3>1, <2>0, <2>1 DEF FailuresRead, Sent
      <3>4. QED
        BY <2>1, <2>3, <2>4, <3>1, <3>2, <3>3 DEF DialInv, FailureInv
    <2>6. CASE ReceiveError
      <3>1. /\ dial' \in {"failed", "reading"}
            /\ handled' = handled + 1
            /\ dial' = "failed" => handled' = addrs
            /\ ~Head(results).ok
        BY <2>6, <2>0 DEF ReceiveError
      <3>2. WinnerInv'
        BY <3>1 DEF WinnerInv
      <3>3. PICK H \in SUBSET Addr : FailuresRead(H)
        BY DEF DialInv, FailureInv
      <3>4. IsFiniteSet(Addr)
        BY FS_Interval, DialAssumption DEF Addr
      <3>5. IsFiniteSet(H)
        BY <3>4, FS_Subset
      <3>6. a \notin H
        <4>1. Queued(a)
          BY <2>0 DEF Queued, DialInv, DialTypeOK
        <4>2. QED
          BY <3>3, <4>1 DEF FailuresRead
      <3>7. PICK G \in SUBSET Addr : G = H \cup {a}
        BY <2>1
      <3>8. Cardinality(G) = handled'
        BY <3>1, <3>3, <3>5, <3>6, <3>7, FS_AddElement DEF FailuresRead
      <3>9. \A i \in G : (Sent(i) /\ conns[i] = "none" /\ ~Queued(i))'
        BY <2>0, <2>1, <2>2, <3>1, <3>3, <3>7 DEF FailuresRead, Sent
      <3>10. QED
        BY <2>0, <2>1, <2>3, <2>4, <3>1, <3>2, <3>8, <3>9 DEF DialInv, FailureInv, FailuresRead
    <2>7. QED
      BY <1>2, <2>5, <2>6
  <1>3. QED
    BY <1>1, <1>2

\* "All attempts failed" is the truth.
LEMMA DialFailureIsHonest ==
    ASSUME DialInv PROVE FailureIsHonest
  <1> SUFFICES ASSUME dial = "failed"
               PROVE  \A i \in 1..addrs : Sent(i) /\ conns[i] = "none"
    BY DEF FailureIsHonest, Sent
  <1>1. PICK H \in SUBSET Addr : FailuresRead(H)
    BY DEF DialInv, FailureInv
  <1>2. H \subseteq 1..addrs
    BY <1>1, DialAssumption DEF DialInv, DialTypeOK, GoroutineInv, FailuresRead, Sent, Addr
  <1>3. IsFiniteSet(1..addrs) /\ Cardinality(1..addrs) = addrs
    BY FS_Interval, DialAssumption DEF DialInv, DialTypeOK
  <1>4. Cardinality(H) = addrs
    BY <1>1 DEF FailuresRead, DialInv, FailureInv
  <1>5. H = 1..addrs
    BY <1>2, <1>3, <1>4, FS_Subset
  <1>6. QED
    BY <1>1, <1>5 DEF FailuresRead

\* The end of the handler or of the tunnel closes the winner's connection.
LEMMA CloseWinnerKeepsInv ==
    ASSUME DialInv,
           UNCHANGED <<addrs, launched, spawner, dpc, results, dial, handled, winner>>,
           \/ conns' = conns
           \/ dial = "ok" /\ conns' = [conns EXCEPT ![winner] = "closed"]
    PROVE  DialInv'
  <1> USE DEF DialInv
  <1>1. DialTypeOK'
    BY DEF DialTypeOK
  <1>2. \A i \in Addr : conns'[i] # conns[i] => dial = "ok" /\ i = winner /\ conns'[i] = "closed"
    BY DEF DialTypeOK
  <1>3. GoroutineInv'
    BY <1>2 DEF GoroutineInv, WinnerInv, Sent
  <1>4. ChannelInv'
    BY <1>2, ResultsAreAddressed DEF ChannelInv, WinnerInv, Sent, Queued
  <1>5. WinnerInv'
    BY <1>2 DEF WinnerInv, Sent, Queued
  <1>6. \A H \in SUBSET Addr : FailuresRead(H) => FailuresRead(H)'
    BY <1>2 DEF FailuresRead, WinnerInv, Sent, Queued
  <1>7. QED
    BY <1>1, <1>3, <1>4, <1>5, <1>6 DEF FailureInv

-------------------------------------------------------------------------------
(* BindHandler. *)

\* Handle has not started its goroutines; it has waited for the monitor.
BeforeMonitor == bind \in {"off", "listen", "reply1"}
AfterMonitor  == bind \in {"restore", "verify", "reply2", "tunnel"}

\* The monitor is gone before the second reply, and so is its deadline; up to
\* then every byte it can find is an early one.
MonitorInv ==
    /\ bind \in {"off", "listen", "reply1", "select", "drain", "stop", "unblock", "wait",
                 "restore", "verify", "reply2", "tunnel", "returned", "done"}
    /\ BeforeMonitor => mon = "off" /\ replied = 0
    /\ AfterMonitor \/ replied = 2 => mon = "exited"
    /\ bind \in {"verify", "reply2", "tunnel"} => deadline = "none"
    /\ inbox \in Seq({"early", "late"})
    /\ \A k \in 1..Len(inbox) : inbox[k] = "late" => replied = 2
    /\ "late" \notin stolen

\* An accepted connection is in the channel or in Handle's hands.
HandsInv ==
    /\ ch \in {"empty", "conn", "error"}
    /\ remote \in {"none", "open", "closed"}
    /\ BeforeMonitor => acc = "off" /\ remote = "none"
    /\ acc = "accept" => bind \in {"select", "drain"} /\ ch = "empty"
    /\ ch # "empty" => bind \in {"select", "drain"}
    /\ bind \in {"select", "drain"} /\ ch # "conn" => remote = "none"
    /\ bind \in {"returned", "done"} => remote # "open"

BindInv == MonitorInv /\ HandsInv

\* Before the call there is no monitor and no connection.
LEMMA BindInitInv == BindInit => BindInv
  BY DEF BindInit, BindInv, MonitorInv, HandsInv, BeforeMonitor, AfterMonitor

\* The client, its peer, the clock and the end of the program.
LEMMA BindEnvironmentKeepsInv ==
    ASSUME BindInv, BindEnvironment \/ ContextEnds
    PROVE  BindInv'
  <1> USE DEF BindInv, BeforeMonitor, AfterMonitor
  <1>1. CASE ClientSends
    <2>1. MonitorInv'
      BY <1>1 DEF ClientSends, MonitorInv
    <2>2. HandsInv'
      BY <1>1 DEF ClientSends, HandsInv
    <2>3. QED
      BY <2>1, <2>2
  <1>2. CASE ClientDrops \/ PeerConnects \/ ContextEnds
    BY <1>2 DEF ClientDrops, PeerConnects, ContextEnds, MonitorInv, HandsInv
  <1>3. CASE DeadlinePasses
    BY <1>3 DEF DeadlinePasses, net, MonitorInv, HandsInv
  <1>4. QED
    BY <1>1, <1>2, <1>3 DEF BindEnvironment

\* The steps of Handle, from its call to the return of handleConnection.
LEMMA BindHandleKeepsInv ==
    ASSUME BindInv, BindHandle \/ StartBind \/ BindTunnelReads \/ BindTunnelEnds \/ CloseClient
    PROVE  BindInv'
  <1> USE DEF BindInv, BeforeMonitor, AfterMonitor, net, Return, Shut
  <1>1. ASSUME NEW ok \in BOOLEAN, Listen(ok) PROVE BindInv'
    BY <1>1 DEF Listen, MonitorInv, HandsInv
  <1>2. ASSUME NEW ok \in BOOLEAN, Reply1(ok) PROVE BindInv'
    BY <1>2 DEF Reply1, MonitorInv, HandsInv
  <1>3. ASSUME NEW ok \in BOOLEAN, Verify(ok) PROVE BindInv'
    BY <1>3 DEF Verify, MonitorInv, HandsInv
  <1>4. ASSUME NEW ok \in BOOLEAN, Reply2(ok) PROVE BindInv'
    BY <1>4 DEF Reply2, MonitorInv, HandsInv
  <1>5. CASE SelectDone
    BY <1>5 DEF SelectDone, MonitorInv, HandsInv
  <1>6. CASE Drain
    BY <1>6 DEF Drain, MonitorInv, HandsInv
  <1>7. CASE SelectResult
    BY <1>7 DEF SelectResult, MonitorInv, HandsInv
  <1>8. CASE StopMonitor \/ Unblock \/ WaitMonitor \/ Restore
    BY <1>8 DEF StopMonitor, Unblock, WaitMonitor, Restore, MonitorInv, HandsInv
  <1>9. CASE StartBind \/ CloseClient
    BY <1>9 DEF StartBind, CloseClient, MonitorInv, HandsInv
  <1>10. CASE BindTunnelReads
    <2>1. /\ inbox' \in Seq({"early", "late"})
          /\ \A k \in 1..Len(inbox') : k + 1 \in 1..Len(inbox) /\ inbox'[k] = inbox[k + 1]
      BY <1>10 DEF BindTunnelReads, MonitorInv
    <2>2. QED
      BY <1>10, <2>1 DEF BindTunnelReads, MonitorInv, HandsInv
  <1>11. CASE BindTunnelEnds
    BY <1>11 DEF BindTunnelEnds, MonitorInv, HandsInv
  <1>12. QED
    BY <1>1, <1>2, <1>3, <1>4, <1>5, <1>6, <1>7, <1>8, <1>9, <1>10, <1>11 DEF BindHandle

\* The monitor and the acceptor.
LEMMA BindGoroutinesKeepInv ==
    ASSUME BindInv, Monitor \/ Accept
    PROVE  BindInv'
  <1> USE DEF BindInv, BeforeMonitor, AfterMonitor, net
  <1>1. CASE MonArms
    BY <1>1 DEF MonArms, MonitorInv, HandsInv
  <1>2. CASE MonReads
    <2>1. HandsInv'
      BY <1>2 DEF MonReads, HandsInv
    <2>2. CASE UNCHANGED <<inbox, stolen>>
      BY <1>2, <2>1, <2>2 DEF MonReads, MonitorInv
    <2>3. CASE inbox # <<>> /\ inbox' = Tail(inbox) /\ stolen' = stolen \cup {Head(inbox)}
      <3>1. /\ inbox' \in Seq({"early", "late"})
            /\ \A k \in 1..Len(inbox') : k + 1 \in 1..Len(inbox) /\ inbox'[k] = inbox[k + 1]
            /\ 1 \in 1..Len(inbox) /\ Head(inbox) = inbox[1]
        BY <2>3 DEF MonitorInv
      <3>2. replied # 2
        BY <1>2 DEF MonReads, MonitorInv
      <3>3. "late" \notin stolen'
        BY <2>3, <3>1, <3>2 DEF MonitorInv
      <3>4. MonitorInv'
        BY <1>2, <3>1, <3>2, <3>3 DEF MonReads, MonitorInv
      <3>5. QED
        BY <2>1, <3>4
    <2>4. QED
      BY <1>2, <2>2, <2>3 DEF MonReads
  <1>3. CASE MonChecks \/ MonCloses
    BY <1>3 DEF MonChecks, MonCloses, MonitorInv, HandsInv
  <1>4. CASE Accept
    BY <1>4 DEF Accept, MonitorInv, HandsInv
  <1>5. QED
    BY <1>1, <1>2, <1>3, <1>4 DEF Monitor

-------------------------------------------------------------------------------
(* The handlers. *)

Proxies == {"http", "https", "connect"}

\* Which handler can be where, and how far its dial is then.
StepInv ==
    /\ entry \in Entries
    /\ step = "accept" => entry \in {"tuntcp", "tunudp"}
    /\ step = "negotiate" => entry \in {"connect", "bind"}
    /\ step = "check" => entry \in Proxies
    /\ step = "establish" => entry = "https"
    /\ step = "peek" => entry = "tuntcp"
    /\ step \in {"dial", "dialling"} => entry # "bind"
    /\ step = "succeed" => entry = "connect"
    /\ step = "forward" => entry \in Proxies \/ (entry = "tuntcp" /\ first = "read")
    /\ step = "bind" => entry = "bind"
    /\ step \in {"accept", "negotiate", "request", "check", "establish", "peek", "dial", "bind"}
          => dial = "off"
    /\ step \in {"succeed", "forward", "tunnel"} => dial = "ok"
    /\ dial = "reading" => step = "dialling"

\* Where the bytes of the client are: only HTTP's reader takes some out of the
\* tunnel's reach, and what was peeked stays with the BufferedConn.
MessageInv ==
    /\ first \in {"unread", "peeked", "read", "sent"}
    /\ entry = "tunudp" => first = "unread"
    /\ first = "peeked" => entry \in {"connect", "tuntcp"}
    /\ step = "tunnel" => first # "read"
    /\ entry = "connect" /\ step \notin {"tunnel", "done"} => first = "unread"
    /\ ahead = "none" \/ ahead = IF entry \in {"http", "https"} THEN "reader" ELSE "bufConn"
    /\ ahead = "bufConn" => entry \in {"connect", "tuntcp"}

\* A proxy dials under the rule that wins.
RuleInv ==
    entry \in Proxies =>
        /\ step = "check" => rule = HigherPriority(addrMatch, nameMatch)
        /\ step \in {"establish", "dial"} \/ dial # "off"
              => ~Blocks(HigherPriority(addrMatch, nameMatch))

\* A refusal after which the handler goes on.
Toothless(a) == a = "forbidden" /\ entry \in {"http", "https"}

\* Clients are refused at the end, and told of success after the dial.
ReplyInv ==
    /\ \A a \in replies \cap Refusals : ~Toothless(a) => step = "done" /\ dial # "ok"
    /\ "success" \in replies => entry = "connect" /\ dial = "ok"

\* The handler closes its connections when it is done, and not before.
ConnInv ==
    /\ step = "done" => lConn = "closed"
    /\ dial = "ok" => (conns[winner] = "open" <=> step # "done")

\* Only the end of the program interrupts a dial.
ContextInv ==
    (dial = "reading" /\ cancelled) \/ dial = "cancelled" => ctxDone

HandlerInv == StepInv /\ MessageInv /\ RuleInv /\ ReplyInv /\ ConnInv /\ ContextInv

\* All three together.
AdmissionInv == DialInv /\ BindInv /\ HandlerInv

\* What Finish does to the connections.
LEMMA FinishCloses ==
    ASSUME DialInv, Finish
    PROVE  /\ step' = "done"
           /\ lConn' = "closed"
           /\ \/ conns' = conns
              \/ dial = "ok" /\ conns' = [conns EXCEPT ![winner] = "closed"]
           /\ dial = "ok" /\ DefersRemote => conns'[winner] = "closed"
  <1>1. /\ conns = [i \in Addr |-> conns[i]]
        /\ dial = "ok" => winner \in Addr
    BY DEF DialInv, DialTypeOK, WinnerInv
  <1>2. dial = "ok" /\ DefersRemote =>
           conns' = [conns EXCEPT ![winner] = "closed"] /\ conns'[winner] = "closed"
    BY <1>1 DEF Finish
  <1>3. ~(dial = "ok" /\ DefersRemote) => conns' = conns
    BY <1>1 DEF Finish
  <1>4. QED
    BY <1>2, <1>3 DEF Finish

\* The end of the tunnel.
LEMMA TunnelCloses ==
    ASSUME AdmissionInv, TunnelEnds
    PROVE  /\ dial = "ok"
           /\ conns'[winner] = "closed"
  BY DEF AdmissionInv, HandlerInv, StepInv, DialInv, DialTypeOK, WinnerInv, TunnelEnds

\* A step of a handler either leaves the connections alone or is its last.
LEMMA HandlerStepCloses ==
    ASSUME AdmissionInv, HandlerStep
    PROVE  \/ Stay
           \/ Finish
           \/ TunnelEnds
  <1>1. CASE HTTPStep
    BY <1>1 DEF HTTPStep, BadHTTPRequest, MatchHTTP, CheckHTTP, Establish, DialFailsHTTP,
                ForwardRequest, ForwardHello
  <1>2. CASE SOCKS5Step
    BY <1>2 DEF SOCKS5Step, Negotiate, Succeed, CheckConnect, BadSOCKS5Request, MatchSOCKS5,
                DialFailsConnect, ForwardPeeked
  <1>3. CASE TunStep
    BY <1>3 DEF TunStep, TunAccepts, MatchAddr, Peek, ForwardTunHello
  <1>4. QED
    BY <1>1, <1>2, <1>3 DEF HandlerStep, DialOK, DialFailsSilently

\* A handler that goes on has refused nothing so far, so that its answers stay
\* honest when it adds none,
LEMMA SilenceIsHonest ==
    ASSUME ReplyInv, step # "done", UNCHANGED <<entry, dial, replies>>
    PROVE  ReplyInv'
  BY DEF ReplyInv, Toothless

\* and when it adds one that refuses nothing, or refuses and is the end.
LEMMA TellIsHonest ==
    ASSUME ReplyInv, step # "done", UNCHANGED <<entry, dial>>, NEW a, Tell({a}),
           a = "success" => entry = "connect" /\ dial = "ok",
           a \in Refusals => Toothless(a) \/ (step' = "done" /\ dial # "ok")
    PROVE  ReplyInv'
  <1>1. \A b \in replies' \cap Refusals : b = a \/ b \in replies \cap Refusals
    BY DEF Tell
  <1>2. \A b : Toothless(b)' <=> Toothless(b)
    BY DEF Toothless
  <1>3. \A b \in replies' \cap Refusals : ~Toothless(b)' => step' = "done" /\ dial' # "ok"
    BY <1>1, <1>2 DEF ReplyInv, Refusals
  <1>4. "success" \in replies' => entry' = "connect" /\ dial' = "ok"
    BY DEF Tell, ReplyInv
  <1>5. QED
    BY <1>3, <1>4 DEF ReplyInv, Refusals

\* So the goroutines of the dial and of BIND do not notice it.
LEMMA HandlerStepKeepsCallees ==
    ASSUME AdmissionInv, HandlerStep, UNCHANGED callees
    PROVE  DialInv' /\ BindInv'
  <1>1. \/ conns' = conns
        \/ dial = "ok" /\ conns' = [conns EXCEPT ![winner] = "closed"]
    BY HandlerStepCloses, FinishCloses, TunnelCloses DEF AdmissionInv, Stay, TunnelEnds
  <1>2. DialInv'
    BY <1>1, CloseWinnerKeepsInv DEF AdmissionInv, callees, call
  <1>3. BindInv'
    BY DEF AdmissionInv, callees, net, BindInv, MonitorInv, HandsInv, BeforeMonitor, AfterMonitor
  <1>4. QED
    BY <1>2, <1>3

\* The HTTP proxy.
LEMMA HTTPStepKeepsInv ==
    ASSUME AdmissionInv, HTTPStep, UNCHANGED callees
    PROVE  HandlerInv'
  <1> USE DEF StepInv, MessageInv, RuleInv, ConnInv, ContextInv, Proxies, found, taken
  <1>0. UNCHANGED <<dial, winner, cancelled, ctxDone>>
    BY DEF callees, call, net
  <1>f. Finish => /\ step' = "done" /\ lConn' = "closed"
                  /\ dial = "ok" /\ DefersRemote => conns'[winner] = "closed"
    BY FinishCloses DEF AdmissionInv
  <1>i. StepInv /\ MessageInv /\ RuleInv /\ ReplyInv /\ ConnInv /\ ContextInv
    BY DEF AdmissionInv, HandlerInv
  <1>1. CASE BadHTTPRequest
    <2>1. ReplyInv'
      BY <1>0, <1>i, <1>f, <1>1, SilenceIsHonest, TellIsHonest
      DEF BadHTTPRequest, Refusals, Toothless
    <2>2. (StepInv /\ MessageInv /\ RuleInv)'
      BY <1>0, <1>i, <1>1 DEF BadHTTPRequest, Proceed, Finish
    <2>3. (ConnInv /\ ContextInv)'
      BY <1>0, <1>f, <1>i, <1>1 DEF BadHTTPRequest, Proceed, Stay, DefersRemote
    <2>4. QED
      BY <2>1, <2>2, <2>3 DEF HandlerInv
  <1>2. ASSUME NEW name \in {NoRule} \cup Rule, NEW addr \in {NoRule} \cup Rule,
               NEW self \in BOOLEAN, NEW over \in BOOLEAN, MatchHTTP(name, addr, self, over)
        PROVE  HandlerInv'
    <2>1. ReplyInv'
      BY <1>0, <1>i, <1>f, <1>2, SilenceIsHonest, TellIsHonest
      DEF MatchHTTP, Refusals, Toothless
    <2>2. (StepInv /\ MessageInv /\ RuleInv)'
      BY <1>0, <1>i, <1>2 DEF MatchHTTP, ReadHttpRequest, Search, Proceed, Finish
    <2>3. (ConnInv /\ ContextInv)'
      BY <1>0, <1>f, <1>i, <1>2 DEF MatchHTTP, Proceed, Stay, DefersRemote
    <2>4. QED
      BY <2>1, <2>2, <2>3 DEF HandlerInv
  <1>3. CASE CheckHTTP
    <2>1. ReplyInv'
      BY <1>0, <1>i, <1>3, SilenceIsHonest DEF CheckHTTP
    <2>2. (StepInv /\ MessageInv /\ RuleInv)'
      BY <1>0, <1>i, <1>3 DEF CheckHTTP, Proceed, Finish
    <2>3. (ConnInv /\ ContextInv)'
      BY <1>0, <1>f, <1>i, <1>3 DEF CheckHTTP, Proceed, Stay, DefersRemote
    <2>4. QED
      BY <2>1, <2>2, <2>3 DEF HandlerInv
  <1>4. ASSUME NEW ok \in BOOLEAN, Establish(ok) PROVE HandlerInv'
    <2>1. ReplyInv'
      BY <1>0, <1>i, <1>f, <1>4, SilenceIsHonest, TellIsHonest
      DEF Establish, Refusals, Toothless
    <2>2. (StepInv /\ MessageInv /\ RuleInv)'
      BY <1>0, <1>i, <1>4 DEF Establish, Proceed, Finish
    <2>3. (ConnInv /\ ContextInv)'
      BY <1>0, <1>f, <1>i, <1>4 DEF Establish, Proceed, Stay, DefersRemote
    <2>4. QED
      BY <2>1, <2>2, <2>3 DEF HandlerInv
  <1>5. CASE DialFailsHTTP
    <2>1. ReplyInv'
      BY <1>0, <1>i, <1>f, <1>5, SilenceIsHonest, TellIsHonest
      DEF DialFailsHTTP, DialFailed, Refusals, Toothless
    <2>2. (StepInv /\ MessageInv /\ RuleInv)'
      BY <1>0, <1>i, <1>5 DEF DialFailsHTTP, Finish, DialFailed
    <2>3. (ConnInv /\ ContextInv)'
      BY <1>0, <1>f, <1>i, <1>5 DEF DialFailsHTTP, DialFailed, DefersRemote
    <2>4. QED
      BY <2>1, <2>2, <2>3 DEF HandlerInv
  <1>6. CASE ForwardRequest
    <2>1. ReplyInv'
      BY <1>0, <1>i, <1>6, SilenceIsHonest DEF ForwardRequest
    <2>2. (StepInv /\ MessageInv /\ RuleInv)'
      BY <1>0, <1>i, <1>6 DEF ForwardRequest, Proceed, Finish
    <2>3. (ConnInv /\ ContextInv)'
      BY <1>0, <1>f, <1>i, <1>6 DEF ForwardRequest, Proceed, Stay, DefersRemote
    <2>4. QED
      BY <2>1, <2>2, <2>3 DEF HandlerInv
  <1>7. CASE ForwardHello
    <2>1. ReplyInv'
      BY <1>0, <1>i, <1>7, SilenceIsHonest DEF ForwardHello
    <2>2. (StepInv /\ MessageInv /\ RuleInv)'
      BY <1>0, <1>i, <1>7 DEF ForwardHello, Proceed, Finish
    <2>3. (ConnInv /\ ContextInv)'
      BY <1>0, <1>f, <1>i, <1>7 DEF ForwardHello, Proceed, Stay, DefersRemote
    <2>4. QED
      BY <2>1, <2>2, <2>3 DEF HandlerInv
  <1>8. QED
    BY <1>1, <1>2, <1>3, <1>4, <1>5, <1>6, <1>7 DEF HTTPStep

\* The SOCKS5 proxy.
LEMMA SOCKS5StepKeepsInv ==
    ASSUME AdmissionInv, SOCKS5Step, UNCHANGED callees
    PROVE  HandlerInv'
  <1> USE DEF StepInv, MessageInv, RuleInv, ConnInv, ContextInv, Proxies, found, taken
  <1>0. UNCHANGED <<dial, winner, cancelled, ctxDone>>
    BY DEF callees, call, net
  <1>f. Finish => /\ step' = "done" /\ lConn' = "closed"
                  /\ dial = "ok" /\ DefersRemote => conns'[winner] = "closed"
    BY FinishCloses DEF AdmissionInv
  <1>i. StepInv /\ MessageInv /\ RuleInv /\ ReplyInv /\ ConnInv /\ ContextInv
    BY DEF AdmissionInv, HandlerInv
  <1>1. ASSUME NEW ok \in BOOLEAN, Negotiate(ok) PROVE HandlerInv'
    <2>1. ReplyInv'
      BY <1>0, <1>i, <1>1, SilenceIsHonest DEF Negotiate
    <2>2. (StepInv /\ MessageInv /\ RuleInv)'
      BY <1>0, <1>i, <1>1 DEF Negotiate, Proceed, Finish
    <2>3. (ConnInv /\ ContextInv)'
      BY <1>0, <1>f, <1>i, <1>1 DEF Negotiate, Proceed, Stay, DefersRemote
    <2>4. QED
      BY <2>1, <2>2, <2>3 DEF HandlerInv
  <1>2. ASSUME NEW ok \in BOOLEAN, Succeed(ok) PROVE HandlerInv'
    <2>1. ReplyInv'
      BY <1>0, <1>i, <1>f, <1>2, SilenceIsHonest, TellIsHonest
      DEF Succeed, Refusals, Toothless
    <2>2. (StepInv /\ MessageInv /\ RuleInv)'
      BY <1>0, <1>i, <1>2 DEF Succeed, Proceed, Finish
    <2>3. (ConnInv /\ ContextInv)'
      BY <1>0, <1>f, <1>i, <1>2 DEF Succeed, Proceed, Stay, DefersRemote
    <2>4. QED
      BY <2>1, <2>2, <2>3 DEF HandlerInv
  <1>3. ASSUME NEW ok \in BOOLEAN, CheckConnect(ok) PROVE HandlerInv'
    <2>1. ReplyInv'
      BY <1>0, <1>i, <1>f, <1>3, SilenceIsHonest, TellIsHonest
      DEF CheckConnect, Refusals, Toothless
    <2>2. (StepInv /\ MessageInv /\ RuleInv)'
      BY <1>0, <1>i, <1>3 DEF CheckConnect, Proceed, Finish
    <2>3. (ConnInv /\ ContextInv)'
      BY <1>0, <1>f, <1>i, <1>3 DEF CheckConnect, Proceed, Stay, DefersRemote
    <2>4. QED
      BY <2>1, <2>2, <2>3 DEF HandlerInv
  <1>4. CASE BadSOCKS5Request
    <2>1. ReplyInv'
      BY <1>0, <1>i, <1>f, <1>4, SilenceIsHonest, TellIsHonest
      DEF BadSOCKS5Request, Refusals, Toothless
    <2>2. (StepInv /\ MessageInv /\ RuleInv)'
      BY <1>0, <1>i, <1>4 DEF BadSOCKS5Request, Proceed, Finish
    <2>3. (ConnInv /\ ContextInv)'
      BY <1>0, <1>f, <1>i, <1>4 DEF BadSOCKS5Request, Proceed, Stay, DefersRemote
    <2>4. QED
      BY <2>1, <2>2, <2>3 DEF HandlerInv
  <1>5. ASSUME NEW name \in {NoRule} \cup Rule, NEW addr \in {NoRule} \cup Rule,
               MatchSOCKS5(name, addr)
        PROVE  HandlerInv'
    <2>1. ReplyInv'
      BY <1>0, <1>i, <1>5, SilenceIsHonest DEF MatchSOCKS5
    <2>2. (StepInv /\ MessageInv /\ RuleInv)'
      BY <1>0, <1>i, <1>5 DEF MatchSOCKS5, Search, Proceed, Finish
    <2>3. (ConnInv /\ ContextInv)'
      BY <1>0, <1>f, <1>i, <1>5 DEF MatchSOCKS5, Proceed, Stay, DefersRemote
    <2>4. QED
      BY <2>1, <2>2, <2>3 DEF HandlerInv
  <1>6. CASE DialFailsConnect
    <2>1. ReplyInv'
      BY <1>0, <1>i, <1>f, <1>6, SilenceIsHonest, TellIsHonest
      DEF DialFailsConnect, DialFailed, Refusals, Toothless
    <2>2. (StepInv /\ MessageInv /\ RuleInv)'
      BY <1>0, <1>i, <1>6 DEF DialFailsConnect, Finish, DialFailed
    <2>3. (ConnInv /\ ContextInv)'
      BY <1>0, <1>f, <1>i, <1>6 DEF DialFailsConnect, DialFailed, DefersRemote
    <2>4. QED
      BY <2>1, <2>2, <2>3 DEF HandlerInv
  <1>7. CASE ForwardPeeked
    <2>1. ReplyInv'
      BY <1>0, <1>i, <1>7, SilenceIsHonest DEF ForwardPeeked
    <2>2. (StepInv /\ MessageInv /\ RuleInv)'
      BY <1>0, <1>i, <1>7 DEF ForwardPeeked, Proceed, Finish, PeekBuffers
    <2>3. (ConnInv /\ ContextInv)'
      BY <1>0, <1>f, <1>i, <1>7 DEF ForwardPeeked, Proceed, Stay, DefersRemote
    <2>4. QED
      BY <2>1, <2>2, <2>3 DEF HandlerInv
  <1>8. QED
    BY <1>1, <1>2, <1>3, <1>4, <1>5, <1>6, <1>7 DEF SOCKS5Step

\* The TUN server.
LEMMA TunStepKeepsInv ==
    ASSUME AdmissionInv, TunStep, UNCHANGED callees
    PROVE  HandlerInv'
  <1> USE DEF HandlerInv, StepInv, MessageInv, RuleInv, ReplyInv, Toothless, ConnInv, ContextInv,
              Proxies, found, taken, PeekBuffers
  <1>0. UNCHANGED <<dial, winner, cancelled, ctxDone>>
    BY DEF callees, call, net
  <1>f. Finish => /\ step' = "done" /\ lConn' = "closed"
                  /\ dial = "ok" /\ DefersRemote => conns'[winner] = "closed"
    BY FinishCloses DEF AdmissionInv
  <1>1. ASSUME NEW ok \in BOOLEAN, TunAccepts(ok) PROVE HandlerInv'
    BY <1>0, <1>f, <1>1 DEF AdmissionInv, TunAccepts, Proceed, Stay, DefersRemote
  <1>2. ASSUME NEW r \in {NoRule} \cup Rule, MatchAddr(r) PROVE HandlerInv'
    BY <1>0, <1>f, <1>2 DEF AdmissionInv, MatchAddr, Search, Proceed, Stay
  <1>3. ASSUME NEW r \in {NoRule} \cup Rule, Peek(r) PROVE HandlerInv'
    BY <1>0, <1>f, <1>3 DEF AdmissionInv, Peek, Proceed, Stay, DefersRemote
  <1>4. CASE ForwardTunHello
    BY <1>0, <1>f, <1>4 DEF AdmissionInv, ForwardTunHello, Proceed, Stay, DefersRemote
  <1>5. QED
    BY <1>1, <1>2, <1>3, <1>4 DEF TunStep

\* The dial's end and the tunnel's.
LEMMA EndsKeepInv ==
    ASSUME AdmissionInv, DialOK \/ DialFailsSilently \/ TunnelEnds, UNCHANGED callees
    PROVE  HandlerInv'
  <1> USE DEF HandlerInv, StepInv, MessageInv, RuleInv, ReplyInv, Toothless, ConnInv, ContextInv,
              Proxies, found, taken, PeekBuffers
  <1>0. UNCHANGED <<dial, winner, cancelled, ctxDone>>
    BY DEF callees, call, net
  <1>f. Finish => /\ step' = "done" /\ lConn' = "closed"
                  /\ dial = "ok" /\ DefersRemote => conns'[winner] = "closed"
    BY FinishCloses DEF AdmissionInv
  <1>1. CASE DialOK
    BY <1>0, <1>1, AdmissionAssumption DEF AdmissionInv, DialOK, AfterDial, Proceed, Stay
  <1>2. CASE DialFailsSilently
    BY <1>0, <1>f, <1>2 DEF AdmissionInv, DialFailsSilently, DialFailed, DefersRemote
  <1>3. CASE TunnelEnds
    BY <1>0, <1>3, TunnelCloses DEF AdmissionInv, TunnelEnds
  <1>4. QED
    BY <1>1, <1>2, <1>3

\* The call of DialFastest: the context is done only if the program stops.
LEMMA DialKeepsInv ==
    ASSUME AdmissionInv, Dial PROVE AdmissionInv'
  <1> USE DEF AdmissionInv
  <1>1. PICK n \in Addrs[entry] :
           StartDial(n, entry \in {"tuntcp", "tunudp"}, entry = "connect" /\ ctxDone)
    BY DEF Dial
  <1>2. n \in 1..N
    BY <1>1, AdmissionAssumption DEF HandlerInv, StepInv
  <1>3. DialInv'
    <2>1. (entry \in {"tuntcp", "tunudp"}) \in BOOLEAN /\ (entry = "connect" /\ ctxDone) \in BOOLEAN
      OBVIOUS
    <2>2. QED
      BY <1>1, <1>2, <2>1, SpawnerKeepsInv
  <1>4. BindInv'
    BY DEF Dial, bindVars, net, BindInv, MonitorInv, HandsInv, BeforeMonitor, AfterMonitor
  <1>5. HandlerInv'
    BY <1>1 DEF Dial, StartDial, Proceed, bindVars, net, found, taken, HandlerInv, StepInv,
                MessageInv, RuleInv, ReplyInv, Toothless, ConnInv, ContextInv, Proxies
  <1>6. QED
    BY <1>3, <1>4, <1>5

\* A step of the dial, seen from the handler that waits for it.
LEMMA InDialKeepsInv ==
    ASSUME AdmissionInv, InDial(DialStep) PROVE AdmissionInv'
  <1> USE DEF AdmissionInv
  <1>0. UNCHANGED <<handlerVars, bindVars>>
    BY DEF InDial
  <1>1. BindInv'
    BY <1>0 DEF bindVars, net, BindInv, MonitorInv, HandsInv, BeforeMonitor, AfterMonitor
  <1> USE DEF handlerVars, found, taken, bindVars, net, HandlerInv, StepInv, MessageInv, RuleInv,
              ReplyInv, Toothless, ConnInv, ContextInv, Proxies
  <1>2. CASE Launch \/ SpawnerEnds
    <2>1. DialInv'
      BY <1>2, SpawnerKeepsInv
    <2>2. HandlerInv'
      BY <1>0, <1>2 DEF Launch, SpawnerEnds
    <2>3. QED
      BY <1>1, <2>1, <2>2
  <1>3. ASSUME NEW i \in Addr, Dialer(i) PROVE AdmissionInv'
    <2>1. DialInv'
      BY <1>3, DialerWorksKeepsInv, SendKeepsInv, DropKeepsInv DEF Dialer
    <2>2. UNCHANGED <<dial, winner, cancelled>> /\ (dial = "ok" => conns'[winner] = conns[winner])
      BY <1>3 DEF Dialer, BindReturns, DialReturns, SendResult, DropResult, ReleaseSem, DialInv,
                  DialTypeOK, WinnerInv, Sent
    <2>3. HandlerInv'
      BY <1>0, <2>2
    <2>4. QED
      BY <1>1, <2>1, <2>3
  <1>4. CASE Caller
    <2>1. DialInv'
      BY <1>4, CallerKeepsInv DEF Caller
    <2>2. dial = "reading" /\ step = "dialling" /\ conns' = conns
      BY <1>4 DEF Caller, ReceiveOK, ReceiveError, SeeCancelled
    <2>3. CASE ReceiveOK
      <3>1. conns[Head(results).addr] = "open"
        BY <2>3, ReceiveFromChannel DEF ReceiveOK
      <3>2. QED
        BY <1>0, <1>1, <2>1, <2>2, <2>3, <3>1 DEF ReceiveOK
    <2>4. CASE ReceiveError
      BY <1>0, <1>1, <2>1, <2>2, <2>4 DEF ReceiveError
    <2>5. CASE SeeCancelled
      BY <1>0, <1>1, <2>1, <2>2, <2>5 DEF SeeCancelled
    <2>6. QED
      BY <1>4, <2>3, <2>4, <2>5 DEF Caller
  <1>5. QED
    BY <1>2, <1>3, <1>4 DEF InDial, DialStep

\* A BIND request: its handler waits, and nothing is dialled.
LEMMA BindKeepsInv ==
    ASSUME AdmissionInv, MatchBind \/ InBind(BindStep) \/ BindHandled PROVE AdmissionInv'
  <1> USE DEF AdmissionInv
  <1>0. UNCHANGED dialVars
    BY DEF MatchBind, InBind, BindHandled
  <1>1. DialInv'
    BY <1>0, SpawnerKeepsInv
  <1>2. BindInv'
    BY BindEnvironmentKeepsInv, BindHandleKeepsInv, BindGoroutinesKeepInv
    DEF MatchBind, InBind, BindHandled, BindStep
  <1> USE DEF HandlerInv, StepInv, MessageInv, RuleInv, ReplyInv, ConnInv, ContextInv, Proxies,
              found, taken, Toothless, handlerVars, dialVars
  <1>3. CASE MatchBind
    BY <1>0, <1>1, <1>2, <1>3 DEF MatchBind, StartBind, net, Proceed
  <1>4. CASE BindHandled
    BY <1>0, <1>1, <1>2, <1>4 DEF BindHandled, CloseClient, net, Proceed
  <1>5. CASE InBind(BindStep)
    <2>1. UNCHANGED handlerVars
      BY <1>5 DEF InBind
    <2>2. ctxDone' = ctxDone /\ (lConn = "closed" => lConn' = "closed")
      BY <1>5 DEF InBind, BindStep, BindEnvironment, BindHandle, Monitor, ClientSends, ClientDrops,
                  PeerConnects, DeadlinePasses, Listen, Reply1, Verify, Reply2, SelectDone, Drain,
                  SelectResult, StopMonitor, Unblock, WaitMonitor, Restore, BindTunnelReads,
                  BindTunnelEnds, MonArms, MonReads, MonChecks, MonCloses, Accept, net
    <2>3. QED
      BY <1>0, <1>1, <1>2, <2>1, <2>2
  <1>6. QED
    BY <1>3, <1>4, <1>5

\* The end of the program.
LEMMA AppStopsKeepsInv ==
    ASSUME AdmissionInv, AppStops PROVE AdmissionInv'
  <1> USE DEF AdmissionInv
  <1>1. DialInv'
    BY SpawnerKeepsInv DEF AppStops
  <1>2. BindInv'
    BY BindEnvironmentKeepsInv DEF AppStops
  <1>3. HandlerInv'
    BY DEF AppStops, ContextEnds, ParentCancels, dialVars, handlerVars, found, taken, HandlerInv,
           StepInv, MessageInv, RuleInv, ReplyInv, Toothless, ConnInv, ContextInv, Proxies
  <1>4. QED
    BY <1>1, <1>2, <1>3

\* AdmissionInv is an invariant.
THEOREM AdmissionInvariant == Spec => []AdmissionInv
  <1>1. Init => AdmissionInv
    <2> SUFFICES ASSUME Init PROVE AdmissionInv
      OBVIOUS
    <2>1. DialInv /\ BindInv
      BY DialInitInv, BindInitInv DEF Init
    <2>2. HandlerInv
      BY AdmissionAssumption
      DEF Init, FirstStep, DialInit, BindInit, HandlerInv, StepInv, MessageInv, RuleInv,
          ReplyInv, Toothless, ConnInv, ContextInv, Proxies
    <2>3. QED
      BY <2>1, <2>2 DEF AdmissionInv
  <1>2. AdmissionInv /\ [Next]_vars => AdmissionInv'
    <2> SUFFICES ASSUME AdmissionInv, [Next]_vars PROVE AdmissionInv'
      OBVIOUS
    <2>1. CASE HandlerStep /\ UNCHANGED callees
      BY <2>1, HandlerStepKeepsCallees, HTTPStepKeepsInv, SOCKS5StepKeepsInv, TunStepKeepsInv,
         EndsKeepInv
      DEF HandlerStep, AdmissionInv
    <2>2. CASE UNCHANGED vars
      <3>1. UNCHANGED <<handlerVars, dialVars, bindVars>>
        BY <2>2 DEF vars
      <3>2. DialInv'
        BY <3>1, SpawnerKeepsInv DEF AdmissionInv
      <3>3. BindInv'
        BY <3>1 DEF AdmissionInv, bindVars, net, BindInv, MonitorInv, HandsInv, BeforeMonitor,
                    AfterMonitor
      <3>4. HandlerInv'
        BY <3>1 DEF AdmissionInv, handlerVars, found, taken, dialVars, bindVars, net, HandlerInv,
                    StepInv, MessageInv, RuleInv, ReplyInv, Toothless, ConnInv, ContextInv, Proxies
      <3>5. QED
        BY <3>2, <3>3, <3>4 DEF AdmissionInv
    <2>3. QED
      BY <2>1, <2>2, DialKeepsInv, InDialKeepsInv, BindKeepsInv, AppStopsKeepsInv DEF Next
  <1>3. QED
    BY <1>1, <1>2, PTL DEF Spec

\* However a handler ends, its connections are closed: the client's, the dialled
\* one and the one BIND has accepted.
THEOREM HandlersLeaveNothingOpen == Spec => []NothingLeftOpen
  <1>1. AdmissionInv => NothingLeftOpen
    BY DEF AdmissionInv, HandlerInv, ConnInv, BindInv, HandsInv, NothingLeftOpen,
           AcceptedIsClosed, rConn
  <1>2. QED
    BY <1>1, AdmissionInvariant, PTL

\* No goroutine of DialFastest that comes too late closes the winner's
\* connection while the handler uses it.
THEOREM WinnerIsKept == Spec => []WinnerStaysOpen
  <1>1. AdmissionInv => WinnerStaysOpen
    BY DEF AdmissionInv, HandlerInv, StepInv, ConnInv, WinnerStaysOpen, rConn
  <1>2. QED
    BY <1>1, AdmissionInvariant, PTL

\* A proxy dials no destination whose winning rule blocks it.
THEOREM BlockedStaysUndialled == Spec => []BlockedIsNotDialled
  <1>1. AdmissionInv => BlockedIsNotDialled
    BY DEF AdmissionInv, HandlerInv, RuleInv, Proxies, BlockedIsNotDialled
  <1>2. QED
    BY <1>1, AdmissionInvariant, PTL

\* A refused client is not connected, unless it is the HTTP proxy's own address it
\* was refused for; a SOCKS5 client that was told of success is (an HTTPS client is
\* told before the dial); and "all attempts failed" is found after as many failures
\* of different addresses as there are addresses.
THEOREM AnswersAreHonest == Spec => []RepliesAreHonest
  <1>1. AdmissionInv => RepliesAreHonest
    <2> SUFFICES ASSUME AdmissionInv PROVE RepliesAreHonest
      OBVIOUS
    <2>1. FailureIsHonest
      BY DialFailureIsHonest DEF AdmissionInv
    <2>2. QED
      BY <2>1 DEF AdmissionInv, HandlerInv, ReplyInv, Toothless, ContextInv, DialInv, WinnerInv,
                  DialTypeOK, RepliesAreHonest, rConn
  <1>2. QED
    BY <1>1, AdmissionInvariant, PTL

\* What a handler has taken from the client was sent on before the tunnel starts, or
\* the tunnel reads it; all but what the HTTP proxy's request reader took beyond the
\* request.
THEOREM TakenBytesAreKept == Spec => []TakenBytesArrive
  <1>1. AdmissionInv => TakenBytesArrive
    BY DEF AdmissionInv, HandlerInv, MessageInv, TakenBytesArrive, TunnelSource
  <1>2. QED
    BY <1>1, AdmissionInvariant, PTL

\* BIND's monitor takes no byte that is meant for the tunnel and leaves no
\* deadline behind.
THEOREM MonitorLeavesInTime == Spec => []MonitorIsGone
  <1>1. AdmissionInv => MonitorIsGone
    BY DEF AdmissionInv, BindInv, MonitorInv, MonitorIsGone
  <1>2. QED
    BY <1>1, AdmissionInvariant, PTL
==============================================================================
