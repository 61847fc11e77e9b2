------------------------------- MODULE TunPump -------------------------------
(***************************************************************************)
(* internal/server/tun/tun.go: tunToStack and stackToTun, the two pumps    *)
(* between the TUN device and the gVisor stack, and the goroutine that     *)
(* closes the device.                                                      *)
(*                                                                         *)
(* The stack's goroutines put packets into the endpoint's queue and then   *)
(* call the notifiers that were registered at that moment (external:       *)
(* gvisor pkg/tcpip/link/channel).  stackToTun sleeps on a channel with    *)
(* room for one token when the queue is empty.                             *)
(***************************************************************************)
EXTENDS Naturals

CONSTANTS Writer,     \* goroutines of the stack that send packets
          QueueCap,   \* channel.New(256, ...)
          MaxPackets  \* bound on packets sent, and on packets read

ASSUME PumpAssumption == QueueCap \in Nat \ {0} /\ MaxPackets \in Nat

VARIABLES queue,      \* number of packets in the endpoint's queue
          stackSent,  \* packets the stack has sent (queued or dropped)
          writer,     \* [Writer -> "idle", "notify" or "silent"]
          registered, \* AddNotify was called
          token,      \* the channel ch holds a token
          pump,       \* step of stackToTun
          reader,     \* step of tunToStack
          arrived,    \* packets read from the device
          device,     \* "open" or "closed"
          done        \* appctx is done

out  == <<queue, stackSent, writer, registered, token, pump>>
pumpVars == <<out, reader, arrived, device, done>>

PumpInit ==
    /\ queue = 0
    /\ stackSent = 0
    /\ writer = [w \in Writer |-> "idle"]
    /\ registered = FALSE
    /\ token = FALSE
    /\ pump = "start"
    /\ reader = "read"
    /\ arrived = 0
    /\ device = "open"
    /\ done = FALSE

-------------------------------------------------------------------------------
(* The stack (external). *)

\* A packet is queued, or dropped when the queue is full, and the notifiers are
\* looked up.
StackSends(w) ==
    /\ writer[w] = "idle"
    /\ stackSent < MaxPackets
    /\ stackSent' = stackSent + 1
    /\ IF queue < QueueCap
       THEN /\ queue' = queue + 1
            /\ writer' = [writer EXCEPT ![w] = IF registered THEN "notify" ELSE "silent"]
       ELSE UNCHANGED <<queue, writer>>
    /\ UNCHANGED <<registered, token, pump, reader, arrived, device, done>>

\* Slip: the notification is dropped when nobody is waiting for it.
SlipNotify(w) ==
    /\ writer[w] # "idle"
    /\ token' = IF writer[w] = "notify" /\ pump = "wait" THEN TRUE ELSE token
    /\ writer' = [writer EXCEPT ![w] = "idle"]
    /\ UNCHANGED <<queue, stackSent, registered, pump, reader, arrived, device, done>>

\* notifier.WriteNotify: a token that is already there is enough.
WriteNotify(w) ==
    /\ writer[w] # "idle"
    /\ token' = (token \/ writer[w] = "notify")
    /\ writer' = [writer EXCEPT ![w] = "idle"]
    /\ UNCHANGED <<queue, stackSent, registered, pump, reader, arrived, device, done>>

-------------------------------------------------------------------------------
(* stackToTun. *)

AddNotify ==
    /\ pump = "start"
    /\ registered' = TRUE
    /\ pump' = "check"
    /\ UNCHANGED <<queue, stackSent, writer, token, reader, arrived, device, done>>

CheckDone ==
    /\ pump = "check"
    /\ pump' = IF done THEN "ended" ELSE "take"
    /\ UNCHANGED <<queue, stackSent, writer, registered, token, reader, arrived, device, done>>

\* ep.Read().  A packet is written to the device, whatever becomes of it there.
Take ==
    /\ pump = "take"
    /\ IF queue > 0 THEN queue' = queue - 1 /\ pump' = "check"
                    ELSE pump' = "empty" /\ UNCHANGED queue
    /\ UNCHANGED <<stackSent, writer, registered, token, reader, arrived, device, done>>

\* It was nil.  Packets may still come in before the pump enters the select.
Sleeps ==
    /\ pump = "empty"
    /\ pump' = "wait"
    /\ UNCHANGED <<queue, stackSent, writer, registered, token, reader, arrived, device, done>>

\* Slip: the sleeping pump does not hear of the end.
SlipWakes ==
    /\ pump = "wait"
    /\ token
    /\ token' = FALSE
    /\ pump' = "check"
    /\ UNCHANGED <<queue, stackSent, writer, registered, reader, arrived, device, done>>

\* select on the channel and appctx.Done(); either when both are ready.
Wakes ==
    /\ pump = "wait"
    /\ \/ token /\ token' = FALSE /\ pump' = "check"
       \/ done /\ pump' = "ended" /\ UNCHANGED token
    /\ UNCHANGED <<queue, stackSent, writer, registered, reader, arrived, device, done>>

-------------------------------------------------------------------------------
(* tunToStack and the end of the program. *)

\* A batch is read and its IPv4 packets are injected.
TunReads ==
    /\ reader = "read"
    /\ device = "open"
    /\ arrived < MaxPackets
    /\ \E n \in 1..(MaxPackets - arrived) : arrived' = arrived + n
    /\ UNCHANGED <<out, reader, device, done>>

\* Any error ends the pump, also one of an open device.
TunReadFails ==
    /\ reader = "read"
    /\ reader' = "ended"
    /\ UNCHANGED <<out, arrived, device, done>>

ContextEnds ==
    /\ ~done
    /\ done' = TRUE
    /\ UNCHANGED <<out, reader, arrived, device>>

\* go func() { <-appctx.Done(); tunDevice.Close() }()
CloseDevice ==
    /\ done
    /\ device = "open"
    /\ device' = "closed"
    /\ UNCHANGED <<out, reader, arrived, done>>

-------------------------------------------------------------------------------
Pump == AddNotify \/ CheckDone \/ Take \/ Sleeps \/ Wakes

PumpNext ==
    \/ \E w \in Writer : StackSends(w) \/ WriteNotify(w)
    \/ AddNotify
    \/ CheckDone
    \/ Take
    \/ Sleeps
    \/ Wakes
    \/ TunReads
    \/ TunReadFails
    \/ ContextEnds
    \/ CloseDevice

PumpSpec == PumpInit /\ [][PumpNext]_pumpVars

\* The goroutines are scheduled; Read on a closed device fails.
FairPumpSpec ==
    /\ PumpSpec
    /\ WF_pumpVars(Pump)
    /\ \A w \in Writer : WF_pumpVars(WriteNotify(w))
    /\ WF_pumpVars(CloseDevice)
    /\ WF_pumpVars(device = "closed" /\ TunReadFails)

-------------------------------------------------------------------------------
(* Properties. *)

\* The variables keep their types.
PumpTypeOK ==
    /\ queue \in 0..QueueCap
    /\ stackSent \in 0..MaxPackets
    /\ writer \in [Writer -> {"idle", "notify", "silent"}]
    /\ registered \in BOOLEAN
    /\ token \in BOOLEAN
    /\ pump \in {"start", "check", "take", "empty", "wait", "ended"}
    /\ reader \in {"read", "ended"}
    /\ arrived \in 0..MaxPackets
    /\ device \in {"open", "closed"}
    /\ done \in BOOLEAN

\* No wakeup is lost: stackToTun never sleeps on a queue with packets in it
\* unless a token is there or a writer is about to leave one.  (The channel
\* holds one token however many packets come in, and a packet can come in
\* before the notifier is registered.)
NoLostWakeup ==
    pump \in {"empty", "wait"} /\ queue > 0 => token \/ \E w \in Writer : writer[w] = "notify"

\* The answer of the stack gets to the device: the queue is drained as long as
\* the program runs; and both pumps and the device end with the program.
PumpsDrainAndEnd ==
    /\ queue > 0 ~> (queue = 0 \/ done)
    /\ done ~> (pump = "ended" /\ reader = "ended" /\ device = "closed")

-------------------------------------------------------------------------------
(* The inductive invariant. *)

PumpInv ==
    /\ PumpTypeOK
    /\ NoLostWakeup
    /\ pump \in {"check", "take", "empty", "wait"} => registered
==============================================================================
