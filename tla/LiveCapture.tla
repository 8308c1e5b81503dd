---------------------------- MODULE LiveCapture ----------------------------
(***************************************************************************)
(* cmd/tcp-proxy/live_capture.go: one goroutine for each capture device    *)
(* moves packets from libpcap to one buffered channel.  The program that   *)
(* uses the gateway as a library may hand over a channel of its own        *)
(* instead (ChannelObservedPacketSource); live tells which it is.          *)
(***************************************************************************)
EXTENDS Integers, Sequences, FiniteSets

CONSTANTS
  Devices,              \* the capture devices that could be opened
  Packets,              \* what may be captured
  Capacity,             \* of the channel (1024 in the code)
  MaxCaptured,          \* bound on the packets all devices capture
  MaxSent               \* bound on the packets of a plain channel

ASSUME CaptureAssumption == Capacity \in Nat \ {0} /\ {MaxCaptured, MaxSent} \subseteq Nat

VARIABLES
  live,                 \* the source is a liveObservedPacketSource
  forwarder,            \* where each forwardPackets is, and the packet it holds
  packets, closed,      \* the channel the mirror receives from
  done,                 \* the done channel is closed
  captured              \* how many packets have been captured or sent

source == <<live, forwarder, packets, closed, done, captured>>

Receiving    == [at |-> "receive"]
Sending(p)   == [at |-> "send", packet |-> p]
Stopped      == [at |-> "stopped"]
Panicked     == [at |-> "panicked"]    \* sent on a closed channel

SourceTypeOK ==
  /\ live \in BOOLEAN
  /\ forwarder \in [Devices -> {Receiving, Stopped, Panicked} \cup {Sending(p) : p \in Packets}]
  /\ packets \in Seq(Packets) /\ Len(packets) <= Capacity
  /\ closed \in BOOLEAN
  /\ done \in BOOLEAN
  /\ captured \in Nat

SourceInit ==
  /\ live \in BOOLEAN
  /\ forwarder = [d \in Devices |-> IF live THEN Receiving ELSE Stopped]
  /\ packets = <<>>
  /\ closed = FALSE
  /\ done = FALSE
  /\ captured = 0

-----------------------------------------------------------------------------
(* forwardPackets.  Go picks any ready case of a select, so that packets    *)
(* may still be taken and sent after done has been closed.                  *)

Capture(d, p) ==
  /\ forwarder[d] = Receiving
  /\ captured < MaxCaptured
  /\ captured' = captured + 1
  /\ forwarder' = [forwarder EXCEPT ![d] = Sending(p)]
  /\ UNCHANGED <<live, packets, closed, done>>

\* The device fails, or its handle is closed: the channel of libpcap ends.
DeviceEnds(d) ==
  /\ forwarder[d] = Receiving
  /\ forwarder' = [forwarder EXCEPT ![d] = Stopped]
  /\ UNCHANGED <<live, packets, closed, done, captured>>

\* Mutant: the channel has no bound.
EnqueueUnbounded(d) ==
  /\ forwarder[d].at = "send" /\ ~closed
  /\ packets' = Append(packets, forwarder[d].packet)
  /\ forwarder' = [forwarder EXCEPT ![d] = Receiving]
  /\ UNCHANGED <<live, closed, done, captured>>

Enqueue(d) ==
  /\ forwarder[d].at = "send"
  /\ \/ /\ closed
        /\ forwarder' = [forwarder EXCEPT ![d] = Panicked]
        /\ UNCHANGED packets
     \/ /\ ~closed /\ Len(packets) < Capacity
        /\ packets' = Append(packets, forwarder[d].packet)
        /\ forwarder' = [forwarder EXCEPT ![d] = Receiving]
  /\ UNCHANGED <<live, closed, done, captured>>

\* Mutant: the second select is a plain send.
StopReceiving(d) ==
  /\ done
  /\ forwarder[d] = Receiving
  /\ forwarder' = [forwarder EXCEPT ![d] = Stopped]
  /\ UNCHANGED <<live, packets, closed, done, captured>>

\* case <-s.done, in either select: a packet that is held is dropped.
StopForwarding(d) ==
  /\ done
  /\ forwarder[d].at \in {"receive", "send"}
  /\ forwarder' = [forwarder EXCEPT ![d] = Stopped]
  /\ UNCHANGED <<live, packets, closed, done, captured>>

-----------------------------------------------------------------------------
(* The owner of a plain channel (external): the tests, or another program.  *)

ChannelSend(p) ==
  /\ ~live /\ ~closed
  /\ captured < MaxSent /\ Len(packets) < Capacity
  /\ captured' = captured + 1
  /\ packets' = Append(packets, p)
  /\ UNCHANGED <<live, forwarder, closed, done>>

ChannelClose ==
  /\ ~live /\ ~closed
  /\ closed' = TRUE
  /\ UNCHANGED <<live, forwarder, packets, done, captured>>

SourceNext ==
  \/ \E d \in Devices :
       DeviceEnds(d) \/ Enqueue(d) \/ StopForwarding(d) \/ \E p \in Packets : Capture(d, p)
  \/ ChannelClose
  \/ \E p \in Packets : ChannelSend(p)

-----------------------------------------------------------------------------
(* Close of the live source, called by the mirror, in its two steps.        *)

CloseDone ==
  /\ live
  /\ done' = TRUE
  /\ UNCHANGED <<live, forwarder, packets, closed, captured>>

\* Mutant: Close does not wait for the goroutines.
ClosePacketsAtOnce ==
  /\ closed' = TRUE
  /\ UNCHANGED <<live, forwarder, packets, done, captured>>

\* wg.Wait returns; only then is the channel closed.
ClosePackets ==
  /\ \A d \in Devices : forwarder[d] \in {Stopped, Panicked}
  /\ closed' = TRUE
  /\ UNCHANGED <<live, forwarder, packets, done, captured>>
=============================================================================
