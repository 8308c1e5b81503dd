------------------------------- MODULE Mirror -------------------------------
(***************************************************************************)
(* getwayServer/gopacket_mirror.go with the default hooks and dialer, as   *)
(* tcp-proxy runs it: Start takes packets from the source, the assembler   *)
(* of gopacket puts each TCP flow in order, and what flows to the observed *)
(* port is forwarded on one new connection per flow and then recorded.     *)
(*                                                                         *)
(* A packet carries one segment of a flow: 0 is the SYN, 1 .. Segments are *)
(* the data, and the last of them comes with the FIN.  Packets are captured *)
(* in any order, more than once or not at all: two devices may see the same *)
(* traffic, and capture may begin in the middle of a connection.           *)
(***************************************************************************)
EXTENDS LiveCapture, SequencesExt

CONSTANTS
  Flows,                \* the flows of the captured network, each in one direction
  SrcPort, DstPort,     \* their ports
  ObservedPort,         \* config.ObservedPort
  Segments              \* bound on the data segments of a flow

ASSUME FlowAssumption == Packets \subseteq [flow : Flows, segment : 0 .. Segments]
ASSUME SegmentsAssumption == Segments \in Nat \ {0}
ASSUME PortAssumption ==
  /\ ObservedPort \in 0 .. 65535
  /\ SrcPort \in [Flows -> 0 .. 65535] /\ DstPort \in [Flows -> 0 .. 65535]

VARIABLES
  target,               \* config.TargetAddr is not empty
  cancelled,            \* ctx is done
  pc,                   \* where Start is
  result,               \* what it returns
  streams,              \* the assembler: [open, next, pages] of each flow
  forwardConn,          \* forwardConn of each flow's stream: an index of conns, 0 for nil
  conns,                \* of each flow: the connections dialled, [sent, open]
  call,                 \* the call of Reassembled under way
  lastErr,              \* session.lastErr: which failure it is, NoError for nil
  recorded,             \* what has been written to the record
  received,             \* history: how often each packet was taken from the source
  failures              \* history: how many chunks could not be handled

session == <<forwardConn, conns, call, lastErr, recorded, failures>>
vars    == <<source, target, cancelled, pc, result, streams, session, received>>

Syn == 0
Fin == Segments         \* it ends the stream
Unknown == -1           \* invalidSequence: the assembler waits for a SYN

NoStream == [open |-> FALSE, next |-> Unknown, pages |-> {}]
NoCall   == [flow |-> "none", rest |-> <<>>, end |-> FALSE, flushed |-> TRUE]
NoError  == 0
Canceled == -1          \* as a result: context.Canceled
Pending  == -2          \* as a result: not known yet

Direction(f) ==
  CASE ObservedPort = 0 -> "unknown"
    [] ObservedPort # 0 /\ DstPort[f] = ObservedPort -> "to_observed"
    [] ObservedPort # 0 /\ DstPort[f] # ObservedPort /\ SrcPort[f] = ObservedPort -> "from_observed"
    [] OTHER -> "unknown"

Ignored(f) == ObservedPort # 0 /\ ObservedPort \notin {SrcPort[f], DstPort[f]}

\* Both default hooks keep these chunks, and only these.
Keep(f) == Direction(f) = "to_observed"

Chunk(f, i) == [flow |-> f, segment |-> i]

TypeOK ==
  /\ SourceTypeOK
  /\ target \in BOOLEAN /\ cancelled \in BOOLEAN
  /\ pc \in {"select", "forward", "record", "flush", "close", "closing", "returned"}
  /\ failures \in Nat
  /\ result \in Pending .. failures
  /\ streams \in [Flows -> [open : BOOLEAN, next : Unknown .. Fin + 1, pages : SUBSET (1 .. Fin)]]
  /\ \A f \in Flows : forwardConn[f] \in 0 .. Len(conns[f])
  /\ call.flow \in Flows \cup {"none"}
  /\ lastErr \in NoError .. failures

Init ==
  /\ SourceInit
  /\ target \in BOOLEAN
  /\ cancelled = FALSE
  /\ pc = "select"
  /\ result = Pending
  /\ streams = [f \in Flows |-> NoStream]
  /\ forwardConn = [f \in Flows |-> 0]
  /\ conns = [f \in Flows |-> <<>>]
  /\ call = NoCall
  /\ lastErr = NoError
  /\ recorded = <<>>
  /\ received = [p \in Packets |-> 0]
  /\ failures = 0

-----------------------------------------------------------------------------
(* The assembler of gopacket (external).  Consecutive segments from n on    *)
(* are handed to Reassembled in one call; with a FIN among them the stream  *)
(* is completed when the call has returned.                                 *)

Run(n, pages) == {q \in pages : q >= n /\ n .. q \subseteq pages}

HandOver(f, n, pages, flushed) ==
  LET length == Cardinality(Run(n, pages))
      next   == n + length
  IN /\ streams' = [streams EXCEPT ![f] =
                      [open |-> TRUE, next |-> next, pages |-> {q \in pages : q >= next}]]
     /\ call' = [flow |-> f, rest |-> [i \in 1 .. length |-> n + i - 1],
                 end |-> Fin \in Run(n, pages), flushed |-> flushed]
     /\ pc' = "forward"

\* Out of order, or the SYN has not been seen: kept until it fits, or until FlushAll.
Buffer(f, q) ==
  /\ streams' = [streams EXCEPT ![f] =
                   [open |-> TRUE, next |-> @.next, pages |-> @.pages \cup {q}]]
  /\ UNCHANGED <<pc, call>>

Assemble(f, q) ==
  LET s == streams[f] IN
  \/ /\ s.next = Unknown /\ q # Syn
     /\ Buffer(f, q)
  \/ /\ s.next = Unknown /\ q = Syn
     /\ HandOver(f, 1, s.pages, FALSE)
  \/ /\ s.next # Unknown /\ q > s.next
     /\ Buffer(f, q)
  \/ /\ s.next # Unknown /\ q <= s.next
     /\ HandOver(f, s.next, s.pages \cup {q}, FALSE)

\* FlushAll, one step: it completes one stream before it turns to another.
FlushNext(f) ==
  /\ pc = "flush"
  /\ streams[f].open
  /\ call.flow = f \/ \A g \in Flows : g = call.flow => ~streams[g].open
  /\ \/ /\ streams[f].pages = {}
        /\ call' = [flow |-> f, rest |-> <<>>, end |-> TRUE, flushed |-> TRUE]
        /\ pc' = "forward"
        /\ UNCHANGED streams
     \/ \E n \in streams[f].pages :
          /\ \A q \in streams[f].pages : n <= q
          /\ HandOver(f, n, streams[f].pages, TRUE)
  /\ UNCHANGED <<source, target, cancelled, result, forwardConn, conns, lastErr,
                 recorded, received, failures>>

-----------------------------------------------------------------------------
(* Start: the loop.                                                         *)

\* case packet := <-source.Packets(), and assemblePacket.
Receive ==
  /\ pc = "select"
  /\ packets # <<>>
  /\ LET p == Head(packets) IN
       /\ received' = [received EXCEPT ![p] = @ + 1]
       /\ Assemble(p.flow, p.segment)
  /\ packets' = Tail(packets)
  /\ UNCHANGED <<live, forwarder, closed, done, captured, target, cancelled, result,
                 forwardConn, conns, lastErr, recorded, failures>>

StartFlush ==
  /\ pc' = "flush"
  /\ call' = NoCall
  /\ UNCHANGED <<source, target, cancelled, streams, forwardConn, conns, lastErr,
                 recorded, received, failures>>

\* Mutant: Start returns without FlushAll.
InterruptedNoFlush ==
  /\ pc = "select"
  /\ cancelled
  /\ result' = Canceled
  /\ pc' = "close"
  /\ UNCHANGED <<source, target, cancelled, streams, session, received>>

\* case <-ctx.Done()
Interrupted ==
  /\ pc = "select"
  /\ cancelled
  /\ result' = Canceled
  /\ StartFlush

\* The channel is closed and empty.
Drained ==
  /\ pc = "select"
  /\ closed /\ packets = <<>>
  /\ UNCHANGED result
  /\ StartFlush

\* FlushAll has returned; Start returns, and its defer calls source.Close.
FlushDone ==
  /\ pc = "flush"
  /\ \A f \in Flows : ~streams[f].open
  /\ result' = IF result = Pending THEN lastErr ELSE result
  /\ pc' = "close"
  /\ UNCHANGED <<source, target, cancelled, streams, session, received>>

Close ==
  /\ pc = "close"
  /\ \/ /\ CloseDone
        /\ pc' = "closing"
     \/ /\ ~live
        /\ pc' = "returned"
        /\ UNCHANGED source
  /\ UNCHANGED <<target, cancelled, result, streams, session, received>>

CloseReturns ==
  /\ pc = "closing"
  /\ ClosePackets
  /\ pc' = "returned"
  /\ UNCHANGED <<target, cancelled, result, streams, session, received>>

-----------------------------------------------------------------------------
(* Reassembled: each chunk is forwarded and then recorded.                  *)

Current == Chunk(call.flow, Head(call.rest))

Deliver == UNCHANGED <<source, target, cancelled, result, streams, received>>

\* setErr, and Reassembled returns: the rest of the call is dropped.
Fail ==
  /\ failures' = failures + 1
  /\ lastErr' = IF lastErr = NoError THEN failures' ELSE lastErr
  /\ call' = [call EXCEPT !.rest = <<>>]
  /\ pc' = "forward"

\* Reassembled returns at once for an ignored flow.
IgnoreCall ==
  /\ pc = "forward"
  /\ call.rest # <<>> /\ Ignored(call.flow)
  /\ call' = [call EXCEPT !.rest = <<>>]
  /\ UNCHANGED <<pc, forwardConn, conns, lastErr, recorded, failures>>
  /\ Deliver

Forwarding == pc = "forward" /\ call.rest # <<>> /\ ~Ignored(call.flow)

\* No target, or the hook does not keep the chunk.
NotForwarded ==
  /\ Forwarding
  /\ ~target \/ ~Keep(call.flow)
  /\ pc' = "record"
  /\ UNCHANGED session
  /\ Deliver

\* Mutant: the connection of an earlier stream of the flow is used again.
UseConnReusing(f, seen) ==
  /\ \/ /\ conns[f] = <<>> /\ ~cancelled
        /\ conns' = [conns EXCEPT ![f] = Append(@, [sent |-> seen, open |-> TRUE])]
     \/ /\ conns[f] # <<>>
        /\ conns' = [conns EXCEPT ![f][1].sent = @ \o seen]
  /\ forwardConn' = [forwardConn EXCEPT ![f] = 1]

\* ensureForwardConn, when there is a connection or one can be dialled: the dialer
\* gives up at once when ctx is done.  seen is what goes into the connection.
UseConn(f, seen) ==
  \/ /\ forwardConn[f] = 0 /\ ~cancelled
     /\ conns' = [conns EXCEPT ![f] = Append(@, [sent |-> seen, open |-> TRUE])]
     /\ forwardConn' = [forwardConn EXCEPT ![f] = Len(conns[f]) + 1]
  \/ /\ forwardConn[f] # 0
     /\ conns' = [conns EXCEPT ![f][forwardConn[f]] = [sent |-> @.sent \o seen, open |-> @.open]]
     /\ UNCHANGED forwardConn

ForwardChunk ==
  /\ Forwarding
  /\ target /\ Keep(call.flow)
  /\ UseConn(call.flow, <<Head(call.rest)>>)
  /\ pc' = "record"
  /\ UNCHANGED <<call, lastErr, recorded, failures>>
  /\ Deliver

\* The dial fails, or the write does.
ForwardFails ==
  /\ Forwarding
  /\ target /\ Keep(call.flow)
  /\ \/ forwardConn[call.flow] = 0 /\ UNCHANGED <<forwardConn, conns>>
     \/ UseConn(call.flow, <<>>)
  /\ Fail
  /\ UNCHANGED recorded
  /\ Deliver

NextChunk ==
  /\ call' = [call EXCEPT !.rest = Tail(@)]
  /\ pc' = "forward"
  /\ UNCHANGED <<forwardConn, conns, lastErr, failures>>

\* Mutant: writeRecord calls WriteFunc and then the Writer of the same file.
RecordChunkTwice ==
  /\ pc = "record"
  /\ recorded' = IF Keep(call.flow) THEN recorded \o <<Current, Current>> ELSE recorded
  /\ NextChunk
  /\ Deliver

\* The hook does not keep the chunk, or writeRecord writes it.
RecordChunk ==
  /\ pc = "record"
  /\ recorded' = IF Keep(call.flow) THEN Append(recorded, Current) ELSE recorded
  /\ NextChunk
  /\ Deliver

RecordFails ==
  /\ pc = "record"
  /\ Keep(call.flow)
  /\ Fail
  /\ UNCHANGED <<forwardConn, conns, recorded>>
  /\ Deliver

\* Mutant: the connection is forgotten and not closed.
ReassemblyCompleteLeaks(f) ==
  /\ forwardConn' = [forwardConn EXCEPT ![f] = 0]
  /\ streams' = [streams EXCEPT ![f] = NoStream]
  /\ UNCHANGED conns

\* ReassemblyComplete: the connection of the stream is closed.
ReassemblyComplete(f) ==
  /\ forwardConn' = [forwardConn EXCEPT ![f] = 0]
  /\ conns' = IF forwardConn[f] = 0 THEN conns
              ELSE [conns EXCEPT ![f][forwardConn[f]] = [sent |-> @.sent, open |-> FALSE]]
  /\ streams' = [streams EXCEPT ![f] = NoStream]

\* Reassembled has returned.  Start asks session.err() unless this is FlushAll.
EndCall ==
  /\ pc = "forward"
  /\ call.rest = <<>>
  /\ IF call.end THEN ReassemblyComplete(call.flow) ELSE UNCHANGED <<forwardConn, conns, streams>>
  /\ IF call.flushed THEN pc' = "flush" /\ UNCHANGED <<result, call>>
     ELSE IF lastErr # NoError THEN pc' = "flush" /\ result' = lastErr /\ call' = NoCall
     ELSE pc' = "select" /\ call' = NoCall /\ UNCHANGED result
  /\ UNCHANGED <<source, target, cancelled, received, lastErr, recorded, failures>>

Start ==
  \/ Receive \/ Interrupted \/ Drained \/ FlushDone \/ Close \/ CloseReturns
  \/ \E f \in Flows : FlushNext(f)
  \/ IgnoreCall \/ NotForwarded \/ ForwardChunk \/ ForwardFails
  \/ RecordChunk \/ RecordFails \/ EndCall

\* A signal: signal.NotifyContext cancels ctx.
Cancel ==
  /\ ~cancelled /\ pc # "returned"
  /\ cancelled' = TRUE
  /\ UNCHANGED <<source, target, pc, result, streams, session, received>>

Next ==
  \/ Start
  \/ Cancel
  \/ SourceNext /\ UNCHANGED <<target, cancelled, pc, result, streams, session, received>>

\* Every goroutine runs on; dials time out and writes end.  A select that finds ctx
\* done again and again takes that case in the end: Go chooses at random.
Fairness ==
  /\ WF_vars(Start)
  /\ SF_vars(Interrupted)
  /\ \A d \in Devices :
       SF_vars(StopForwarding(d) /\ UNCHANGED <<target, cancelled, pc, result, streams, session, received>>)

Spec == Init /\ [][Next]_vars /\ Fairness

-----------------------------------------------------------------------------

ForwardedTimes(c) ==
  Cardinality({i \in 1 .. Len(conns[c.flow]) : Contains(conns[c.flow][i].sent, c.segment)})

RecordedTimes(c) == Cardinality({i \in 1 .. Len(recorded) : recorded[i] = c})

\* The data that flows to the observed service.
Observed == {p \in Packets : Keep(p.flow) /\ p.segment \in 1 .. Segments}

\* When Start returns and nothing has failed, or reports success, every piece of data
\* that was taken from the source is in the record, and went to the target: what the
\* assembler held back for a missing SYN or segment is delivered by FlushAll, on an
\* interrupt too.
NothingLost ==
  pc = "returned" /\ (lastErr = NoError \/ result = NoError) =>
    \A c \in Observed : received[c] > 0 =>
      RecordedTimes(c) > 0 /\ (target => ForwardedTimes(c) > 0)

\* The record follows the target: nothing is recorded that was not sent there, and
\* between two calls nothing that was sent there is missing from it.  A piece of data
\* is recorded at most as often as it was captured, and nothing that the observed
\* service sends, or that has to do with another one, ever is.
RecordFollowsForward ==
  /\ \A i \in 1 .. Len(recorded) :
       recorded[i] \in Observed /\ RecordedTimes(recorded[i]) <= received[recorded[i]]
  /\ target => \A c \in Observed :
       /\ RecordedTimes(c) <= ForwardedTimes(c)
       /\ pc = "select" => RecordedTimes(c) = ForwardedTimes(c)

\* A connection to the target carries data of one connection to the observed service,
\* in its order and without repetition, however it was captured.
ForwardedInOrder ==
  \A f \in Flows : \A i \in 1 .. Len(conns[f]) :
    \A j, k \in 1 .. Len(conns[f][i].sent) : j < k => conns[f][i].sent[j] < conns[f][i].sent[k]

\* Start leaves no connection to the target open, whichever way it ends.
ConnectionsClosed ==
  pc = "returned" => \A f \in Flows : \A i \in 1 .. Len(conns[f]) : ~conns[f][i].open

\* No forwardPackets sends on the channel Close has closed.
NoSendOnClosed == \A d \in Devices : forwarder[d] # Panicked

\* After a signal Start returns and every forwardPackets ends, even one that is
\* blocked because the channel is full.
Stops == cancelled ~> (pc = "returned" /\ \A d \in Devices : forwarder[d] = Stopped)

=============================================================================
