---------------------------- MODULE MirrorProofs ----------------------------
(***************************************************************************)
(* Mirror for any number of devices, flows, segments and packets: no       *)
(* capture goroutine sends on the channel Close has closed; Start leaves   *)
(* no connection to the target open; what is sent on a connection is in    *)
(* order; the record follows what is sent; a Start that reports no failure *)
(* has lost nothing it took from the source; and it goes on to its end.    *)
(***************************************************************************)
EXTENDS Mirror, FiniteSetTheorems, SequenceTheorems, TLAPS

\* A closed channel has no sender left; a plain channel never had one.
NoSender ==
  /\ forwarder \in [Devices -> {Receiving, Stopped} \cup {Sending(p) : p \in Packets}]
  /\ closed \/ ~live => \A d \in Devices : forwarder[d] = Stopped

LEMMA NoSenderInit == Init => NoSender
BY DEF Init, SourceInit, NoSender

LEMMA NoSenderStep == NoSender /\ [Next]_vars => NoSender'
<1> SUFFICES ASSUME NoSender, [Next]_vars PROVE NoSender'
  OBVIOUS
<1> USE DEF NoSender, Receiving, Stopped, Sending, Panicked
<1>1. ASSUME NEW d \in Devices, NEW p \in Packets, Capture(d, p) PROVE NoSender'
  BY <1>1 DEF Capture
<1>2. ASSUME NEW d \in Devices, DeviceEnds(d) PROVE NoSender'
  BY <1>2 DEF DeviceEnds
<1>3. ASSUME NEW d \in Devices, Enqueue(d) PROVE NoSender'
  BY <1>3 DEF Enqueue
<1>4. ASSUME NEW d \in Devices, StopForwarding(d) PROVE NoSender'
  BY <1>4 DEF StopForwarding
<1>5. CASE ChannelClose
  BY <1>5 DEF ChannelClose
<1>6. CASE CloseReturns
  BY <1>6 DEF CloseReturns, ClosePackets
<1>7. ASSUME UNCHANGED <<live, forwarder, closed>> PROVE NoSender'
  BY <1>7
<1>8. CASE Close
  BY <1>7, <1>8 DEF Close, CloseDone, source
<1>9. CASE Receive
  BY <1>7, <1>9 DEF Receive
<1>10. CASE UNCHANGED source
  BY <1>7, <1>10 DEF source
<1>11. ASSUME NEW p \in Packets, ChannelSend(p) PROVE NoSender'
  BY <1>7, <1>11 DEF ChannelSend
<1>12. CASE Start
  <2>1. CASE UNCHANGED source
    BY <1>10, <2>1
  <2>2. QED
    BY <1>6, <1>8, <1>9, <1>12, <2>1 DEF Start, Interrupted, Drained, StartFlush, FlushDone, FlushNext,
       IgnoreCall, NotForwarded, ForwardChunk, ForwardFails, RecordChunk, RecordFails, EndCall, Deliver
<1>13. QED
  BY <1>1, <1>2, <1>3, <1>4, <1>5, <1>10, <1>11, <1>12 DEF Next, SourceNext, Cancel, vars

\* Close waits for every forwardPackets before it closes the channel, so none of them
\* ever sends on it: the program does not panic when it shuts down.
THEOREM ShutdownIsSafe == Spec => []NoSendOnClosed
<1>1. NoSender => NoSendOnClosed
  BY DEF NoSender, NoSendOnClosed, Receiving, Stopped, Sending, Panicked
<1>2. QED
  BY <1>1, NoSenderInit, NoSenderStep, PTL DEF Spec

-----------------------------------------------------------------------------
(* Connections.                                                             *)

Conn   == [sent : Seq(Int), open : BOOLEAN]
Stream == [open : BOOLEAN, next : Int, pages : SUBSET (0 .. Fin)]
Calls  == [flow : Flows \cup {"none"}, rest : Seq(Int), end : BOOLEAN, flushed : BOOLEAN]

Types ==
  /\ packets \in Seq(Packets)
  /\ streams \in [Flows -> Stream]
  /\ forwardConn \in [Flows -> Nat]
  /\ conns \in [Flows -> Seq(Conn)]
  /\ call \in Calls

\* While Reassembled runs its stream is open; when FlushAll has returned none is.
Places ==
  /\ pc \in {"forward", "record"} => call.flow \in Flows /\ streams[call.flow].open
  /\ pc = "record" => call.rest # <<>>
  /\ pc \in {"close", "closing", "returned"} => \A f \in Flows : ~streams[f].open

\* A connection that is open is the one its stream uses.
Owned(f) ==
  /\ forwardConn[f] <= Len(conns[f])
  /\ \A i \in 1 .. Len(conns[f]) : conns[f][i].open => forwardConn[f] = i /\ streams[f].open

IInv == NoSender /\ Types /\ Places /\ \A f \in Flows : Owned(f)

LEMMA InvInit == Init => IInv
<1> SUFFICES ASSUME Init PROVE IInv
  OBVIOUS
<1>1. NoStream \in Stream
  BY DEF NoStream, Stream, Unknown
<1>2. NoCall \in Calls
  BY DEF NoCall, Calls
<1>3. Types
  <2>1. packets \in Seq(Packets)
    BY DEF Init, SourceInit
  <2>2. QED
    BY <1>1, <1>2, <2>1 DEF Init, Types
<1>4. Places
  BY DEF Init, Places
<1>5. ASSUME NEW f \in Flows PROVE Owned(f)
  BY DEF Init, Owned
<1>6. QED
  BY <1>3, <1>4, <1>5, NoSenderInit DEF IInv

LEMMA FinIsInt == Fin \in Int
BY SegmentsAssumption DEF Fin

\* What the assembler hands over is a call for a stream that is open.
LEMMA HandOverTypes ==
  ASSUME Types, NEW f \in Flows, NEW n \in Int, NEW pages \in SUBSET (0 .. Fin),
         NEW flushed \in BOOLEAN, HandOver(f, n, pages, flushed)
  PROVE  /\ streams' \in [Flows -> Stream]
         /\ call' \in Calls
         /\ call'.flow = f
         /\ streams'[f].open
         /\ \A g \in Flows : streams[g].open => streams'[g].open
<1> DEFINE length == Cardinality(Run(n, pages))
           rest == [i \in 1 .. length |-> n + i - 1]
           kept == {q \in pages : q >= n + length}
<1>1. length \in Nat
  <2>1. Fin \in Int
    BY FinIsInt
  <2>2. IsFiniteSet(0 .. Fin)
    BY <2>1, FS_Interval
  <2>3. Run(n, pages) \subseteq 0 .. Fin
    BY DEF Run
  <2>4. QED
    BY <2>2, <2>3, FS_Subset, FS_CardinalityType
<1>2. rest \in Seq(Int)
  <2> HIDE DEF length
  <2>1. rest \in [1 .. length -> Int]
    BY <1>1
  <2>2. QED
    BY <1>1, <2>1, SeqDef
<1>3. streams' = [streams EXCEPT ![f] = [open |-> TRUE, next |-> n + length, pages |-> kept]]
  BY DEF HandOver
<1>4. call' = [flow |-> f, rest |-> rest, end |-> Fin \in Run(n, pages), flushed |-> flushed]
  BY DEF HandOver
<1> HIDE DEF length, rest
<1>5. [open |-> TRUE, next |-> n + length, pages |-> kept] \in Stream
  <2>1. n + length \in Int
    BY <1>1
  <2>2. kept \in SUBSET (0 .. Fin)
    OBVIOUS
  <2>3. QED
    BY <2>1, <2>2 DEF Stream
<1> HIDE DEF kept
<1>6. streams' \in [Flows -> Stream] /\ streams'[f].open
  BY <1>3, <1>5 DEF Types
<1>7. \A g \in Flows : streams[g].open => streams'[g].open
  BY <1>3 DEF Types
<1>8. call' \in Calls /\ call'.flow = f
  BY <1>2, <1>4 DEF Calls
<1>9. QED
  BY <1>6, <1>7, <1>8

\* A packet opens streams and closes none.
LEMMA AssembleTypes ==
  ASSUME Types, pc = "select", NEW f \in Flows, NEW q \in 0 .. Fin, Assemble(f, q)
  PROVE  /\ streams' \in [Flows -> Stream]
         /\ call' \in Calls
         /\ \A g \in Flows : streams[g].open => streams'[g].open
         /\ \/ pc' = "select"
            \/ pc' = "forward" /\ call'.flow \in Flows /\ streams'[call'.flow].open
<1> DEFINE s == streams[f]
<1>1. s \in Stream
  BY DEF Types
<1>2. s.next \in Int /\ s.pages \in SUBSET (0 .. Fin)
  BY <1>1 DEF Stream
<1>3. s.pages \cup {q} \in SUBSET (0 .. Fin)
  BY <1>2
<1> DEFINE Result == /\ streams' \in [Flows -> Stream]
                     /\ call' \in Calls
                     /\ \A g \in Flows : streams[g].open => streams'[g].open
                     /\ \/ pc' = "select"
                        \/ pc' = "forward" /\ call'.flow \in Flows /\ streams'[call'.flow].open
<1>4. ASSUME NEW n \in Int, NEW pages \in SUBSET (0 .. Fin), HandOver(f, n, pages, FALSE)
      PROVE  Result
  <2>1. /\ streams' \in [Flows -> Stream]
        /\ call' \in Calls /\ call'.flow = f
        /\ streams'[f].open
        /\ \A g \in Flows : streams[g].open => streams'[g].open
    BY <1>4, HandOverTypes
  <2>2. pc' = "forward"
    BY <1>4 DEF HandOver
  <2>3. QED
    BY <2>1, <2>2
<1>5. ASSUME Buffer(f, q) PROVE Result
  <2>1. streams' = [streams EXCEPT ![f] = [open |-> TRUE, next |-> s.next, pages |-> s.pages \cup {q}]]
    BY <1>5 DEF Buffer
  <2>2. [open |-> TRUE, next |-> s.next, pages |-> s.pages \cup {q}] \in Stream
    BY <1>2, <1>3 DEF Stream
  <2>3. streams' \in [Flows -> Stream] /\ \A g \in Flows : streams[g].open => streams'[g].open
    BY <2>1, <2>2 DEF Types
  <2>4. pc' = "select" /\ call' \in Calls
    BY <1>5 DEF Buffer, Types
  <2>5. QED
    BY <2>3, <2>4
<1>6. \/ Buffer(f, q)
      \/ HandOver(f, 1, s.pages, FALSE)
      \/ HandOver(f, s.next, s.pages \cup {q}, FALSE)
  BY DEF Assemble
<1> HIDE DEF s, Result
<1>7. HandOver(f, 1, s.pages, FALSE) => Result
  <2>1. 1 \in Int
    OBVIOUS
  <2>2. QED
    BY <1>2, <1>4, <2>1, Zenon
<1>8. HandOver(f, s.next, s.pages \cup {q}, FALSE) => Result
  BY <1>2, <1>3, <1>4, Zenon
<1>9. Result
  BY <1>5, <1>6, <1>7, <1>8, Zenon
<1>10. QED
  BY <1>9 DEF Result

\* A connection is added for the stream that has none, or written to.
LEMMA UseConnOwned ==
  ASSUME IInv, NEW f \in Flows, streams[f].open, NEW seen \in Seq(Int), UseConn(f, seen),
         UNCHANGED streams
  PROVE  /\ forwardConn' \in [Flows -> Nat] /\ conns' \in [Flows -> Seq(Conn)]
         /\ \A g \in Flows : Owned(g)'
<1> USE DEF IInv, Types, Owned
<1>1. CASE /\ forwardConn[f] = 0
           /\ conns' = [conns EXCEPT ![f] = Append(@, [sent |-> seen, open |-> TRUE])]
           /\ forwardConn' = [forwardConn EXCEPT ![f] = Len(conns[f]) + 1]
  <2>1. [sent |-> seen, open |-> TRUE] \in Conn
    BY DEF Conn
  <2>2. /\ Append(conns[f], [sent |-> seen, open |-> TRUE]) \in Seq(Conn)
        /\ Len(Append(conns[f], [sent |-> seen, open |-> TRUE])) = Len(conns[f]) + 1
        /\ \A i \in 1 .. Len(conns[f]) : Append(conns[f], [sent |-> seen, open |-> TRUE])[i] = conns[f][i]
    BY <2>1
  <2>3. Len(conns[f]) \in Nat
    OBVIOUS
  <2>4. \A i \in 1 .. Len(conns[f]) : ~conns[f][i].open
    BY <1>1
  <2>5. forwardConn' \in [Flows -> Nat] /\ conns' \in [Flows -> Seq(Conn)]
    BY <1>1, <2>2, <2>3
  <2>6. Owned(f)'
    BY <1>1, <2>2, <2>3, <2>4
  <2>7. \A g \in Flows \ {f} : Owned(g)'
    BY <1>1
  <2>8. QED
    BY <2>5, <2>6, <2>7
<1>2. CASE /\ forwardConn[f] # 0
           /\ conns' = [conns EXCEPT ![f][forwardConn[f]] = [sent |-> @.sent \o seen, open |-> @.open]]
           /\ UNCHANGED forwardConn
  <2> DEFINE c == conns[f][forwardConn[f]]
             d == [sent |-> c.sent \o seen, open |-> c.open]
             s == [conns[f] EXCEPT ![forwardConn[f]] = d]
  <2>1. forwardConn[f] \in 1 .. Len(conns[f])
    BY <1>2
  <2>2. c \in Conn
    BY <2>1
  <2>3. d \in Conn /\ d.open = c.open
    BY <2>2 DEF Conn
  <2>4. s \in Seq(Conn) /\ Len(s) = Len(conns[f])
    BY <2>1, <2>3
  <2>5. \A i \in 1 .. Len(s) : s[i].open = conns[f][i].open
    BY <2>1, <2>3, <2>4
  <2>6. conns' = [conns EXCEPT ![f] = s] /\ forwardConn' = forwardConn
    BY <1>2
  <2> HIDE DEF s
  <2>7. conns' \in [Flows -> Seq(Conn)] /\ forwardConn' \in [Flows -> Nat]
    BY <2>4, <2>6
  <2>8. Owned(f)'
    BY <2>4, <2>5, <2>6
  <2>9. \A g \in Flows \ {f} : Owned(g)'
    BY <2>6
  <2>10. QED
    BY <2>7, <2>8, <2>9
<1>3. QED
  BY <1>1, <1>2 DEF UseConn

\* The steps of the source keep the channel well typed.
LEMMA SourceTypes ==
  ASSUME NoSender, Types, SourceNext
  PROVE  packets' \in Seq(Packets)
<1>1. packets \in Seq(Packets)
  BY DEF Types
<1>2. ASSUME NEW d \in Devices, Enqueue(d) PROVE packets' \in Seq(Packets)
  <2>1. forwarder[d].packet \in Packets
    BY <1>2 DEF Enqueue, NoSender, Receiving, Stopped, Sending
  <2>2. QED
    BY <1>1, <1>2, <2>1 DEF Enqueue
<1>3. ASSUME NEW p \in Packets, ChannelSend(p) PROVE packets' \in Seq(Packets)
  BY <1>1, <1>3 DEF ChannelSend
<1>4. QED
  BY <1>1, <1>2, <1>3 DEF SourceNext, DeviceEnds, StopForwarding, Capture, ChannelClose

\* Reassembled goes on with its call and touches no connection.
LEMMA CallGoesOn ==
  ASSUME IInv, NoSender', pc \in {"forward", "record"}, UNCHANGED <<packets, streams, forwardConn, conns>>,
         call.flow \in Flows, streams[call.flow].open,
         call' \in Calls, call'.flow = call.flow,
         pc' = "forward" \/ (pc' = "record" /\ call'.rest # <<>>)
  PROVE  IInv'
BY DEF IInv, Types, Places, Owned

LEMMA InReassembled ==
  ASSUME IInv, pc \in {"forward", "record"}
  PROVE  /\ call.flow \in Flows /\ streams[call.flow].open
         /\ call.rest \in Seq(Int)
         /\ [call EXCEPT !.rest = <<>>] \in Calls
         /\ [call EXCEPT !.rest = <<>>].flow = call.flow
         /\ call.rest # <<>> =>
              /\ Head(call.rest) \in Int
              /\ [call EXCEPT !.rest = Tail(@)] \in Calls
              /\ [call EXCEPT !.rest = Tail(@)].flow = call.flow
<1>1. call \in Calls
  BY DEF IInv, Types
<1>2. call.flow \in Flows /\ streams[call.flow].open
  BY DEF IInv, Places
<1>3. call.rest \in Seq(Int)
  BY <1>1 DEF Calls
<1>4. ASSUME NEW r \in Seq(Int)
      PROVE  [call EXCEPT !.rest = r] \in Calls /\ [call EXCEPT !.rest = r].flow = call.flow
  BY <1>1 DEF Calls
<1>5. <<>> \in Seq(Int)
  OBVIOUS
<1>6. call.rest # <<>> => Head(call.rest) \in Int /\ Tail(call.rest) \in Seq(Int)
  BY <1>3
<1>7. QED
  BY <1>2, <1>3, <1>4, <1>5, <1>6

\* The connection of a stream is closed when the stream ends.
LEMMA CompletedOwned ==
  ASSUME IInv, NEW f \in Flows, ReassemblyComplete(f)
  PROVE  /\ streams' \in [Flows -> Stream]
         /\ forwardConn' \in [Flows -> Nat]
         /\ conns' \in [Flows -> Seq(Conn)]
         /\ \A g \in Flows : Owned(g)'
<1> USE DEF IInv, Types, Owned
<1>1. NoStream \in Stream
  BY DEF NoStream, Stream, Unknown
<1>2. streams' = [streams EXCEPT ![f] = NoStream] /\ forwardConn' = [forwardConn EXCEPT ![f] = 0]
  BY DEF ReassemblyComplete
<1>3. streams' \in [Flows -> Stream] /\ forwardConn' \in [Flows -> Nat]
  BY <1>1, <1>2
<1>4. CASE forwardConn[f] = 0
  <2>1. UNCHANGED conns
    BY <1>4 DEF ReassemblyComplete
  <2>2. \A i \in 1 .. Len(conns[f]) : ~conns[f][i].open
    BY <1>4
  <2>3. \A g \in Flows : Owned(g)'
    BY <1>2, <2>1, <2>2
  <2>4. QED
    BY <1>3, <2>1, <2>3
<1>5. CASE forwardConn[f] # 0
  <2> DEFINE d == [sent |-> conns[f][forwardConn[f]].sent, open |-> FALSE]
             s == [conns[f] EXCEPT ![forwardConn[f]] = d]
  <2>1. forwardConn[f] \in 1 .. Len(conns[f])
    BY <1>5
  <2>2. d \in Conn /\ ~d.open
    <3>1. conns[f][forwardConn[f]] \in Conn
      BY <2>1
    <3>2. QED
      BY <3>1 DEF Conn
  <2>3. s \in Seq(Conn) /\ Len(s) = Len(conns[f])
    BY <2>1, <2>2
  <2>4. \A i \in 1 .. Len(s) : ~s[i].open
    BY <2>1, <2>2, <2>3
  <2>5. conns' = [conns EXCEPT ![f] = s]
    BY <1>5 DEF ReassemblyComplete
  <2> HIDE DEF s
  <2>6. conns' \in [Flows -> Seq(Conn)]
    BY <2>3, <2>5
  <2>7. Owned(f)'
    BY <1>2, <2>3, <2>4, <2>5
  <2>8. \A g \in Flows \ {f} : Owned(g)'
    BY <1>2, <2>5
  <2>9. QED
    BY <1>3, <2>6, <2>7, <2>8
<1>6. QED
  BY <1>4, <1>5

-----------------------------------------------------------------------------
(* The steps of Start, in the order of Mirror.                              *)

LEMMA ReceiveStep == ASSUME IInv, NoSender', Receive PROVE IInv'
<1> USE DEF IInv
<1>1. Head(packets) \in Packets /\ Tail(packets) \in Seq(Packets)
  BY DEF Receive, Types
<1>2. PICK p \in Packets : p = Head(packets)
  BY <1>1
<1>3. p.flow \in Flows /\ p.segment \in 0 .. Fin
  BY FlowAssumption DEF Fin
<1>4. pc = "select" /\ Assemble(p.flow, p.segment) /\ packets' = Tail(packets)
      /\ UNCHANGED <<forwardConn, conns>>
  BY <1>2 DEF Receive
<1>5. /\ streams' \in [Flows -> Stream]
      /\ call' \in Calls
      /\ \A g \in Flows : streams[g].open => streams'[g].open
      /\ \/ pc' = "select"
         \/ pc' = "forward" /\ call'.flow \in Flows /\ streams'[call'.flow].open
  BY <1>3, <1>4, AssembleTypes
<1>6. Types'
  BY <1>1, <1>4, <1>5 DEF Types
<1>7. Places'
  BY <1>5 DEF Places
<1>8. \A g \in Flows : Owned(g)'
  BY <1>4, <1>5 DEF Owned
<1>9. QED
  BY <1>6, <1>7, <1>8

LEMMA FlushNextStep == ASSUME IInv, NoSender', NEW f \in Flows, FlushNext(f) PROVE IInv'
<1> USE DEF IInv
<1>1. UNCHANGED <<packets, forwardConn, conns>> /\ streams[f].open
  BY DEF FlushNext, source
<1>2. streams[f].pages \in SUBSET (0 .. Fin)
  BY DEF Types, Stream
<1>3. /\ streams' \in [Flows -> Stream]
      /\ call' \in Calls
      /\ pc' = "forward" /\ call'.flow = f /\ streams'[f].open
      /\ \A g \in Flows : streams[g].open => streams'[g].open
  <2>1. CASE /\ call' = [flow |-> f, rest |-> <<>>, end |-> TRUE, flushed |-> TRUE]
             /\ pc' = "forward"
             /\ UNCHANGED streams
    BY <1>1, <2>1 DEF Calls, Types
  <2>2. ASSUME NEW n \in streams[f].pages, HandOver(f, n, streams[f].pages, TRUE)
        PROVE  /\ streams' \in [Flows -> Stream]
               /\ call' \in Calls
               /\ pc' = "forward" /\ call'.flow = f /\ streams'[f].open
               /\ \A g \in Flows : streams[g].open => streams'[g].open
    <3>1. n \in Int
      BY <1>2, FinIsInt
    <3>2. pc' = "forward"
      BY <2>2 DEF HandOver
    <3>3. QED
      BY <1>2, <2>2, <3>1, <3>2, HandOverTypes
  <2>3. QED
    BY <2>1, <2>2 DEF FlushNext
<1>4. Types'
  BY <1>1, <1>3 DEF Types
<1>5. Places'
  BY <1>3 DEF Places
<1>6. \A g \in Flows : Owned(g)'
  BY <1>1, <1>3 DEF Owned
<1>7. QED
  BY <1>4, <1>5, <1>6

LEMMA UseConnStep ==
  ASSUME IInv, NoSender', pc = "forward", NEW seen \in Seq(Int), UseConn(call.flow, seen),
         UNCHANGED <<packets, streams>>, call' \in Calls, call'.flow = call.flow,
         pc' = "forward" \/ (pc' = "record" /\ call'.rest # <<>>)
  PROVE  IInv'
<1>1. call.flow \in Flows /\ streams[call.flow].open
  BY InReassembled
<1>2. /\ forwardConn' \in [Flows -> Nat] /\ conns' \in [Flows -> Seq(Conn)]
      /\ \A g \in Flows : Owned(g)'
  BY <1>1, UseConnOwned
<1>3. Types' /\ Places'
  BY <1>1, <1>2 DEF IInv, Types, Places
<1>4. QED
  BY <1>2, <1>3 DEF IInv

LEMMA ForwardStep == ASSUME IInv, NoSender', ForwardChunk \/ ForwardFails PROVE IInv'
<1>1. pc = "forward" /\ call.rest # <<>> /\ UNCHANGED <<packets, streams>>
  BY DEF ForwardChunk, ForwardFails, Forwarding, Deliver, source
<1>2. call \in Calls
  BY DEF IInv, Types
<1>3. /\ Head(call.rest) \in Int
      /\ [call EXCEPT !.rest = <<>>] \in Calls
      /\ [call EXCEPT !.rest = <<>>].flow = call.flow
  BY <1>1, InReassembled
<1>4. CASE ForwardChunk
  <2>1. UseConn(call.flow, <<Head(call.rest)>>) /\ pc' = "record" /\ UNCHANGED call
    BY <1>4 DEF ForwardChunk
  <2>2. <<Head(call.rest)>> \in Seq(Int)
    BY <1>3
  <2>3. QED
    BY <1>1, <1>2, <2>1, <2>2, UseConnStep
<1>5. CASE ForwardFails
  <2>1. pc' = "forward" /\ call' = [call EXCEPT !.rest = <<>>]
    BY <1>5 DEF ForwardFails, Fail
  <2>2. CASE UNCHANGED <<forwardConn, conns>>
    BY <1>1, <1>3, <2>1, <2>2, InReassembled, CallGoesOn
  <2>3. CASE UseConn(call.flow, <<>>)
    <3>1. <<>> \in Seq(Int)
      OBVIOUS
    <3>2. QED
      BY <1>1, <1>3, <2>1, <2>3, <3>1, UseConnStep
  <2>4. QED
    BY <1>5, <2>2, <2>3 DEF ForwardFails
<1>6. QED
  BY <1>4, <1>5

LEMMA RecordStep ==
  ASSUME IInv, NoSender', IgnoreCall \/ NotForwarded \/ RecordChunk \/ RecordFails
  PROVE  IInv'
<1>1. pc \in {"forward", "record"} /\ UNCHANGED <<packets, streams, forwardConn, conns>>
  BY DEF IgnoreCall, NotForwarded, RecordChunk, RecordFails, NextChunk, Forwarding, Deliver, session, source
<1>2. call.rest # <<>>
  BY DEF IgnoreCall, NotForwarded, RecordChunk, RecordFails, Forwarding, IInv, Places
<1>3. call \in Calls
  BY DEF IInv, Types
<1>4. CASE NotForwarded
  <2>1. pc' = "record" /\ UNCHANGED call
    BY <1>4 DEF NotForwarded, session
  <2>2. QED
    BY <1>1, <1>2, <1>3, <2>1, InReassembled, CallGoesOn
<1>5. CASE RecordChunk
  <2>1. pc' = "forward" /\ call' = [call EXCEPT !.rest = Tail(@)]
    BY <1>5 DEF RecordChunk, NextChunk
  <2>2. call' \in Calls /\ call'.flow = call.flow
    BY <1>1, <1>2, <2>1, InReassembled
  <2>3. QED
    BY <1>1, <2>1, <2>2, InReassembled, CallGoesOn
<1>6. CASE IgnoreCall \/ RecordFails
  <2>1. pc' = "forward" /\ call' = [call EXCEPT !.rest = <<>>]
    BY <1>6 DEF IgnoreCall, RecordFails, Fail
  <2>2. call' \in Calls /\ call'.flow = call.flow
    BY <1>1, <2>1, InReassembled
  <2>3. QED
    BY <1>1, <2>1, <2>2, InReassembled, CallGoesOn
<1>7. QED
  BY <1>4, <1>5, <1>6

LEMMA EndCallStep == ASSUME IInv, NoSender', EndCall PROVE IInv'
<1>1. pc = "forward" /\ UNCHANGED packets
  BY DEF EndCall, source
<1>2. call.flow \in Flows
  BY <1>1, InReassembled
<1>3. /\ streams' \in [Flows -> Stream]
      /\ forwardConn' \in [Flows -> Nat]
      /\ conns' \in [Flows -> Seq(Conn)]
      /\ \A g \in Flows : Owned(g)'
  <2>1. CASE call.end
    BY <1>2, <2>1, CompletedOwned DEF EndCall
  <2>2. CASE ~call.end
    BY <2>2 DEF EndCall, IInv, Types, Owned
  <2>3. QED
    BY <2>1, <2>2
<1>4. pc' \in {"flush", "select"} /\ call' \in {call, NoCall}
  BY DEF EndCall
<1>5. NoCall \in Calls
  BY DEF NoCall, Calls
<1>6. Types'
  BY <1>1, <1>3, <1>4, <1>5 DEF IInv, Types
<1>7. Places'
  BY <1>4 DEF Places
<1>8. QED
  BY <1>3, <1>6, <1>7 DEF IInv

\* Start leaves its loop, flushes and closes the source.
LEMMA LeaveStep ==
  ASSUME IInv, NoSender', Interrupted \/ Drained \/ FlushDone \/ Close \/ CloseReturns
  PROVE  IInv'
<1>1. UNCHANGED <<packets, streams, forwardConn, conns>>
  BY DEF Interrupted, Drained, StartFlush, FlushDone, Close, CloseDone, CloseReturns, ClosePackets, session, source
<1>2. call' \in {call, NoCall}
  BY DEF Interrupted, Drained, StartFlush, FlushDone, Close, CloseReturns, session
<1>3. NoCall \in Calls
  BY DEF NoCall, Calls
<1>4. Types'
  BY <1>1, <1>2, <1>3 DEF IInv, Types
<1>5. \A f \in Flows : Owned(f)'
  BY <1>1 DEF IInv, Owned
<1>6. CASE Interrupted \/ Drained
  <2>1. pc' = "flush"
    BY <1>6 DEF Interrupted, Drained, StartFlush
  <2>2. QED
    BY <1>4, <1>5, <2>1 DEF IInv, Places
<1>7. CASE FlushDone \/ Close \/ CloseReturns
  <2>1. pc' \in {"close", "closing", "returned"} /\ \A f \in Flows : ~streams[f].open
    BY <1>7 DEF FlushDone, Close, CloseReturns, IInv, Places
  <2>2. QED
    BY <1>1, <1>4, <1>5, <2>1 DEF IInv, Places
<1>8. QED
  BY <1>6, <1>7

LEMMA InvStep == IInv /\ [Next]_vars => IInv'
<1> SUFFICES ASSUME IInv, [Next]_vars PROVE IInv'
  OBVIOUS
<1>1. NoSender'
  BY NoSenderStep DEF IInv
<1>2. CASE Start
  BY <1>1, <1>2, ReceiveStep, LeaveStep, FlushNextStep, RecordStep, ForwardStep, EndCallStep DEF Start
<1>3. ASSUME packets' \in Seq(Packets), UNCHANGED <<pc, streams, session>> PROVE IInv'
  BY <1>1, <1>3 DEF IInv, Types, Places, Owned, session
<1>4. CASE SourceNext /\ UNCHANGED <<target, cancelled, pc, result, streams, session, received>>
  BY <1>3, <1>4, SourceTypes DEF IInv
<1>5. CASE Cancel \/ UNCHANGED vars
  BY <1>3, <1>5 DEF Cancel, vars, source, IInv, Types
<1>6. QED
  BY <1>2, <1>4, <1>5 DEF Next

\* However Start ends (drained, interrupted, after a failed dial, write or record), it
\* leaves no connection to the target open: each belongs to a stream that FlushAll or a
\* FIN has completed, and completing a stream closes its connection.
THEOREM NoConnectionLeaks == Spec => []ConnectionsClosed
<1>1. IInv => ConnectionsClosed
  BY DEF IInv, Places, Owned, ConnectionsClosed
<1>2. QED
  BY <1>1, InvInit, InvStep, PTL DEF Spec

-----------------------------------------------------------------------------
(* The data of a flow.                                                      *)

Increasing(s) == \A j, k \in 1 .. Len(s) : j < k => s[j] < s[k]

Numbers(n, m) == [i \in 1 .. m - n |-> n + i - 1]

LEMMA NumbersAre ==
  ASSUME NEW n \in Int, NEW m \in Int, n <= m
  PROVE  /\ Numbers(n, m) \in Seq(Int) /\ Increasing(Numbers(n, m))
         /\ \A x : Contains(Numbers(n, m), x) <=> x \in n .. m - 1
<1> DEFINE s == Numbers(n, m)
<1>1. m - n \in Nat
  OBVIOUS
<1>2. s \in [1 .. m - n -> Int] /\ \A i \in 1 .. m - n : s[i] = n + i - 1
  BY DEF Numbers
<1>3. s \in Seq(Int) /\ Len(s) = m - n
  BY <1>1, <1>2, SeqDef, LenProperties DEF Numbers
<1> HIDE DEF s
<1>4. Increasing(s)
  BY <1>1, <1>2, <1>3 DEF Increasing
<1>5. ASSUME NEW x, Contains(s, x) PROVE x \in n .. m - 1
  BY <1>1, <1>2, <1>3, <1>5 DEF Contains
<1>6. ASSUME NEW x \in n .. m - 1 PROVE Contains(s, x)
  <2>1. x - n + 1 \in 1 .. m - n /\ n + (x - n + 1) - 1 = x
    BY <1>1
  <2>2. x - n + 1 \in 1 .. Len(s) /\ s[x - n + 1] = x
    BY <1>2, <1>3, <2>1
  <2> QED
    BY <2>2 DEF Contains
<1> QED
  BY <1>3, <1>4, <1>5, <1>6 DEF s

\* The run that starts with n is an interval, because a run that has a number has all
\* from n to it.
LEMMA RunIsInterval ==
  ASSUME NEW n \in Int, NEW pages \in SUBSET (0 .. Fin)
  PROVE  /\ Cardinality(Run(n, pages)) \in Nat
         /\ Run(n, pages) = n .. n + Cardinality(Run(n, pages)) - 1
<1> DEFINE R == Run(n, pages)
           length == Cardinality(R)
<1>1. Fin \in Int
  BY FinIsInt
<1>2. R \subseteq 0 .. Fin /\ \A q \in R : q \in Int /\ q >= n /\ n .. q \subseteq R
  <2>1. R \subseteq 0 .. Fin
    BY DEF Run
  <2>2. ASSUME NEW q \in R PROVE q \in Int /\ q >= n /\ n .. q \subseteq pages
    BY <1>1, <2>1 DEF Run
  <2>3. ASSUME NEW q \in R, NEW p \in n .. q PROVE p \in R
    <3>1. q \in Int /\ p \in Int /\ p >= n /\ n .. p \subseteq n .. q
      BY <2>2
    <3>2. p \in pages /\ n .. p \subseteq pages
      BY <2>2, <3>1
    <3> QED
      BY <3>1, <3>2 DEF Run
  <2> QED
    BY <2>1, <2>2, <2>3
<1>3. IsFiniteSet(R) /\ length \in Nat
  <2>1. IsFiniteSet(0 .. Fin) /\ R \in SUBSET (0 .. Fin)
    BY <1>1, <1>2, FS_Interval
  <2> HIDE DEF R
  <2> QED
    BY <2>1, FS_Subset, FS_CardinalityType
<1>4. ASSUME NEW q \in R PROVE q \in n .. n + length - 1
  <2>1. q \in Int /\ q >= n /\ n .. q \in SUBSET R
    BY <1>2
  <2>2. Cardinality(n .. q) = q - n + 1
    BY <2>1, FS_Interval
  <2>3. Cardinality(n .. q) <= length
    BY <1>3, <2>1, FS_Subset
  <2> HIDE DEF R, length
  <2> QED
    BY <1>3, <2>1, <2>2, <2>3
<1>5. IsFiniteSet(n .. n + length - 1) /\ Cardinality(n .. n + length - 1) = length
  <2> HIDE DEF R, length
  <2>1. n + length - 1 \in Int
    BY <1>3
  <2>2. /\ IsFiniteSet(n .. n + length - 1)
        /\ Cardinality(n .. n + length - 1)
             = IF n > n + length - 1 THEN 0 ELSE (n + length - 1) - n + 1
    BY <2>1, FS_Interval
  <2>3. (IF n > n + length - 1 THEN 0 ELSE (n + length - 1) - n + 1) = length
    BY <1>3
  <2> QED
    BY <2>2, <2>3
<1>6. R \in SUBSET (n .. n + length - 1)
  BY <1>4
<1> HIDE DEF R
<1>7. R = n .. n + length - 1
  BY <1>5, <1>6, FS_Subset
<1> QED
  BY <1>3, <1>7 DEF R

\* What a stream is left with.
Handed(pages, m) == [open |-> TRUE, next |-> m, pages |-> {q \in pages : q >= m}]

Hands(f, n, m, pages, flushed) ==
  /\ streams' = [streams EXCEPT ![f] = Handed(pages, m)]
  /\ call'.flow = f /\ call'.rest = Numbers(n, m) /\ call'.flushed = flushed
  /\ call'.end = (Fin \in n .. m - 1)
  /\ n .. m - 1 \subseteq pages
  /\ pc' = "forward"

\* What the assembler hands over is an interval of what it has, and what comes behind it
\* stays.
LEMMA HandedOver ==
  ASSUME Types, NEW f \in Flows, NEW n \in 1 .. Fin + 1, NEW pages \in SUBSET (0 .. Fin),
         NEW flushed \in BOOLEAN, HandOver(f, n, pages, flushed)
  PROVE  \E m \in n .. Fin + 1 : Hands(f, n, m, pages, flushed)
<1> DEFINE length == Cardinality(Run(n, pages))
<1>1. Fin \in Int /\ n \in Int
  BY FinIsInt
<1>2. length \in Nat /\ Run(n, pages) = n .. n + length - 1
  BY <1>1, RunIsInterval
<1>3. n .. n + length - 1 \subseteq pages
  BY <1>2 DEF Run
<1> DEFINE rest == [i \in 1 .. length |-> n + i - 1]
           end == Fin \in Run(n, pages)
<1>0. call' = [flow |-> f, rest |-> rest, end |-> end, flushed |-> flushed]
  BY DEF HandOver
<1>4. streams' = [streams EXCEPT ![f] = Handed(pages, n + length)] /\ pc' = "forward"
  BY DEF HandOver, Handed
<1> HIDE DEF length
<1>5. n + length \in n .. Fin + 1
  <2>1. CASE length = 0
    BY <1>1, <2>1
  <2>2. CASE length # 0
    <3>1. n + length - 1 \in n .. n + length - 1
      BY <1>1, <1>2, <2>2
    <3>2. n + length - 1 \in 0 .. Fin
      BY <1>3, <3>1
    <3> QED
      BY <1>1, <1>2, <3>2
  <2> QED
    BY <2>1, <2>2
<1>6. Numbers(n, n + length) = rest
  <2>1. (n + length) - n = length
    BY <1>1, <1>2
  <2> QED
    BY <2>1 DEF Numbers
<1>7. end = (Fin \in n .. (n + length) - 1)
  BY <1>2
<1> HIDE DEF rest, end
<1>8. call'.flow = f /\ call'.rest = rest /\ call'.end = end /\ call'.flushed = flushed
  BY <1>0
<1> DEFINE m == n + length
<1>9. m \in n .. Fin + 1 /\ n .. m - 1 \subseteq pages
  BY <1>1, <1>2, <1>3, <1>5
<1>10. Numbers(n, m) = rest
  BY <1>6
<1>11. streams' = [streams EXCEPT ![f] = Handed(pages, m)]
  BY <1>4
<1>12. end = (Fin \in n .. m - 1)
  BY <1>7
<1> HIDE DEF m
<1> QED
  BY <1>4, <1>8, <1>9, <1>10, <1>11, <1>12 DEF Hands

InCall == pc \in {"forward", "record"}

\* What a stream has not handed over comes after all that it has; what a call still has
\* to deliver is in order and is not with the stream any more; and no stream ends
\* before it has handed over what it has.
Assembled ==
  /\ \A f \in Flows :
       /\ streams[f].next \in {Unknown} \cup 1 .. Fin + 1
       /\ \A q \in streams[f].pages : q # 0 /\ q >= streams[f].next
       /\ ~streams[f].open => streams[f].pages = {} /\ streams[f].next = Unknown
  /\ InCall =>
       /\ Increasing(call.rest)
       /\ \A x : Contains(call.rest, x) => x \in 1 .. Fin /\ x < streams[call.flow].next
       /\ call.end => streams[call.flow].pages = {}

\* The steps that move no data.
Quiet ==
  /\ UNCHANGED <<target, streams, forwardConn, conns, lastErr, recorded, received, failures>>
  /\ \/ UNCHANGED <<pc, call>>
     \/ ~InCall /\ pc' \notin {"forward", "record", "select"}

LEMMA QuietSteps ==
  ASSUME \/ Interrupted \/ Drained \/ FlushDone \/ Close \/ CloseReturns \/ Cancel
         \/ SourceNext /\ UNCHANGED <<target, cancelled, pc, result, streams, session, received>>
         \/ UNCHANGED vars
  PROVE  Quiet
<1> USE DEF Quiet, InCall
<1>1. CASE Interrupted \/ Drained
  BY <1>1 DEF Interrupted, Drained, StartFlush
<1>2. CASE FlushDone \/ CloseReturns
  BY <1>2 DEF FlushDone, CloseReturns, session
<1>3. CASE Close
  BY <1>3 DEF Close, session
<1>4. CASE UNCHANGED <<target, pc, streams, session, received>>
  BY <1>4 DEF session
<1>5. CASE Cancel \/ UNCHANGED vars
  BY <1>4, <1>5 DEF Cancel, vars
<1> QED
  BY <1>1, <1>2, <1>3, <1>4, <1>5

\* A packet is kept, or it makes the assembler hand over what it has from n on.
Kept(f, q) ==
  /\ streams' = [streams EXCEPT ![f] = [open |-> TRUE, next |-> streams[f].next,
                                       pages |-> streams[f].pages \cup {q}]]
  /\ q \in 1 .. Fin /\ q >= streams[f].next
  /\ UNCHANGED <<pc, call>>

Completes(f, q, n, m, pages) ==
  /\ n \in 1 .. Fin + 1 /\ m \in n .. Fin + 1
  /\ streams[f].next = n \/ (streams[f].next = Unknown /\ n = 1)
  /\ pages \subseteq 0 .. Fin
  /\ streams[f].pages \subseteq pages /\ pages \subseteq streams[f].pages \cup {q}
  /\ q # Syn => q \in pages
  /\ Hands(f, n, m, pages, FALSE)

Quietly == UNCHANGED <<target, forwardConn, conns, lastErr, recorded, failures>>

LEMMA Received ==
  ASSUME IInv, Assembled, Receive
  PROVE  \E p \in Packets :
           /\ pc = "select" /\ Quietly /\ received' = [received EXCEPT ![p] = @ + 1]
           /\ p.flow \in Flows /\ p.segment \in 0 .. Fin /\ p = Chunk(p.flow, p.segment)
           /\ \/ Kept(p.flow, p.segment)
              \/ \E n, m, pages : Completes(p.flow, p.segment, n, m, pages)
<1>1. Head(packets) \in Packets
  BY DEF Receive, IInv, Types
<1>2. PICK p \in Packets : p = Head(packets)
  BY <1>1
<1> DEFINE f == p.flow
           q == p.segment
           s == streams[f]
<1>3. f \in Flows /\ q \in 0 .. Fin /\ p = Chunk(f, q)
  BY FlowAssumption DEF Fin, Chunk
<1>4. pc = "select" /\ Assemble(f, q) /\ received' = [received EXCEPT ![p] = @ + 1]
      /\ UNCHANGED <<target, forwardConn, conns, lastErr, recorded, failures>>
  BY <1>2 DEF Receive
<1>0. \/ s.next = Unknown /\ q # Syn /\ Buffer(f, q)
      \/ s.next = Unknown /\ q = Syn /\ HandOver(f, 1, s.pages, FALSE)
      \/ s.next # Unknown /\ q > s.next /\ Buffer(f, q)
      \/ s.next # Unknown /\ q <= s.next /\ HandOver(f, s.next, s.pages \cup {q}, FALSE)
  BY <1>4 DEF Assemble
<1> HIDE DEF f, q, s
<1>5. s \in Stream /\ s = streams[f] /\ s.next \in {Unknown} \cup 1 .. Fin + 1 /\ Fin \in Nat
  BY <1>3, SegmentsAssumption DEF IInv, Types, Assembled, s, Fin
<1>6. s.pages \subseteq 0 .. Fin
  BY <1>5 DEF Stream
<1>7. ASSUME Buffer(f, q), q # Syn, q >= s.next PROVE Kept(f, q)
  <2>1. q \in 1 .. Fin
    BY <1>3, <1>5, <1>7 DEF Syn
  <2> QED
    BY <1>5, <1>7, <2>1 DEF Buffer, Kept
<1>8. ASSUME NEW n \in 1 .. Fin + 1, NEW pages \in SUBSET (0 .. Fin), HandOver(f, n, pages, FALSE),
             s.next = n \/ (s.next = Unknown /\ n = 1),
             s.pages \subseteq pages, pages \subseteq s.pages \cup {q}, q # Syn => q \in pages
      PROVE  \E m : Completes(f, q, n, m, pages)
  <2>1. \E m \in n .. Fin + 1 : Hands(f, n, m, pages, FALSE)
    BY <1>3, <1>8, HandedOver DEF IInv
  <2> QED
    BY <1>5, <1>8, <2>1 DEF Completes
<1>9. CASE s.next = Unknown /\ q # Syn /\ Buffer(f, q)
  <2>1. q >= s.next
    BY <1>3, <1>5, <1>9 DEF Unknown
  <2> QED
    BY <1>2, <1>3, <1>4, <1>7, <1>9, <2>1 DEF Quietly, f, q
<1>10. CASE s.next = Unknown /\ q = Syn /\ HandOver(f, 1, s.pages, FALSE)
  <2>1. \E m : Completes(f, q, 1, m, s.pages)
    <3>1. 1 \in 1 .. Fin + 1 /\ s.pages \in SUBSET (0 .. Fin) /\ s.pages \subseteq s.pages \cup {q}
      BY <1>5, <1>6
    <3> QED
      BY <1>8, <1>10, <3>1
  <2> QED
    BY <1>2, <1>3, <1>4, <2>1 DEF Quietly, f, q
<1>11. CASE s.next # Unknown /\ q > s.next /\ Buffer(f, q)
  <2>1. q >= s.next /\ q # Syn
    BY <1>3, <1>5, <1>11 DEF Syn
  <2> QED
    BY <1>2, <1>3, <1>4, <1>7, <1>11, <2>1 DEF Quietly, f, q
<1>12. CASE s.next # Unknown /\ HandOver(f, s.next, s.pages \cup {q}, FALSE)
  <2>1. s.pages \cup {q} \in SUBSET (0 .. Fin) /\ s.next \in 1 .. Fin + 1
    BY <1>3, <1>5, <1>6, <1>12
  <2>2. \E m : Completes(f, q, s.next, m, s.pages \cup {q})
    BY <1>8, <1>12, <2>1
  <2> QED
    BY <1>2, <1>3, <1>4, <2>2 DEF Quietly, f, q
<1> QED
  BY <1>0, <1>9, <1>10, <1>11, <1>12

\* FlushAll lets a stream hand over what it has from its first number on, or completes it.
Flushes(f, n, m) ==
  /\ n \in streams[f].pages /\ n \in 1 .. Fin + 1 /\ m \in n .. Fin + 1
  /\ \A q \in streams[f].pages : n <= q
  /\ Hands(f, n, m, streams[f].pages, TRUE)

CompletesOnly(f) ==
  /\ streams[f].pages = {}
  /\ call'.flow = f /\ call'.rest = <<>> /\ call'.end = TRUE /\ call'.flushed = TRUE
  /\ pc' = "forward"
  /\ UNCHANGED streams

LEMMA Flushed ==
  ASSUME IInv, Assembled, NEW f \in Flows, FlushNext(f)
  PROVE  /\ Quietly /\ UNCHANGED received /\ pc = "flush"
         /\ CompletesOnly(f) \/ \E n, m : Flushes(f, n, m)
<1>1. Quietly /\ UNCHANGED received /\ pc = "flush"
  BY DEF FlushNext, Quietly
<1>2. streams[f].pages \in SUBSET (0 .. Fin) /\ Fin \in Nat
  BY SegmentsAssumption DEF IInv, Types, Stream, Fin
<1>3. ASSUME NEW n \in streams[f].pages, \A q \in streams[f].pages : n <= q,
             HandOver(f, n, streams[f].pages, TRUE)
      PROVE  \E m : Flushes(f, n, m)
  <2>1. n \in 1 .. Fin + 1
    BY <1>2, <1>3 DEF Assembled
  <2>2. \E m \in n .. Fin + 1 : Hands(f, n, m, streams[f].pages, TRUE)
    BY <1>2, <1>3, <2>1, HandedOver DEF IInv
  <2> QED
    BY <1>3, <2>1, <2>2 DEF Flushes
<1>4. CASE /\ streams[f].pages = {}
           /\ call' = [flow |-> f, rest |-> <<>>, end |-> TRUE, flushed |-> TRUE]
           /\ pc' = "forward"
           /\ UNCHANGED streams
  BY <1>1, <1>4 DEF CompletesOnly
<1> QED
  BY <1>1, <1>3, <1>4 DEF FlushNext

\* When Reassembled has returned the stream may end, and its connection with it.
LEMMA CallEnded ==
  ASSUME IInv, EndCall
  PROVE  /\ pc = "forward" /\ call.rest = <<>> /\ pc' \in {"flush", "select"}
         /\ pc' = "select" => lastErr = NoError /\ ~call.flushed
         /\ UNCHANGED <<target, lastErr, recorded, received, failures>>
         /\ call.flow \in Flows
         /\ \/ ~call.end /\ UNCHANGED <<streams, forwardConn, conns>>
            \/ call.end /\ ReassemblyComplete(call.flow)
BY InReassembled DEF EndCall, InCall

LEMMA SentStays ==
  ASSUME IInv, NEW f \in Flows, ReassemblyComplete(f)
  PROVE  \A g \in Flows :
           /\ Len(conns'[g]) = Len(conns[g])
           /\ \A i \in 1 .. Len(conns[g]) : conns'[g][i].sent = conns[g][i].sent
<1> USE DEF IInv, Types, Owned
<1>1. CASE forwardConn[f] = 0
  BY <1>1 DEF ReassemblyComplete
<1>2. CASE forwardConn[f] # 0
  <2> DEFINE d == [sent |-> conns[f][forwardConn[f]].sent, open |-> FALSE]
             s == [conns[f] EXCEPT ![forwardConn[f]] = d]
  <2>1. d.sent = conns[f][forwardConn[f]].sent
    OBVIOUS
  <2>2. d \in Conn
    <3>1. conns[f][forwardConn[f]] \in Conn
      BY <1>2
    <3> QED
      BY <3>1 DEF Conn
  <2> HIDE DEF d
  <2>3. s \in Seq(Conn) /\ Len(s) = Len(conns[f])
        /\ \A i \in 1 .. Len(s) : s[i] = IF i = forwardConn[f] THEN d ELSE conns[f][i]
    BY <1>2, <2>2
  <2>4. conns' = [conns EXCEPT ![f] = s]
    BY <1>2 DEF ReassemblyComplete, d
  <2> HIDE DEF s
  <2> QED
    BY <2>1, <2>3, <2>4
<1> QED
  BY <1>1, <1>2

LEMMA NothingBehind ==
  ASSUME NEW n \in Int, NEW m \in Int, m <= Fin + 1, NEW pages \in SUBSET (0 .. Fin),
         Fin \in n .. m - 1
  PROVE  {q \in pages : q >= m} = {}
<1>1. Fin \in Int
  BY FinIsInt
<1>2. ASSUME NEW q \in pages, q >= m PROVE FALSE
  <2>1. q \in 0 .. Fin
    OBVIOUS
  <2> QED
    BY <1>1, <1>2, <2>1
<1> QED
  BY <1>2

\* What is handed over, from what a stream has, leaves the streams assembled.
LEMMA HandsAssembled ==
  ASSUME IInv, Assembled, NEW f \in Flows, NEW n \in 1 .. Fin + 1, NEW m \in n .. Fin + 1,
         NEW pages \in SUBSET (0 .. Fin), NEW flushed, Hands(f, n, m, pages, flushed)
  PROVE  Assembled'
<1>1. Fin \in Nat /\ n \in Int /\ m \in Int /\ n <= m /\ m >= 1 /\ m <= Fin + 1
  BY SegmentsAssumption DEF Fin
<1>2. streams'[f] = Handed(pages, m) /\ \A g \in Flows : g # f => streams'[g] = streams[g]
  BY DEF Hands, IInv, Types
<1>3. streams'[f].open = TRUE /\ streams'[f].next = m /\ streams'[f].pages = {q \in pages : q >= m}
  BY <1>2 DEF Handed
<1>4. ASSUME NEW g \in Flows
      PROVE  /\ streams'[g].next \in {Unknown} \cup 1 .. Fin + 1
             /\ \A q \in streams'[g].pages : q # 0 /\ q >= streams'[g].next
             /\ ~streams'[g].open => streams'[g].pages = {} /\ streams'[g].next = Unknown
  <2>1. CASE g = f
    BY <1>1, <1>3, <2>1
  <2>2. CASE g # f
    BY <1>2, <2>2 DEF Assembled
  <2> QED
    BY <2>1, <2>2
<1>5. call'.flow = f /\ call'.rest = Numbers(n, m) /\ call'.end = (Fin \in n .. m - 1)
  BY DEF Hands
<1>6. Increasing(call'.rest) /\ \A x : Contains(call'.rest, x) => x \in n .. m - 1
  BY <1>1, <1>5, NumbersAre
<1>7. ASSUME NEW x, Contains(call'.rest, x)
      PROVE  x \in 1 .. Fin /\ x < streams'[call'.flow].next
  <2>1. x \in n .. m - 1 /\ streams'[call'.flow].next = m
    BY <1>3, <1>5, <1>6, <1>7
  <2> QED
    BY <1>1, <2>1
<1>8. call'.end => streams'[call'.flow].pages = {}
  <2>1. streams'[call'.flow].pages = {q \in pages : q >= m}
    BY <1>3, <1>5
  <2> QED
    BY <1>1, <1>5, <2>1, NothingBehind
<1> QED
  BY <1>4, <1>6, <1>7, <1>8 DEF Assembled

\* A call that drops a part of what it has to deliver.
LEMMA FewerAssembled ==
  ASSUME Assembled, InCall, UNCHANGED streams, call'.flow = call.flow, call'.end = call.end,
         Increasing(call'.rest), \A x : Contains(call'.rest, x) => Contains(call.rest, x)
  PROVE  Assembled'
BY DEF Assembled

LEMMA TailFewer ==
  ASSUME NEW s \in Seq(Int), s # <<>>, Increasing(s)
  PROVE  /\ Increasing(Tail(s)) /\ Tail(s) \in Seq(Int)
         /\ Contains(s, Head(s))
         /\ \A x : Contains(s, x) <=> x = Head(s) \/ Contains(Tail(s), x)
         /\ \A x : Contains(Tail(s), x) => Head(s) < x /\ x \in Int
<1>1. /\ Len(s) \in Nat \ {0} /\ Tail(s) \in Seq(Int) /\ Len(Tail(s)) = Len(s) - 1
      /\ \A i \in 1 .. Len(s) - 1 : Tail(s)[i] = s[i + 1]
      /\ Head(s) = s[1]
  OBVIOUS
<1> DEFINE t == Tail(s)
           h == Head(s)
<1>2. t \in Seq(Int) /\ Len(t) = Len(s) - 1 /\ h = s[1] /\ \A i \in 1 .. Len(t) : t[i] = s[i + 1]
  BY <1>1
<1> HIDE DEF t, h
<1>3. Increasing(t)
  <2> SUFFICES ASSUME NEW j \in 1 .. Len(t), NEW k \in 1 .. Len(t), j < k PROVE t[j] < t[k]
    BY DEF Increasing
  <2>1. j + 1 \in 1 .. Len(s) /\ k + 1 \in 1 .. Len(s) /\ j + 1 < k + 1
    BY <1>1, <1>2
  <2> QED
    BY <1>2, <2>1 DEF Increasing
<1>4. Contains(s, h)
  BY <1>1, <1>2 DEF Contains
<1>5. ASSUME NEW i \in 1 .. Len(t) PROVE i + 1 \in 1 .. Len(s) /\ t[i] = s[i + 1] /\ 1 < i + 1
  BY <1>1, <1>2
<1>6. ASSUME NEW x, Contains(t, x) PROVE Contains(s, x) /\ h < x /\ x \in Int
  <2>1. PICK i \in 1 .. Len(t) : t[i] = x
    BY <1>6 DEF Contains
  <2>2. i + 1 \in 1 .. Len(s) /\ s[i + 1] = x /\ 1 < i + 1 /\ 1 \in 1 .. Len(s)
    BY <1>1, <1>5, <2>1
  <2>3. s[1] < s[i + 1] /\ s[i + 1] \in Int
    BY <2>2 DEF Increasing
  <2> QED
    BY <1>2, <2>2, <2>3 DEF Contains
<1>7. ASSUME NEW x, Contains(s, x), x # h PROVE Contains(t, x)
  <2>1. PICK i \in 1 .. Len(s) : s[i] = x
    BY <1>7 DEF Contains
  <2>2. i - 1 \in 1 .. Len(t) /\ (i - 1) + 1 = i
    BY <1>1, <1>2, <1>7, <2>1
  <2>3. t[i - 1] = x
    BY <1>2, <2>1, <2>2
  <2> QED
    BY <2>2, <2>3 DEF Contains
<1> QED
  BY <1>2, <1>3, <1>4, <1>6, <1>7 DEF t, h
-----------------------------------------------------------------------------
(* What is sent, counted and recorded.                                      *)

\* What a call still has to send.
Unsent == IF pc = "record" THEN Tail(call.rest) ELSE call.rest

\* What the connection in use has carried.
Sent(f) == IF forwardConn[f] = 0 THEN <<>> ELSE conns[f][forwardConn[f]].sent

\* What a connection has carried is in order, and comes before all that its stream, and
\* the call under way, still have to send on it.
Ordered ==
  \A f \in Flows :
    /\ \A i \in 1 .. Len(conns[f]) : Increasing(conns[f][i].sent)
    /\ \A x : Contains(Sent(f), x) =>
         /\ x < streams[f].next
         /\ InCall /\ call.flow = f => \A y : Contains(Unsent, y) => x < y

One(P) == IF P THEN 1 ELSE 0

InRest(c)  == InCall /\ c.flow = call.flow /\ Contains(call.rest, c.segment)
InPages(c) == c.segment \in streams[c.flow].pages

\* What the assembler has and what is recorded was captured, each piece once for each time.
Counted ==
  /\ \A f \in Flows : \A q \in streams[f].pages : Chunk(f, q) \in Packets
  /\ InCall => \A x : Contains(call.rest, x) => Chunk(call.flow, x) \in Packets
  /\ recorded \in Seq(Observed) /\ received \in [Packets -> Nat]
  /\ \A c \in Packets :
       RecordedTimes(c) + One(InRest(c)) + One(InPages(c)) <= received[c]

\* How Start fares: it does not go on after a failure.
Outcome ==
  /\ failures \in Nat /\ lastErr \in NoError .. failures /\ result \in Pending .. failures
  /\ pc = "select" => lastErr = NoError
  /\ result = NoError => lastErr = NoError /\ pc \in {"close", "closing", "returned"}

\* The chunk that has been sent and is to be recorded next.
Due(c) == One(pc = "record" /\ c = Current)

Matched ==
  target => \A c \in Observed :
    /\ RecordedTimes(c) + Due(c) <= ForwardedTimes(c)
    /\ lastErr = NoError => RecordedTimes(c) + Due(c) = ForwardedTimes(c)

\* Recorded, or with the call under way.
Secured(c) == RecordedTimes(c) > 0 \/ InRest(c)

\* Until something fails, what was captured is recorded or still to be delivered; and
\* until FlushAll, so is all that a stream has got past.
Complete ==
  lastErr = NoError =>
    /\ \A c \in Observed : received[c] > 0 => Secured(c) \/ InPages(c)
    /\ pc = "select" \/ (InCall /\ ~call.flushed) =>
         \A f \in Flows : Keep(f) =>
           \A q \in 1 .. Fin : q < streams[f].next => Secured(Chunk(f, q))

Bounded ==
  /\ SourceTypeOK
  /\ target \in BOOLEAN /\ cancelled \in BOOLEAN
  /\ pc \in {"select", "forward", "record", "flush", "close", "closing", "returned"}

-----------------------------------------------------------------------------
(* What the steps of Reassembled do.                                        *)

InReassembledSteps ==
  IgnoreCall \/ NotForwarded \/ ForwardChunk \/ ForwardFails \/ RecordChunk \/ RecordFails

Leaves(rest) == /\ call'.flow = call.flow /\ call'.end = call.end /\ call'.flushed = call.flushed
                /\ call'.rest = rest

LEMMA LeavesIs ==
  ASSUME IInv, NEW rest, call' = [call EXCEPT !.rest = rest]
  PROVE  Leaves(rest)
BY DEF IInv, Types, Calls, Leaves

Dropped == Leaves(<<>>)

Skips ==
  /\ pc = "forward" /\ pc' = "forward" /\ Dropped /\ ~Keep(call.flow)
  /\ UNCHANGED <<forwardConn, conns, lastErr, recorded, failures>>

Passes ==
  /\ pc = "forward" /\ pc' = "record" /\ (~target \/ ~Keep(call.flow))
  /\ UNCHANGED <<call, forwardConn, conns, lastErr, recorded, failures>>

Sends ==
  /\ pc = "forward" /\ pc' = "record" /\ target /\ Keep(call.flow)
  /\ UseConn(call.flow, <<Head(call.rest)>>)
  /\ UNCHANGED <<call, lastErr, recorded, failures>>

Breaks ==
  /\ pc' = "forward" /\ Dropped
  /\ failures' = failures + 1
  /\ lastErr' = IF lastErr = NoError THEN failures' ELSE lastErr
  /\ UNCHANGED <<forwardConn, conns>> \/ UseConn(call.flow, <<>>)
  /\ UNCHANGED recorded

Records ==
  /\ pc = "record" /\ pc' = "forward" /\ Leaves(Tail(call.rest))
  /\ recorded' = IF Keep(call.flow) THEN Append(recorded, Current) ELSE recorded
  /\ UNCHANGED <<forwardConn, conns, lastErr, failures>>

LEMMA CallSteps ==
  ASSUME IInv, InReassembledSteps
  PROVE  /\ InCall /\ call.rest # <<>> /\ call.rest \in Seq(Int) /\ call.flow \in Flows
         /\ UNCHANGED <<target, streams, received>>
         /\ Skips \/ Passes \/ Sends \/ Breaks \/ Records
<1>1. InCall /\ call.rest # <<>> /\ UNCHANGED <<target, streams, received>>
  BY DEF InReassembledSteps, IgnoreCall, NotForwarded, ForwardChunk, ForwardFails, RecordChunk,
     RecordFails, Forwarding, Deliver, InCall, IInv, Places
<1>2. call.rest \in Seq(Int) /\ call.flow \in Flows
  BY <1>1, InReassembled DEF InCall
<1>3. IgnoreCall => Skips
  BY LeavesIs DEF IgnoreCall, Skips, Dropped, Ignored, Keep, Direction
<1>4. NotForwarded => Passes
  BY DEF NotForwarded, Passes, Forwarding, session
<1>5. ForwardChunk => Sends
  BY DEF ForwardChunk, Sends, Forwarding
<1>6. ForwardFails \/ RecordFails => Breaks
  BY LeavesIs DEF ForwardFails, RecordFails, Breaks, Fail, Dropped
<1>7. RecordChunk => Records
  BY LeavesIs DEF RecordChunk, Records, NextChunk
<1> QED
  BY <1>1, <1>2, <1>3, <1>4, <1>5, <1>6, <1>7 DEF InReassembledSteps

LEMMA NothingContains == Increasing(<<>>) /\ \A x : ~Contains(<<>>, x)
BY DEF Increasing, Contains

-----------------------------------------------------------------------------
(* Assembled.                                                               *)

LEMMA AssembledCall ==
  ASSUME IInv, Assembled, InReassembledSteps
  PROVE  Assembled'
<1>1. /\ InCall /\ call.rest # <<>> /\ call.rest \in Seq(Int) /\ UNCHANGED streams
      /\ Skips \/ Passes \/ Sends \/ Breaks \/ Records
  BY CallSteps
<1>2. Increasing(call.rest)
  BY <1>1 DEF Assembled
<1>3. CASE call' = call
  BY <1>1, <1>2, <1>3, FewerAssembled
<1>4. CASE Dropped
  <2>1. call'.rest = <<>> /\ call'.flow = call.flow /\ call'.end = call.end
    BY <1>4 DEF Dropped, Leaves
  <2> QED
    BY <1>1, <2>1, NothingContains, FewerAssembled
<1>5. CASE Leaves(Tail(call.rest))
  <2>1. call'.rest = Tail(call.rest) /\ call'.flow = call.flow /\ call'.end = call.end
    BY <1>5 DEF Leaves
  <2>2. Increasing(Tail(call.rest))
        /\ \A x : Contains(Tail(call.rest), x) => Contains(call.rest, x)
    BY <1>1, <1>2, TailFewer
  <2> QED
    BY <1>1, <2>1, <2>2, FewerAssembled
<1> QED
  BY <1>1, <1>3, <1>4, <1>5 DEF Skips, Passes, Sends, Breaks, Records

LEMMA AssembledReceive == ASSUME IInv, Assembled, Receive PROVE Assembled'
<1>1. PICK p \in Packets :
        /\ pc = "select" /\ p.flow \in Flows /\ p.segment \in 0 .. Fin
        /\ \/ Kept(p.flow, p.segment)
           \/ \E n, m, pages : Completes(p.flow, p.segment, n, m, pages)
  BY Received
<1> DEFINE f == p.flow
           q == p.segment
<1> HIDE DEF f, q
<1>2. pc = "select" /\ f \in Flows /\ q \in 0 .. Fin
      /\ (Kept(f, q) \/ \E n, m, pages : Completes(f, q, n, m, pages))
  BY <1>1 DEF f, q
<1>3. CASE Kept(f, q)
  <2>1. ~InCall' /\ Fin \in Nat
    BY <1>2, <1>3, SegmentsAssumption DEF Kept, InCall, Fin
  <2>2. /\ streams'[f].open = TRUE /\ streams'[f].next = streams[f].next
        /\ streams'[f].pages = streams[f].pages \cup {q}
        /\ \A g \in Flows : g # f => streams'[g] = streams[g]
    BY <1>2, <1>3 DEF Kept, IInv, Types
  <2>3. q # 0 /\ q >= streams[f].next
    BY <1>3 DEF Kept
  <2> QED
    BY <2>1, <2>2, <2>3 DEF Assembled
<1>4. ASSUME NEW n, NEW m, NEW pages, Completes(f, q, n, m, pages) PROVE Assembled'
  <2>1. n \in 1 .. Fin + 1 /\ m \in n .. Fin + 1 /\ pages \in SUBSET (0 .. Fin)
        /\ Hands(f, n, m, pages, FALSE)
    BY <1>4 DEF Completes
  <2> QED
    BY <1>2, <2>1, HandsAssembled
<1> QED
  BY <1>2, <1>3, <1>4

LEMMA AssembledFlush == ASSUME IInv, Assembled, NEW f \in Flows, FlushNext(f) PROVE Assembled'
<1>1. CompletesOnly(f) \/ \E n, m : Flushes(f, n, m)
  BY Flushed
<1>2. CASE CompletesOnly(f)
  BY <1>2, NothingContains DEF CompletesOnly, Assembled
<1>3. ASSUME NEW n, NEW m, Flushes(f, n, m) PROVE Assembled'
  <2>1. n \in 1 .. Fin + 1 /\ m \in n .. Fin + 1 /\ Hands(f, n, m, streams[f].pages, TRUE)
    BY <1>3 DEF Flushes
  <2>2. streams[f].pages \in SUBSET (0 .. Fin)
    BY DEF IInv, Types, Stream
  <2> QED
    BY <2>1, <2>2, HandsAssembled
<1> QED
  BY <1>1, <1>2, <1>3

LEMMA AssembledEnd == ASSUME IInv, Assembled, EndCall PROVE Assembled'
<1>2. ~InCall'
  BY CallEnded DEF InCall
<1>3. call.flow \in Flows
  BY CallEnded
<1>4. CASE UNCHANGED streams
  BY <1>2, <1>4 DEF Assembled
<1>5. CASE ReassemblyComplete(call.flow)
  <2>1. streams'[call.flow] = NoStream
        /\ \A g \in Flows : g # call.flow => streams'[g] = streams[g]
    BY <1>3, <1>5 DEF ReassemblyComplete, IInv, Types
  <2>2. NoStream.next = Unknown /\ NoStream.pages = {}
    BY DEF NoStream
  <2> QED
    BY <1>2, <2>1, <2>2 DEF Assembled
<1> QED
  BY <1>4, <1>5, CallEnded

LEMMA AssembledQuiet == ASSUME Assembled, Quiet PROVE Assembled'
BY DEF Assembled, Quiet, InCall

-----------------------------------------------------------------------------
(* What goes into a connection.                                             *)

\* Connection k of flow f is new, or has been there; the others stay as they are.
Wrote(f, k, seen) ==
  /\ forwardConn' = [forwardConn EXCEPT ![f] = k]
  /\ \A g \in Flows : g # f => conns'[g] = conns[g]
  /\ k \in 1 .. Len(conns'[f])
  /\ \A i \in 1 .. Len(conns'[f]) : i # k => i \in 1 .. Len(conns[f]) /\ conns'[f][i] = conns[f][i]
  /\ \/ /\ k = forwardConn[f] /\ k \in 1 .. Len(conns[f])
        /\ Len(conns'[f]) = Len(conns[f])
        /\ conns'[f][k].sent = conns[f][k].sent \o seen
     \/ /\ forwardConn[f] = 0
        /\ k = Len(conns[f]) + 1 /\ Len(conns'[f]) = k
        /\ conns'[f][k].sent = seen

LEMMA UseConnWrote ==
  ASSUME IInv, NEW f \in Flows, NEW seen \in Seq(Int), UseConn(f, seen)
  PROVE  \E k \in Nat : Wrote(f, k, seen)
<1>1. conns[f] \in Seq(Conn) /\ forwardConn[f] \in 0 .. Len(conns[f])
  BY DEF IInv, Types, Owned
<1>2. CASE /\ forwardConn[f] = 0
           /\ conns' = [conns EXCEPT ![f] = Append(@, [sent |-> seen, open |-> TRUE])]
           /\ forwardConn' = [forwardConn EXCEPT ![f] = Len(conns[f]) + 1]
  <2> DEFINE d == [sent |-> seen, open |-> TRUE]
             k == Len(conns[f]) + 1
             s == Append(conns[f], d)
  <2>1. d \in Conn /\ d.sent = seen
    BY DEF Conn
  <2>2. conns' = [conns EXCEPT ![f] = s]
    BY <1>2
  <2> HIDE DEF d
  <2>3. /\ k \in Nat /\ Len(s) = k /\ s[k] = d
        /\ \A i \in 1 .. Len(conns[f]) : s[i] = conns[f][i]
    BY <1>1, <2>1
  <2> HIDE DEF s
  <2>4. conns'[f] = s /\ \A g \in Flows : g # f => conns'[g] = conns[g]
    BY <2>2 DEF IInv, Types
  <2>5. \A i \in 1 .. k : i # k => i \in 1 .. Len(conns[f])
    BY <2>3
  <2> HIDE DEF k
  <2>6. /\ k \in 1 .. Len(conns'[f]) /\ Len(conns'[f]) = k /\ conns'[f][k].sent = seen
        /\ \A i \in 1 .. Len(conns'[f]) : i # k => i \in 1 .. Len(conns[f]) /\ conns'[f][i] = conns[f][i]
    <3>1. k \in 1 .. k
      BY <2>3, <1>1 DEF k
    <3> QED
      BY <2>1, <2>3, <2>4, <2>5, <3>1
  <2>7. k \in Nat /\ k = Len(conns[f]) + 1 /\ forwardConn[f] = 0
        /\ forwardConn' = [forwardConn EXCEPT ![f] = k]
    BY <1>2, <2>3 DEF k
  <2> QED
    BY <2>4, <2>6, <2>7 DEF Wrote
<1>3. CASE /\ forwardConn[f] # 0
           /\ conns' = [conns EXCEPT ![f][forwardConn[f]] = [sent |-> @.sent \o seen, open |-> @.open]]
           /\ UNCHANGED forwardConn
  <2> DEFINE k == forwardConn[f]
             d == [sent |-> conns[f][k].sent \o seen, open |-> conns[f][k].open]
             s == [conns[f] EXCEPT ![k] = d]
  <2>1. k \in 1 .. Len(conns[f]) /\ conns[f][k] \in Conn
    BY <1>1, <1>3
  <2>2. d \in Conn /\ d.sent = conns[f][k].sent \o seen
    BY <2>1 DEF Conn
  <2>3. conns' = [conns EXCEPT ![f] = s]
    BY <1>3
  <2> HIDE DEF d
  <2>4. Len(s) = Len(conns[f]) /\ \A i \in 1 .. Len(conns[f]) : s[i] = IF i = k THEN d ELSE conns[f][i]
    BY <1>1, <2>1, <2>2
  <2> HIDE DEF s
  <2>5. conns'[f] = s /\ \A g \in Flows : g # f => conns'[g] = conns[g]
    BY <2>3 DEF IInv, Types
  <2>6. forwardConn' = [forwardConn EXCEPT ![f] = k]
    BY <1>3 DEF IInv, Types
  <2>7. k \in Nat /\ k = forwardConn[f]
    BY <1>1
  <2> HIDE DEF k
  <2>8. /\ k \in 1 .. Len(conns'[f]) /\ Len(conns'[f]) = Len(conns[f])
        /\ conns'[f][k].sent = conns[f][k].sent \o seen
        /\ \A i \in 1 .. Len(conns'[f]) : i # k => i \in 1 .. Len(conns[f]) /\ conns'[f][i] = conns[f][i]
    BY <2>1, <2>2, <2>4, <2>5
  <2> QED
    BY <2>1, <2>5, <2>6, <2>7, <2>8 DEF Wrote
<1> QED
  BY <1>2, <1>3 DEF UseConn

LEMMA ConcatContains ==
  ASSUME NEW s \in Seq(Int), NEW x \in Int, Increasing(s), \A y : Contains(s, y) => y < x
  PROVE  /\ Increasing(s \o <<x>>)
         /\ \A y : Contains(s \o <<x>>, y) <=> Contains(s, y) \/ y = x
<1> DEFINE t == s \o <<x>>
<1>1. /\ t \in Seq(Int) /\ Len(t) = Len(s) + 1 /\ t[Len(s) + 1] = x
      /\ \A i \in 1 .. Len(s) : t[i] = s[i]
  OBVIOUS
<1>2. Len(s) \in Nat
  OBVIOUS
<1> HIDE DEF t
<1>3. \A i \in 1 .. Len(s) : s[i] < x
  BY DEF Contains
<1>4. \A i \in 1 .. Len(t) : i \in 1 .. Len(s) \/ i = Len(s) + 1
  BY <1>1, <1>2
<1>5. Increasing(t)
  <2> SUFFICES ASSUME NEW j \in 1 .. Len(t), NEW k \in 1 .. Len(t), j < k PROVE t[j] < t[k]
    BY DEF Increasing
  <2>1. j \in 1 .. Len(s)
    BY <1>1, <1>2
  <2>2. CASE k \in 1 .. Len(s)
    BY <1>1, <2>1, <2>2 DEF Increasing
  <2>3. CASE k = Len(s) + 1
    BY <1>1, <1>3, <2>1, <2>3
  <2> QED
    BY <1>4, <2>2, <2>3
<1>6. ASSUME NEW y, Contains(t, y) PROVE Contains(s, y) \/ y = x
  BY <1>1, <1>4, <1>6 DEF Contains
<1>7. ASSUME NEW y, Contains(s, y) \/ y = x PROVE Contains(t, y)
  <2>1. 1 .. Len(s) \subseteq 1 .. Len(t) /\ Len(s) + 1 \in 1 .. Len(t)
    BY <1>1, <1>2
  <2> QED
    BY <1>1, <1>7, <2>1 DEF Contains
<1> QED
  BY <1>5, <1>6, <1>7 DEF t

LEMMA SentTypes ==
  ASSUME IInv, NEW f \in Flows
  PROVE  /\ Sent(f) \in Seq(Int)
         /\ \A i \in 1 .. Len(conns[f]) : conns[f][i].sent \in Seq(Int)
<1>1. conns[f] \in Seq(Conn) /\ forwardConn[f] \in 0 .. Len(conns[f])
  BY DEF IInv, Types, Owned
<1>2. \A i \in 1 .. Len(conns[f]) : conns[f][i] \in Conn
  BY <1>1
<1>3. \A i \in 1 .. Len(conns[f]) : conns[f][i].sent \in Seq(Int)
  BY <1>2 DEF Conn
<1>4. CASE forwardConn[f] = 0
  BY <1>3, <1>4 DEF Sent
<1>5. CASE forwardConn[f] # 0
  <2>1. forwardConn[f] \in 1 .. Len(conns[f])
    BY <1>1, <1>5
  <2> QED
    BY <1>3, <1>5, <2>1 DEF Sent
<1> QED
  BY <1>4, <1>5

\* Whether the connection is new or not, it has then carried what it had, and seen.
LEMMA WroteSent ==
  ASSUME IInv, NEW f \in Flows, NEW k \in Nat, NEW seen \in Seq(Int), Wrote(f, k, seen)
  PROVE  conns'[f][k].sent = Sent(f) \o seen /\ k # 0 /\ forwardConn'[f] = k
<1>1. forwardConn'[f] = k /\ k # 0
  BY DEF Wrote, IInv, Types
<1>2. CASE k = forwardConn[f]
  BY <1>1, <1>2 DEF Wrote, Sent
<1>3. CASE forwardConn[f] = 0
  <2>1. <<>> \o seen = seen
    BY ConcatEmptySeq
  <2> QED
    BY <1>1, <1>3, <2>1 DEF Wrote, Sent
<1> QED
  BY <1>1, <1>2, <1>3 DEF Wrote

-----------------------------------------------------------------------------
(* Ordered.                                                                 *)

\* The connections as they are, and less to send.
LEMMA OrderedLess ==
  ASSUME Ordered, UNCHANGED <<streams, forwardConn, conns>>,
         InCall' => InCall /\ call'.flow = call.flow /\ \A y : Contains(Unsent', y) => Contains(Unsent, y)
  PROVE  Ordered'
<1>1. \A f \in Flows : Sent(f)' = Sent(f)
  BY DEF Sent
<1> QED
  BY <1>1 DEF Ordered

\* Something is written, to be followed by what is left.
LEMMA OrderedWrote ==
  ASSUME IInv, Ordered, InCall, NEW k \in Nat, NEW seen \in Seq(Int),
         call.flow \in Flows, UNCHANGED streams, call'.flow = call.flow,
         Wrote(call.flow, k, seen),
         Increasing(Sent(call.flow) \o seen),
         \A x : Contains(Sent(call.flow) \o seen, x) =>
           x < streams[call.flow].next /\ \A y : Contains(Unsent', y) => x < y
  PROVE  Ordered'
<1>0. PICK f \in Flows : f = call.flow
  OBVIOUS
<1>1. conns'[f][k].sent = Sent(f) \o seen /\ k # 0 /\ forwardConn'[f] = k
  BY <1>0, WroteSent
<1>2. Sent(f)' = Sent(f) \o seen
  BY <1>1 DEF Sent
<1>3. \A i \in 1 .. Len(conns'[f]) : Increasing(conns'[f][i].sent)
  <2> SUFFICES ASSUME NEW i \in 1 .. Len(conns'[f]) PROVE Increasing(conns'[f][i].sent)
    OBVIOUS
  <2>1. CASE i = k
    BY <1>0, <1>1, <2>1
  <2>2. CASE i # k
    BY <1>0, <2>2 DEF Wrote, Ordered
  <2> QED
    BY <2>1, <2>2
<1>4. ASSUME NEW g \in Flows, g # f PROVE conns'[g] = conns[g] /\ Sent(g)' = Sent(g)
  BY <1>0, <1>4 DEF Wrote, Sent, IInv, Types
<1>5. call'.flow = f /\ streams' = streams
  BY <1>0
<1>6. ASSUME NEW g \in Flows, g # f
      PROVE  /\ \A i \in 1 .. Len(conns'[g]) : Increasing(conns'[g][i].sent)
             /\ \A x : Contains(Sent(g)', x) => x < streams'[g].next
             /\ call'.flow # g
  BY <1>4, <1>5, <1>6 DEF Ordered
<1>7. \A x : Contains(Sent(f)', x) => x < streams'[f].next /\ \A y : Contains(Unsent', y) => x < y
  BY <1>0, <1>2
<1>8. ASSUME NEW g \in Flows
      PROVE  /\ \A i \in 1 .. Len(conns'[g]) : Increasing(conns'[g][i].sent)
             /\ \A x : Contains(Sent(g)', x) =>
                  /\ x < streams'[g].next
                  /\ InCall' /\ call'.flow = g => \A y : Contains(Unsent', y) => x < y
  <2>1. CASE g = f
    BY <1>3, <1>7, <2>1
  <2>2. CASE g # f
    BY <1>6, <2>2
  <2> QED
    BY <2>1, <2>2
<1> QED
  BY <1>8 DEF Ordered

LEMMA OrderedCall ==
  ASSUME IInv, Assembled, Ordered, InReassembledSteps
  PROVE  Ordered'
<1> DEFINE f == call.flow
<1>1. /\ InCall /\ call.rest # <<>> /\ call.rest \in Seq(Int) /\ f \in Flows
      /\ UNCHANGED streams
      /\ Skips \/ Passes \/ Sends \/ Breaks \/ Records
  BY CallSteps
<1>2. Increasing(call.rest) /\ \A x : Contains(call.rest, x) => x < streams[f].next
  BY <1>1 DEF Assembled
<1>3. /\ Contains(call.rest, Head(call.rest))
      /\ \A x : Contains(call.rest, x) <=> x = Head(call.rest) \/ Contains(Tail(call.rest), x)
      /\ \A x : Contains(Tail(call.rest), x) => Head(call.rest) < x
  BY <1>1, <1>2, TailFewer
<1>4. CASE Skips
  BY <1>1, <1>4, NothingContains, OrderedLess DEF Skips, Dropped, Leaves, Unsent
<1>5. CASE Passes
  <2>1. Unsent = call.rest /\ Unsent' = Tail(call.rest) /\ call'.flow = call.flow
        /\ UNCHANGED <<forwardConn, conns>>
    BY <1>5 DEF Passes, Unsent
  <2> QED
    BY <1>1, <1>3, <2>1, OrderedLess
<1>6. CASE Records
  <2>1. Unsent = Tail(call.rest) /\ Unsent' = Tail(call.rest) /\ call'.flow = call.flow
        /\ UNCHANGED <<forwardConn, conns>>
    BY <1>6 DEF Records, Leaves, Unsent
  <2> QED
    BY <1>1, <2>1, OrderedLess
<1>7. \A x : Contains(Sent(f), x) =>
        x < streams[f].next /\ \A y : Contains(Unsent, y) => x < y
  BY <1>1 DEF Ordered
<1>8. Sent(f) \in Seq(Int) /\ Increasing(Sent(f))
  <2>1. forwardConn[f] # 0 => forwardConn[f] \in 1 .. Len(conns[f])
    BY <1>1 DEF IInv, Types, Owned
  <2>2. Sent(f) \in Seq(Int)
    BY <1>1, SentTypes
  <2> QED
    BY <1>1, <2>1, <2>2, NothingContains DEF Ordered, Sent
<1>9. CASE Sends
  <2> DEFINE h == Head(call.rest)
  <2>1. UseConn(f, <<h>>) /\ Unsent = call.rest /\ Unsent' = Tail(call.rest) /\ call' = call
    BY <1>9 DEF Sends, Unsent
  <2>2. h \in Int /\ <<h>> \in Seq(Int)
    BY <1>1
  <2>3. PICK k \in Nat : Wrote(f, k, <<h>>)
    BY <1>1, <2>1, <2>2, UseConnWrote
  <2>4. \A x : Contains(Sent(f), x) => x < h
    BY <1>3, <1>7, <2>1
  <2>5. /\ Increasing(Sent(f) \o <<h>>)
        /\ \A x : Contains(Sent(f) \o <<h>>, x) <=> Contains(Sent(f), x) \/ x = h
    BY <1>8, <2>2, <2>4, ConcatContains
  <2>6. ASSUME NEW x, Contains(Sent(f) \o <<h>>, x)
        PROVE  x < streams[f].next /\ \A y : Contains(Unsent', y) => x < y
    <3>1. Contains(Sent(f), x) \/ x = h
      BY <2>5, <2>6
    <3> QED
      BY <1>2, <1>3, <1>7, <2>1, <3>1
  <2> HIDE DEF h
  <2> QED
    BY <1>1, <2>1, <2>2, <2>3, <2>5, <2>6, OrderedWrote
<1>10. CASE Breaks
  <2>1. Unsent' = <<>> /\ call'.flow = call.flow
    BY <1>10 DEF Breaks, Dropped, Leaves, Unsent
  <2>2. CASE UNCHANGED <<forwardConn, conns>>
    BY <1>1, <2>1, <2>2, NothingContains, OrderedLess
  <2>3. CASE UseConn(f, <<>>)
    <3>1. <<>> \in Seq(Int) /\ Sent(f) \o <<>> = Sent(f)
      BY <1>8, ConcatEmptySeq
    <3>2. PICK k \in Nat : Wrote(f, k, <<>>)
      BY <1>1, <2>3, <3>1, UseConnWrote
    <3> QED
      BY <1>1, <1>7, <1>8, <2>1, <3>1, <3>2, NothingContains, OrderedWrote
  <2> QED
    BY <1>10, <2>2, <2>3 DEF Breaks
<1> QED
  BY <1>1, <1>4, <1>5, <1>6, <1>9, <1>10

\* What is handed over comes after all that the stream has handed over before.
LEMMA OrderedHands ==
  ASSUME IInv, Ordered, NEW f \in Flows, NEW n \in Int, NEW m \in Int, n <= m,
         streams[f].next <= n, NEW pages, NEW flushed, Hands(f, n, m, pages, flushed),
         UNCHANGED <<forwardConn, conns>>
  PROVE  Ordered'
<1>1. streams'[f].next = m /\ \A g \in Flows : g # f => streams'[g] = streams[g]
  BY DEF Hands, Handed, IInv, Types
<1>2. call'.flow = f /\ Unsent' = Numbers(n, m)
  BY DEF Hands, Unsent
<1>3. \A y : Contains(Unsent', y) => y \in n .. m - 1
  BY <1>2, NumbersAre
<1>4. \A g \in Flows : Sent(g)' = Sent(g)
  BY DEF Sent
<1>5. streams[f].next \in Int
  BY DEF IInv, Types, Stream
<1>6. ASSUME NEW x, Contains(Sent(f), x)
      PROVE  x < m /\ \A y : Contains(Unsent', y) => x < y
  <2>1. x \in Int
    BY <1>6, SentTypes DEF Contains
  <2>2. x < streams[f].next
    BY <1>6 DEF Ordered
  <2> QED
    BY <1>3, <1>5, <2>1, <2>2
<1> QED
  BY <1>1, <1>2, <1>4, <1>6 DEF Ordered

LEMMA OrderedReceive == ASSUME IInv, Assembled, Ordered, Receive PROVE Ordered'
<1>1. PICK p \in Packets :
        /\ pc = "select" /\ Quietly /\ p.flow \in Flows /\ p.segment \in 0 .. Fin
        /\ \/ Kept(p.flow, p.segment)
           \/ \E n, m, pages : Completes(p.flow, p.segment, n, m, pages)
  BY Received
<1> DEFINE f == p.flow
           q == p.segment
<1> HIDE DEF f, q
<1>2. pc = "select" /\ f \in Flows /\ UNCHANGED <<forwardConn, conns>>
      /\ (Kept(f, q) \/ \E n, m, pages : Completes(f, q, n, m, pages))
  BY <1>1 DEF f, q, Quietly
<1>3. CASE Kept(f, q)
  <2>1. ~InCall' /\ \A g \in Flows : streams'[g].next = streams[g].next
    BY <1>2, <1>3 DEF Kept, InCall, IInv, Types
  <2>2. \A g \in Flows : Sent(g)' = Sent(g)
    BY <1>2 DEF Sent
  <2> QED
    BY <1>2, <2>1, <2>2 DEF Ordered
<1>4. ASSUME NEW n, NEW m, NEW pages, Completes(f, q, n, m, pages) PROVE Ordered'
  <2>1. n \in 1 .. Fin + 1 /\ m \in n .. Fin + 1 /\ Hands(f, n, m, pages, FALSE)
        /\ (streams[f].next = n \/ streams[f].next = Unknown)
    BY <1>4 DEF Completes
  <2>2. n \in Int /\ m \in Int /\ n <= m /\ streams[f].next <= n
    BY <2>1, FinIsInt DEF Unknown
  <2> QED
    BY <1>2, <2>1, <2>2, OrderedHands
<1> QED
  BY <1>2, <1>3, <1>4

LEMMA OrderedFlush == ASSUME IInv, Assembled, Ordered, NEW f \in Flows, FlushNext(f) PROVE Ordered'
<1>1. UNCHANGED <<forwardConn, conns>> /\ (CompletesOnly(f) \/ \E n, m : Flushes(f, n, m))
  BY Flushed DEF Quietly
<1>2. CASE CompletesOnly(f)
  <2>1. Unsent' = <<>> /\ streams' = streams /\ \A g \in Flows : Sent(g)' = Sent(g)
    BY <1>1, <1>2 DEF CompletesOnly, Unsent, Sent
  <2> QED
    BY <1>1, <2>1, NothingContains DEF Ordered
<1>3. ASSUME NEW n, NEW m, Flushes(f, n, m) PROVE Ordered'
  <2>1. n \in 1 .. Fin + 1 /\ m \in n .. Fin + 1 /\ Hands(f, n, m, streams[f].pages, TRUE)
        /\ n \in streams[f].pages
    BY <1>3 DEF Flushes
  <2>2. n \in Int /\ m \in Int /\ n <= m
    BY <2>1, FinIsInt
  <2>3. streams[f].next <= n
    BY <2>1, <2>2 DEF Assembled, IInv, Types, Stream
  <2> QED
    BY <1>1, <2>1, <2>2, <2>3, OrderedHands
<1> QED
  BY <1>1, <1>2, <1>3

LEMMA OrderedEnd == ASSUME IInv, Ordered, EndCall PROVE Ordered'
<1>1. ~InCall'
  BY CallEnded DEF InCall
<1>0. PICK f \in Flows : f = call.flow
  BY CallEnded
<1>2. CASE UNCHANGED <<streams, forwardConn, conns>>
  <2>1. \A g \in Flows : Sent(g)' = Sent(g)
    BY <1>2 DEF Sent
  <2> QED
    BY <1>1, <1>2, <2>1 DEF Ordered
<1>3. CASE ReassemblyComplete(f)
  <2>1. \A g \in Flows :
          /\ Len(conns'[g]) = Len(conns[g])
          /\ \A i \in 1 .. Len(conns[g]) : conns'[g][i].sent = conns[g][i].sent
    BY <1>1, <1>3, SentStays
  <2>2. /\ \A g \in Flows : g # f => forwardConn'[g] = forwardConn[g] /\ streams'[g] = streams[g]
        /\ forwardConn'[f] = 0
    BY <1>1, <1>3 DEF ReassemblyComplete, IInv, Types
  <2>3. Sent(f)' = <<>>
    BY <2>2 DEF Sent
  <2>4. ASSUME NEW g \in Flows, g # f PROVE Sent(g)' = Sent(g)
    <3>1. forwardConn[g] \in Nat /\ forwardConn[g] <= Len(conns[g]) /\ Len(conns[g]) \in Nat
      BY DEF IInv, Types, Owned
    <3>2. forwardConn[g] # 0 => forwardConn[g] \in 1 .. Len(conns[g])
      BY <3>1
    <3>3. forwardConn'[g] = forwardConn[g]
      BY <2>2, <2>4
    <3>4. forwardConn[g] # 0 => conns'[g][forwardConn[g]].sent = conns[g][forwardConn[g]].sent
      BY <2>1, <3>2
    <3> QED
      BY <3>3, <3>4 DEF Sent
  <2>5. ASSUME NEW g \in Flows
        PROVE  /\ \A i \in 1 .. Len(conns'[g]) : Increasing(conns'[g][i].sent)
               /\ \A x : Contains(Sent(g)', x) => x < streams'[g].next
    <3>1. \A i \in 1 .. Len(conns'[g]) : Increasing(conns'[g][i].sent)
      <4>1. \A i \in 1 .. Len(conns[g]) : Increasing(conns[g][i].sent)
        BY DEF Ordered
      <4>2. TAKE i \in 1 .. Len(conns'[g])
      <4>3. i \in 1 .. Len(conns[g]) /\ conns'[g][i].sent = conns[g][i].sent
        BY <2>1
      <4> QED
        BY <4>1, <4>3
    <3>2. CASE g = f
      BY <2>3, <3>1, <3>2, NothingContains
    <3>3. CASE g # f
      BY <2>2, <2>4, <3>1, <3>3 DEF Ordered
    <3> QED
      BY <3>2, <3>3
  <2> QED
    BY <1>1, <2>5 DEF Ordered
<1> QED
  BY <1>0, <1>2, <1>3, CallEnded

LEMMA OrderedQuiet == ASSUME Ordered, Quiet PROVE Ordered'
<1>1. CASE UNCHANGED <<pc, call>>
  BY <1>1, OrderedLess DEF Quiet, InCall, Unsent
<1>2. CASE ~InCall'
  BY <1>2, OrderedLess DEF Quiet
<1> QED
  BY <1>1, <1>2 DEF Quiet, InCall

-----------------------------------------------------------------------------
(* Counted.                                                                 *)

TimesIn(s, c) == Cardinality({i \in 1 .. Len(s) : s[i] = c})

LEMMA RecordedIs == \A c : RecordedTimes(c) = TimesIn(recorded, c)
BY DEF RecordedTimes, TimesIn

LEMMA TimesAppend ==
  ASSUME NEW S, NEW s \in Seq(S), NEW d \in S, NEW c
  PROVE  /\ TimesIn(s, c) \in Nat
         /\ TimesIn(Append(s, d), c) = TimesIn(s, c) + One(c = d)
<1> DEFINE t == Append(s, d)
           I == {i \in 1 .. Len(s) : s[i] = c}
           J == {i \in 1 .. Len(t) : t[i] = c}
           n == Len(s) + 1
<1>1. Len(s) \in Nat /\ Len(t) = n /\ t[n] = d /\ \A i \in 1 .. Len(s) : t[i] = s[i]
  OBVIOUS
<1>2. IsFiniteSet(I) /\ Cardinality(I) \in Nat
  <2>1. IsFiniteSet(1 .. Len(s)) /\ I \in SUBSET (1 .. Len(s))
    BY <1>1, FS_Interval
  <2> HIDE DEF I
  <2> QED
    BY <2>1, FS_Subset, FS_CardinalityType
<1>3. n \notin I
  BY <1>1
<1>4. J = IF c = d THEN I \cup {n} ELSE I
  <2> HIDE DEF t
  <2>1. \A i \in 1 .. Len(t) : i \in 1 .. Len(s) \/ i = n
    BY <1>1
  <2>2. 1 .. Len(s) \subseteq 1 .. Len(t) /\ n \in 1 .. Len(t)
    BY <1>1
  <2> QED
    BY <1>1, <2>1, <2>2
<1> HIDE DEF I, J
<1>5. Cardinality(J) = Cardinality(I) + One(c = d)
  <2>1. Cardinality(I \cup {n}) = Cardinality(I) + 1
    BY <1>2, <1>3, FS_AddElement
  <2> QED
    BY <1>2, <1>4, <2>1 DEF One
<1> QED
  BY <1>2, <1>5 DEF TimesIn, I, J

LEMMA RecordedIsNat == ASSUME Counted, NEW c PROVE RecordedTimes(c) \in Nat
<1>1. ASSUME NEW d \in Observed PROVE TimesIn(recorded, c) \in Nat
  BY <1>1, TimesAppend DEF Counted
<1>2. CASE recorded = <<>>
  <2>1. {i \in 1 .. Len(recorded) : recorded[i] = c} = {}
    BY <1>2
  <2> QED
    BY <2>1, FS_EmptySet DEF RecordedTimes
<1>3. CASE recorded # <<>>
  <2>1. Head(recorded) \in Observed
    BY <1>3 DEF Counted
  <2> QED
    BY <1>1, <2>1, RecordedIs
<1> QED
  BY <1>2, <1>3

\* The first chunk of a call is one of the packets.
LEMMA CurrentIs ==
  ASSUME Assembled, Counted, InCall, call.rest # <<>>, call.rest \in Seq(Int), call.flow \in Flows
  PROVE  /\ Current \in Packets /\ Current.flow = call.flow /\ Current.segment = Head(call.rest)
         /\ Current \in Observed <=> Keep(call.flow)
         /\ InRest(Current)
<1>1. Contains(call.rest, Head(call.rest))
  BY TailFewer DEF Assembled
<1>2. Current.flow = call.flow /\ Current.segment = Head(call.rest)
  BY DEF Current, Chunk
<1>3. Current \in Packets /\ Current.segment \in 1 .. Fin
  BY <1>1, <1>2 DEF Current, Counted, Assembled
<1> QED
  BY <1>1, <1>2, <1>3 DEF Observed, InRest, Fin

LEMMA PacketIs ==
  ASSUME NEW c \in Packets
  PROVE  c.flow \in Flows /\ c.segment \in 0 .. Fin /\ c = Chunk(c.flow, c.segment)
BY FlowAssumption DEF Fin, Chunk

\* Nothing is recorded or taken, and no more is to be delivered.
LEMMA CountedLess ==
  ASSUME Counted, UNCHANGED <<streams, recorded, received>>,
         InCall' => InCall /\ call'.flow = call.flow
                    /\ \A x : Contains(call'.rest, x) => Contains(call.rest, x)
  PROVE  Counted'
<1>1. ASSUME NEW c \in Packets
      PROVE  RecordedTimes(c)' + One(InRest(c)') + One(InPages(c)') <= received'[c]
  <2>1. RecordedTimes(c)' = RecordedTimes(c) /\ RecordedTimes(c) \in Nat
    BY RecordedIsNat DEF RecordedTimes
  <2>2. (InRest(c)' => InRest(c)) /\ (InPages(c)' = InPages(c))
    BY DEF InRest, InPages
  <2>3. RecordedTimes(c) + One(InRest(c)) + One(InPages(c)) <= received[c] /\ received[c] \in Nat
    BY DEF Counted
  <2> QED
    BY <2>1, <2>2, <2>3 DEF One
<1> QED
  BY <1>1 DEF Counted

LEMMA CountedCall ==
  ASSUME IInv, Assembled, Counted, InReassembledSteps
  PROVE  Counted'
<1>1. /\ InCall /\ call.rest # <<>> /\ call.rest \in Seq(Int) /\ call.flow \in Flows
      /\ UNCHANGED <<streams, received>>
      /\ Skips \/ Passes \/ Sends \/ Breaks \/ Records
  BY CallSteps
<1>2. CASE Skips \/ Breaks
  BY <1>1, <1>2, NothingContains, CountedLess DEF Skips, Breaks, Dropped, Leaves
<1>3. CASE Passes \/ Sends
  BY <1>1, <1>3, CountedLess DEF Passes, Sends
<1>4. CASE Records
  <2>1. call'.rest = Tail(call.rest) /\ call'.flow = call.flow
    BY <1>4 DEF Records, Leaves
  <2>2. /\ \A x : Contains(call.rest, x) <=> x = Head(call.rest) \/ Contains(Tail(call.rest), x)
        /\ \A x : Contains(Tail(call.rest), x) => Head(call.rest) < x /\ x \in Int
    BY <1>1, TailFewer DEF Assembled
  <2>3. CASE ~Keep(call.flow)
    BY <1>1, <1>4, <2>1, <2>2, <2>3, CountedLess DEF Records
  <2>4. CASE Keep(call.flow)
    <3>1. recorded' = Append(recorded, Current) /\ Current \in Observed
      BY <1>1, <1>4, <2>4, CurrentIs DEF Records
    <3>2. recorded' \in Seq(Observed)
      BY <3>1 DEF Counted
    <3>3. ASSUME NEW c \in Packets
          PROVE  RecordedTimes(c)' + One(InRest(c)') + One(InPages(c)') <= received'[c]
      <4>1. RecordedTimes(c)' = RecordedTimes(c) + One(c = Current) /\ RecordedTimes(c) \in Nat
        <5>1. recorded \in Seq(Observed)
          BY DEF Counted
        <5>2. TimesIn(recorded', c) = TimesIn(recorded, c) + One(c = Current)
              /\ TimesIn(recorded, c) \in Nat
          BY <3>1, <5>1, TimesAppend
        <5> QED
          BY <5>2 DEF RecordedTimes, TimesIn
      <4>2. InPages(c)' = InPages(c)
        BY <1>1 DEF InPages
      <4>3. InRest(c)' => InRest(c)
        BY <1>1, <2>1, <2>2 DEF InRest
      <4>4. c = Current => InRest(c) /\ ~InRest(c)'
        <5>1. ASSUME c = Current PROVE InRest(c) /\ c.segment = Head(call.rest) /\ c.segment \in Int
          BY <1>1, <5>1, CurrentIs
        <5> QED
          BY <2>1, <2>2, <5>1 DEF InRest
      <4>5. RecordedTimes(c) + One(InRest(c)) + One(InPages(c)) <= received[c] /\ received[c] \in Nat
        BY DEF Counted
      <4> QED
        BY <1>1, <4>1, <4>2, <4>3, <4>4, <4>5 DEF One
    <3> QED
      BY <1>1, <2>1, <2>2, <3>2, <3>3 DEF Counted
  <2> QED
    BY <2>3, <2>4
<1> QED
  BY <1>1, <1>2, <1>3, <1>4

\* What is handed over is with the call or with the stream, and not with both.
LEMMA CountedHands ==
  ASSUME IInv, Assembled, Counted, NEW f \in Flows, NEW n \in Int, NEW m \in Int, n <= m,
         NEW pages, NEW flushed, Hands(f, n, m, pages, flushed), UNCHANGED recorded,
         \A q \in pages : Chunk(f, q) \in Packets, received' \in [Packets -> Nat],
         \A c \in Packets :
           RecordedTimes(c) + One(IF c.flow = f THEN c.segment \in pages ELSE InPages(c))
             <= received'[c]
  PROVE  Counted'
<1>1. streams'[f].pages = {q \in pages : q >= m} /\ \A g \in Flows : g # f => streams'[g] = streams[g]
  BY DEF Hands, Handed, IInv, Types
<1>2. call'.flow = f /\ call'.rest = Numbers(n, m) /\ n .. m - 1 \subseteq pages
  BY DEF Hands
<1>3. \A x : Contains(call'.rest, x) => x \in n .. m - 1
  BY <1>2, NumbersAre
<1>4. ASSUME NEW c \in Packets
      PROVE  RecordedTimes(c)' + One(InRest(c)') + One(InPages(c)') <= received'[c]
  <2>1. RecordedTimes(c)' = RecordedTimes(c) /\ RecordedTimes(c) \in Nat
    BY RecordedIsNat DEF RecordedTimes
  <2>2. InRest(c)' => c.flow = f /\ c.segment \in pages /\ c.segment \in n .. m - 1
    BY <1>2, <1>3 DEF InRest
  <2>3. InPages(c)' => IF c.flow = f THEN c.segment \in pages /\ c.segment >= m ELSE InPages(c)
    BY <1>1, PacketIs DEF InPages
  <2>4. InRest(c)' => ~InPages(c)'
    BY <1>1, <2>2 DEF InPages
  <2>5. received'[c] \in Nat
    OBVIOUS
  <2>6. RecordedTimes(c) + One(IF c.flow = f THEN c.segment \in pages ELSE InPages(c)) <= received'[c]
    OBVIOUS
  <2> QED
    BY <2>1, <2>2, <2>3, <2>4, <2>5, <2>6 DEF One
<1>5. \A g \in Flows : \A q \in streams'[g].pages : Chunk(g, q) \in Packets
  BY <1>1 DEF Counted
<1>6. \A x : Contains(call'.rest, x) => Chunk(call'.flow, x) \in Packets
  BY <1>2, <1>3
<1> QED
  BY <1>4, <1>5, <1>6 DEF Counted

LEMMA CountedReceive == ASSUME IInv, Assembled, Counted, Receive PROVE Counted'
<1>1. PICK p \in Packets :
        /\ pc = "select" /\ Quietly /\ received' = [received EXCEPT ![p] = @ + 1]
        /\ p.flow \in Flows /\ p.segment \in 0 .. Fin /\ p = Chunk(p.flow, p.segment)
        /\ \/ Kept(p.flow, p.segment)
           \/ \E n, m, pages : Completes(p.flow, p.segment, n, m, pages)
  BY Received
<1> DEFINE f == p.flow
           q == p.segment
<1> HIDE DEF f, q
<1>2. /\ ~InCall /\ f \in Flows /\ p = Chunk(f, q) /\ UNCHANGED recorded
      /\ (Kept(f, q) \/ \E n, m, pages : Completes(f, q, n, m, pages))
  BY <1>1 DEF f, q, Quietly, InCall
<1>3. /\ received' \in [Packets -> Nat]
      /\ \A c \in Packets : received'[c] = received[c] + One(c = p)
  BY <1>1 DEF Counted, One
<1>4. ASSUME NEW c \in Packets PROVE (c.flow = f /\ c.segment = q) <=> c = p
  BY <1>1, PacketIs, <1>4 DEF f, q
<1>5. ASSUME NEW c \in Packets
      PROVE  /\ RecordedTimes(c) \in Nat /\ received[c] \in Nat /\ received'[c] \in Nat
             /\ RecordedTimes(c) + One(InPages(c)) <= received[c]
  <2>1. RecordedTimes(c) + One(InRest(c)) + One(InPages(c)) <= received[c] /\ ~InRest(c)
    BY <1>2 DEF Counted, InRest
  <2>2. RecordedTimes(c) \in Nat /\ received[c] \in Nat /\ received'[c] \in Nat
    BY <1>3, RecordedIsNat DEF Counted
  <2> QED
    BY <2>1, <2>2 DEF One
<1>6. CASE Kept(f, q)
  <2>1. /\ streams'[f].pages = streams[f].pages \cup {q}
        /\ \A g \in Flows : g # f => streams'[g] = streams[g]
    BY <1>2, <1>6 DEF Kept, IInv, Types
  <2>2. ~InCall'
    BY <1>2, <1>6 DEF Kept, InCall
  <2>3. ASSUME NEW c \in Packets
        PROVE  RecordedTimes(c)' + One(InRest(c)') + One(InPages(c)') <= received'[c]
    <3>1. RecordedTimes(c)' = RecordedTimes(c) /\ ~InRest(c)'
      BY <1>2, <2>2 DEF RecordedTimes, InRest
    <3>2. InPages(c)' => InPages(c) \/ c = p
      BY <1>4, <2>1, PacketIs DEF InPages
    <3> QED
      BY <1>3, <1>5, <3>1, <3>2 DEF One
  <2>4. \A g \in Flows : \A x \in streams'[g].pages : Chunk(g, x) \in Packets
    BY <1>2, <2>1 DEF Counted
  <2> QED
    BY <1>2, <1>3, <2>2, <2>3, <2>4 DEF Counted
<1>7. ASSUME NEW n, NEW m, NEW pages, Completes(f, q, n, m, pages) PROVE Counted'
  <2>1. n \in 1 .. Fin + 1 /\ m \in n .. Fin + 1 /\ Hands(f, n, m, pages, FALSE)
        /\ pages \subseteq streams[f].pages \cup {q}
    BY <1>7 DEF Completes
  <2>2. n \in Int /\ m \in Int /\ n <= m
    BY <2>1, FinIsInt
  <2>3. \A x \in pages : Chunk(f, x) \in Packets
    BY <1>2, <2>1 DEF Counted
  <2>4. ASSUME NEW c \in Packets
        PROVE  RecordedTimes(c) + One(IF c.flow = f THEN c.segment \in pages ELSE InPages(c))
                 <= received'[c]
    <3>1. (IF c.flow = f THEN c.segment \in pages ELSE InPages(c)) => InPages(c) \/ c = p
      BY <1>4, <2>1 DEF InPages
    <3> QED
      BY <1>3, <1>5, <3>1 DEF One
  <2> QED
    BY <1>2, <1>3, <2>1, <2>2, <2>3, <2>4, CountedHands
<1> QED
  BY <1>2, <1>6, <1>7

LEMMA CountedFlush == ASSUME IInv, Assembled, Counted, NEW f \in Flows, FlushNext(f) PROVE Counted'
<1>1. /\ ~InCall /\ UNCHANGED <<recorded, received>>
      /\ CompletesOnly(f) \/ \E n, m : Flushes(f, n, m)
  BY Flushed DEF Quietly, InCall
<1>2. ASSUME NEW c \in Packets
      PROVE  /\ RecordedTimes(c) \in Nat /\ received[c] \in Nat /\ received'[c] = received[c]
             /\ RecordedTimes(c) + One(InPages(c)) <= received[c]
  <2>1. RecordedTimes(c) + One(InRest(c)) + One(InPages(c)) <= received[c] /\ ~InRest(c)
    BY <1>1 DEF Counted, InRest
  <2>2. RecordedTimes(c) \in Nat /\ received[c] \in Nat /\ received'[c] = received[c]
    BY <1>1, RecordedIsNat DEF Counted
  <2> QED
    BY <2>1, <2>2 DEF One
<1>3. CASE CompletesOnly(f)
  <2>1. call'.rest = <<>> /\ UNCHANGED streams
    BY <1>3 DEF CompletesOnly
  <2>2. ASSUME NEW c \in Packets
        PROVE  RecordedTimes(c)' + One(InRest(c)') + One(InPages(c)') <= received'[c]
    <3>1. RecordedTimes(c)' = RecordedTimes(c) /\ ~InRest(c)' /\ InPages(c)' = InPages(c)
      BY <1>1, <2>1, NothingContains DEF RecordedTimes, InRest, InPages
    <3> QED
      BY <1>2, <3>1 DEF One
  <2> QED
    BY <1>1, <2>1, <2>2, NothingContains DEF Counted
<1>4. ASSUME NEW n, NEW m, Flushes(f, n, m) PROVE Counted'
  <2> DEFINE pages == streams[f].pages
  <2>1. n \in 1 .. Fin + 1 /\ m \in n .. Fin + 1 /\ Hands(f, n, m, pages, TRUE)
    BY <1>4 DEF Flushes
  <2>2. n \in Int /\ m \in Int /\ n <= m
    BY <2>1, FinIsInt
  <2>3. \A x \in pages : Chunk(f, x) \in Packets
    BY DEF Counted
  <2>4. ASSUME NEW c \in Packets
        PROVE  RecordedTimes(c) + One(IF c.flow = f THEN c.segment \in pages ELSE InPages(c))
                 <= received'[c]
    <3>1. (IF c.flow = f THEN c.segment \in pages ELSE InPages(c)) => InPages(c)
      BY DEF InPages
    <3> QED
      BY <1>2, <3>1 DEF One
  <2>5. received' \in [Packets -> Nat]
    BY <1>1 DEF Counted
  <2> HIDE DEF pages
  <2> QED
    BY <1>1, <2>1, <2>2, <2>3, <2>4, <2>5, CountedHands
<1> QED
  BY <1>1, <1>3, <1>4

LEMMA CountedEnd == ASSUME IInv, Counted, EndCall PROVE Counted'
<1>1. ~InCall' /\ UNCHANGED <<recorded, received>>
  BY CallEnded DEF InCall
<1>2. PICK f \in Flows : f = call.flow
  BY CallEnded
<1>3. CASE UNCHANGED streams
  BY <1>1, <1>3, CountedLess
<1>4. CASE ReassemblyComplete(f)
  <2>1. streams'[f].pages = {} /\ \A g \in Flows : g # f => streams'[g] = streams[g]
    BY <1>2, <1>4 DEF ReassemblyComplete, NoStream, IInv, Types
  <2>2. ASSUME NEW c \in Packets
        PROVE  RecordedTimes(c)' + One(InRest(c)') + One(InPages(c)') <= received'[c]
    <3>1. RecordedTimes(c)' = RecordedTimes(c) /\ RecordedTimes(c) \in Nat
      BY <1>1, RecordedIsNat DEF RecordedTimes
    <3>2. ~InRest(c)' /\ (InPages(c)' => InPages(c))
      BY <1>1, <2>1, PacketIs DEF InRest, InPages
    <3>3. RecordedTimes(c) + One(InRest(c)) + One(InPages(c)) <= received[c] /\ received[c] \in Nat
      BY DEF Counted
    <3> QED
      BY <1>1, <3>1, <3>2, <3>3 DEF One
  <2>3. \A g \in Flows : \A x \in streams'[g].pages : Chunk(g, x) \in Packets
    BY <2>1 DEF Counted
  <2> QED
    BY <1>1, <2>2, <2>3 DEF Counted
<1> QED
  BY <1>2, <1>3, <1>4, CallEnded

LEMMA CountedQuiet == ASSUME Counted, Quiet PROVE Counted'
BY CountedLess DEF Quiet, InCall

-----------------------------------------------------------------------------
(* Matched.                                                                 *)

\* The connections that carry x.
Carried(s, x) == {i \in 1 .. Len(s) : Contains(s[i].sent, x)}

LEMMA ForwardedIs ==
  ASSUME IInv, NEW c \in Packets
  PROVE  /\ ForwardedTimes(c) = Cardinality(Carried(conns[c.flow], c.segment))
         /\ ForwardedTimes(c) \in Nat /\ IsFiniteSet(Carried(conns[c.flow], c.segment))
<1>1. Len(conns[c.flow]) \in Nat
  BY PacketIs DEF IInv, Types
<1>2. IsFiniteSet(1 .. Len(conns[c.flow]))
      /\ Carried(conns[c.flow], c.segment) \in SUBSET (1 .. Len(conns[c.flow]))
  BY <1>1, FS_Interval DEF Carried
<1>3. IsFiniteSet(Carried(conns[c.flow], c.segment))
      /\ Cardinality(Carried(conns[c.flow], c.segment)) \in Nat
  BY <1>2, FS_Subset, FS_CardinalityType
<1>4. ForwardedTimes(c) = Cardinality(Carried(conns[c.flow], c.segment))
  BY DEF ForwardedTimes, Carried
<1> QED
  BY <1>3, <1>4

LEMMA ConcatCarries ==
  ASSUME NEW s \in Seq(Int), NEW t \in Seq(Int), NEW x
  PROVE  Contains(s \o t, x) <=> Contains(s, x) \/ Contains(t, x)
<1> DEFINE u == s \o t
<1>1. /\ u \in Seq(Int) /\ Len(u) = Len(s) + Len(t)
      /\ \A i \in 1 .. Len(s) : u[i] = s[i]
      /\ \A i \in 1 .. Len(t) : u[Len(s) + i] = t[i]
  BY ConcatProperties
<1>2. Len(s) \in Nat /\ Len(t) \in Nat
  OBVIOUS
<1> HIDE DEF u
<1>3. ASSUME NEW i \in 1 .. Len(u), i \notin 1 .. Len(s) PROVE i - Len(s) \in 1 .. Len(t) /\ u[i] = t[i - Len(s)]
  <2>1. i - Len(s) \in 1 .. Len(t) /\ Len(s) + (i - Len(s)) = i
    BY <1>1, <1>2, <1>3
  <2> QED
    BY <1>1, <2>1
<1>4. Contains(u, x) => Contains(s, x) \/ Contains(t, x)
  BY <1>1, <1>3 DEF Contains
<1>5. \A i \in 1 .. Len(s) : i \in 1 .. Len(u)
  BY <1>1, <1>2
<1>6. \A i \in 1 .. Len(t) : Len(s) + i \in 1 .. Len(u)
  BY <1>1, <1>2
<1>7. Contains(s, x) \/ Contains(t, x) => Contains(u, x)
  BY <1>1, <1>5, <1>6 DEF Contains
<1> QED
  BY <1>4, <1>7 DEF u

\* What is written, and had not been sent on this connection, has been forwarded once more.
LEMMA ForwardedWrote ==
  ASSUME IInv, NEW f \in Flows, NEW k \in Nat, NEW seen \in Seq(Int), Wrote(f, k, seen),
         \A x : Contains(seen, x) => ~Contains(Sent(f), x),
         NEW c \in Packets
  PROVE  ForwardedTimes(c)' = ForwardedTimes(c) + One(c.flow = f /\ Contains(seen, c.segment))
<1> DEFINE x == c.segment
           S == Carried(conns[f], x)
           T == Carried(conns'[f], x)
<1>1. CASE c.flow # f
  <2>1. conns'[c.flow] = conns[c.flow]
    BY <1>1, PacketIs DEF Wrote
  <2> QED
    BY <1>1, <2>1, ForwardedIs DEF ForwardedTimes, One
<1>2. CASE c.flow = f
  <2>1. /\ ForwardedTimes(c) = Cardinality(S) /\ ForwardedTimes(c) \in Nat /\ IsFiniteSet(S)
    BY <1>2, ForwardedIs
  <2>2. ForwardedTimes(c)' = Cardinality(T)
    BY <1>2 DEF ForwardedTimes, Carried
  <2>3. Contains(conns'[f][k].sent, x) <=> Contains(Sent(f), x) \/ Contains(seen, x)
    <3>1. conns'[f][k].sent = Sent(f) \o seen
      BY WroteSent
    <3>2. Contains(Sent(f) \o seen, x) <=> Contains(Sent(f), x) \/ Contains(seen, x)
      BY SentTypes, ConcatCarries
    <3> QED
      BY <3>1, <3>2
  <2>4. (\A i \in 1 .. Len(conns[f]) : i # k => conns'[f][i] = conns[f][i])
        /\ k \in 1 .. Len(conns'[f]) /\ 1 .. Len(conns[f]) \subseteq 1 .. Len(conns'[f])
        /\ \A i \in 1 .. Len(conns'[f]) : i # k => i \in 1 .. Len(conns[f])
    <3>1. Len(conns[f]) \in Nat
      BY DEF IInv, Types
    <3>2. Len(conns[f]) <= Len(conns'[f]) /\ Len(conns'[f]) \in Nat /\ k \in 1 .. Len(conns'[f])
      BY <3>1 DEF Wrote
    <3>3. 1 .. Len(conns[f]) \subseteq 1 .. Len(conns'[f])
      BY <3>1, <3>2
    <3> QED
      BY <3>2, <3>3 DEF Wrote
  <2>5. k \in S <=> Contains(Sent(f), x)
    <3>1. CASE k = forwardConn[f] /\ k \in 1 .. Len(conns[f])
      BY <3>1 DEF Sent, Carried
    <3>2. CASE forwardConn[f] = 0 /\ k = Len(conns[f]) + 1
      <4>1. k \notin 1 .. Len(conns[f])
        BY <3>2 DEF IInv, Types
      <4> QED
        BY <3>2, <4>1, NothingContains DEF Sent, Carried
    <3> QED
      BY <3>1, <3>2 DEF Wrote
  <2>6. T = IF Contains(seen, x) THEN S \cup {k} ELSE S
    <3>1. ASSUME NEW i, i # k PROVE i \in T <=> i \in S
      BY <2>4, <3>1 DEF Carried
    <3>2. k \in T <=> Contains(Sent(f), x) \/ Contains(seen, x)
      BY <2>3, <2>4 DEF Carried
    <3> HIDE DEF T, S, x
    <3>3. CASE Contains(seen, x)
      <4>1. \A i : i \in T <=> i \in S \cup {k}
        BY <3>1, <3>2, <3>3
      <4> QED
        BY <3>3, <4>1
    <3>4. CASE ~Contains(seen, x)
      <4>1. \A i : i \in T <=> i \in S
        BY <2>5, <3>1, <3>2, <3>4
      <4> QED
        BY <3>4, <4>1
    <3> QED
      BY <3>3, <3>4
  <2>7. Contains(seen, x) => k \notin S
    BY <2>5
  <2> HIDE DEF S, T
  <2>8. Contains(seen, x) => Cardinality(S \cup {k}) = Cardinality(S) + 1
    BY <2>1, <2>7, FS_AddElement
  <2> QED
    BY <1>2, <2>1, <2>2, <2>6, <2>8 DEF One
<1> QED
  BY <1>1, <1>2

\* Nothing is recorded or sent, and nothing is due.
LEMMA MatchedStays ==
  ASSUME IInv, Matched, UNCHANGED <<target, recorded>>, lastErr' = lastErr \/ lastErr' # NoError,
         \A c \in Observed : ForwardedTimes(c)' = ForwardedTimes(c),
         target => \A c \in Observed : Due(c)' <= Due(c) /\ (lastErr' = NoError => Due(c)' = Due(c)),
         Counted
  PROVE  Matched'
<1> SUFFICES ASSUME target, NEW c \in Observed
             PROVE  /\ RecordedTimes(c)' + Due(c)' <= ForwardedTimes(c)'
                    /\ lastErr' = NoError => RecordedTimes(c)' + Due(c)' = ForwardedTimes(c)'
  BY DEF Matched
<1>1. RecordedTimes(c)' = RecordedTimes(c) /\ RecordedTimes(c) \in Nat
  BY RecordedIsNat DEF RecordedTimes
<1>2. c \in Packets /\ ForwardedTimes(c) \in Nat
  BY ForwardedIs DEF Observed
<1>3. Due(c) \in 0 .. 1 /\ Due(c)' \in 0 .. 1
  BY DEF Due, One
<1>4. /\ RecordedTimes(c) + Due(c) <= ForwardedTimes(c)
      /\ lastErr = NoError => RecordedTimes(c) + Due(c) = ForwardedTimes(c)
  BY DEF Matched
<1>5. Due(c)' <= Due(c) /\ (lastErr' = NoError => Due(c)' = Due(c))
  OBVIOUS
<1>6. ForwardedTimes(c)' = ForwardedTimes(c) /\ (lastErr' = NoError => lastErr = NoError)
  OBVIOUS
<1> QED
  BY <1>1, <1>2, <1>3, <1>4, <1>5, <1>6

LEMMA NotDue == \A c : pc # "record" => Due(c) = 0
BY DEF Due, One

LEMMA NotDueNext == \A c : pc' # "record" => Due(c)' = 0
BY DEF Due, One

LEMMA MatchedAssembler ==
  ASSUME IInv, Assembled, Counted, Matched, Receive \/ \E f \in Flows : FlushNext(f)
  PROVE  Matched'
<1>1. /\ pc # "record" /\ pc' # "record" /\ UNCHANGED <<target, conns, recorded, lastErr>>
  <2>1. ASSUME Receive PROVE pc # "record" /\ pc' # "record"
    BY <2>1 DEF Receive, Assemble, Buffer, HandOver
  <2>2. ASSUME NEW f \in Flows, FlushNext(f) PROVE pc # "record" /\ pc' # "record"
    BY <2>2 DEF FlushNext, HandOver
  <2> QED
    BY <2>1, <2>2 DEF Receive, FlushNext
<1>2. \A c \in Observed : ForwardedTimes(c)' = ForwardedTimes(c)
  BY <1>1 DEF ForwardedTimes
<1>3. \A c \in Observed : Due(c) = 0 /\ Due(c)' = 0
  BY <1>1, NotDue, NotDueNext
<1> QED
  BY <1>1, <1>2, <1>3, MatchedStays

LEMMA MatchedEnd == ASSUME IInv, Counted, Matched, EndCall PROVE Matched'
<1>1. /\ pc # "record" /\ pc' # "record" /\ UNCHANGED <<target, recorded, lastErr>>
  BY CallEnded
<1>2. PICK f \in Flows : f = call.flow
  BY CallEnded
<1>3. ASSUME NEW c \in Observed PROVE ForwardedTimes(c)' = ForwardedTimes(c)
  <2>1. CASE UNCHANGED conns
    BY <2>1 DEF ForwardedTimes
  <2>2. CASE ReassemblyComplete(f)
    <3>1. c.flow \in Flows
      BY PacketIs DEF Observed
    <3>2. /\ Len(conns'[c.flow]) = Len(conns[c.flow])
          /\ \A i \in 1 .. Len(conns[c.flow]) : conns'[c.flow][i].sent = conns[c.flow][i].sent
      BY <2>2, <3>1, SentStays
    <3>3. Carried(conns'[c.flow], c.segment) = Carried(conns[c.flow], c.segment)
      BY <3>2 DEF Carried
    <3> QED
      BY <3>3 DEF ForwardedTimes, Carried
  <2> QED
    BY <1>2, <2>1, <2>2, CallEnded
<1>4. \A c \in Observed : Due(c) = 0 /\ Due(c)' = 0
  BY <1>1, NotDue, NotDueNext
<1> QED
  BY <1>1, <1>3, <1>4, MatchedStays

LEMMA MatchedQuiet == ASSUME IInv, Counted, Matched, Quiet PROVE Matched'
<1>1. UNCHANGED <<target, conns, recorded, lastErr>>
  BY DEF Quiet
<1>2. \A c \in Observed : ForwardedTimes(c)' = ForwardedTimes(c)
  BY <1>1 DEF ForwardedTimes
<1>3. \A c \in Observed : Due(c)' = Due(c) /\ Due(c) \in 0 .. 1
  BY DEF Quiet, InCall, Due, Current, One
<1> QED
  BY <1>1, <1>2, <1>3, MatchedStays

LEMMA MatchedCall ==
  ASSUME IInv, Assembled, Ordered, Counted, Outcome, Matched, InReassembledSteps
  PROVE  Matched'
<1>1. /\ InCall /\ call.rest # <<>> /\ call.rest \in Seq(Int)
      /\ UNCHANGED <<target, streams, received>>
      /\ Skips \/ Passes \/ Sends \/ Breaks \/ Records
  BY CallSteps
<1>2. PICK f \in Flows : f = call.flow
  BY CallSteps
<1>3. /\ Current \in Packets /\ Current.flow = f /\ Current.segment = Head(call.rest)
      /\ Current \in Observed <=> Keep(f)
  BY <1>1, <1>2, CurrentIs
<1>4. \A c \in Observed : Due(c) \in 0 .. 1 /\ Due(c)' \in 0 .. 1
  BY DEF Due, One
<1>5. CASE Skips
  <2>1. pc # "record" /\ pc' # "record" /\ UNCHANGED <<conns, recorded, lastErr>>
    BY <1>5 DEF Skips
  <2>2. \A c \in Observed : ForwardedTimes(c)' = ForwardedTimes(c)
    BY <2>1 DEF ForwardedTimes
  <2>3. \A c \in Observed : Due(c) = 0 /\ Due(c)' = 0
    BY <2>1, NotDue, NotDueNext
  <2> QED
    BY <1>1, <2>1, <2>2, <2>3, MatchedStays
<1>6. CASE Passes
  <2>1. pc # "record" /\ UNCHANGED <<call, conns, recorded, lastErr>>
    BY <1>6 DEF Passes
  <2>2. \A c \in Observed : ForwardedTimes(c)' = ForwardedTimes(c)
    BY <2>1 DEF ForwardedTimes
  <2>3. ASSUME target, NEW c \in Observed PROVE Due(c) = 0 /\ Due(c)' = 0
    <3>1. c # Current /\ Current' = Current
      BY <1>2, <1>3, <1>6, <2>3 DEF Passes, Current
    <3> QED
      BY <2>1, <3>1, NotDue DEF Due, One
  <2> QED
    BY <1>1, <2>1, <2>2, <2>3, MatchedStays
<1>7. CASE Breaks
  <2>1. pc' # "record" /\ UNCHANGED recorded
    BY <1>7 DEF Breaks
  <2>2. lastErr' # NoError
    BY <1>7 DEF Breaks, Outcome, NoError
  <2>3. ASSUME NEW c \in Observed PROVE ForwardedTimes(c)' = ForwardedTimes(c)
    <3>1. CASE UNCHANGED conns
      BY <3>1 DEF ForwardedTimes
    <3>2. CASE UseConn(f, <<>>)
      <4>1. <<>> \in Seq(Int) /\ c \in Packets
        BY DEF Observed
      <4>2. PICK k \in Nat : Wrote(f, k, <<>>)
        BY <3>2, <4>1, UseConnWrote
      <4>3. ForwardedTimes(c)' = ForwardedTimes(c) + One(c.flow = f /\ Contains(<<>>, c.segment))
        BY <4>1, <4>2, NothingContains, ForwardedWrote
      <4>4. ForwardedTimes(c) \in Nat
        BY <4>1, ForwardedIs
      <4> QED
        BY <4>3, <4>4, NothingContains DEF One
    <3> QED
      BY <1>2, <1>7, <3>1, <3>2 DEF Breaks
  <2>4. \A c \in Observed : Due(c)' <= Due(c)
    BY <1>4, <2>1, NotDueNext
  <2> QED
    BY <1>1, <2>1, <2>2, <2>3, <2>4, MatchedStays
<1>8. CASE Sends
  <2>1. /\ pc = "forward" /\ pc' = "record" /\ UNCHANGED <<call, recorded, lastErr>>
        /\ UseConn(f, <<Head(call.rest)>>)
    BY <1>2, <1>8 DEF Sends
  <2> DEFINE h == Head(call.rest)
  <2>2. h \in Int /\ <<h>> \in Seq(Int)
    BY <1>1
  <2>3. PICK k \in Nat : Wrote(f, k, <<h>>)
    BY <2>1, <2>2, UseConnWrote
  <2>4. \A x : Contains(<<h>>, x) <=> x = h
    BY DEF Contains
  <2>5. ~Contains(Sent(f), h)
    <3>1. Contains(Unsent, h)
      BY <1>1, <2>1, TailFewer DEF Unsent, Assembled
    <3>2. Contains(Sent(f), h) => h < h
      BY <1>1, <1>2, <3>1 DEF Ordered
    <3> QED
      BY <2>2, <3>2
  <2>6. SUFFICES ASSUME target, NEW c \in Observed
                 PROVE  /\ RecordedTimes(c)' + Due(c)' <= ForwardedTimes(c)'
                        /\ lastErr' = NoError => RecordedTimes(c)' + Due(c)' = ForwardedTimes(c)'
    BY <1>1 DEF Matched
  <2>7. c \in Packets
    BY DEF Observed
  <2>8. ForwardedTimes(c)' = ForwardedTimes(c) + One(c.flow = f /\ Contains(<<h>>, c.segment))
    BY <2>2, <2>3, <2>4, <2>5, <2>7, ForwardedWrote
  <2>9. (c.flow = f /\ Contains(<<h>>, c.segment)) <=> c = Current
    BY <1>3, <2>4, <2>7, PacketIs
  <2>10. Due(c) = 0 /\ Due(c)' = One(c = Current)
    BY <2>1 DEF Due, Current, One
  <2>11. /\ RecordedTimes(c)' = RecordedTimes(c) /\ RecordedTimes(c) \in Nat
         /\ ForwardedTimes(c) \in Nat
    BY <2>1, <2>7, RecordedIsNat, ForwardedIs DEF RecordedTimes
  <2>12. /\ RecordedTimes(c) + Due(c) <= ForwardedTimes(c)
         /\ lastErr = NoError => RecordedTimes(c) + Due(c) = ForwardedTimes(c)
    BY <1>1, <2>6 DEF Matched
  <2> HIDE DEF h
  <2> QED
    BY <2>1, <2>8, <2>9, <2>10, <2>11, <2>12 DEF One
<1>9. CASE Records
  <2>1. /\ pc = "record" /\ pc' # "record" /\ UNCHANGED <<conns, lastErr>>
        /\ recorded' = IF Keep(f) THEN Append(recorded, Current) ELSE recorded
    BY <1>2, <1>9 DEF Records
  <2>2. SUFFICES ASSUME target, NEW c \in Observed
                 PROVE  /\ RecordedTimes(c)' + Due(c)' <= ForwardedTimes(c)'
                        /\ lastErr' = NoError => RecordedTimes(c)' + Due(c)' = ForwardedTimes(c)'
    BY <1>1 DEF Matched
  <2>3. ForwardedTimes(c)' = ForwardedTimes(c) /\ Due(c)' = 0 /\ Due(c) = One(c = Current)
    BY <2>1, NotDueNext DEF ForwardedTimes, Due, One
  <2>4. RecordedTimes(c)' = RecordedTimes(c) + One(c = Current) /\ RecordedTimes(c) \in Nat
    <3>0. recorded \in Seq(Observed)
      BY DEF Counted
    <3>1. CASE Keep(f)
      <4>1. recorded' = Append(recorded, Current) /\ Current \in Observed
        BY <1>3, <2>1, <3>1
      <4>2. TimesIn(recorded', c) = TimesIn(recorded, c) + One(c = Current)
            /\ TimesIn(recorded, c) \in Nat
        BY <3>0, <4>1, TimesAppend
      <4> QED
        BY <4>2 DEF RecordedTimes, TimesIn
    <3>2. CASE ~Keep(f)
      <4>1. recorded' = recorded /\ c # Current
        BY <1>3, <2>1, <3>2
      <4>2. RecordedTimes(c)' = RecordedTimes(c) /\ One(c = Current) = 0
        BY <4>1 DEF RecordedTimes, One
      <4>3. RecordedTimes(c) \in Nat
        BY RecordedIsNat
      <4> QED
        BY <4>2, <4>3
    <3> QED
      BY <3>1, <3>2
  <2>5. /\ RecordedTimes(c) + Due(c) <= ForwardedTimes(c)
        /\ lastErr = NoError => RecordedTimes(c) + Due(c) = ForwardedTimes(c)
    BY <1>1, <2>2 DEF Matched
  <2> QED
    BY <2>1, <2>3, <2>4, <2>5 DEF One
<1> QED
  BY <1>1, <1>5, <1>6, <1>7, <1>8, <1>9

-----------------------------------------------------------------------------
(* Outcome.                                                                 *)

LEMMA OutcomeStep == ASSUME IInv, Outcome, [Next]_vars PROVE Outcome'
<1> USE DEF Outcome, Pending, NoError, Canceled
<1>1. ASSUME UNCHANGED <<result, lastErr, failures>>, pc' = pc \/ pc' # "select",
             result = NoError => pc' \in {"close", "closing", "returned"}
      PROVE  Outcome'
  BY <1>1
<1>2. CASE Receive
  <2>1. UNCHANGED <<result, lastErr, failures>> /\ pc = "select"
    BY <1>2 DEF Receive
  <2>2. pc' = pc \/ pc' # "select"
    BY <1>2 DEF Receive, Assemble, Buffer, HandOver
  <2> QED
    BY <1>1, <2>1, <2>2
<1>3. ASSUME NEW f \in Flows, FlushNext(f) PROVE Outcome'
  <2>1. UNCHANGED <<result, lastErr, failures>> /\ pc = "flush" /\ pc' = "forward"
    BY <1>3 DEF FlushNext, HandOver
  <2> QED
    BY <1>1, <2>1
<1>4. CASE InReassembledSteps
  <2>1. InCall /\ (Skips \/ Passes \/ Sends \/ Breaks \/ Records)
    BY <1>4, CallSteps
  <2>2. UNCHANGED result
    BY <1>4 DEF InReassembledSteps, IgnoreCall, NotForwarded, ForwardChunk, ForwardFails,
       RecordChunk, RecordFails, Deliver
  <2>3. pc' # "select" /\ result # NoError
    BY <2>1 DEF InCall, Skips, Passes, Sends, Breaks, Records
  <2>4. CASE Breaks
    BY <2>2, <2>3, <2>4 DEF Breaks
  <2>5. CASE Skips \/ Passes \/ Sends \/ Records
    BY <1>1, <2>2, <2>3, <2>5 DEF Skips, Passes, Sends, Records
  <2> QED
    BY <2>1, <2>4, <2>5
<1>5. CASE EndCall
  <2>1. UNCHANGED <<lastErr, failures>> /\ pc = "forward"
        /\ \/ pc' = "flush" /\ result' = result
           \/ pc' = "flush" /\ result' = lastErr /\ lastErr # NoError
           \/ pc' = "select" /\ lastErr = NoError /\ result' = result
    BY <1>5 DEF EndCall
  <2> QED
    BY <2>1
<1>6. CASE Interrupted \/ Drained
  <2>1. UNCHANGED <<lastErr, failures>> /\ pc = "select" /\ pc' = "flush"
        /\ (result' = Canceled \/ result' = result)
    BY <1>6 DEF Interrupted, Drained, StartFlush
  <2> QED
    BY <2>1
<1>7. CASE FlushDone
  <2>1. UNCHANGED <<lastErr, failures>> /\ pc = "flush" /\ pc' = "close"
        /\ result' = IF result = Pending THEN lastErr ELSE result
    BY <1>7 DEF FlushDone, session
  <2> QED
    BY <2>1
<1>8. CASE Close \/ CloseReturns
  <2>1. UNCHANGED <<result, lastErr, failures>> /\ pc' \in {"closing", "returned"}
    BY <1>8 DEF Close, CloseReturns, session
  <2> QED
    BY <1>1, <2>1
<1>9. CASE \/ Cancel
           \/ SourceNext /\ UNCHANGED <<target, cancelled, pc, result, streams, session, received>>
           \/ UNCHANGED vars
  <2>1. UNCHANGED <<result, lastErr, failures, pc>>
    BY <1>9 DEF Cancel, session, vars
  <2> QED
    BY <1>1, <2>1
<1> QED
  BY <1>2, <1>3, <1>4, <1>5, <1>6, <1>7, <1>8, <1>9 DEF Next, Start, InReassembledSteps

-----------------------------------------------------------------------------
(* Complete.                                                                *)

LEMMA ObservedIs ==
  ASSUME NEW c \in Observed
  PROVE  c \in Packets /\ c.flow \in Flows /\ Keep(c.flow) /\ c.segment \in 1 .. Fin
         /\ c = Chunk(c.flow, c.segment)
BY PacketIs DEF Observed, Fin

\* What is recorded or with the call stays so.
LEMMA CompleteStays ==
  ASSUME Complete, lastErr' = NoError => lastErr = NoError,
         UNCHANGED <<streams, received>>,
         \A f \in Flows : \A q \in 1 .. Fin :
           Keep(f) /\ Secured(Chunk(f, q)) => Secured(Chunk(f, q))',
         pc' = "select" \/ (InCall' /\ ~call'.flushed)
           => pc = "select" \/ (InCall /\ ~call.flushed)
  PROVE  Complete'
<1>1. ASSUME lastErr' = NoError, NEW c \in Observed, received'[c] > 0
      PROVE  Secured(c)' \/ InPages(c)'
  <2>1. Secured(c) \/ InPages(c)
    BY <1>1 DEF Complete
  <2>2. InPages(c)' = InPages(c)
    BY DEF InPages
  <2>3. Secured(c) => Secured(c)'
    BY ObservedIs
  <2> QED
    BY <2>1, <2>2, <2>3
<1>2. ASSUME lastErr' = NoError, pc' = "select" \/ (InCall' /\ ~call'.flushed),
             NEW f \in Flows, Keep(f), NEW q \in 1 .. Fin, q < streams'[f].next
      PROVE  Secured(Chunk(f, q))'
  <2>1. Secured(Chunk(f, q))
    BY <1>2 DEF Complete
  <2> QED
    BY <1>2, <2>1
<1> QED
  BY <1>1, <1>2 DEF Complete

LEMMA CompleteQuiet == ASSUME Complete, Quiet PROVE Complete'
<1>1. \A c : Secured(c)' = Secured(c)
  BY DEF Quiet, Secured, RecordedTimes, InCall, InRest
<1>2. pc' = "select" \/ (InCall' /\ ~call'.flushed) => pc = "select" \/ (InCall /\ ~call.flushed)
  BY DEF Quiet, InCall
<1>3. UNCHANGED <<streams, received, lastErr>>
  BY DEF Quiet
<1> QED
  BY <1>1, <1>2, <1>3, CompleteStays

LEMMA CompleteCall ==
  ASSUME IInv, Assembled, Counted, Outcome, Complete, InReassembledSteps
  PROVE  Complete'
<1>1. /\ InCall /\ call.rest # <<>> /\ call.rest \in Seq(Int) /\ call.flow \in Flows
      /\ UNCHANGED <<streams, received>>
      /\ Skips \/ Passes \/ Sends \/ Breaks \/ Records
  BY CallSteps
<1>2. InCall' /\ call'.flow = call.flow /\ call'.flushed = call.flushed
  BY <1>1 DEF InCall, Skips, Passes, Sends, Breaks, Records, Dropped, Leaves
<1>0. pc' = "select" \/ (InCall' /\ ~call'.flushed) => pc = "select" \/ (InCall /\ ~call.flushed)
  BY <1>1, <1>2 DEF InCall
<1>3. CASE Passes \/ Sends
  <2>1. UNCHANGED <<call, lastErr, recorded>>
    BY <1>3 DEF Passes, Sends
  <2>2. \A c : Secured(c)' = Secured(c)
    BY <1>1, <1>2, <2>1 DEF RecordedTimes, InRest, Secured
  <2> QED
    BY <1>0, <1>1, <2>1, <2>2, CompleteStays
<1>4. CASE Skips
  <2>1. UNCHANGED <<lastErr, recorded>> /\ ~Keep(call.flow)
    BY <1>4 DEF Skips
  <2>2. \A f \in Flows : \A q \in 1 .. Fin :
          Keep(f) /\ Secured(Chunk(f, q)) => Secured(Chunk(f, q))'
    BY <2>1 DEF RecordedTimes, InRest, Secured, Chunk
  <2> QED
    BY <1>0, <1>1, <2>1, <2>2, CompleteStays
<1>5. CASE Breaks
  <2>1. lastErr' # NoError
    BY <1>5 DEF Breaks, Outcome, NoError
  <2> QED
    BY <2>1 DEF Complete
<1>6. CASE Records
  <2>1. /\ call'.rest = Tail(call.rest) /\ UNCHANGED lastErr
        /\ recorded' = IF Keep(call.flow) THEN Append(recorded, Current) ELSE recorded
    BY <1>6 DEF Records, Leaves
  <2>2. \A x : Contains(call.rest, x) <=> x = Head(call.rest) \/ Contains(Tail(call.rest), x)
    BY <1>1, TailFewer DEF Assembled
  <2>3. ASSUME NEW c, Keep(call.flow)
        PROVE  RecordedTimes(c)' = RecordedTimes(c) + One(c = Current)
    <3>1. recorded' = Append(recorded, Current) /\ Current \in Observed /\ recorded \in Seq(Observed)
      BY <1>1, <2>1, <2>3, CurrentIs DEF Counted
    <3>2. TimesIn(recorded', c) = TimesIn(recorded, c) + One(c = Current)
      BY <3>1, TimesAppend
    <3> QED
      BY <3>2 DEF RecordedTimes, TimesIn
  <2>4. \A c : RecordedTimes(c) \in Nat
    BY RecordedIsNat
  <2>5. \A c : RecordedTimes(c) > 0 => RecordedTimes(c)' > 0
    <3>1. CASE Keep(call.flow)
      BY <2>3, <2>4, <3>1 DEF One
    <3>2. CASE ~Keep(call.flow)
      BY <2>1, <3>2 DEF RecordedTimes
    <3> QED
      BY <3>1, <3>2
  <2>6. ASSUME NEW f \in Flows, NEW q, f = call.flow, Keep(f), Contains(call.rest, q)
        PROVE  InRest(Chunk(f, q))' \/ RecordedTimes(Chunk(f, q))' > 0
    <3>1. CASE q = Head(call.rest)
      <4>1. Chunk(f, q) = Current
        BY <2>6, <3>1 DEF Current
      <4> QED
        BY <2>3, <2>4, <2>6, <4>1 DEF One
    <3>2. CASE Contains(Tail(call.rest), q)
      BY <1>2, <2>1, <2>6, <3>2 DEF InRest, Chunk
    <3> QED
      BY <2>2, <2>6, <3>1, <3>2
  <2>7. ASSUME NEW f \in Flows, NEW q \in 1 .. Fin, Keep(f), Secured(Chunk(f, q))
        PROVE  Secured(Chunk(f, q))'
    <3>1. CASE RecordedTimes(Chunk(f, q)) > 0
      BY <2>5, <3>1 DEF Secured
    <3>2. CASE InRest(Chunk(f, q))
      <4>1. f = call.flow /\ Contains(call.rest, q)
        BY <3>2 DEF InRest, Chunk
      <4> QED
        BY <2>6, <2>7, <4>1 DEF Secured
    <3> QED
      BY <2>7, <3>1, <3>2 DEF Secured
  <2> QED
    BY <1>0, <1>1, <2>1, <2>7, CompleteStays
<1> QED
  BY <1>1, <1>3, <1>4, <1>5, <1>6

\* What a stream had, and a packet for it, is handed over or stays with the stream.
LEMMA CompleteHands ==
  ASSUME IInv, Counted, ~InCall, NEW f \in Flows, NEW n \in Int, NEW m \in Int, n <= m,
         NEW pages, NEW flushed, Hands(f, n, m, pages, flushed), UNCHANGED recorded
  PROVE  /\ \A c : RecordedTimes(c) > 0 <=> Secured(c)
         /\ \A c : RecordedTimes(c) > 0 => Secured(c)'
         /\ \A c \in Observed : c.flow # f /\ InPages(c) => InPages(c)'
         /\ \A c \in Observed : c.flow = f /\ c.segment \in pages /\ c.segment >= n =>
              Secured(c)' \/ InPages(c)'
         /\ \A q \in n .. m - 1 : Secured(Chunk(f, q))'
         /\ streams'[f].next = m
         /\ \A g \in Flows : g # f => streams'[g] = streams[g]
<1>1. /\ streams'[f].pages = {q \in pages : q >= m} /\ streams'[f].next = m
      /\ \A g \in Flows : g # f => streams'[g] = streams[g]
  BY DEF Hands, Handed, IInv, Types
<1>2. InCall' /\ call'.flow = f /\ call'.rest = Numbers(n, m)
  BY DEF Hands, InCall
<1>3. \A x : Contains(call'.rest, x) <=> x \in n .. m - 1
  BY <1>2, NumbersAre
<1>4. \A q \in n .. m - 1 : InRest(Chunk(f, q))'
  BY <1>2, <1>3 DEF InRest, Chunk
<1>5. \A q \in n .. m - 1 : Secured(Chunk(f, q))'
  BY <1>4 DEF Secured
<1>6. \A c : RecordedTimes(c)' = RecordedTimes(c)
  BY DEF RecordedTimes
<1>7. \A c : RecordedTimes(c) > 0 <=> Secured(c)
  BY DEF Secured, InRest
<1>8. \A c : RecordedTimes(c) > 0 => Secured(c)'
  BY <1>6 DEF Secured
<1>9. ASSUME NEW c \in Observed, c.flow # f, InPages(c) PROVE InPages(c)'
  BY <1>1, <1>9, ObservedIs DEF InPages
<1>10. ASSUME NEW c \in Observed, c.flow = f, c.segment \in pages, c.segment >= n
       PROVE  Secured(c)' \/ InPages(c)'
  <2>1. c = Chunk(f, c.segment) /\ c.segment \in Int
    BY <1>10, FinIsInt, ObservedIs
  <2>2. CASE c.segment >= m
    BY <1>1, <1>10, <2>2 DEF InPages
  <2>3. CASE ~(c.segment >= m)
    <3>1. c.segment \in n .. m - 1
      BY <1>10, <2>1, <2>3
    <3> QED
      BY <1>5, <2>1, <3>1
  <2> QED
    BY <2>2, <2>3
<1> QED
  BY <1>1, <1>5, <1>7, <1>8, <1>9, <1>10

LEMMA CompleteReceive ==
  ASSUME IInv, Assembled, Counted, Outcome, Complete, Receive
  PROVE  Complete'
<1>1. PICK p \in Packets :
        /\ pc = "select" /\ Quietly /\ received' = [received EXCEPT ![p] = @ + 1]
        /\ p.flow \in Flows /\ p.segment \in 0 .. Fin /\ p = Chunk(p.flow, p.segment)
        /\ \/ Kept(p.flow, p.segment)
           \/ \E n, m, pages : Completes(p.flow, p.segment, n, m, pages)
  BY Received
<1> DEFINE f == p.flow
           q == p.segment
<1> HIDE DEF f, q
<1>2. /\ ~InCall /\ f \in Flows /\ p = Chunk(f, q) /\ UNCHANGED recorded
      /\ (Kept(f, q) \/ \E n, m, pages : Completes(f, q, n, m, pages))
  BY <1>1 DEF f, q, Quietly, InCall
<1>3. \A c \in Packets : c # p => received'[c] = received[c]
  BY <1>1 DEF Counted
<1>4. p.flow = f /\ p.segment = q
  BY DEF f, q
<1>5. lastErr = NoError /\ pc = "select"
  BY <1>1 DEF Outcome
<1>6. \A c \in Observed : received[c] > 0 => Secured(c) \/ InPages(c)
  BY <1>5 DEF Complete
<1>7. \A g \in Flows : Keep(g) =>
        \A x \in 1 .. Fin : x < streams[g].next => Secured(Chunk(g, x))
  BY <1>5 DEF Complete
<1>8. CASE Kept(f, q)
  <2>1. /\ streams'[f].pages = streams[f].pages \cup {q}
        /\ \A g \in Flows : streams'[g].next = streams[g].next /\ (g # f => streams'[g] = streams[g])
    BY <1>2, <1>8 DEF Kept, IInv, Types
  <2>2. ~InCall'
    BY <1>2, <1>8 DEF Kept, InCall
  <2>3. \A c : Secured(c)' = Secured(c)
    BY <1>2, <2>2 DEF Secured, RecordedTimes, InRest
  <2>4. ASSUME NEW c \in Observed, received'[c] > 0 PROVE Secured(c)' \/ InPages(c)'
    <3>1. CASE c = p
      BY <1>4, <2>1, <3>1 DEF InPages
    <3>2. CASE c # p
      <4>1. Secured(c) \/ InPages(c)
        BY <1>3, <1>6, <2>4, <3>2, ObservedIs
      <4>2. InPages(c) => InPages(c)'
        BY <2>1, ObservedIs DEF InPages
      <4> QED
        BY <2>3, <4>1, <4>2
    <3> QED
      BY <3>1, <3>2
  <2> QED
    BY <1>7, <2>1, <2>3, <2>4 DEF Complete
<1>9. ASSUME NEW n, NEW m, NEW pages, Completes(f, q, n, m, pages) PROVE Complete'
  <2>1. /\ n \in 1 .. Fin + 1 /\ m \in n .. Fin + 1 /\ Hands(f, n, m, pages, FALSE)
        /\ streams[f].next = n \/ (streams[f].next = Unknown /\ n = 1)
        /\ streams[f].pages \subseteq pages /\ (q # Syn => q \in pages)
    BY <1>9 DEF Completes
  <2>2. n \in Int /\ m \in Int /\ n <= m /\ n >= 1
    BY <2>1, FinIsInt
  <2>3. /\ \A c : RecordedTimes(c) > 0 <=> Secured(c)
        /\ \A c : RecordedTimes(c) > 0 => Secured(c)'
        /\ \A c \in Observed : c.flow # f /\ InPages(c) => InPages(c)'
        /\ \A c \in Observed : c.flow = f /\ c.segment \in pages /\ c.segment >= n =>
             Secured(c)' \/ InPages(c)'
        /\ \A x \in n .. m - 1 : Secured(Chunk(f, x))'
        /\ streams'[f].next = m
        /\ \A g \in Flows : g # f => streams'[g] = streams[g]
    BY <1>2, <2>1, <2>2, CompleteHands
  <2>4. \A x \in 1 .. Fin : Keep(f) /\ x < n => Secured(Chunk(f, x))
    BY <1>2, <1>7, <2>1, FinIsInt
  <2>5. ASSUME NEW c \in Observed, received'[c] > 0 PROVE Secured(c)' \/ InPages(c)'
    <3>1. /\ c \in Packets /\ c.flow \in Flows /\ Keep(c.flow)
          /\ c.segment \in 1 .. Fin /\ c.segment \in Int /\ c.segment >= 1
          /\ c = Chunk(c.flow, c.segment)
      BY ObservedIs, FinIsInt
    <3>2. CASE Secured(c)
      BY <2>3, <3>2
    <3>3. CASE InPages(c) /\ c.flow # f
      BY <2>3, <3>3
    <3>4. CASE InPages(c) /\ c.flow = f
      <4>1. c.segment \in streams[f].pages /\ c.segment \in pages
        BY <2>1, <3>4 DEF InPages
      <4>2. c.segment >= streams[f].next
        BY <1>2, <4>1 DEF Assembled
      <4>3. c.segment >= n
        BY <2>1, <3>1, <4>2
      <4> QED
        BY <2>3, <3>4, <4>1, <4>3
    <3>5. CASE c = p
      <4>1. c.flow = f /\ c.segment = q /\ q \in pages
        BY <1>4, <2>1, <3>1, <3>5 DEF Syn
      <4>2. CASE q >= n
        BY <2>3, <4>1, <4>2
      <4>3. CASE q < n
        <5>1. Secured(c)
          BY <2>4, <3>1, <4>1, <4>3
        <5> QED
          BY <2>3, <5>1
      <4> QED
        BY <2>2, <3>1, <4>1, <4>2, <4>3
    <3>6. c # p => Secured(c) \/ InPages(c)
      BY <1>3, <1>6, <2>5, <3>1
    <3> QED
      BY <3>2, <3>3, <3>4, <3>5, <3>6
  <2>6. ASSUME NEW g \in Flows, Keep(g), NEW x \in 1 .. Fin, x < streams'[g].next
        PROVE  Secured(Chunk(g, x))'
    <3>1. CASE g # f
      BY <1>7, <2>3, <2>6, <3>1
    <3>2. CASE g = f /\ x < n
      BY <2>3, <2>4, <2>6, <3>2
    <3>3. CASE g = f /\ ~(x < n)
      <4>1. x \in n .. m - 1
        BY <2>2, <2>3, <2>6, <3>3, FinIsInt
      <4> QED
        BY <2>3, <3>3, <4>1
    <3> QED
      BY <3>1, <3>2, <3>3
  <2> QED
    BY <2>5, <2>6 DEF Complete
<1> QED
  BY <1>2, <1>8, <1>9

LEMMA CompleteFlush ==
  ASSUME IInv, Assembled, Counted, Complete, NEW f \in Flows, FlushNext(f)
  PROVE  Complete'
<1>1. /\ ~InCall /\ UNCHANGED <<recorded, received, lastErr>>
      /\ CompletesOnly(f) \/ \E n, m : Flushes(f, n, m)
  BY Flushed DEF Quietly, InCall
<1>2. ASSUME lastErr' = NoError, NEW c \in Observed, received'[c] > 0
      PROVE  Secured(c) \/ InPages(c)
  BY <1>1, <1>2 DEF Complete
<1>3. CASE CompletesOnly(f)
  <2>1. call'.rest = <<>> /\ call'.flushed = TRUE /\ pc' # "select" /\ UNCHANGED streams
    BY <1>3 DEF CompletesOnly
  <2>2. \A c : Secured(c)' = Secured(c) /\ InPages(c)' = InPages(c)
    BY <1>1, <2>1, NothingContains DEF Secured, RecordedTimes, InRest, InPages
  <2> QED
    BY <1>2, <2>1, <2>2 DEF Complete
<1>4. ASSUME NEW n, NEW m, Flushes(f, n, m) PROVE Complete'
  <2> DEFINE pages == streams[f].pages
  <2>1. n \in 1 .. Fin + 1 /\ m \in n .. Fin + 1 /\ Hands(f, n, m, pages, TRUE)
        /\ \A q \in pages : q >= n
    <3>1. n \in 1 .. Fin + 1 /\ m \in n .. Fin + 1 /\ Hands(f, n, m, pages, TRUE)
          /\ \A q \in pages : n <= q
      BY <1>4 DEF Flushes
    <3>2. \A q \in pages : q \in Int
      BY FinIsInt DEF IInv, Types, Stream
    <3>3. n \in Int
      BY <3>1, FinIsInt
    <3> QED
      BY <3>1, <3>2, <3>3
  <2>2. n \in Int /\ m \in Int /\ n <= m
    BY <2>1, FinIsInt
  <2>3. call'.flushed = TRUE /\ pc' # "select"
    BY <2>1 DEF Hands
  <2> HIDE DEF pages
  <2>4. /\ \A c : RecordedTimes(c) > 0 <=> Secured(c)
        /\ \A c : RecordedTimes(c) > 0 => Secured(c)'
        /\ \A c \in Observed : c.flow # f /\ InPages(c) => InPages(c)'
        /\ \A c \in Observed : c.flow = f /\ c.segment \in pages /\ c.segment >= n =>
             Secured(c)' \/ InPages(c)'
    BY <1>1, <2>1, <2>2, CompleteHands
  <2>5. ASSUME NEW c \in Observed, c.flow = f, InPages(c)
        PROVE  c.segment \in pages /\ c.segment >= n
    BY <2>1, <2>5 DEF InPages, pages
  <2>6. ASSUME lastErr' = NoError, NEW c \in Observed, received'[c] > 0
        PROVE  Secured(c)' \/ InPages(c)'
    BY <1>2, <2>4, <2>5, <2>6
  <2> QED
    BY <2>3, <2>6 DEF Complete
<1> QED
  BY <1>1, <1>3, <1>4

LEMMA CompleteEnd == ASSUME IInv, Assembled, Complete, EndCall PROVE Complete'
<1>1. /\ InCall /\ ~InCall' /\ call.rest = <<>>
      /\ pc' = "select" => ~call.flushed
      /\ UNCHANGED <<recorded, received, lastErr>>
  BY CallEnded DEF InCall
<1>2. PICK f \in Flows : f = call.flow
  BY CallEnded
<1>3. \A c : Secured(c)' = Secured(c)
  BY <1>1, NothingContains DEF Secured, RecordedTimes, InRest
<1>4. CASE UNCHANGED streams
  BY <1>1, <1>3, <1>4, CompleteStays
<1>5. CASE call.end /\ ReassemblyComplete(f)
  <2>1. streams'[f].next = Unknown /\ \A g \in Flows : g # f => streams'[g] = streams[g]
    BY <1>2, <1>5 DEF ReassemblyComplete, NoStream, IInv, Types
  <2>2. streams[f].pages = {}
    BY <1>1, <1>2, <1>5 DEF Assembled
  <2>3. ASSUME lastErr' = NoError, NEW c \in Observed, received'[c] > 0
        PROVE  Secured(c)' \/ InPages(c)'
    <3>1. Secured(c) \/ InPages(c)
      BY <1>1, <2>3 DEF Complete
    <3>2. InPages(c) => InPages(c)'
      BY <2>1, <2>2, ObservedIs DEF InPages
    <3> QED
      BY <1>3, <3>1, <3>2
  <2>4. ASSUME lastErr' = NoError, pc' = "select", NEW g \in Flows, Keep(g),
               NEW x \in 1 .. Fin, x < streams'[g].next
        PROVE  Secured(Chunk(g, x))'
    <3>1. g # f
      BY <2>1, <2>4, FinIsInt DEF Unknown
    <3>2. x < streams[g].next
      BY <2>1, <2>4, <3>1
    <3>3. Secured(Chunk(g, x))
      BY <1>1, <2>4, <3>2 DEF Complete
    <3> QED
      BY <1>3, <3>3
  <2> QED
    BY <1>1, <2>3, <2>4 DEF Complete
<1> QED
  BY <1>2, <1>4, <1>5, CallEnded

-----------------------------------------------------------------------------
(* The data of Start, all together.                                         *)

DataInv == Assembled /\ Ordered /\ Counted /\ Outcome /\ Matched /\ Complete

LEMMA DataInit == Init => DataInv
<1> SUFFICES ASSUME Init PROVE DataInv
  OBVIOUS
<1>1. /\ pc = "select" /\ ~InCall /\ recorded = <<>> /\ lastErr = NoError
      /\ failures = 0 /\ result = Pending
      /\ \A f \in Flows : streams[f] = NoStream /\ conns[f] = <<>> /\ forwardConn[f] = 0
      /\ \A c \in Packets : received[c] = 0
      /\ received = [c \in Packets |-> 0]
  BY DEF Init, InCall
<1>2. NoStream.open = FALSE /\ NoStream.next = Unknown /\ NoStream.pages = {}
  BY DEF NoStream
<1>3. Assembled
  BY <1>1, <1>2 DEF Assembled
<1>4. Ordered
  <2>1. \A f \in Flows : Sent(f) = <<>>
    BY <1>1 DEF Sent
  <2> QED
    BY <1>1, <2>1, NothingContains DEF Ordered
<1>5. \A c : RecordedTimes(c) = 0
  <2>1. \A c : {i \in 1 .. Len(recorded) : recorded[i] = c} = {}
    BY <1>1
  <2> QED
    BY <2>1, FS_EmptySet DEF RecordedTimes
<1>6. ASSUME NEW c \in Packets PROVE ~InRest(c) /\ ~InPages(c)
  BY <1>1, <1>2, PacketIs DEF InRest, InPages
<1>7. Counted
  <2>1. recorded \in Seq(Observed) /\ received \in [Packets -> Nat]
    BY <1>1
  <2>2. \A c \in Packets : RecordedTimes(c) + One(InRest(c)) + One(InPages(c)) <= received[c]
    BY <1>1, <1>5, <1>6 DEF One
  <2> QED
    BY <1>1, <1>2, <2>1, <2>2 DEF Counted
<1>8. Outcome
  BY <1>1 DEF Outcome, NoError, Pending
<1>9. Matched
  <2>1. ASSUME NEW c \in Observed PROVE ForwardedTimes(c) = 0
    <3>1. conns[c.flow] = <<>>
      BY <1>1, ObservedIs
    <3>2. {i \in 1 .. Len(conns[c.flow]) : Contains(conns[c.flow][i].sent, c.segment)} = {}
      BY <3>1
    <3> QED
      BY <3>2, FS_EmptySet DEF ForwardedTimes
  <2>2. \A c \in Observed : Due(c) = 0
    BY <1>1, NotDue
  <2> QED
    BY <1>5, <2>1, <2>2 DEF Matched
<1>10. Complete
  <2>1. \A c \in Observed : received[c] = 0
    BY <1>1, ObservedIs
  <2>2. ASSUME NEW f \in Flows, NEW q \in 1 .. Fin PROVE ~(q < streams[f].next)
    BY <1>1, <1>2, FinIsInt DEF Unknown
  <2> QED
    BY <2>1, <2>2 DEF Complete
<1> QED
  BY <1>3, <1>4, <1>7, <1>8, <1>9, <1>10 DEF DataInv

LEMMA DataStep == IInv /\ DataInv /\ [Next]_vars => DataInv'
<1> SUFFICES ASSUME IInv, DataInv, [Next]_vars PROVE DataInv'
  OBVIOUS
<1>1. Assembled /\ Ordered /\ Counted /\ Outcome /\ Matched /\ Complete
  BY DEF DataInv
<1>2. Outcome'
  BY <1>1, OutcomeStep
<1>3. CASE Receive
  BY <1>1, <1>2, <1>3, AssembledReceive, OrderedReceive, CountedReceive, MatchedAssembler,
     CompleteReceive DEF DataInv
<1>4. ASSUME NEW f \in Flows, FlushNext(f) PROVE DataInv'
  BY <1>1, <1>2, <1>4, AssembledFlush, OrderedFlush, CountedFlush, MatchedAssembler,
     CompleteFlush DEF DataInv
<1>5. CASE InReassembledSteps
  BY <1>1, <1>2, <1>5, AssembledCall, OrderedCall, CountedCall, MatchedCall, CompleteCall DEF DataInv
<1>6. CASE EndCall
  BY <1>1, <1>2, <1>6, AssembledEnd, OrderedEnd, CountedEnd, MatchedEnd, CompleteEnd DEF DataInv
<1>7. ASSUME Quiet PROVE DataInv'
  BY <1>1, <1>2, <1>7, AssembledQuiet, OrderedQuiet, CountedQuiet, MatchedQuiet, CompleteQuiet
     DEF DataInv
<1> QED
  BY <1>3, <1>4, <1>5, <1>6, <1>7, QuietSteps DEF Next, Start, InReassembledSteps

LEMMA DataAlways == Spec => [](IInv /\ DataInv)
<1>1. Init => IInv /\ DataInv
  BY InvInit, DataInit
<1>2. IInv /\ DataInv /\ [Next]_vars => (IInv /\ DataInv)'
  BY InvStep, DataStep
<1> QED
  BY <1>1, <1>2, PTL DEF Spec

\* What goes to the target on one connection is in order and without repetition: the
\* assembler hands over only what comes behind all it has handed over, and a connection
\* is never used by two streams.
THEOREM TargetSeesOrder == Spec => []ForwardedInOrder
<1>1. IInv /\ DataInv => ForwardedInOrder
  BY DEF DataInv, Ordered, Increasing, ForwardedInOrder
<1> QED
  BY <1>1, DataAlways, PTL

\* The record holds what was sent and no more, as often as it was sent and at most as
\* often as it was captured.
THEOREM RecordMatchesTarget == Spec => []RecordFollowsForward
<1>1. IInv /\ DataInv => RecordFollowsForward
  <2> SUFFICES ASSUME IInv, DataInv PROVE RecordFollowsForward
    OBVIOUS
  <2>1. Counted /\ Matched /\ Outcome
    BY DEF DataInv
  <2>2. ASSUME NEW c \in Observed PROVE RecordedTimes(c) <= received[c]
    <3>1. RecordedTimes(c) + One(InRest(c)) + One(InPages(c)) <= received[c] /\ received[c] \in Nat
      BY <2>1, ObservedIs DEF Counted
    <3>2. RecordedTimes(c) \in Nat
      BY <2>1, RecordedIsNat
    <3> QED
      BY <3>1, <3>2 DEF One
  <2>3. \A i \in 1 .. Len(recorded) : recorded[i] \in Observed
    BY <2>1 DEF Counted
  <2>4. ASSUME target, NEW c \in Observed
        PROVE  /\ RecordedTimes(c) <= ForwardedTimes(c)
               /\ pc = "select" => RecordedTimes(c) = ForwardedTimes(c)
    <3>1. /\ RecordedTimes(c) + Due(c) <= ForwardedTimes(c)
          /\ lastErr = NoError => RecordedTimes(c) + Due(c) = ForwardedTimes(c)
      BY <2>1, <2>4 DEF Matched
    <3>2. RecordedTimes(c) \in Nat /\ ForwardedTimes(c) \in Nat /\ Due(c) \in 0 .. 1
      BY <2>1, RecordedIsNat, ForwardedIs, ObservedIs DEF Due, One
    <3>3. pc = "select" => lastErr = NoError /\ Due(c) = 0
      BY <2>1, NotDue DEF Outcome
    <3> QED
      BY <3>1, <3>2, <3>3
  <2> QED
    BY <2>2, <2>3, <2>4 DEF RecordFollowsForward
<1> QED
  BY <1>1, DataAlways, PTL

\* When Start has returned and nothing failed, or it reports success, every piece of
\* data it took from the source has been sent and recorded: nothing is left in a
\* stream or in a call.
THEOREM AllDataDelivered == Spec => []NothingLost
<1>1. IInv /\ DataInv => NothingLost
  <2> SUFFICES ASSUME IInv, DataInv, pc = "returned", lastErr = NoError \/ result = NoError,
                      NEW c \in Observed, received[c] > 0
               PROVE  RecordedTimes(c) > 0 /\ (target => ForwardedTimes(c) > 0)
    BY DEF NothingLost
  <2>1. Assembled /\ Counted /\ Matched /\ Outcome /\ Complete
    BY DEF DataInv
  <2>2. lastErr = NoError
    BY <2>1 DEF Outcome
  <2>3. ~InRest(c) /\ ~InPages(c)
    <3>1. streams[c.flow].pages = {}
      BY <2>1, ObservedIs DEF Assembled, IInv, Places
    <3> QED
      BY <3>1 DEF InRest, InCall, InPages
  <2>4. RecordedTimes(c) > 0
    BY <2>1, <2>2, <2>3 DEF Complete, Secured
  <2>5. ASSUME target PROVE ForwardedTimes(c) > 0
    <3>1. RecordedTimes(c) + Due(c) <= ForwardedTimes(c)
      BY <2>1, <2>5 DEF Matched
    <3>2. RecordedTimes(c) \in Nat /\ ForwardedTimes(c) \in Nat /\ Due(c) = 0
      BY <2>1, RecordedIsNat, ForwardedIs, ObservedIs, NotDue
    <3> QED
      BY <2>4, <3>1, <3>2
  <2> QED
    BY <2>4, <2>5
<1> QED
  BY <1>1, DataAlways, PTL

-----------------------------------------------------------------------------
(* Types.                                                                   *)

LEMMA BoundedInit == Init => Bounded
<1> SUFFICES ASSUME Init PROVE Bounded
  OBVIOUS
<1>1. forwarder \in [Devices -> {Receiving, Stopped, Panicked} \cup {Sending(p) : p \in Packets}]
  BY DEF Init, SourceInit
<1>2. packets = <<>> /\ <<>> \in Seq(Packets) /\ Len(<<>>) = 0 /\ 0 <= Capacity
  BY CaptureAssumption DEF Init, SourceInit
<1>3. packets \in Seq(Packets) /\ Len(packets) <= Capacity
  BY <1>2
<1> QED
  BY <1>1, <1>3 DEF Init, SourceInit, Bounded, SourceTypeOK

LEMMA BoundedStep == IInv /\ IInv' /\ Bounded /\ [Next]_vars => Bounded'
<1> SUFFICES ASSUME IInv, IInv', Bounded, [Next]_vars PROVE Bounded'
  OBVIOUS
<1> DEFINE Rest == /\ live' \in BOOLEAN /\ closed' \in BOOLEAN /\ done' \in BOOLEAN /\ captured' \in Nat
                   /\ Len(packets') <= Capacity
           Control == /\ target' \in BOOLEAN /\ cancelled' \in BOOLEAN
                      /\ pc' \in {"select", "forward", "record", "flush", "close", "closing", "returned"}
<1>1. packets' \in Seq(Packets)
      /\ forwarder' \in [Devices -> {Receiving, Stopped, Panicked} \cup {Sending(p) : p \in Packets}]
  BY DEF IInv, Types, NoSender
<1>2. packets \in Seq(Packets) /\ Len(packets) \in Nat /\ Len(packets) <= Capacity /\ Capacity \in Nat
  BY CaptureAssumption DEF Bounded, SourceTypeOK
<1>3. Rest
  <2> USE DEF Bounded, SourceTypeOK
  <2>1. CASE UNCHANGED source
    BY <1>2, <2>1 DEF source
  <2>2. CASE Receive
    <3>1. Len(Tail(packets)) <= Len(packets)
      BY <1>2, <2>2 DEF Receive
    <3> QED
      BY <1>2, <2>2, <3>1 DEF Receive
  <2>3. CASE Close \/ CloseReturns
    BY <1>2, <2>3 DEF Close, CloseReturns, CloseDone, ClosePackets, source
  <2>4. ASSUME NEW d \in Devices, DeviceEnds(d) \/ StopForwarding(d) \/ \E p \in Packets : Capture(d, p)
        PROVE  Rest
    BY <1>2, <2>4 DEF DeviceEnds, StopForwarding, Capture
  <2>5. ASSUME NEW d \in Devices, Enqueue(d) PROVE Rest
    BY <1>2, <2>5 DEF Enqueue
  <2>6. ASSUME NEW p \in Packets, ChannelSend(p) PROVE Rest
    BY <1>2, <2>6 DEF ChannelSend
  <2>7. CASE ChannelClose
    BY <1>2, <2>7 DEF ChannelClose
  <2>8. CASE SourceNext
    BY <2>4, <2>5, <2>6, <2>7, <2>8 DEF SourceNext
  <2>9. CASE Start
    <3>1. Receive \/ Close \/ CloseReturns \/ UNCHANGED source
      BY <2>9 DEF Start, Interrupted, Drained, StartFlush, FlushDone, FlushNext, IgnoreCall,
         NotForwarded, ForwardChunk, ForwardFails, RecordChunk, RecordFails, EndCall, Deliver
    <3> QED
      BY <2>1, <2>2, <2>3, <3>1
  <2> QED
    BY <2>1, <2>8, <2>9 DEF Next, Cancel, vars
<1>4. Control
  <2> USE DEF Bounded
  <2>1. CASE \/ UNCHANGED vars \/ Cancel
             \/ UNCHANGED <<target, cancelled, pc, result, streams, session, received>>
    BY <2>1 DEF vars, Cancel
  <2>2. CASE Start
    <3>1. UNCHANGED <<target, cancelled>>
      BY <2>2 DEF Start, Receive, Close, CloseReturns, Interrupted, Drained, StartFlush, FlushDone,
         FlushNext, IgnoreCall, NotForwarded, ForwardChunk, ForwardFails, RecordChunk, RecordFails,
         EndCall, Deliver
    <3>2. pc' \in {"select", "forward", "record", "flush", "close", "closing", "returned"}
      BY <2>2 DEF Start, Receive, Assemble, Buffer, HandOver, Close, CloseReturns, Interrupted, Drained,
         StartFlush, FlushDone, FlushNext, IgnoreCall, NotForwarded, ForwardChunk, ForwardFails, Fail,
         RecordChunk, RecordFails, NextChunk, EndCall
    <3> QED
      BY <3>1, <3>2
  <2> QED
    BY <2>1, <2>2 DEF Next
<1> QED
  BY <1>1, <1>3, <1>4 DEF Bounded, SourceTypeOK

\* Every variable has its type: a stream holds data segments only, and the failure that
\* Start returns is one that has happened.
THEOREM MirrorTypeCorrect == Spec => []TypeOK
<1>1. IInv /\ DataInv /\ Bounded => TypeOK
  <2> SUFFICES ASSUME IInv, DataInv, Bounded PROVE TypeOK
    OBVIOUS
  <2>1. Assembled /\ Outcome
    BY DEF DataInv
  <2>2. ASSUME NEW f \in Flows
        PROVE  streams[f] \in [open : BOOLEAN, next : Unknown .. Fin + 1, pages : SUBSET (1 .. Fin)]
    <3>1. streams[f] \in Stream /\ Fin \in Nat
      BY SegmentsAssumption DEF IInv, Types, Fin
    <3>2. streams[f].next \in Unknown .. Fin + 1
      BY <2>1, <3>1 DEF Assembled, Unknown
    <3>3. streams[f].pages \subseteq 1 .. Fin
      <4>1. streams[f].pages \subseteq 0 .. Fin
        BY <3>1 DEF Stream
      <4>2. \A q \in streams[f].pages : q # 0
        BY <2>1 DEF Assembled
      <4> QED
        BY <3>1, <4>1, <4>2
    <3> QED
      BY <3>1, <3>2, <3>3 DEF Stream
  <2>3. streams \in [Flows -> [open : BOOLEAN, next : Unknown .. Fin + 1, pages : SUBSET (1 .. Fin)]]
    BY <2>2 DEF IInv, Types
  <2>4. \A f \in Flows : forwardConn[f] \in 0 .. Len(conns[f])
    BY DEF IInv, Types, Owned
  <2>5. call.flow \in Flows \cup {"none"}
    BY DEF IInv, Types, Calls
  <2> QED
    BY <2>1, <2>3, <2>4, <2>5 DEF Outcome, Bounded, TypeOK
<1>2. Init => IInv /\ DataInv /\ Bounded
  BY InvInit, DataInit, BoundedInit
<1>3. IInv /\ DataInv /\ Bounded /\ [Next]_vars => (IInv /\ DataInv /\ Bounded)'
  BY InvStep, DataStep, BoundedStep
<1> QED
  BY <1>1, <1>2, <1>3, PTL DEF Spec

-----------------------------------------------------------------------------
(* Start goes on.                                                           *)

\* The stream of f is in the call that ends it.
Completing(f) == InCall /\ call.flow = f /\ call.end

\* What FlushAll would have to do: the data that streams hold, and to complete each.
Owes(f, q) == q \in streams[f].pages \/ (q = 0 /\ streams[f].open /\ ~Completing(f))
Held == {h \in Flows \X (0 .. Fin) : Owes(h[1], h[2])}

\* What Start has before it in the call under way, and to get to its end.
Ahead ==
  CASE pc = "forward" -> 5 + 2 * Len(call.rest)
    [] pc = "record"  -> 4 + 2 * Len(call.rest)
    [] pc = "select"  -> 4
    [] pc = "flush"   -> 3
    [] pc = "close"   -> 2
    [] pc = "closing" -> 1
    [] pc = "returned" -> 0

\* Unless it receives a packet, Start has less before it after a step; and nobody else
\* gives it more to do.
Advances ==
  /\ Start /\ ~Receive =>
       \/ Cardinality(Held)' < Cardinality(Held)
       \/ Held' = Held /\ Ahead' < Ahead
  /\ ~Start => UNCHANGED <<Held, Ahead>>

Stages == pc \in {"select", "forward", "record", "flush", "close", "closing", "returned"}

LEMMA StagesStep == Stages /\ [Next]_vars => Stages'
BY DEF Stages, Next, Start, Receive, Assemble, Buffer, HandOver, FlushNext, Interrupted, Drained,
  StartFlush, FlushDone, Close, CloseReturns, IgnoreCall, NotForwarded, ForwardChunk, ForwardFails, Fail,
  RecordChunk, RecordFails, NextChunk, EndCall, Cancel, vars

LEMMA AheadIs ==
  ASSUME IInv, Stages
  PROVE  Ahead \in Nat
<1>1. pc \in {"forward", "record"} => Len(call.rest) \in Nat
  BY InReassembled, LenProperties
<1> QED
  BY <1>1 DEF Ahead, Stages

LEMMA HeldLess ==
  ASSUME IsFiniteSet(Held), Held' \in SUBSET Held
  PROVE  /\ IsFiniteSet(Held')
         /\ Held' # Held => Cardinality(Held') < Cardinality(Held)
<1>1. /\ IsFiniteSet(Held') /\ Cardinality(Held') <= Cardinality(Held)
      /\ Cardinality(Held) = Cardinality(Held') => Held = Held'
  BY FS_Subset
<1>2. Cardinality(Held) \in Nat /\ Cardinality(Held') \in Nat
  BY <1>1, FS_CardinalityType
<1> QED
  BY <1>1, <1>2

\* FlushAll turns to a stream and takes something from it.
LEMMA FlushTakes ==
  ASSUME IInv, Assembled, NEW f \in Flows, FlushNext(f)
  PROVE  Held' \in SUBSET Held /\ Held' # Held
<1>1. pc = "flush" /\ ~InCall /\ streams[f].open
  BY DEF FlushNext, InCall
<1>2. \A g \in Flows : ~Completing(g)
  BY <1>1 DEF Completing
<1>3. streams \in [Flows -> Stream] /\ streams[f].pages \in SUBSET (0 .. Fin) /\ Fin \in Nat
  BY SegmentsAssumption DEF IInv, Types, Stream, Fin
<1>4. CASE CompletesOnly(f)
  <2>1. \A g \in Flows, q \in 0 .. Fin : Owes(g, q)' => Owes(g, q)
    BY <1>2, <1>4 DEF Owes, CompletesOnly
  <2>2. Owes(f, 0) /\ ~Owes(f, 0)'
    BY <1>1, <1>2, <1>4 DEF Owes, CompletesOnly, Completing, InCall
  <2>3. <<f, 0>> \in Held /\ <<f, 0>> \notin Held'
    BY <1>3, <2>2 DEF Held
  <2> QED
    BY <2>1, <2>3 DEF Held
<1>5. ASSUME NEW n \in streams[f].pages, HandOver(f, n, streams[f].pages, TRUE)
      PROVE  Held' \in SUBSET Held /\ Held' # Held
  <2> DEFINE length == Cardinality(Run(n, streams[f].pages))
  <2>1. n \in 0 .. Fin /\ n \in Int /\ n # 0
    BY <1>3 DEF Assembled
  <2>2. length \in Nat /\ Run(n, streams[f].pages) = n .. n + length - 1
    BY <1>3, <2>1, RunIsInterval
  <2>3. n \in Run(n, streams[f].pages)
    <3>1. n .. n = {n}
      BY <2>1
    <3> QED
      BY <2>1, <3>1 DEF Run
  <2>4. length > 0
    BY <2>1, <2>2, <2>3
  <2>5. streams' = [streams EXCEPT ![f] = Handed(streams[f].pages, n + length)]
    BY <1>5 DEF HandOver, Handed
  <2> HIDE DEF length
  <2>6. streams'[f].pages \subseteq streams[f].pages /\ n \notin streams'[f].pages
    BY <1>3, <2>1, <2>2, <2>4, <2>5 DEF Handed
  <2>7. \A g \in Flows, q \in 0 .. Fin : Owes(g, q)' => Owes(g, q)
    BY <1>1, <1>2, <1>3, <2>5, <2>6 DEF Owes
  <2>8. Owes(f, n) /\ ~Owes(f, n)'
    BY <2>1, <2>6 DEF Owes
  <2>9. <<f, n>> \in Held /\ <<f, n>> \notin Held'
    BY <2>1, <2>8 DEF Held
  <2> QED
    BY <2>7, <2>9 DEF Held
<1>6. \/ CompletesOnly(f)
      \/ \E n \in streams[f].pages : HandOver(f, n, streams[f].pages, TRUE)
  <2>1. CASE /\ streams[f].pages = {}
             /\ call' = [flow |-> f, rest |-> <<>>, end |-> TRUE, flushed |-> TRUE]
             /\ pc' = "forward"
             /\ UNCHANGED streams
    BY <2>1 DEF CompletesOnly
  <2> QED
    BY <2>1 DEF FlushNext
<1> QED
  BY <1>4, <1>5, <1>6

\* Reassembled deals with a chunk, or gives up; nothing of what the streams hold changes.
LEMMA CallAdvances ==
  ASSUME IInv, InReassembledSteps
  PROVE  Held' = Held /\ Ahead' < Ahead
<1>1. /\ pc \in {"forward", "record"} /\ call.rest # <<>> /\ call.rest \in Seq(Int)
      /\ UNCHANGED streams
      /\ Skips \/ Passes \/ Sends \/ Breaks \/ Records
  BY CallSteps DEF InCall
<1>2. pc' \in {"forward", "record"} /\ call'.flow = call.flow /\ call'.end = call.end
  BY <1>1 DEF Skips, Passes, Sends, Breaks, Records, Dropped, Leaves
<1>3. Held' = Held
  <2>1. \A f \in Flows, q \in 0 .. Fin : Owes(f, q)' <=> Owes(f, q)
    BY <1>1, <1>2 DEF Owes, Completing, InCall
  <2> QED
    BY <2>1 DEF Held
<1>4. Len(call.rest) \in Nat \ {0} /\ Len(Tail(call.rest)) = Len(call.rest) - 1 /\ Len(<<>>) = 0
  BY <1>1, LenProperties, EmptySeq, HeadTailProperties
<1>5. Ahead \in {5 + 2 * Len(call.rest), 4 + 2 * Len(call.rest)}
  BY <1>1 DEF Ahead
<1>6. CASE Skips \/ Breaks
  <2>1. Ahead' = 5
    BY <1>4, <1>6 DEF Skips, Breaks, Dropped, Leaves, Ahead
  <2> QED
    BY <1>3, <1>4, <1>5, <2>1
<1>7. CASE Passes \/ Sends
  <2>1. Ahead = 5 + 2 * Len(call.rest) /\ Ahead' = 4 + 2 * Len(call.rest)
    BY <1>7 DEF Passes, Sends, Ahead
  <2> QED
    BY <1>3, <1>4, <2>1
<1>8. CASE Records
  <2>1. Ahead = 4 + 2 * Len(call.rest) /\ Ahead' = 5 + 2 * Len(Tail(call.rest))
    BY <1>8 DEF Records, Leaves, Ahead
  <2> QED
    BY <1>3, <1>4, <2>1
<1> QED
  BY <1>1, <1>6, <1>7, <1>8

\* Reassembled has returned, and ends the stream if it was the last call for it.
LEMMA EndAdvances ==
  ASSUME IInv, EndCall
  PROVE  Held' \in SUBSET Held /\ Ahead' < Ahead
<1>1. /\ pc = "forward" /\ call.rest = <<>> /\ pc' \in {"flush", "select"} /\ call.flow \in Flows
      /\ \/ ~call.end /\ UNCHANGED streams
         \/ call.end /\ ReassemblyComplete(call.flow)
  BY CallEnded
<1>2. ~InCall' /\ streams \in [Flows -> Stream]
  BY <1>1 DEF InCall, IInv, Types
<1>3. \A f \in Flows, q \in 0 .. Fin : Owes(f, q)' => Owes(f, q)
  BY <1>1, <1>2 DEF Owes, Completing, ReassemblyComplete, NoStream
<1>4. Ahead = 5 /\ Ahead' \in {3, 4}
  <2>1. Len(<<>>) = 0
    BY EmptySeq
  <2> QED
    BY <1>1, <2>1 DEF Ahead
<1> QED
  BY <1>3, <1>4 DEF Held

\* Start turns to FlushAll, and to its end.
LEMMA LeaveAdvances ==
  ASSUME IInv, Interrupted \/ Drained \/ FlushDone \/ Close \/ CloseReturns
  PROVE  Held' = Held /\ Ahead' < Ahead
<1>1. /\ ~InCall /\ ~InCall' /\ UNCHANGED streams
      /\ \/ pc = "select" /\ pc' = "flush"
         \/ pc = "flush" /\ pc' = "close"
         \/ pc = "close" /\ pc' \in {"closing", "returned"}
         \/ pc = "closing" /\ pc' = "returned"
  BY DEF Interrupted, Drained, StartFlush, FlushDone, Close, CloseReturns, InCall
<1>2. Held' = Held
  BY <1>1 DEF Held, Owes, Completing
<1>3. Ahead' < Ahead
  BY <1>1 DEF Ahead
<1> QED
  BY <1>2, <1>3

\* A packet adds at most its segment, and the stream of its flow.
LEMMA HeldFinite ==
  ASSUME IInv, Assembled, IsFiniteSet(Held), Receive
  PROVE  IsFiniteSet(Held')
<1>1. PICK p \in Packets :
        /\ pc = "select" /\ p.flow \in Flows
        /\ Kept(p.flow, p.segment) \/ \E n, m, pages : Completes(p.flow, p.segment, n, m, pages)
  BY Received
<1> DEFINE f == p.flow
           q == p.segment
<1>2. streams \in [Flows -> Stream] /\ \A g \in Flows : ~Completing(g)
  BY <1>1 DEF IInv, Types, Completing, InCall
<1>3. /\ streams' = [streams EXCEPT ![f] = streams'[f]]
      /\ streams'[f].pages \subseteq streams[f].pages \cup {q}
  <2>1. CASE Kept(f, q)
    BY <1>1, <1>2, <2>1 DEF Kept
  <2>2. ASSUME NEW n, NEW m, NEW pages, Completes(f, q, n, m, pages)
        PROVE  /\ streams' = [streams EXCEPT ![f] = streams'[f]]
               /\ streams'[f].pages \subseteq streams[f].pages \cup {q}
    <3>1. streams' = [streams EXCEPT ![f] = Handed(pages, m)] /\ pages \subseteq streams[f].pages \cup {q}
      BY <2>2 DEF Completes, Hands
    <3>2. streams'[f] = Handed(pages, m)
      BY <1>1, <1>2, <3>1
    <3>3. Handed(pages, m).pages \subseteq pages
      BY DEF Handed
    <3> QED
      BY <3>1, <3>2, <3>3
  <2> QED
    BY <1>1, <2>1, <2>2
<1> HIDE DEF f, q
<1>4. \A g \in Flows, r \in 0 .. Fin : Owes(g, r)' => Owes(g, r) \/ <<g, r>> \in {<<f, q>>, <<f, 0>>}
  BY <1>2, <1>3 DEF Owes
<1>5. Held' \in SUBSET ((Held \cup {<<f, q>>}) \cup {<<f, 0>>})
  BY <1>4 DEF Held
<1>6. IsFiniteSet((Held \cup {<<f, q>>}) \cup {<<f, 0>>})
  BY FS_AddElement
<1> QED
  BY <1>5, <1>6, FS_Subset

LEMMA OthersAdd ==
  ASSUME ~Start, [Next]_vars
  PROVE  UNCHANGED <<Held, Ahead>>
<1>1. UNCHANGED <<pc, streams, call>>
  BY DEF Next, Cancel, session, vars
<1> QED
  BY <1>1 DEF Held, Owes, Completing, InCall, Ahead

LEMMA StartAdvances ==
  ASSUME IInv, Assembled, Start, ~Receive
  PROVE  Held' \in SUBSET Held /\ (Held' = Held => Ahead' < Ahead)
BY FlushTakes, CallAdvances, EndAdvances, LeaveAdvances DEF Start, InReassembledSteps

LEMMA FiniteStep == IInv /\ Assembled /\ IsFiniteSet(Held) /\ [Next]_vars => IsFiniteSet(Held')
<1> SUFFICES ASSUME IInv, Assembled, IsFiniteSet(Held), [Next]_vars PROVE IsFiniteSet(Held')
  OBVIOUS
<1>1. CASE Receive
  BY <1>1, HeldFinite
<1>2. CASE ~Start
  BY <1>2, OthersAdd
<1>3. CASE Start /\ ~Receive
  BY <1>3, StartAdvances, HeldLess
<1> QED
  BY <1>1, <1>2, <1>3

\* Between two packets, and after the last one, Start takes only so many steps: every
\* call of Reassembled returns, whatever fails in it, FlushAll comes to the end of what
\* the streams hold, and Close follows.  Only a packet that Start takes from the source
\* gives it more to do; a signal, the devices and the owner of the channel do not.
THEOREM StartGoesOn ==
  Spec => [](Cardinality(Held) \in Nat /\ Ahead \in Nat) /\ [][Advances]_vars
<1> DEFINE GInv == IInv /\ DataInv /\ Stages /\ IsFiniteSet(Held)
<1>1. Init => GInv
  <2> SUFFICES ASSUME Init PROVE GInv
    OBVIOUS
  <2>1. Stages
    BY DEF Init, Stages
  <2>2. Held = {}
    BY DEF Init, Held, Owes, NoStream
  <2> QED
    BY <2>1, <2>2, InvInit, DataInit, FS_EmptySet
<1>2. GInv /\ [Next]_vars => GInv'
  BY InvStep, DataStep, StagesStep, FiniteStep DEF DataInv
<1>3. GInv => Cardinality(Held) \in Nat /\ Ahead \in Nat
  BY AheadIs, FS_CardinalityType
<1>4. GInv /\ [Next]_vars => Advances
  BY StartAdvances, HeldLess, OthersAdd DEF DataInv, Advances
<1>5. Spec => []GInv
  BY <1>1, <1>2, PTL DEF Spec
<1>6. Spec => [](Cardinality(Held) \in Nat /\ Ahead \in Nat)
  BY <1>3, <1>5, PTL
<1>7. Spec => [][Advances]_vars
  BY <1>4, <1>5, PTL DEF Spec
<1> QED
  BY <1>6, <1>7
=============================================================================
