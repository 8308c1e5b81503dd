------------------------------- MODULE Server -------------------------------
(***************************************************************************)
(* getwayServer/simpleTCPserver.go, StartListen: the accept loop, the      *)
(* connections it starts, which take their locks and write queues from one *)
(* registry (LockRegistry) and put their records into one sink, and the    *)
(* goroutine that closes the sink and exits when a signal comes.           *)
(*                                                                         *)
(* The sink is what openOutput of tcp-proxy makes, a file written to by a  *)
(* WriteFunc that holds a mutex, or what NewSimpleTCPServer makes, a       *)
(* bufio.Writer that all connections share without one.                    *)
(*                                                                         *)
(* A write queue is known by its resource.  It is assumed to take up its   *)
(* items as OrderedWriter says, which is what WriteQueueProofs proves of   *)
(* WriteQueue on one processor; what it does when goroutines race is left  *)
(* to WriteQueue.  DefaultLock.index is index + drawn: LockRegistry's part *)
(* is what GetResource has drawn, drawn is what the tee readers have.  A   *)
(* record is written in two halves, and any write may fail after part of   *)
(* it, on a full disk, say.                                                *)
(***************************************************************************)
EXTENDS LockRegistry, Sequences

CONSTANTS
  MaxChunks,            \* chunks the connections begin to read in all: bounds drawn
  BufferSize            \* halves that fit into bufio.Writer's buffer, a record at least

ASSUME ChunksAssumption == MaxChunks \in Nat
ASSUME BufferAssumption == BufferSize \in Nat \ {0, 1}

VARIABLES
  stage,                \* of the goroutine that serves a connection
  copying,              \* the directions of connections that are being copied
  loadIndex,            \* of their NetTeeReader, between its two Reads; else 0
  chunks,               \* chunks begun
  drawn,                \* indices of a lock drawn for them
  items,                \* by queue: indices handed to it and not taken up yet
  next,                 \* WriteQueue.CurrentIndex
  writing,              \* the index whose write hook runs, 0 for none
  sink,                 \* "file" or "buffered": never changes
  buffer,               \* bufio.Writer: what is not in the file yet
  broken,               \* bufio.Writer.err is set: it stays so
  file,                 \* the record file
  raced,                \* two goroutines were in the bufio.Writer at once
  process,              \* "up", "closed" (the sink) or "exited"
  failed,               \* history: the records whose write returned an error
  safe                  \* history: the records that were written before Close

serving    == <<stage, copying, loadIndex, chunks, drawn>>
queues     == <<items, next, writing>>
output     == <<buffer, broken, file, raced, failed>>
server     == <<serving, queues, output, sink, process, safe>>
serverVars == <<vars, server>>

Directions == {"inbound", "outbound"}
Copies     == Conns \X Directions

Half(r, i, h) == [queue |-> r, index |-> i, half |-> h]
Halves(r, i)  == <<Half(r, i, 1), Half(r, i, 2)>>

ServerTypeOK ==
  /\ TypeOK
  /\ stage \in [Conns -> {"none", "proxied", "ended"}]
  /\ copying \subseteq Copies
  /\ loadIndex \in [Copies -> Nat]
  /\ chunks \in 0 .. MaxChunks
  /\ drawn \in [Conns -> Nat]
  /\ items \in [Conns -> SUBSET Nat]
  /\ next \in [Conns -> Nat \ {0}]
  /\ writing \in [Conns -> Nat]
  /\ sink \in {"file", "buffered"}
  /\ Len(buffer) <= BufferSize
  /\ broken \in BOOLEAN
  /\ raced \in BOOLEAN
  /\ process \in {"up", "closed", "exited"}
  /\ failed \subseteq Conns \X Nat
  /\ safe \subseteq Conns \X Nat

ServerInit ==
  /\ Init
  /\ stage = [c \in Conns |-> "none"]
  /\ copying = {}
  /\ loadIndex = [x \in Copies |-> 0]
  /\ chunks = 0
  /\ drawn = [l \in Conns |-> 0]
  /\ items = [r \in Conns |-> {}]
  /\ next = [r \in Conns |-> 1]
  /\ writing = [r \in Conns |-> 0]
  /\ sink \in {"file", "buffered"}
  /\ buffer = <<>>
  /\ broken = FALSE
  /\ file = <<>>
  /\ raced = FALSE
  /\ process = "up"
  /\ failed = {}
  /\ safe = {}

Stage(c, from, to) ==
  /\ stage[c] = from
  /\ stage' = [stage EXCEPT ![c] = to]

-----------------------------------------------------------------------------
(* A connection.  It is served until the process exits, also when the sink *)
(* is closed.                                                              *)

DialFails(c) ==
  /\ Stage(c, "none", "ended")
  /\ UNCHANGED <<vars, copying, loadIndex, chunks, drawn, queues, output, sink, process, safe>>

\* Accepted, and the target dialled.
Dial(c) ==
  /\ Stage(c, "none", "proxied")
  /\ Accept(c)
  /\ UNCHANGED <<copying, loadIndex, chunks, drawn, queues, output, sink, process, safe>>

ResourceFails(c) ==
  /\ pc[c] = "failed"
  /\ Stage(c, "proxied", "ended")
  /\ UNCHANGED <<vars, copying, loadIndex, chunks, drawn, queues, output, sink, process, safe>>

\* A step of GetResource; the two directions start when it has returned.
Setup(c) ==
  /\ GetResource(c)
  /\ copying' = IF pc'[c] = "serving" THEN copying \cup ({c} \X Directions) ELSE copying
  /\ UNCHANGED <<stage, loadIndex, chunks, drawn, queues, output, sink, process, safe>>

\* The first Read of a chunk has returned its first byte: the chunk gets its index.
DrawIndex(c, d) ==
  /\ <<c, d>> \in copying
  /\ loadIndex[<<c, d>>] = 0
  /\ chunks < MaxChunks
  /\ chunks' = chunks + 1
  /\ loadIndex' = [loadIndex EXCEPT ![<<c, d>>] = index[lock[c]] + drawn[lock[c]]]
  /\ drawn' = [drawn EXCEPT ![lock[c]] = @ + 1]
  /\ UNCHANGED <<vars, stage, copying, queues, output, sink, process, safe>>

\* The second Read has returned, which it need never do: the chunk goes to the queue,
\* in a goroutine whose way there is part of the item's wait.
HandOver(c, d) ==
  /\ <<c, d>> \in copying
  /\ loadIndex[<<c, d>>] # 0
  /\ items' = [items EXCEPT ![resource[c]] = @ \cup {loadIndex[<<c, d>>]}]
  /\ loadIndex' = [loadIndex EXCEPT ![<<c, d>>] = 0]
  /\ UNCHANGED <<vars, stage, copying, chunks, drawn, next, writing, output, sink, process, safe>>

\* A Read fails, or the forwarding; an index that was drawn is lost.
Done(c, d) ==
  /\ <<c, d>> \in copying
  /\ copying' = copying \ {<<c, d>>}
  /\ loadIndex' = [loadIndex EXCEPT ![<<c, d>>] = 0]
  /\ UNCHANGED <<vars, stage, chunks, drawn, queues, output, sink, process, safe>>

\* group.Wait returns; the queue may still have chunks to write.
CloseHook(c) ==
  /\ \A d \in Directions : <<c, d>> \notin copying
  /\ Stage(c, "proxied", "ended")
  /\ Release(c)
  /\ UNCHANGED <<copying, loadIndex, chunks, drawn, queues, output, sink, process, safe>>

-----------------------------------------------------------------------------
(* The queues write to the sink.                                           *)

\* What the write of a queue gives to the file and what it leaves in the buffer: a
\* bufio.Writer flushes when a record does not fit, which may be spread over both.
All(r) == buffer \o Halves(r, writing[r])

ToFile(r) ==
  IF sink = "file" THEN Halves(r, writing[r])
  ELSE IF Len(All(r)) <= BufferSize THEN <<>> ELSE SubSeq(All(r), 1, BufferSize)

ToBuffer(r) ==
  IF sink = "file" THEN <<>>
  ELSE IF Len(All(r)) <= BufferSize THEN All(r)
  ELSE SubSeq(All(r), BufferSize + 1, Len(All(r)))

\* Queue r takes up item i.
TakeUp(r, i) ==
  /\ writing[r] = 0
  /\ i \in items[r]
  /\ items' = [items EXCEPT ![r] = @ \ {i}]
  /\ next' = [next EXCEPT ![r] = i + 1]

Begin(r, i) ==
  /\ TakeUp(r, i)
  /\ sink = "file" => (process = "up" /\ \A q \in Conns : writing[q] = 0)
  /\ writing' = [writing EXCEPT ![r] = i]
  /\ raced' = (raced \/ \E q \in Conns : writing[q] # 0)
  /\ UNCHANGED <<vars, serving, buffer, broken, file, failed, sink, process, safe>>

\* Mutant: an item is written as soon as it comes.
BeginAny(r) == \E i \in items[r] : Begin(r, i)

BeginWrite(r) == Begin(r, next[r])

\* Mutant: what does not fit into the buffer is dropped.
EndWriteDropping(r) ==
  /\ writing[r] # 0
  /\ ~broken
  /\ file' = IF sink = "file" THEN file \o ToFile(r) ELSE file
  /\ buffer' = IF Len(All(r)) <= BufferSize THEN ToBuffer(r) ELSE buffer
  /\ writing' = [writing EXCEPT ![r] = 0]
  /\ UNCHANGED <<vars, serving, items, next, broken, raced, failed, sink, process, safe>>

\* Once two have been in the buffer at once the record may as well be lost.
EndWrite(r) ==
  /\ writing[r] # 0
  /\ ~broken
  /\ \/ file' = file \o ToFile(r) /\ buffer' = ToBuffer(r)
     \/ raced /\ UNCHANGED <<file, buffer>>
  /\ writing' = [writing EXCEPT ![r] = 0]
  /\ UNCHANGED <<vars, serving, items, next, broken, raced, failed, sink, process, safe>>

\* The queue logs an error and goes on.
Failed(r, i) == failed' = failed \cup {<<r, i>>}

\* The file has taken some of what it was given, or nothing.  What a bufio.Writer has
\* not got rid of then stays in its buffer for ever, as every call from now on fails.
WriteFails(r) ==
  /\ writing[r] # 0
  /\ \/ broken /\ UNCHANGED <<file, buffer, broken>>
     \/ /\ ~broken
        /\ \E n \in 0 .. Len(ToFile(r)) - 1 :
             /\ file' = file \o SubSeq(ToFile(r), 1, n)
             /\ buffer' = IF sink = "file" THEN <<>> ELSE SubSeq(ToFile(r), n + 1, Len(ToFile(r)))
        /\ broken' = (sink = "buffered")
  /\ writing' = [writing EXCEPT ![r] = 0]
  /\ Failed(r, writing[r])
  /\ UNCHANGED <<vars, serving, items, next, raced, sink, process, safe>>

\* os.ErrClosed.
WriteClosed(r) ==
  /\ sink = "file"
  /\ process = "closed"
  /\ TakeUp(r, next[r])
  /\ Failed(r, next[r])
  /\ UNCHANGED <<vars, serving, writing, buffer, broken, file, raced, sink, process, safe>>

Write(r) == BeginWrite(r) \/ EndWrite(r) \/ WriteFails(r) \/ WriteClosed(r)

-----------------------------------------------------------------------------
(* A signal: Close, then os.Exit.                                          *)

Written == UNION {{r} \X ((1 .. next[r] - 1) \ {writing[r]}) : r \in Conns}

\* Mutant: only a writer that is an io.Closer is dealt with.
CloseClosers ==
  /\ process = "up"
  /\ process' = "closed"
  /\ safe' = IF broken THEN {} ELSE Written \ failed
  /\ UNCHANGED <<vars, serving, queues, output, sink>>

\* The Flush of a bufio.Writer, of a file there is nothing to flush.
Flush ==
  \/ broken /\ UNCHANGED <<file, buffer, broken>>
  \/ ~broken /\ file' = file \o buffer /\ buffer' = <<>> /\ UNCHANGED broken
  \/ /\ ~broken
     /\ \E n \in 0 .. Len(buffer) - 1 :
          /\ file' = file \o SubSeq(buffer, 1, n)
          /\ buffer' = SubSeq(buffer, n + 1, Len(buffer))
     /\ broken' = TRUE

\* A file is closed, though a write that has begun runs to its end.  A bufio.Writer
\* is flushed; its error is dropped.
Close ==
  /\ process = "up"
  /\ process' = "closed"
  /\ Flush
  /\ raced' = (raced \/ (sink = "buffered" /\ \E r \in Conns : writing[r] # 0))
  /\ safe' = IF broken' THEN {} ELSE Written \ failed
  /\ UNCHANGED <<vars, serving, queues, failed, sink>>

\* A write to the file that is under way may have come to any point.
Exit ==
  /\ process = "closed"
  /\ process' = "exited"
  /\ \/ UNCHANGED file
     \/ \E r \in Conns : \E n \in 1 .. Len(ToFile(r)) :
          /\ writing[r] # 0
          /\ ~broken
          /\ file' = file \o SubSeq(ToFile(r), 1, n)
  /\ UNCHANGED <<vars, serving, queues, buffer, broken, raced, failed, sink, safe>>

-----------------------------------------------------------------------------

Serve(c) ==
  \/ Dial(c) \/ DialFails(c) \/ Setup(c) \/ ResourceFails(c)
  \/ \E d \in Directions : DrawIndex(c, d) \/ HandOver(c, d) \/ Done(c, d)
  \/ CloseHook(c)

CheckLocks == Sweep /\ UNCHANGED server

ServerNext ==
  /\ process # "exited"
  /\ \/ \E c \in Conns : Serve(c) \/ Write(c)
     \/ CheckLocks
     \/ Close \/ Exit

\* Writes end, one way or the other, sync.Mutex does not starve anybody, and the sweep
\* comes round again.  Reads need not return, and signals need not come.
ServerFairness ==
  /\ \A r \in Conns :
       /\ WF_serverVars(process # "exited" /\ (EndWrite(r) \/ WriteFails(r)))
       /\ SF_serverVars(process # "exited" /\ BeginWrite(r))
  /\ WF_serverVars(process # "exited" /\ CheckLocks)

ServerSpec == ServerInit /\ [][ServerNext]_serverVars /\ ServerFairness

-----------------------------------------------------------------------------
(* Properties.                                                             *)

\* While the server runs the map does not keep a lock that its connection has
\* released, unless another one has it.
ReleasedIsSwept ==
  \A l \in Conns :
    lockMap[HostOf[l]] = l /\ pc[l] = "closed"
      ~> lockMap[HostOf[l]] # l \/ (\E c \in Conns : Holds(c, l)) \/ process = "exited"

\* What a replay can rely on: a record is in the file in one piece, and the records of
\* a queue in the order of their indices.  One that is missing before another, or cut
\* short before the end of the file, is one whose write returned an error - whichever
\* connections, sweeps and signals there were, but for two writers in the shared
\* bufio.Writer.
RecordsInTurn ==
  ~raced =>
    \A k \in 1 .. Len(file) :
      LET q == file[k].queue
          i == file[k].index
      IN  IF file[k].half = 2 THEN k > 1 /\ file[k - 1] = Half(q, i, 1)
          ELSE /\ k < Len(file) /\ <<q, i>> \notin failed => file[k + 1] = Half(q, i, 2)
               /\ \A n \in 1 .. k - 1 : file[n].queue = q => file[n].index < i
               /\ \A j \in 1 .. i - 1 :
                    <<q, j>> \in failed \/ \E n \in 1 .. k - 1 : file[n] = Half(q, j, 2)

\* A record that had been written without an error when the signal came is in the file
\* when the process has exited, whatever was still going on; unless the bufio.Writer
\* failed, then or before.
CloseKeepsWritten ==
  process = "exited" /\ ~raced =>
    \A s \in safe : \E k \in 1 .. Len(file) : file[k] = Half(s[1], s[2], 2)

Recorded(r, i) ==
  \/ \E k \in 1 .. Len(file) : file[k] = Half(r, i, 2)
  \/ \E k \in 1 .. Len(buffer) : buffer[k] = Half(r, i, 2)

\* A chunk and those before it have been handed to the queue.
Due(r, i) == i \in items[r] /\ next[r] .. i \subseteq items[r]

\* A chunk that has no gap before it is written, or its write fails, as long as no
\* signal comes: although its connection is released when it ends, and its lock swept
\* from the map, with chunks still in the queue, and the queues share a sink.
EverythingWritten ==
  \A r \in Conns : \A i \in 1 .. MaxChunks :
    Due(r, i) ~> Recorded(r, i) \/ <<r, i>> \in failed \/ raced \/ process # "up"
=============================================================================
