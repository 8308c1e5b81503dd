----------------------------- MODULE Connection -----------------------------
(***************************************************************************)
(* One proxied connection of getwayServer/simpleTCPserver.go: the          *)
(* goroutine that accepted it, the two copying goroutines it starts        *)
(* (PackageToForward and PackageToClient, each an io.Copy from a           *)
(* NetTeeReader), the lock index they share, and the write queue they      *)
(* feed, here its abstract specification OrderedWriter.                    *)
(*                                                                         *)
(* A connection is named by the direction that reads it: "inbound" reads   *)
(* the client's and writes to the target's, "outbound" the other way       *)
(* round.  A stream is known by its length: its bytes are 1, 2, 3, ...,    *)
(* and a chunk is an interval of them.                                     *)
(***************************************************************************)
EXTENDS Integers, Sequences, FiniteSets

CONSTANTS               \* bytes a peer sends at most: bounds sent and nextIndex
  ClientBytes,
  TargetBytes

ASSUME BytesAssumption == ClientBytes \in Nat \ {0} /\ TargetBytes \in Nat \ {0}

Directions == {"inbound", "outbound"}
Other(d)   == CHOOSE e \in Directions : e # d
Limit(d)   == IF d = "inbound" THEN ClientBytes ELSE TargetBytes
MaxBytes   == IF ClientBytes > TargetBytes THEN ClientBytes ELSE TargetBytes

\* A direction reads at least two bytes per index, but for the last one.
MaxIndex   == (ClientBytes + 1) \div 2 + (TargetBytes + 1) \div 2

VARIABLES
  stage,                \* of the accepting goroutine
  waitingRelease,       \* references to the connection's lock
  open,                 \* connections the gateway has not closed
  sent, ended, broken,  \* what the peers did: bytes sent, FIN, RST
  seen,                 \* history: for every byte, how much of the opposite
                        \*   stream had been passed on when the peer sent it
  pc,                   \* of the two copying goroutines
  taken,                \* bytes read from the connection
  kept,                 \* bytes before those in the tee buffer
  loadIndex,            \* the index of the current chunk, 0 before there is one
  size,                 \* bytes Read is about to return, or has returned
  last,                 \* Read returned an error with them: io.Copy stops
  forwarded,            \* bytes written to the other connection
  nextIndex,            \* DefaultLock.index
  chunk,                \* the chunks handed to a goroutine, by their index
  submitted, writing, handled, failed   \* the write queue

peers   == <<sent, ended, broken, seen>>
copying == <<pc, taken, kept, loadIndex, size, last, forwarded, nextIndex, chunk>>
queue   == <<submitted, writing, handled, failed>>
server  == <<stage, waitingRelease, open>>
vars    == <<server, peers, copying, queue>>

Queue == INSTANCE OrderedWriter WITH N <- MaxIndex

Closing == {"closeClient", "closeTarget"}
Chunks  == [dir : Directions, first : 1..MaxBytes, last : 1..MaxBytes]

TypeOK ==
  /\ stage \in {"accepted", "dialed", "serving", "rejected", "released"}
  /\ waitingRelease \in {0, 1}
  /\ open \subseteq Directions
  /\ sent \in [Directions -> 0..MaxBytes]
  /\ ended \subseteq Directions
  /\ broken \subseteq Directions
  /\ seen \in [Directions -> Seq(0..MaxBytes)]
  /\ pc \in [Directions -> {"first", "rest", "hook", "write"} \cup Closing \cup {"done"}]
  /\ taken \in [Directions -> 0..MaxBytes]
  /\ kept \in [Directions -> 0..MaxBytes]
  /\ loadIndex \in [Directions -> 0..MaxIndex]
  /\ size \in [Directions -> 0..MaxBytes]
  /\ last \in [Directions -> BOOLEAN]
  /\ forwarded \in [Directions -> 0..MaxBytes]
  /\ nextIndex \in 0..MaxIndex + 1
  /\ DOMAIN chunk \subseteq 1..MaxIndex
  /\ \A i \in DOMAIN chunk : chunk[i] \in Chunks
  /\ Queue!TypeOK

\* A client has connected.
Init ==
  /\ stage = "accepted"
  /\ waitingRelease = 0
  /\ open = {"inbound"}
  /\ sent = [d \in Directions |-> 0]
  /\ ended = {}
  /\ broken = {}
  /\ seen = [d \in Directions |-> <<>>]
  /\ pc = [d \in Directions |-> "first"]
  /\ taken = [d \in Directions |-> 0]
  /\ kept = [d \in Directions |-> 0]
  /\ loadIndex = [d \in Directions |-> 0]
  /\ size = [d \in Directions |-> 0]
  /\ last = [d \in Directions |-> FALSE]
  /\ forwarded = [d \in Directions |-> 0]
  /\ nextIndex = 0
  /\ chunk = <<>>
  /\ Queue!Init

-----------------------------------------------------------------------------
(* The accepting goroutine.                                                *)

DialFails ==
  /\ stage = "accepted"
  /\ stage' = "rejected"
  /\ open' = {}
  /\ UNCHANGED <<waitingRelease, peers, copying, queue>>

Dial ==
  /\ stage = "accepted"
  /\ stage' = "dialed"
  /\ open' = Directions
  /\ UNCHANGED <<waitingRelease, peers, copying, queue>>

ResourceFails ==
  /\ stage = "dialed"
  /\ stage' = "rejected"
  /\ open' = {}
  /\ UNCHANGED <<waitingRelease, peers, copying, queue>>

\* Mutant: the lock's first index, 0, is left for the first chunk.
GetResourceKeepsIndex ==
  /\ stage = "dialed"
  /\ stage' = "serving"
  /\ waitingRelease' = waitingRelease + 1
  /\ UNCHANGED <<open, peers, queue, copying>>

\* GetResource: GetLock creates a lock for this connection (its lookup key
\* never matches a stored one), a reference is taken, and index 0 is consumed
\* so that the first chunk gets the queue's first index.
GetResource ==
  /\ stage = "dialed"
  /\ stage' = "serving"
  /\ waitingRelease' = waitingRelease + 1
  /\ nextIndex' = nextIndex + 1
  /\ UNCHANGED <<open, peers, queue, pc, taken, kept, loadIndex, size, last, forwarded, chunk>>

\* group.Wait returns when both directions are done; then the CloseHook runs.
CloseHook ==
  /\ stage = "serving"
  /\ \A d \in Directions : pc[d] = "done"
  /\ stage' = "released"
  /\ waitingRelease' = waitingRelease - 1
  /\ UNCHANGED <<open, peers, copying, queue>>

-----------------------------------------------------------------------------
(* The peers.                                                              *)

\* A connection exists for its peer once it is accepted or dialed.
Send(d) ==
  /\ d \in open \ (ended \cup broken)
  /\ sent[d] < Limit(d)
  /\ sent' = [sent EXCEPT ![d] = @ + 1]
  /\ seen' = [seen EXCEPT ![d] = Append(@, forwarded[Other(d)])]
  /\ UNCHANGED <<ended, broken, server, copying, queue>>

End(d) ==
  /\ d \in open \ (ended \cup broken)
  /\ ended' = ended \cup {d}
  /\ UNCHANGED <<sent, broken, seen, server, copying, queue>>

Break(d) ==
  /\ d \in open \ broken
  /\ broken' = broken \cup {d}
  /\ UNCHANGED <<sent, ended, seen, server, copying, queue>>

-----------------------------------------------------------------------------
(* NetTeeReader.Read: one byte, its index, then whatever else has come.    *)

\* Read on a connection returns data, or fails when it will bring no more.
HasData(d)   == d \in open \ broken /\ taken[d] < sent[d]
ReadFails(d) == d \notin open \/ d \in broken \/ (d \in ended /\ taken[d] = sent[d])

\* Mutant: the increment is lost, as without the mutex of DefaultLock.
TakeIndexUnlocked(d) ==
  /\ loadIndex' = [loadIndex EXCEPT ![d] = nextIndex]
  /\ nextIndex' \in {nextIndex, nextIndex + 1}

\* Mutant: each direction counts its own chunks.
TakeIndexPerDirection(d) ==
  /\ loadIndex' = [loadIndex EXCEPT ![d] = @ + 1]
  /\ nextIndex' = nextIndex + 1

\* IncreaseGetIndex.
TakeIndex(d) ==
  /\ loadIndex' = [loadIndex EXCEPT ![d] = nextIndex]
  /\ nextIndex' = nextIndex + 1

\* The byte read at line 26 is private to the direction until it has taken its
\* index at line 28, so the two are one step.
ReadFirst(d) ==
  /\ stage = "serving"
  /\ pc[d] = "first"
  /\ HasData(d)
  /\ taken' = [taken EXCEPT ![d] = @ + 1]
  /\ size' = [size EXCEPT ![d] = 1]
  /\ TakeIndex(d)
  /\ pc' = [pc EXCEPT ![d] = "rest"]
  /\ UNCHANGED <<kept, last, forwarded, chunk, peers, server, queue>>

\* The error of the first Read is overwritten by the second one's, which is
\* the same again: nothing is returned and io.Copy ends.
ReadFirstFails(d) ==
  /\ stage = "serving"
  /\ pc[d] = "first"
  /\ ReadFails(d)
  /\ pc' = [pc EXCEPT ![d] = "closeClient"]
  /\ UNCHANGED <<taken, kept, loadIndex, size, last, forwarded, nextIndex, chunk, peers, server, queue>>

\* Mutant: Read returns what its second Read has returned.
ReadRestForgetsFirst(d) ==
  /\ pc[d] = "rest"
  /\ HasData(d)
  /\ \E n \in 1..(sent[d] - taken[d]) :
       /\ taken' = [taken EXCEPT ![d] = @ + n]
       /\ size' = [size EXCEPT ![d] = n]
  /\ pc' = [pc EXCEPT ![d] = "hook"]
  /\ UNCHANGED <<kept, loadIndex, last, forwarded, nextIndex, chunk, peers, server, queue>>

\* The second Read blocks until at least one more byte has come.
ReadRest(d) ==
  /\ pc[d] = "rest"
  /\ HasData(d)
  /\ \E n \in 1..(sent[d] - taken[d]) :
       /\ taken' = [taken EXCEPT ![d] = @ + n]
       /\ size' = [size EXCEPT ![d] = @ + n]
  /\ pc' = [pc EXCEPT ![d] = "hook"]
  /\ UNCHANGED <<kept, loadIndex, last, forwarded, nextIndex, chunk, peers, server, queue>>

\* The first byte is returned with the error; the hook does not run, so the
\* index just taken is never submitted.
ReadRestFails(d) ==
  /\ pc[d] = "rest"
  /\ ReadFails(d)
  /\ last' = [last EXCEPT ![d] = TRUE]
  /\ pc' = [pc EXCEPT ![d] = "write"]
  /\ UNCHANGED <<taken, kept, loadIndex, size, forwarded, nextIndex, chunk, peers, server, queue>>

\* A copy of the tee buffer, recorded under the current index.
Recorded(d) ==
  LET c == [dir |-> d, first |-> kept[d] + 1, last |-> taken[d]]
  IN  [i \in DOMAIN chunk \cup {loadIndex[d]} |-> IF i = loadIndex[d] THEN c ELSE chunk[i]]

\* Mutant: the buffer is not reset.
HookKeepsBuffer(d) ==
  /\ pc[d] = "hook"
  /\ chunk' = Recorded(d)
  /\ pc' = [pc EXCEPT ![d] = "write"]
  /\ UNCHANGED <<kept, taken, loadIndex, size, last, forwarded, nextIndex, peers, server, queue>>

\* startRecording's hook: the buffer is copied and reset, and a goroutine is
\* started that will call AddItem.
Hook(d) ==
  /\ pc[d] = "hook"
  /\ chunk' = Recorded(d)
  /\ kept' = [kept EXCEPT ![d] = taken[d]]
  /\ pc' = [pc EXCEPT ![d] = "write"]
  /\ UNCHANGED <<taken, loadIndex, size, last, forwarded, nextIndex, peers, server, queue>>

-----------------------------------------------------------------------------
(* io.Copy: write what Read returned; stop on an error of either.          *)

Forward(d) ==
  /\ pc[d] = "write"
  /\ Other(d) \in open \ broken
  /\ forwarded' = [forwarded EXCEPT ![d] = @ + size[d]]
  /\ pc' = [pc EXCEPT ![d] = IF last[d] THEN "closeClient" ELSE "first"]
  /\ UNCHANGED <<taken, kept, loadIndex, size, last, nextIndex, chunk, peers, server, queue>>

\* Part of the bytes may have gone out before the write fails.
ForwardFails(d) ==
  /\ pc[d] = "write"
  /\ Other(d) \notin open \ broken
  /\ \E n \in 0..(size[d] - 1) : forwarded' = [forwarded EXCEPT ![d] = @ + n]
  /\ pc' = [pc EXCEPT ![d] = "closeClient"]
  /\ UNCHANGED <<taken, kept, loadIndex, size, last, nextIndex, chunk, peers, server, queue>>

\* The deferred calls: both directions close the client, then the target.
CloseClient(d) ==
  /\ pc[d] = "closeClient"
  /\ open' = open \ {"inbound"}
  /\ pc' = [pc EXCEPT ![d] = "closeTarget"]
  /\ UNCHANGED <<stage, waitingRelease, taken, kept, loadIndex, size, last, forwarded,
                 nextIndex, chunk, peers, queue>>

\* Mutant: a direction closes the client's connection only.
CloseTargetSkipped(d) ==
  /\ pc[d] = "closeTarget"
  /\ pc' = [pc EXCEPT ![d] = "done"]
  /\ UNCHANGED <<server, taken, kept, loadIndex, size, last, forwarded,
                 nextIndex, chunk, peers, queue>>

CloseTarget(d) ==
  /\ pc[d] = "closeTarget"
  /\ open' = open \ {"outbound"}
  /\ pc' = [pc EXCEPT ![d] = "done"]
  /\ UNCHANGED <<stage, waitingRelease, taken, kept, loadIndex, size, last, forwarded,
                 nextIndex, chunk, peers, queue>>

-----------------------------------------------------------------------------
(* The recording goroutines and the write queue.                           *)

\* The goroutine of chunk i calls AddItem.
Enqueue(i) ==
  /\ i \in DOMAIN chunk
  /\ Queue!Submit(i)
  /\ UNCHANGED <<server, peers, copying>>

\* Mutant: chunks are written in the order in which the goroutines come.
BeginAny ==
  /\ writing = 0
  /\ \E i \in submitted : writing' = i /\ \A k \in 1..Len(handled) : handled[k] # i
  /\ UNCHANGED <<submitted, handled, failed, server, peers, copying>>

BeginWrite ==
  /\ Queue!Begin
  /\ UNCHANGED <<server, peers, copying>>

FinishWrite ==
  /\ Queue!Finish
  /\ UNCHANGED <<server, peers, copying>>

-----------------------------------------------------------------------------

Accepting == DialFails \/ Dial \/ ResourceFails \/ GetResource \/ CloseHook
Peers     == \E d \in Directions : Send(d) \/ End(d) \/ Break(d)
Copy(d) ==
  \/ ReadFirst(d) \/ ReadFirstFails(d) \/ ReadRest(d) \/ ReadRestFails(d) \/ Hook(d)
  \/ Forward(d)   \/ ForwardFails(d)   \/ CloseClient(d) \/ CloseTarget(d)
Recording == (\E i \in 1..MaxIndex : Enqueue(i)) \/ BeginWrite \/ FinishWrite

Next == Accepting \/ Peers \/ (\E d \in Directions : Copy(d)) \/ Recording

\* The scheduler runs the goroutines, and a write returns: the receiving peer
\* reads, or its connection breaks.  Nothing is assumed of what peers send.
Fairness ==
  /\ WF_vars(CloseHook)
  /\ \A d \in Directions : WF_vars(Copy(d))
  /\ \A i \in 1..MaxIndex : WF_vars(Enqueue(i))
  /\ WF_vars(BeginWrite)
  /\ WF_vars(FinishWrite)

Spec == Init /\ [][Next]_vars /\ Fairness

-----------------------------------------------------------------------------
(* Properties.                                                             *)

Written(i)  == \E k \in 1..Len(handled) : handled[k] = i
Stopping(d) == pc[d] \in Closing \cup {"done"}

\* What the peers received is on record, except at most one byte, the last
\* one before the end of the stream, which Read returns with the error.  Between
\* two reads of a direction, all that it has read has been passed on and recorded;
\* and one that stops because its sender has ended the stream, while the other one
\* still runs, has passed on every byte, a lone last one included.
RecordCoversForwarded ==
  \A d \in Directions :
    /\ \/ forwarded[d] <= kept[d]
       \/ forwarded[d] = kept[d] + 1 /\ Stopping(d)
    /\ pc[d] = "first" => forwarded[d] = taken[d] /\ kept[d] = taken[d]
    /\ d \in ended /\ pc[d] = "closeClient" /\ open = Directions /\ broken = {} =>
         forwarded[d] = sent[d]

\* An index that was taken and not handed over is still in the hands of a
\* direction: at most one for each of them can be missing, for good when the
\* stream ends after a lone byte.  The one a direction is about to record under
\* is nobody else's and has not been used.
IndicesAccounted ==
  /\ \A i \in 1..nextIndex - 1 :
       i \in DOMAIN chunk \/ \E d \in Directions : loadIndex[d] = i
  /\ \A d \in Directions : pc[d] \in {"rest", "hook"} =>
       loadIndex[d] \notin DOMAIN chunk /\ loadIndex[d] # loadIndex[Other(d)]

\* What has been written of a stream is a prefix of it, in order and without
\* a gap, whatever the order in which the recording goroutines ran.
RecordIsPrefix ==
  \A k \in 1..Len(handled) :
    LET c      == chunk[handled[k]]
        before == {0} \cup {chunk[handled[j]].last : j \in
                              {m \in 1..k - 1 : chunk[handled[m]].dir = c.dir}}
    IN  c.first - 1 \in before /\ \A l \in before : l < c.first

\* A chunk whose first byte answers what its sender had received is recorded
\* after it.  (Its other bytes may answer later chunks: the index is taken
\* with the first byte, and Read then waits for more.)
CausalOrder ==
  \A i, j \in DOMAIN chunk :
    /\ chunk[i].dir # chunk[j].dir
    /\ seen[chunk[j].dir][chunk[j].first] >= chunk[i].first
    => i < j

\* What the gateway does once it has begun to serve the connection.
Gateway == CloseHook \/ (\E d \in Directions : Copy(d)) \/ Recording

\* The gateway waits for the peers: each direction has ended or is in a Read that
\* neither returns data nor fails, no chunk is with its goroutine, and the queue has
\* nothing to write.  It comes to that whenever the peers fall silent, because every
\* step of Gateway takes bytes, an index or an item on, or ends something.
Blocked(d) == ~HasData(d) /\ ~ReadFails(d)
Settled ==
  /\ stage = "serving" => \E d \in Directions : pc[d] # "done"
  /\ \A d \in Directions :
       \/ pc[d] = "done"
       \/ pc[d] = "first" /\ (stage = "serving" => Blocked(d))
       \/ pc[d] = "rest" /\ Blocked(d)
  /\ DOMAIN chunk \subseteq submitted
  /\ writing = 0
  /\ Len(handled) + 1 \notin submitted

\* When one direction has ended the other one ends, and the lock is released, without
\* help of a peer.
EndsTogether ==
  (\E d \in Directions : pc[d] = "done") /\ stage # "released" => ~Settled

\* A direction does not stay more than one byte behind while both run, although Read
\* waits for a second byte before it returns the first.
Undisturbed == stage = "serving" /\ broken = {} /\ \A d \in Directions : ~Stopping(d)
LagAtMostOneByte ==
  Undisturbed /\ (\E d \in Directions : forwarded[d] < sent[d] - 1) => ~Settled

\* A chunk is written once all chunks with smaller indices are handed over, whichever
\* of their writes failed.
WrittenInTurn ==
  (\E i \in 1..MaxIndex : 1..i \subseteq DOMAIN chunk /\ ~Written(i)) => ~Settled

\* Claims of the documentation that the code does not meet.

\* Data pushed into the WriteQueue is consumed in the background and written
\* (getwayServer/interfaces.md:56).
EveryChunkWritten == \A i \in 1..MaxIndex : (i \in submitted) ~> Written(i)
=============================================================================
