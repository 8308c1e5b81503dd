# A TLA+ development of gogetway

gogetway is a TCP gateway that records the traffic it passes on. `tcp-proxy` uses it in three ways: as a
proxy that forwards connections and records both directions, as a replayer that sends recorded traffic to
another target, and as a passive mirror that captures traffic, forwards it and records it. This directory
models that code, model-checks it with TLC and proves part of what is checked with TLAPS. Paths below are
relative to the repository's source tree.

## 1. Inventory

| Part | State it keeps | Operations |
|---|---|---|
| Write queue, `getwayServer/WriteQueue.go` | a linked list of chunks with an index each, `CurrentIndex`, the chunk being handled | `AddItem`, `ContinueHandle`, `HandleQueue` |
| Proxied connection, `getwayServer/simpleTCPserver.go`, `reader/NetTeeReader.go` | two connections, two tee buffers, the current index of each direction | accept, dial, two copying goroutines, `startRecording`, the write hook, `CloseHook` |
| Server, `getwayServer/simpleTCPserver.go`, `openOutput` of `cmd/tcp-proxy/main.go` | the connections, one record file, perhaps with a `bufio.Writer` before it | accept loop, constructors, shutdown on a signal |
| Locks, `lockMap/Lock.go`, `RWLock.go` | a mutex, a flag, an index counter, a reference counter, a reader count | `Lock`, `Unlock`, `IncreaseGetIndex`, `RLock`, `RUnlock`, `Release`, `AddRelease` |
| Lock registry, `lockMap/LockGroup.go`, `getwayServer/resourceGroup.go`, `UsefullStructs/SafeMap.go` | a map of locks, a map of sub-groups, a resource per lock | `GetLock`, `GetResource`, its `CloseHook`, the `CheckLocks` sweep |
| Record format, `proto/*.go` | none | `WriteProto`, `UnMarshal`, the scanner's split function |
| Replay, `tcpPlayback/tcpPlayer.go` | counts of destinations, the connections, a time record for each | detect, replay, `SendSinglePacket`, `SendPacket`, `wait` |
| Mirror, `getwayServer/gopacket_mirror.go` | the first error, a stream and a forward connection for each captured flow | `Start`, `Reassembled`, `ReassemblyComplete` |
| Live capture, `cmd/tcp-proxy/live_capture.go` | a channel, a `done` channel, a goroutine for each device | `forwardPackets`, `Close` |
| Logger, `logger/logger.go` | the setting, the current writer, its file and that file's size | `SetDebug`, `InitLogger`, `LogInfof`, the rotating writer's `Write` and `Close` |
| Rest of the command line, HTTP parser, byte reader, pools, test servers | | not modelled, see section 6 |

How they interact. `StartListen` accepts a connection, dials the target and asks the resource group for the
connection's resource. The group looks its lock up in the registry, counts a reference, consumes index 0 and
creates a write queue. Each copying goroutine is an `io.Copy` from a `NetTeeReader`, which draws an index from
the shared lock, reads, and hands a copy of what it has read to a new goroutine that calls `AddItem`. The queue
restores the order of the indices and calls the hook, which formats a record and appends it to the file. Replay
reads that file. The mirror writes the same format from packets that the live source sends it on a channel.

What is hard about it, and what correctness means there:

- *The queue's list has no lock.* Chunks arrive from one goroutine each, in any order. They must be written
  once each, in order, one at a time, and none may be left behind.
- *An index is drawn before the data it stands for has been read, and a Read makes two reads of the connection.*
  Forwarding and recording must not drift apart, and the record of each stream must be a prefix of it.
- *Two directions end each other.* Either end, reset or write failure must stop both and release the lock.
- *Connections share a file, writes to it may fail, and they are cut off by a signal.* The records of each must stay in
  order and apart from those of others, only one whose write failed may be missing or cut, and what had been written
  must survive the shutdown.
- *The registry looks locks up by one part of the address and stores them by another, while a sweep deletes.*
  References must be counted, connections must not share a queue, the locks of closed ones must go.
- *Data can look like a record boundary, a record may be cut short, and the scanner sees the file in pieces.*
  Records must be told apart, and a replay that reports success must be complete. A replay that keeps time computes
  with nanoseconds and milliseconds in machine words.
- *Goroutines log while the logger is configured anew and changes files.* A line must not be torn or go to a closed
  file, the newest output must be on disk whatever fails, and nobody may block.
- *The mirror sees packets out of order, repeated, or from the middle of a connection, and any dial, write or
  record may fail while a signal is on its way.* Nothing taken from the source may vanish silently; the target
  must get streams in order; nothing may be left open or blocked.

## 2. Modules

| Module | Models | Extended or composed by |
|---|---|---|
| `OrderedWriter` | what a write queue promises (abstract) | implemented by `WriteQueue`, used by `Connection` |
| `WriteQueue` | the list, one action for each access to shared memory | `MCTwoQueues`, `MCWriteQueue`, `WriteQueueProofs` |
| `Connection` | a connection with its two directions and its record; contains `OrderedWriter` | `MCConnection`, `ConnectionProofs` |
| `Locks` | `DefaultLock` and `DefaultRWLock` over Go's `RWMutex`, and the sweep that unlocks them | `MCLocks`, `LocksProofs` |
| `LockRegistry` | `GetResource`, `CloseHook` and the sweep that removes locks | `Server`, `LockRegistryProofs` |
| `Server` | `StartListen` with several connections, their queues, the record file and the shutdown; extends `LockRegistry` | `MCServer`, `ServerProofs` |
| `RecordFormat` | writing, splitting and reading records, pure operators | `Replay` |
| `Pacing` | `wait`: how long a player pauses | `Replay` |
| `Replay` | `ReplayFileToTarget` and `SendSinglePacket` over a file of records | `MCReplay`, `ReplayProofs` |
| `LiveCapture` | the capture goroutines, the channel, `Close` | `Mirror` |
| `Mirror` | `Start`, its session and its streams, above the source | `MCMirror`, `MirrorProofs` |
| `Logger` | the configuration of the log and its rotating files | `MCLogger`, `LoggerProofs` |

A definition carries the name of the function it models where there is one. Definitions preceded by a comment
`Mutant:` are plausible mistakes; for each property there is one that breaks it, and `Next` uses none of them.

### WriteQueue
`link`, `CurrentIndex` and `handleQueues` are the fields of the queue and its items; `pc`, `findPrev`, `ptr` and
`tmp` are the program counter and the local variables of each goroutine. `AddItem`, `Walk`, `Compare`, `Advance`,
`Splice`, `LinkPrev` and `LinkItem` are `AddItem`'s loop and insertion. `Peek` to `Claim` is `ContinueHandle`, the
rest `HandleQueue`, where `CurrentIndex` is read and written in two accesses. `Panic` is one of the three nil
dereferences. `Preemptible` says whether goroutines run in parallel. With FALSE there is one processor, which a
goroutine leaves only where it can block.

### Connection
A stream is known by its length and a chunk is an interval of it. For each direction `ReadFirst` and `ReadRest`
are the two reads of `NetTeeReader.Read` (its index is drawn between them and after the first byte of the previous
chunk), `Hook` is `startRecording`, `Forward` is `io.Copy`'s write, `Enqueue` is the goroutine that reaches `AddItem`.
`CloseClient` and `CloseTarget` are the deferred closes in their order. `BeginWrite` and `FinishWrite` are the queue, in its
abstract form. Peers send, end and reset at any time. Every call that can fail may fail.

### Locks
`announced` and `readers` are Go's `RWMutex`: a writer announces itself, keeps everybody else out and waits for the
readers inside. The flag and the index are accessed in steps of their own, because `Lock` and `Unlock` set the flag
outside or after the mutex. `RLock` never returns, since it locks the same mutex as a writer after it has entered
as a reader; the model shows it as the code has it. `CheckFlag`, `SweepUnlock` and `SweepUnflag` are `CheckLocks`
unlocking a lock whose flag is set: the flag is read first, and the lock may have changed hands when it is unlocked.
How long it has been held is left out, so the sweep may do that to any flagged lock (`used` and `swept` remember whether
anybody has locked the lock, and whether the sweep has unlocked it).

### LockRegistry
`lockMap` is the root group's map. A lock is named by the connection that created it, and so is a resource.
`Lookup` reads under the port; `CreateLock` stores under the first part of the host. `snapshot` and `doomed` are the
two phases of the sweep: it looks at entries it has copied and deletes one after its `CanRelease` was true.

### Server
`stage`, `copying` and the variables of `LockRegistry` say where a connection is: `Dial` to `CloseHook` is the goroutine of
`StartListen`, with the steps of `GetResource` in `Setup`. A direction is what `Connection` models in detail, here without
its bytes: `DrawIndex` is the first Read of a chunk, which draws the index from the lock, `HandOver` the second one, after
which the chunk goes to the queue, and `Done` is the end of the direction, at which an index that was drawn is lost. Nothing
says that the second Read returns. A queue is `items`, `next` and `writing` for each resource, and takes up its items as
`OrderedWriter` says. That is an assumption here: `WriteQueueProofs` proves it of the queue on one processor, and
`queue_race_stranded` shows that it fails when goroutines race. `sink` is chosen in the initial state: the file of
`openOutput`, written under a mutex, or the shared `bufio.Writer` of `NewSimpleTCPServer` and
`NewSimpleTCPServerWithLockGroup`. A record is two halves, so that it can be cut by a full buffer, by a write that fails or
by the exit. `EndWrite` is a write that succeeds. `WriteFails` is one that returns an error after part of what it had for
the file, at any time (a full disk, say); a `bufio.Writer` then keeps the rest and refuses every later write
(`broken`). `WriteClosed` is a write to the file after it was closed. The queue logs the error and goes on (`Failed`).
`Close`, with the `Flush` whose error is dropped, and `Exit` are what the signal's goroutine does, at any time. Two
goroutines at once in a `bufio.Writer` are a data race: `raced` remembers it, and from then on a record may vanish.

### RecordFormat and Replay
Bytes are replaced by symbols: the ones the format distinguishes (line break, the letter `t`, the magic prefix, the
length and address fields) and one for anything else. `HandleDataBody`, `Marshal`, `UnMarshal` and `Split` do to symbols what the code
does to bytes. `Replay` takes a file of records, perhaps empty, one of them possibly cut short anywhere after its first
symbol, as a killed recorder leaves it, and reads it in pieces of varying size, once to detect the destination and once to send; `SendSinglePacket` reads it
once. `packet` is what `UnMarshal` returned until the loop has dealt with it. With `replayTime` a packet is preceded by
`Pace`, which is `Wait` of `Pacing` on that connection's time record. `Pacing` takes the two clocks' readings from two sets of
numbers, and converts to a `time.Duration` with wrap-round at `Word`.

### LiveCapture and Mirror
`forwarder[d]` is where the goroutine of device `d` is in its two selects. The assembler of gopacket is a library and
external: `Assemble` and `FlushNext` state what it does with segments in and out of order, repeated ones, a missing SYN
and the FIN, which comes with the last data. `call` is the call of `Reassembled` under way; each of its chunks is forwarded and then recorded in two
actions, each of which may fail. `StartFlush` to `CloseReturns` are the ways out of `Start` and its deferred `Close`. A
library user may pass a channel of his own instead of the live source; both are initial states.

### Logger
What a writer is given is a stream of units, and a file is an interval of one writer's stream: `disk` maps names to
intervals. A name is the second in which the writer was made and its `sequence`. `configuring` is `loggerMu` held by
`InitLogger`; a goroutine in `Write` holds its writer's mutex (`Locked`). `LogInfof` reads `Logger` and goes on with what it has
read. `Rotate` creates the next file and removes the last one. Creating a file, writing to it or to stderr may fail.

## 3. What is checked

`Spec` with `MC...` additions for finished programs: a program that has ended may stutter, so that TLC's deadlock check
stays on in every run but `logger`, whose goroutines may stop for good when all lines of the instance are logged.

| Run | Bounds | What it shows |
|---|---|---|
| `queue` | 5 chunks on one processor, or 2 chunks on parallel ones | on one processor `NoPanic`, `SingleHandler`, `NothingStranded`, and `ImplementsOrderedWriter`: the hooks run in order and every chunk is written in the end; on parallel ones `ParallelCallsReturn`: races never make a list that is walked for ever |
| `queue_race_stranded` | 2 chunks, parallel | violation of `NothingStranded` |
| `connection` | 4 bytes one way, 2 the other | `RecordCoversForwarded`: what is forwarded is recorded but for one last byte, and nothing is missing when a stream ends; `IndicesAccounted`: indices are fresh and every gap has a holder; `RecordIsPrefix`; `CausalOrder`: replies come after requests; `EndsTogether`, `LagAtMostOneByte`, `WrittenInTurn`: where the gateway comes to rest |
| `connection_queue_stall` | 3 and 1 bytes | violation of `EveryChunkWritten` |
| `locks` | 3 goroutines, 3 indices | `MutualExclusion` of holder and readers, `FlagFalls`, `IndicesUnique`, `SweepSparesIndices`, `IndexCallReturns` |
| `server` | 2 connections of one network, 2 chunks, a buffer of 1.5 records | `RefsMatch`, `OwnQueue`, `ReleasedIsSwept` of the registry; `RecordsInTurn`: the file has each queue's records in order and whole, and one that is missing or cut is one whose write failed; `CloseKeepsWritten`: a signal loses nothing that was written, unless the `bufio.Writer` failed; `EverythingWritten`: what has no gap before it in its queue is written, or its write fails |
| `replay` | 3 records of 4 kinds, reads of 3 or 7 symbols, 2 clock readings | `FramingHolds`; `SentAsRecorded`: to the destination most records went to, in order, and complete when success is reported; to each connection what came from its address; `Ends` |
| `replay_roundtrip` | 2 records of 5 kinds | violation of `RoundTrip` |
| `replay_pacing` | 2 records of 4 kinds, 2 clock readings | violation of `PausesFollowTheGaps` |
| `replay_panic` | 2 records of 4 kinds | violation of `NeverPanics` |
| `mirror` | 2 devices, a channel of 1, up to 2 captured or 4 sent packets of 6 kinds | `NothingLost`: unless a failure is reported; `RecordFollowsForward`, `ForwardedInOrder`, `ConnectionsClosed`, `NoSendOnClosed`, `Stops` |
| `logger` | 2 goroutines, 3 lines, 2 writers, 2 seconds, files of 2 units | `NewestOnDisk`, `LinesWhole`, `LoggingReturns` |

Why these bounds are enough for the cases of interest:

- *Queue.* With five chunks there is an insertion before, between and behind waiting items, and a chain of
  waiting items that one call works off. Two chunks are enough for each race on one link and on the claim. The two
  queues of `queue` share nothing, so each behaviour runs one of them, which the first call decides.
- *Connection.* Four bytes make two chunks of two, or three with a lone last byte; two bytes the other way give a reply
  between them. What has to happen in the end is stated for the states in which the gateway is at rest
  (`Settled`: its loops are in reads that neither return data nor fail, or have ended, and no chunk is on its way):
  then both directions have ended if one has, no direction that runs is more than a byte behind, and no chunk whose
  turn has come is unwritten. The gateway does come to rest whenever the peers are silent, because each of its steps
  uses something up (`ComesToRest` in section 4), so this is the liveness claim without a search for cycles, on the
  large instance. `Settled` is the negation of the guards of the gateway's actions, spelled out. In `MCConnection` a
  finished connection may stutter only where `Settled` holds, so the deadlock check shows that the gateway can
  take a step wherever it does not.
- *Locks.* A holder, one who waits and one who draws an index; the mixed roles bring in the reader. `MaxIndex` bounds
  the calls of `IncreaseGetIndex`.
- *Server.* Two connections of one network overwrite each other's entry in the map. The port of one may equal the
  network's key, which is what makes a lookup succeed. Each connection is accepted once. Two chunks, of one connection
  or of two, are the first and the second record in the file, and a buffer of three halves makes the second one straddle it.
  In `MCServer` the shared buffer, the signal and failing writes are looked at while no port equals a host part, and
  of a connection's two directions, which `Server` does not tell apart, `inbound` is the one that ends first. The signal comes when
  nobody is between `Accept` and the end of `GetResource` and the sweep is not at work, and the registry stands still from
  then on: the shutdown neither reads nor writes it, so this leaves out only states that differ in a part
  the properties of the shutdown do not look at.
- *Replay.* The kinds are data that ends or begins like a magic header, is one, or is longer than the scanner's
  buffer. Three records put a cut one between two whole ones. The
  times are chosen so that the conversion to a duration wraps round, to positive and to negative pauses.
- *Mirror.* A flow has a SYN and two data segments, the second with the FIN. Four packets are these three in every
  order and one more: a repetition before or after the stream was completed, or traffic of another flow. Two captured
  packets fill the channel and block a goroutine on it.
- *Logger.* A line is shorter than a file or longer than one and may need two rotations; two writers are made within
  one second or in two.

Fairness. Weak fairness on the steps of a goroutine says that the scheduler runs every goroutine that can run. It is
required of the program only: peers, devices, callers and signals owe nothing, and in `Server` nothing is owed once the
process has exited. Strong fairness is
required where Go promises more: on getting a mutex (those who wait are queued; after a millisecond Go hands a mutex over in turn), and on the case of a
select that is ready again and again (a select chooses at random among the ready cases). Writes and dials are assumed
to return, with or without an error. The mirror's connections set no deadline for a write, so a target that accepts
a connection and never reads can block it; the same holds for a proxied connection.

## 4. What is proved

All theorems hold for every value of the constants under their named assumptions (`NAssumption` and so on), which TLC
evaluates on its instances.

- `WriteQueueProofs`. `TypeCorrect`, for any number of chunks and both settings of `Preemptible`. The type invariant
  is not inductive alone; `TypeInv` adds which local variables are set at which control point. `OneProcessorSafe`: on
  one processor there is no nil dereference, one handler at a time, and the hooks run in index order. Its inductive
  invariant `CoopInv` says that at most one goroutine is away from a yield point (`Exclusive`), what it has already
  checked (`Cursor`, `Handoff`), and that `CurrentIndex` is one ahead of the history whenever nothing is claimed
  (`Unclaimed`). Exclusivity is what makes the unlocked reads still true when they are used. `NeverPanics` (`NoPanic`)
  and `NothingIsStranded` (`NothingStranded`) need more, `ListInv`: the linked items are a chain in the order of their
  indices (`Chained`), what `CurrentIndex` has passed has been linked (`Passed`), what a goroutine has read of the
  list is still true when it uses it (`Walker`), a claim is somebody's (`Held`), and an item whose turn has come has a
  goroutine that will take it up (`Awake`). `IndexSteps` is the action property `CurrentIndexSteps` on one processor.
  `NeverCyclic`, for both settings of `Preemptible`: however many goroutines splice and unlink at once, the links never
  close into a ring. `Ranked` says that the nodes can be numbered so that links lead to smaller numbers, the pointers
  that are still to be stored included; `Unknown` says that an item is nobody else's before its first store, so that
  its number can be chosen when it is spliced in.
  `OneProcessorImplements`: on one processor every behaviour is one of `OrderedWriter`'s `Init` and `Next`. Submitted
  are the chunks fully linked, and a chunk is being written from its claim until its hook returns. `RefInv` adds to
  `CoopInv` that every pointer that leaves `AddItem` names a linked item.
- `ConnectionProofs`, however many bytes the peers send. All safety invariants of `Connection` follow from one
  inductive invariant. `Bytes` says at each control point how `taken`, `kept`, `size` and `forwarded` are related,
  which gives `RecordCovers` (`RecordCoversForwarded`). `Indices` adds who holds which index (`IndicesAreAccounted`).
  `Chunked` says that the chunks of a stream follow each other without a gap in the order of their indices, and
  `InTurn` that the queue writes consecutive indices, which together are `RecordIsAPrefix` (`RecordIsPrefix`).
  `RepliesFollow` (`CausalOrder`) rests on `Heard` (a byte was sent after what it answers was passed on) and
  `Answers`: the first byte of a chunk answers at most what the other direction had handed over when the index was
  drawn, so what that one hands over later is not answered by it. The exception is a direction that stops: it may have
  passed on one byte more, but then hands nothing over any more. `Paced` bounds the indices for `TypeCorrect`: a
  direction takes two bytes between two indices. `RestsTogether` (`EndsTogether`), `RestsUpToDate` (`LagAtMostOneByte`) and
  `RestsWritten` (`WrittenInTurn`) speak of the gateway at rest; `Closed` adds which connections are open, so that
  what a direction that is done has closed ends the other one. `ComesToRest` says that it does rest: `Work` weighs
  the bytes that can still be read, where each direction is in its loop, the chunks that are not enqueued, not taken
  up or not written, and the release of the lock. It is a natural number, every step of the gateway lowers it, only
  what a peer sends raises it, and where `Settled` holds the gateway takes no step (`NothingMoves`).
- `LocksProofs`. `OneHolder` (`MutualExclusion`: one holder and no reader beside it) and `IndicesAreUnique`, for any
  number of goroutines and any assignment of calls, until the sweep unlocks somebody's lock; and `SweepIsHarmless`
  (`SweepSparesIndices`): a lock that nobody locks, like the gateway's, never gets a flag, so the sweep leaves it
  alone. `IInv` has four parts: types, which call can be where, who owns the mutex (it is announced, nobody else owns
  it, no reader is inside), and that the indices handed out lie below the next one. `FlagFallsInTheEnd` (`FlagFalls`):
  while the flag is up a goroutine is between setting and clearing it, in whatever order they and the sweep write it.
- `LockRegistryProofs`. `RefsCorrect` and `TypeCorrect`, for any finite set of connections: the references of a lock
  are the connections that hold it. This is a counting argument over the set of holders, and it is what makes the
  counter a natural number. `QueuesAreOwn`, for any connections: as long as no port so far equals a host part,
  `Private` is inductive: nobody finds another one's lock, so a connection has the lock and the queue it created.
- `ServerProofs`, for any connections, chunks and buffer size. `ServerUsesRegistry`: every step of the server is a
  step of `LockRegistry` or leaves its variables alone, so the theorems on the registry hold in the server
  (`ServerCountsReferences`, `ServerKeepsQueuesApart`). The next two
  share one inductive invariant, `Turns`, which holds until two goroutines are in the buffer at once. It looks at file
  and buffer as one `Stream` of halves, to which a write adds at the end. While the process runs, `StreamInv` says that the stream
  is in order (`Ordered`: the halves of a record are next to each other, the records of a queue come in the order of their
  indices, what is missing or cut has failed), that its last record is cut only if its write failed (`Whole`), that
  it has nothing but what the queues are done with (`DoneWith`), and that what they are done with is in it or has
  failed. `Kept` says that what was safe at `Close` is in the file from then on. A record that is written keeps a stream ordered
  (`OrderedNext`), also when a failing write leaves only a beginning of it (`OrderedTorn`), a prefix of an ordered
  stream is ordered (`OrderedPrefix`, which is how the file is), and more failures take nothing from it (`MoreFail`). From it follow
  `RecordsAreInTurn` (`RecordsInTurn`) and `SignalLosesNothingWritten` (`CloseKeepsWritten`).
  `ServerTypeCorrect` (`ServerTypeOK`) bounds the buffer.
- `ReplayProofs`, for any packets, sizes of a read and of the buffer, times and word. `PlayerForgets`: the two times a
  player keeps for a connection are equal after every call, because the pause is added to the clock's reading; so what
  they were cancels out, and `PausesForgetThePast`: a pause depends on the packet's time and the clock alone.
  `PlayerIsPacedByTheClock` is that for a player at work, and why `PausesFollowTheGaps` cannot hold. `RecordsAreToldApart` (`FramingHolds`):
  the buffer is the part of the file before `position` (`Window`), and the tokens so far are the file's first records
  and end where the buffer begins (`Framed`). That the next token is the next record rests on what recording does to
  data (`Escaped`: no magic header is left in it) and on `Laid`: a file of records laid out one behind the other is
  that file wherever one measures it. `WhatWasRecordedIsSent` (`SentAsRecorded`), for data in which no line begins
  with `t`: its invariant `SentInv` says that what a pass has counted or sent is what the records of which it has
  disposed (`dealt`) call for. Reading inverts writing for such data (`ReadingInvertsWriting`), a record that was cut is never
  read as a packet (there too), and a pass that reaches the end of the file without an error was handed all
  records (`AllHandedOver`). `ReplayIsFinite`: each step of a replay lowers `Left`, which weighs the bytes not yet read in
  this pass and the next one, those in the buffer, the packet in hand and the end of the file. What the lemmas say of
  whole records is induction over data. The induction theorems of
  the library cannot be used with the installed provers; instead a counterexample would have a least element
  (`Least`), at which a step leads to a contradiction. This is also why `RecordFormat` is written with functions and
  not with recursive operators.
- `LoggerProofs`, for any goroutines, writers, lines and limit. `KeepsNewest` (`NewestOnDisk`): its invariant adds
  that a writer's current name is older than its next one (`Names`), so that rotation never empties the file it is
  leaving, and that only `fileWriter` is open and only it is written to (`OneOpen`), which is also
  `WritesGoToTheOpenWriter`: a goroutine in `Write` keeps `InitLogger` from closing the writer. `LinesStayWhole`
  (`LinesWhole`): its invariant `LineInv` says that only the holder of a writer's mutex is in the middle of a line
  (`OneWrites`), that this line is the last one of the writer's stream, and that no stream has units of one line on
  both sides of another's (`Streams`). `WritingIsFinite`: `Effort` counts what a call has before it, a chunk and a change of
  files for each unit at most. Each step of the call lowers it, and nobody else raises it, because the call has the
  writer to itself (`OneWrites`).
- `MirrorProofs`, for any number of devices, flows, segments and packets. `ShutdownIsSafe` (`NoSendOnClosed`): its
  inductive invariant `NoSender` says that a closed channel, and a plain one, has no `forwardPackets` that still runs.
  `NoConnectionLeaks` (`ConnectionsClosed`): an open connection is the one its stream uses, and its stream is open
  (`Owned`); while `Reassembled` runs its stream is open, and none is once `FlushAll` has returned (`Places`). Four
  theorems speak of the data and rest on one more invariant, `DataInv`, which has six parts: what a stream holds lies
  ahead of what it has handed over (`Assembled`), what was sent lies behind it and in order (`Ordered`), what is
  recorded or still to be recorded was captured as often (`Counted`), `lastErr` and the result are about failures that
  happened (`Outcome`), the record is what was sent but for the chunk between the two calls (`Matched`), and until
  something fails every piece of data is recorded, held by a stream or in the call under way (`Complete`). They are
  `TargetSeesOrder` (`ForwardedInOrder`), `RecordMatchesTarget` (`RecordFollowsForward`), `AllDataDelivered`
  (`NothingLost`) and `MirrorTypeCorrect` (`TypeOK`). `StartGoesOn` is a pair of measures: `Held`, the finite set of what
  the streams hold and of the streams to complete, grows only when `Start` receives a packet; any other step
  of `Start` makes it smaller or leaves it and lowers `Ahead`, what is left of the call of `Reassembled` and of the
  way out. So, as long as `Start` runs, every call returns, `FlushAll` ends, and `Close` is reached.

Only model-checked: all liveness, which needs fairness and is beyond the prover (that of `ImplementsOrderedWriter`
too). Every invariant and action property of a passing run is a theorem. Of some liveness properties the part that
needs no fairness is proved, that nothing goes on for ever or in a circle: `NeverCyclic` for `ParallelCallsReturn`,
`ReplayIsFinite` for `Ends`, `StartGoesOn` for `Stops`, `WritingIsFinite` for `LoggingReturns`, `ComesToRest` for a
connection. What remains for the runs is that the next step can always be taken (`ENABLED`), that a packet or a signal
is chosen fairly, and that a capture goroutine sees `done`. On parallel processors the queue is proved to keep its
types and its list free of rings, and no more holds of it (section 5). `Connection` is bound to what a queue promises by
containing an `OrderedWriter`, `WriteQueue` by refinement; `Server` assumes it.

## 5. What was found

With a run that shows it:

- `queue_race_stranded`: parallel `AddItem` calls lose an insertion or a wake-up and a chunk is never written, although
  `getwayServer/interfaces.md:59` relies on the queue's internal synchronisation.
- `connection_queue_stall`: an index is drawn before the second read and never given back when that read fails, so
  what is behind it stays in the queue, contrary to `getwayServer/interfaces.md:56`.
- `replay_roundtrip`: every line break before a `t` is doubled when it is recorded and stays doubled in the replay,
  contrary to `proto/consts_test.go:19`.
- `replay_pacing`: with `replayTime` the pause before a packet is longer than what lay between it and the one before,
  contrary to `tcpPlayback/interfaces.md:133`. A recorded time (`tcpPlayer.go:207`) is in nanoseconds and the clock's in milliseconds, the pause
  is added to the clock's reading so that the packet before cancels out, and `Duration` overflows; `PlayerIsPacedByTheClock`
  says what the pause is. `tcp-proxy` does not turn `replayTime` on.
- `replay_panic`: a record cut within its addresses makes the reader panic, contrary to `tcpPlayback/interfaces.md:64`.

Met while modelling, and stated in the properties' conditions:

- `NetTeeReader.go:35`: a byte that comes alone is held back until another one comes or the stream ends.
  `LagAtMostOneByte` says that the lag never grows beyond it; it is exact.
- `WriteQueue.go:78`: with parallel goroutines two of them can hold a claim at once, so `SingleHandler` too needs one processor.
- `Lock.go:46`: `IsLocked` can be false while somebody holds the lock, since the flag is cleared after the mutex.
- `RWLock.go:66`: `RLock` waits for itself for good.
- `LockGroup.go:185`: the sweep may unlock a lock whose holder is alive, or that is free by then, which is fatal.
  The gateway is spared that because it only draws indices (`SweepSparesIndices`).
- `simpleTCPserver.go:76`: chunks that are still in a queue, or being written, when the signal comes are lost; what had been
  written is not. `simpleTCPserver.go:308`: the library constructors share a `bufio.Writer` between connections without a
  mutex, and nothing but the shutdown flushes it; the properties of `Server` hold until two goroutines are in it at once.
- `WriteQueue.go:46`: a write that fails, or falls short, is logged and the queue goes on, so the file may lack a record
  or have a part of one in its middle, and a `bufio.Writer` that has failed once takes no record any more. `RecordsInTurn`,
  `CloseKeepsWritten` and `EverythingWritten` except exactly these. `resourceGroup.go:82`: `Close` returns the error of the last `Flush`,
  and the signal's goroutine does not look at it.
- `tcpPlayer.go:51`: `SendSinglePacket` ignores failed writes. `SentAsRecorded` allows gaps there and nowhere else.
- `logger.go:38`: a writer made in the second in which another one was made empties that one's files.
- `LockGroup.go`: the sweep removes by key, so it can remove the entry a newer connection has put there; sub-groups are
  never removed, contrary to what `interfaces.md:94` suggests; a failed `GetResource` keeps its reference for good.
- A record that was cut within its magic header becomes part of the record before it (`CutInMagic` in `Replay`).
- `gopacket_mirror.go:144`: after a signal `Start` reports the cancellation also when `FlushAll` failed to forward data, and
  `main` treats that as a clean exit. `NothingLost` is stated for the runs in which nothing failed or success is reported.
- `live_capture.go:86`: when every device fails the mirror waits on, because only `Close` closes the channel.
- Without `-device` pseudo-devices may capture each packet twice; a second copy that comes after the FIN is a new stream,
  forwarded and recorded again. `RecordFollowsForward` bounds that by the number of captures.
- `main.go:75` starts the mirror only with `-io` or `-device`; the command of `Readme_EN.md:92` starts the proxy.

## 6. What is not modelled

- The filter branches no server of the repository enables (`startAnalyze`), and `NewSimpleTcpServerWithResourceGroup`, whose
  resource group is the caller's code.
- `GetLockedGroup`, `Destroy` and `RUnlock`: nothing calls them, or nothing can reach them.
- Parsers given to a replay, which are the caller's code.
- Hooks other than the mirror's default ones; opening the devices.
- A file of the logger that cannot be removed: the error is ignored (`logger.go:67`), and the file would stay beside the
  newest one.
- A `LoggerFile` that a user of the library has assigned (`logger.go:142`).
- Flags and the start of a background process (input and output only), the HTTP parser and the byte reader (nothing
  calls them), the pools (wrappers without behaviour of their own), the test servers.
- Memory orders weaker than sequential consistency for the queue's races.

## 7. Plan

Done, in this order: the queue with its abstract specification and its proofs, the connection above it, the locks and
the registry, the record format and the replay, the mirror above the live source; then the server above the registry with
its shutdown, the sweep's unlock, pacing and `SendSinglePacket`, and the logger; then the proofs about the connection; then
those about everything else that a passing run checks, the order of the records that the server's queues leave in the
file when writes fail, and measures that show that a replay, a connection, the mirror and a call that logs come to an end of their work.

Left in the model: `Connection` itself as what a connection of `Server` does, with its bytes, instead of `DrawIndex`,
`HandOver` and `Done`; the queue with its races below `Server`; hooks of the mirror that fail or drop chunks; the HTTP parser, should a server come to use it.

Left in the proofs: that a file `Server` leaves is one `Replay` can start from; that what a replay of one pass sends
depends on the file alone, however it is read.
