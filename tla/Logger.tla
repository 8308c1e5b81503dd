------------------------------- MODULE Logger -------------------------------
(***************************************************************************)
(* logger/logger.go: the diagnostic log of the gateway's goroutines, its   *)
(* configuration with SetDebug and InitLogger, which every StartListen     *)
(* calls again, and the rotatingFileWriter behind it.                      *)
(*                                                                         *)
(* What a writer is given is a stream of units; a file is an interval of   *)
(* one writer's stream.  A file's name is <<nameBase, sequence>>, where    *)
(* nameBase is the second in which the writer was made.                    *)
(***************************************************************************)
EXTENDS Integers, Sequences, FiniteSets

CONSTANTS
  Callers,              \* goroutines that log
  LineSizes,            \* units in a line
  MaxFileSize,          \* maxLogFileSize
  MaxLines,             \* bound on the lines logged
  MaxWriters,           \* bound on the writers made
  MaxSecond             \* bound on the clock

ASSUME SizesAssumption == LineSizes \subseteq Nat /\ MaxFileSize \in Nat \ {0}
ASSUME LimitsAssumption == MaxLines \in Nat /\ MaxWriters \in Nat /\ MaxSecond \in Nat

VARIABLES
  second,               \* time.Now() in seconds
  debug, initialized, configuredDebug,
  configuring,          \* an InitLogger holds loggerMu
  fileWriter,           \* loggerFileWriter: a writer, 0 for none
  Logger,               \* the writer behind Logger; 0 when it logs to no file
  made,                 \* writers made so far: they are 1 .. made
  nameBase, sequence, path, size, open,   \* of every writer; open: file is not nil
  stream,               \* history: what it has written, by the number of the line
  disk,                 \* the directory: what the file of a name holds
  lines,                \* lines logged so far
  pc,                   \* "idle", "called" with a Logger at hand, or "writing" under mu
  to, line, left        \* that Logger's writer, the line, and its units not yet written

config   == <<debug, initialized, configuredDebug, configuring, fileWriter, Logger>>
writers  == <<made, nameBase, sequence, path, size, open, stream, disk>>
calls    == <<lines, pc, to, line, left>>
vars     == <<second, config, writers, calls>>

Writers == 1 .. MaxWriters
NoName  == <<>>

Init ==
  /\ second = 0
  /\ debug = FALSE /\ initialized = FALSE /\ configuredDebug = FALSE
  /\ configuring = FALSE
  /\ fileWriter = 0 /\ Logger = 0
  /\ made = 0
  /\ nameBase = [w \in Writers |-> 0]
  /\ sequence = [w \in Writers |-> 0]
  /\ path = [w \in Writers |-> NoName]
  /\ size = [w \in Writers |-> 0]
  /\ open = [w \in Writers |-> FALSE]
  /\ stream = [w \in Writers |-> <<>>]
  /\ disk = [p \in {} |-> 0]
  /\ lines = 0
  /\ pc = [g \in Callers |-> "idle"]
  /\ to = [g \in Callers |-> 0]
  /\ line = [g \in Callers |-> 0]
  /\ left = [g \in Callers |-> 0]

Tick ==
  /\ second < MaxSecond
  /\ second' = second + 1
  /\ UNCHANGED <<config, writers, calls>>

-----------------------------------------------------------------------------
(* Files.                                                                  *)

\* What is in a file: the units from + 1 .. to of the writer's stream.
Holds(w, from, upTo) == [writer |-> w, from |-> from, to |-> upTo]

\* os.Create: a file of that name is emptied.
Create(name, w) ==
  [p \in DOMAIN disk \cup {name} |->
     IF p = name THEN Holds(w, Len(stream[w]), Len(stream[w])) ELSE disk[p]]

Remove(files, name) == [p \in DOMAIN files \ {name} |-> files[p]]

\* Some goroutine is in Write.
Locked(w) == \E g \in Callers : pc[g] = "writing" /\ to[g] = w

-----------------------------------------------------------------------------
(* Configuration.                                                          *)

\* A change makes the next InitLogger do its work, also when it is changed back.
SetDebug(enabled) ==
  /\ ~configuring
  /\ debug' = enabled
  /\ initialized' = (initialized /\ configuredDebug = enabled)
  /\ UNCHANGED <<second, configuredDebug, configuring, fileWriter, Logger, writers, calls>>

\* When nothing has changed the call returns at once.
InitLogger ==
  /\ ~configuring
  /\ ~(initialized /\ configuredDebug = debug)
  /\ configuring' = TRUE
  /\ UNCHANGED <<second, debug, initialized, configuredDebug, fileWriter, Logger, writers, calls>>

\* loggerFileWriter.Close: the file stays.
Close ==
  /\ configuring
  /\ fileWriter # 0
  /\ ~Locked(fileWriter)
  /\ open' = [open EXCEPT ![fileWriter] = FALSE]
  /\ fileWriter' = 0
  /\ UNCHANGED <<second, debug, initialized, configuredDebug, configuring, Logger, made,
                 nameBase, sequence, path, size, stream, disk, calls>>

Configured ==
  /\ configuring
  /\ fileWriter = 0
  /\ configuredDebug' = debug
  /\ initialized' = TRUE
  /\ configuring' = FALSE
  /\ UNCHANGED <<second, debug, calls>>

\* newRotatingFileWriter.
NewWriter ==
  /\ debug
  /\ Configured
  /\ made < MaxWriters
  /\ LET w == made + 1
     IN  /\ made' = w
         /\ nameBase' = [nameBase EXCEPT ![w] = second]
         /\ sequence' = [sequence EXCEPT ![w] = 1]
         /\ path' = [path EXCEPT ![w] = <<second, 0>>]
         /\ open' = [open EXCEPT ![w] = TRUE]
         /\ disk' = Create(<<second, 0>>, w)
         /\ fileWriter' = w
         /\ Logger' = w
  /\ UNCHANGED <<size, stream>>

\* Debug is off; or the file cannot be created, and only stderr is written to.
NoWriter ==
  /\ Configured
  /\ Logger' = 0
  /\ UNCHANGED <<fileWriter, writers>>

-----------------------------------------------------------------------------
(* Logging.                                                                *)

\* LogInfof: Logger is read under loggerMu, and used after that.  A line that goes to
\* no file is of no interest here.
LogInfof(g, n) ==
  /\ ~configuring
  /\ Logger # 0
  /\ pc[g] = "idle"
  /\ lines < MaxLines
  /\ lines' = lines + 1
  /\ pc' = [pc EXCEPT ![g] = "called"]
  /\ to' = [to EXCEPT ![g] = Logger]
  /\ line' = [line EXCEPT ![g] = lines + 1]
  /\ left' = [left EXCEPT ![g] = n]
  /\ UNCHANGED <<second, config, writers>>

Return(g) ==
  /\ pc' = [pc EXCEPT ![g] = "idle"]
  /\ to' = [to EXCEPT ![g] = 0]
  /\ line' = [line EXCEPT ![g] = 0]
  /\ left' = [left EXCEPT ![g] = 0]
  /\ lines' = lines

\* MultiWriter stops when stderr fails; a writer that is closed returns os.ErrClosed.
Lost(g) ==
  /\ pc[g] = "called"
  /\ ~Locked(to[g])
  /\ Return(g)
  /\ UNCHANGED <<second, config, writers>>

\* Mutant: Write does not lock.
BeginWriteUnlocked(g) ==
  /\ pc[g] = "called"
  /\ open[to[g]]
  /\ pc' = [pc EXCEPT ![g] = "writing"]
  /\ UNCHANGED <<second, config, writers, lines, to, line, left>>

BeginWrite(g) ==
  /\ pc[g] = "called"
  /\ ~Locked(to[g])
  /\ open[to[g]]
  /\ pc' = [pc EXCEPT ![g] = "writing"]
  /\ UNCHANGED <<second, config, writers, lines, to, line, left>>

\* The loop in Write: there is more to write, and room for it or none.
Room(g)   == pc[g] = "writing" /\ left[g] > 0 /\ size[to[g]] < MaxFileSize
NoRoom(g) == pc[g] = "writing" /\ left[g] > 0 /\ size[to[g]] >= MaxFileSize

\* Mutant: the next file gets the name of the last one.
RotateInPlace(g) ==
  /\ NoRoom(g)
  /\ disk' = Remove(Create(path[to[g]], to[g]), path[to[g]])
  /\ size' = [size EXCEPT ![to[g]] = 0]
  /\ UNCHANGED <<second, config, calls, made, nameBase, sequence, path, open, stream>>

\* openNextLocked: the old file is removed when there is a new one.
Rotate(g) ==
  /\ NoRoom(g)
  /\ LET w    == to[g]
         next == <<nameBase[w], sequence[w]>>
     IN  /\ disk' = Remove(Create(next, w), path[w])
         /\ path' = [path EXCEPT ![w] = next]
         /\ size' = [size EXCEPT ![w] = 0]
         /\ sequence' = [sequence EXCEPT ![w] = @ + 1]
  /\ UNCHANGED <<second, config, calls, made, nameBase, open, stream>>

\* It cannot be created: the line is cut off, the next one will try again.
RotationFails(g) ==
  /\ NoRoom(g)
  /\ Return(g)
  /\ UNCHANGED <<second, config, writers>>

\* n units of the line are written.
Written(g, n) ==
  LET w == to[g]
      f == disk[path[w]]
  IN  /\ stream' = [stream EXCEPT ![w] = @ \o [i \in 1 .. n |-> line[g]]]
      /\ size' = [size EXCEPT ![w] = @ + n]
      /\ disk' = [p \in DOMAIN disk |->
                    IF p = path[w] THEN Holds(f.writer, f.from, f.to + n) ELSE disk[p]]

Chunk(g) ==
  LET remaining == MaxFileSize - size[to[g]]
  IN  IF left[g] > remaining THEN remaining ELSE left[g]

WriteChunk(g) ==
  /\ Room(g)
  /\ Written(g, Chunk(g))
  /\ left' = [left EXCEPT ![g] = @ - Chunk(g)]
  /\ UNCHANGED <<second, config, lines, pc, to, line, made, nameBase, sequence, path, open>>

\* Part of it may have been written.
ChunkFails(g) ==
  /\ Room(g)
  /\ \E n \in 0 .. Chunk(g) - 1 : Written(g, n)
  /\ Return(g)
  /\ UNCHANGED <<second, config, made, nameBase, sequence, path, open>>

\* Mutant: the setting is asked for, with DebugEnabled, before mu is given up.
EndWriteAsking(g) ==
  /\ pc[g] = "writing"
  /\ left[g] = 0
  /\ ~configuring
  /\ Return(g)
  /\ UNCHANGED <<second, config, writers>>

EndWrite(g) ==
  /\ pc[g] = "writing"
  /\ left[g] = 0
  /\ Return(g)
  /\ UNCHANGED <<second, config, writers>>

-----------------------------------------------------------------------------

Configuring == InitLogger \/ Close \/ NewWriter \/ NoWriter
Writing(g) ==
  \/ Rotate(g) \/ RotationFails(g) \/ WriteChunk(g) \/ ChunkFails(g) \/ EndWrite(g)
Logging(g) == (\E n \in LineSizes : LogInfof(g, n)) \/ Lost(g) \/ BeginWrite(g) \/ Writing(g)

Next ==
  \/ Tick \/ (\E enabled \in BOOLEAN : SetDebug(enabled)) \/ Configuring
  \/ \E g \in Callers : Logging(g)

\* Goroutines run, and Go's mutexes hand themselves over in turn.
Fairness ==
  /\ SF_vars(Close) /\ WF_vars(NewWriter \/ NoWriter)
  /\ \A g \in Callers : SF_vars(Lost(g) \/ BeginWrite(g)) /\ WF_vars(Writing(g))

Spec == Init /\ [][Next]_vars /\ Fairness

-----------------------------------------------------------------------------
(* Properties.                                                             *)

\* No other writer was made in the same second: its names are this one's own.
OwnNames(w) == \A v \in 1 .. made : v # w => nameBase[v] # nameBase[w]

\* TestRotatingFileWriterKeepsOnlyCurrentFile, with failures, several writers and several
\* goroutines: the directory has a file of each writer's newest output, no longer than
\* the limit and without a gap, and no other; when the writer is closed it stays, but
\* for one made in the same second.
NewestOnDisk ==
  /\ \A w \in 1 .. made : open[w] \/ OwnNames(w) =>
       /\ size[w] <= MaxFileSize
       /\ path[w] \in DOMAIN disk
       /\ disk[path[w]] = Holds(w, Len(stream[w]) - size[w], Len(stream[w]))
  /\ \A p \in DOMAIN disk : \E w \in 1 .. made : p = path[w]

\* Write loops over its line and may change files in between; still no two lines get
\* mixed up, and none is written to a writer that InitLogger has closed.
LinesWhole ==
  /\ \A w \in Writers : \A i, j, k \in 1 .. Len(stream[w]) :
       i < j /\ j < k /\ stream[w][i] = stream[w][k] => stream[w][j] = stream[w][i]
  /\ \A g \in Callers : pc[g] = "writing" => open[to[g]] /\ to[g] = fileWriter

\* A call that logs returns whatever fails, also while InitLogger, with loggerMu, waits
\* for the writer; and InitLogger gets it.
LoggingReturns ==
  /\ \A g \in Callers : pc[g] # "idle" ~> pc[g] = "idle"
  /\ configuring ~> ~configuring
=============================================================================
