---------------------------- MODULE LoggerProofs ----------------------------
(***************************************************************************)
(* The log keeps its newest output, and its lines whole, and no call that  *)
(* logs goes on for ever: for any number of goroutines, writers and lines, *)
(* any limit and any failures.                                             *)
(***************************************************************************)
EXTENDS Logger, SequenceTheorems, TLAPS

\* The ranges of the variables; what a writer that is not made yet has.
Ranges ==
  /\ second \in Nat /\ lines \in Nat
  /\ made \in Nat /\ made <= MaxWriters
  /\ fileWriter \in 0 .. made /\ Logger \in 0 .. made
  /\ nameBase \in [Writers -> Nat]
  /\ sequence \in [Writers -> Nat]
  /\ DOMAIN path = Writers
  /\ size \in [Writers -> Nat]
  /\ open \in [Writers -> BOOLEAN]
  /\ stream \in [Writers -> Seq(Nat)]
  /\ \A w \in Writers : w > made => size[w] = 0

CallRanges ==
  /\ DOMAIN pc = Callers
  /\ to \in [Callers -> 0 .. made]
  /\ line \in [Callers -> Nat]
  /\ left \in [Callers -> Nat]

\* A writer's file has one of its names, and the next one will have a new name.
Names ==
  \A w \in 1 .. made : \E k \in Nat : path[w] = <<nameBase[w], k>> /\ k < sequence[w]

\* Only the writer that InitLogger made last is open, and only it is written to.
OneOpen ==
  /\ \A w \in Writers : open[w] => w = fileWriter
  /\ \A g \in Callers : pc[g] = "called" => to[g] # 0
  /\ \A g \in Callers : pc[g] = "writing" => to[g] # 0 /\ open[to[g]]

LogInv == Ranges /\ CallRanges /\ Names /\ OneOpen /\ NewestOnDisk

-----------------------------------------------------------------------------
(* Files.                                                                  *)

\* Writers with different name bases have different files.
LEMMA OwnFiles ==
  ASSUME Ranges, Names, NEW v \in 1 .. made, NEW w \in 1 .. made, v # w,
         OwnNames(v), NEW k \in Nat
  PROVE  path[v] # path[w] /\ path[v] # <<nameBase[w], k>>
<1>1. nameBase[v] # nameBase[w]
  BY DEF OwnNames
<1>2. PICK i \in Nat : path[v] = <<nameBase[v], i>>
  BY DEF Names
<1>3. PICK j \in Nat : path[w] = <<nameBase[w], j>>
  BY DEF Names
<1> QED
  BY <1>1, <1>2, <1>3

\* A goroutine in Write has an open writer; no other one is open.
LEMMA TheOpenWriter ==
  ASSUME LogInv, NEW g \in Callers, pc[g] = "writing"
  PROVE  /\ to[g] \in 1 .. made /\ to[g] \in Writers /\ open[to[g]]
         /\ \A v \in 1 .. made : open[v] => v = to[g]
<1>1. to[g] \in 0 .. made /\ to[g] # 0 /\ open[to[g]] /\ made \in Nat /\ made <= MaxWriters
  BY DEF LogInv, Ranges, CallRanges, OneOpen
<1>2. to[g] \in 1 .. made /\ 1 .. made \subseteq Writers
  BY <1>1, LimitsAssumption DEF Writers
<1>3. to[g] = fileWriter
  BY <1>1, <1>2 DEF LogInv, OneOpen
<1> QED
  BY <1>1, <1>2, <1>3 DEF LogInv, OneOpen

\* What Write appends to the stream is as long as it says.
LEMMA Appended ==
  ASSUME NEW s \in Seq(Nat), NEW n \in Nat, NEW l \in Nat
  PROVE  /\ s \o [i \in 1 .. n |-> l] \in Seq(Nat)
         /\ Len(s \o [i \in 1 .. n |-> l]) = Len(s) + n
<1> DEFINE t == [i \in 1 .. n |-> l]
<1>1. t \in Seq(Nat) /\ Len(t) = n
  BY SeqDef, LenProperties
<1> HIDE DEF t
<1>2. s \o t \in Seq(Nat) /\ Len(s \o t) = Len(s) + Len(t)
  BY <1>1, ConcatProperties
<1> QED
  BY <1>1, <1>2 DEF t

-----------------------------------------------------------------------------
(* Steps that touch no writer and no file.                                 *)

LEMMA LogInitially == Init => LogInv
<1> SUFFICES ASSUME Init PROVE LogInv
  OBVIOUS
<1>1. Ranges
  BY LimitsAssumption DEF Init, Ranges
<1>2. CallRanges /\ OneOpen
  BY DEF Init, CallRanges, OneOpen
<1>3. made = 0 /\ DOMAIN disk = {}
  BY DEF Init
<1>4. 1 .. 0 = {}
  OBVIOUS
<1>5. Names /\ NewestOnDisk
  BY <1>3, <1>4 DEF Names, NewestOnDisk
<1> QED
  BY <1>1, <1>2, <1>5 DEF LogInv

\* The part of the invariant about writers depends on the writers alone.
LEMMA WritersUnchanged ==
  ASSUME LogInv, UNCHANGED writers
  PROVE  Names' /\ NewestOnDisk'
  BY DEF LogInv, writers, Names, NewestOnDisk, OwnNames

LEMMA ReturnKeeps ==
  ASSUME LogInv, NEW g \in Callers, Return(g), UNCHANGED <<made, open, fileWriter>>
  PROVE  CallRanges' /\ OneOpen' /\ lines' = lines
<1>1. DOMAIN pc = Callers /\ made \in Nat
  BY DEF LogInv, CallRanges, Ranges
<1>2. CallRanges'
  BY <1>1 DEF LogInv, CallRanges, Return
<1>3. OneOpen'
  BY <1>1 DEF LogInv, OneOpen, CallRanges, Return
<1> QED
  BY <1>2, <1>3 DEF Return

LEMMA SettingKeeps ==
  ASSUME LogInv, UNCHANGED <<writers, calls, fileWriter, Logger>>, second' \in {second, second + 1}
  PROVE  LogInv'
<1>1. Ranges'
  BY DEF LogInv, Ranges, writers, calls
<1>2. CallRanges' /\ OneOpen'
  BY DEF LogInv, CallRanges, OneOpen, writers, calls
<1> QED
  BY <1>1, <1>2, WritersUnchanged DEF LogInv

LEMMA CloseKeeps ==
  ASSUME LogInv, Close
  PROVE  LogInv'
<1>1. /\ fileWriter \in 1 .. made /\ made \in Nat /\ made <= MaxWriters
      /\ open' = [open EXCEPT ![fileWriter] = FALSE]
      /\ fileWriter' = 0
  BY DEF LogInv, Ranges, Close
<1>2. fileWriter \in Writers
  BY <1>1, LimitsAssumption DEF Writers
<1>3. Ranges'
  <2>1. fileWriter' \in 0 .. made
    BY <1>1
  <2>2. open' \in [Writers -> BOOLEAN]
    BY <1>1 DEF LogInv, Ranges
  <2>3. UNCHANGED <<second, lines, made, Logger, nameBase, sequence, path, size, stream>>
    BY DEF Close, calls
  <2> QED
    BY <2>1, <2>2, <2>3 DEF LogInv, Ranges
<1>4. CallRanges'
  BY DEF LogInv, CallRanges, Close, calls
<1>5. OneOpen'
  <2>1. \A w \in Writers : ~open'[w]
    BY <1>1, <1>2 DEF LogInv, Ranges, OneOpen
  <2>2. \A g \in Callers : pc[g] # "writing"
    BY TheOpenWriter, <1>1, <1>2 DEF Close, Locked, LogInv, OneOpen
  <2> QED
    BY <2>1, <2>2 DEF OneOpen, Close, calls, LogInv
<1>6. Names'
  BY DEF LogInv, Names, Close
<1>7. NewestOnDisk'
  <2>1. \A w \in 1 .. made : open'[w] => open[w]
    BY <1>1, <1>2, LimitsAssumption DEF LogInv, Ranges, Writers
  <2> QED
    BY <2>1 DEF LogInv, NewestOnDisk, OwnNames, Close
<1> QED
  BY <1>3, <1>4, <1>5, <1>6, <1>7 DEF LogInv

LEMMA NoWriterKeeps ==
  ASSUME LogInv, NoWriter
  PROVE  LogInv'
<1>1. Ranges'
  BY DEF LogInv, Ranges, NoWriter, Configured, writers, calls
<1>2. CallRanges' /\ OneOpen'
  BY DEF LogInv, CallRanges, OneOpen, NoWriter, Configured, writers, calls
<1>3. UNCHANGED writers
  BY DEF NoWriter
<1> QED
  BY <1>1, <1>2, <1>3, WritersUnchanged DEF LogInv

LEMMA LogInfofKeeps ==
  ASSUME LogInv, NEW g \in Callers, NEW n \in LineSizes, LogInfof(g, n)
  PROVE  LogInv'
<1>0. n \in Nat
  BY SizesAssumption
<1>1. Ranges'
  BY DEF LogInv, Ranges, LogInfof, config, writers
<1>2. CallRanges'
  BY <1>0 DEF LogInv, Ranges, CallRanges, LogInfof, config, writers
<1>3. OneOpen'
  BY DEF LogInv, Ranges, CallRanges, OneOpen, LogInfof, config, writers
<1>4. UNCHANGED writers
  BY DEF LogInfof
<1> QED
  BY <1>1, <1>2, <1>3, <1>4, WritersUnchanged DEF LogInv

\* A call that returns without writing.
LEMMA ReturningKeeps ==
  ASSUME LogInv, NEW g \in Callers, Return(g), UNCHANGED <<second, config, writers>>
  PROVE  LogInv'
<1>1. UNCHANGED <<made, open, fileWriter>>
  BY DEF config, writers
<1>2. CallRanges' /\ OneOpen' /\ lines' = lines
  BY <1>1, ReturnKeeps
<1>3. Ranges'
  BY <1>2 DEF LogInv, Ranges, config, writers
<1> QED
  BY <1>2, <1>3, WritersUnchanged DEF LogInv

LEMMA BeginWriteKeeps ==
  ASSUME LogInv, NEW g \in Callers, BeginWrite(g)
  PROVE  LogInv'
<1>1. Ranges'
  BY DEF LogInv, Ranges, BeginWrite, config, writers
<1>2. CallRanges' /\ OneOpen'
  BY DEF LogInv, CallRanges, OneOpen, BeginWrite, config, writers
<1>3. UNCHANGED writers
  BY DEF BeginWrite
<1> QED
  BY <1>1, <1>2, <1>3, WritersUnchanged DEF LogInv

-----------------------------------------------------------------------------
(* Steps that make a file or write to one.                                 *)

LEMMA NewWriterKeeps ==
  ASSUME LogInv, NewWriter
  PROVE  LogInv'
<1> DEFINE w == made + 1
           name == <<second, 0>>
<1>1. /\ made \in Nat /\ made < MaxWriters /\ second \in Nat
      /\ fileWriter = 0
      /\ w \in Writers /\ w \notin 1 .. made
      /\ 1 .. w = (1 .. made) \cup {w} /\ 1 .. made \subseteq Writers
  BY LimitsAssumption DEF LogInv, Ranges, NewWriter, Configured, Writers
<1>2. /\ made' = w /\ fileWriter' = w /\ Logger' = w
      /\ nameBase' = [nameBase EXCEPT ![w] = second]
      /\ sequence' = [sequence EXCEPT ![w] = 1]
      /\ path' = [path EXCEPT ![w] = name]
      /\ open' = [open EXCEPT ![w] = TRUE]
      /\ disk' = Create(name, w)
      /\ UNCHANGED <<size, stream, second, calls>>
  BY DEF NewWriter, Configured
<1>3. w \in Nat /\ made <= w /\ w <= MaxWriters /\ w > made
  <2>1. made \in Nat /\ made < MaxWriters /\ MaxWriters \in Nat
    BY <1>1, LimitsAssumption
  <2> QED
    BY <2>1
<1> HIDE DEF w, name
<1>4. \A v \in Writers : ~open[v]
  <2>1. 0 \notin Writers
    BY DEF Writers
  <2> QED
    BY <1>1, <2>1 DEF LogInv, OneOpen
<1>5. Ranges'
  BY <1>1, <1>2, <1>3 DEF LogInv, Ranges, calls
<1>6. CallRanges'
  BY <1>1, <1>2, <1>3 DEF LogInv, CallRanges, calls
<1>7. OneOpen'
  BY <1>1, <1>2, <1>4 DEF LogInv, OneOpen, calls, Ranges, CallRanges
<1>8. path'[w] = name /\ \A v \in 1 .. made : path'[v] = path[v]
  BY <1>1, <1>2 DEF LogInv, Ranges
<1>9. Names'
  <2>1. nameBase'[w] = second /\ sequence'[w] = 1
    BY <1>1, <1>2 DEF LogInv, Ranges
  <2>2. \A v \in 1 .. made : nameBase'[v] = nameBase[v] /\ sequence'[v] = sequence[v]
    BY <1>1, <1>2 DEF LogInv, Ranges
  <2>3. \E k \in Nat : path'[w] = <<nameBase'[w], k>> /\ k < sequence'[w]
    BY <2>1, <1>8 DEF name
  <2> QED
    BY <1>1, <1>2, <1>8, <2>2, <2>3 DEF LogInv, Names
<1>10. NewestOnDisk'
  <2>1. disk' = [p \in DOMAIN disk \cup {name} |->
                   IF p = name THEN Holds(w, Len(stream[w]), Len(stream[w])) ELSE disk[p]]
    BY <1>2 DEF Create
  <2>2. ASSUME NEW v \in 1 .. made', open'[v] \/ OwnNames(v)'
        PROVE  /\ size'[v] <= MaxFileSize
               /\ path'[v] \in DOMAIN disk'
               /\ disk'[path'[v]] = Holds(v, Len(stream'[v]) - size'[v], Len(stream'[v]))
    <3>1. CASE v = w
      <4>1. size'[w] = 0 /\ stream'[w] = stream[w] /\ Len(stream[w]) \in Nat
        BY <1>1, <1>2, <1>3 DEF LogInv, Ranges
      <4>2. disk'[name] = Holds(w, Len(stream[w]), Len(stream[w])) /\ name \in DOMAIN disk'
        BY <2>1
      <4>3. MaxFileSize \in Nat /\ Len(stream[w]) - 0 = Len(stream[w])
        BY <4>1, SizesAssumption
      <4> QED
        BY <3>1, <1>8, <4>1, <4>2, <4>3
    <3>2. CASE v # w
      <4>1. v \in 1 .. made /\ ~open'[v]
        BY <3>2, <1>1, <1>2, <1>4 DEF LogInv, Ranges
      <4>2. OwnNames(v)'
        BY <2>2, <4>1
      <4>3. nameBase'[v] # nameBase'[w] /\ nameBase'[v] = nameBase[v] /\ nameBase'[w] = second
        BY <4>2, <4>1, <3>2, <1>1, <1>2 DEF OwnNames, LogInv, Ranges
      <4>4. OwnNames(v)
        BY <4>2, <4>1, <1>1, <1>2 DEF OwnNames, LogInv, Ranges
      <4>5. PICK k \in Nat : path[v] = <<nameBase[v], k>>
        BY <4>1 DEF LogInv, Names
      <4>6. path[v] # name
        BY <4>3, <4>5 DEF name
      <4>7. /\ size[v] <= MaxFileSize
            /\ path[v] \in DOMAIN disk
            /\ disk[path[v]] = Holds(v, Len(stream[v]) - size[v], Len(stream[v]))
        BY <4>1, <4>4 DEF LogInv, NewestOnDisk
      <4> QED
        BY <2>1, <1>2, <1>8, <4>1, <4>6, <4>7
    <3> QED
      BY <3>1, <3>2
  <2>3. ASSUME NEW p \in DOMAIN disk' PROVE \E v \in 1 .. made' : p = path'[v]
    <3>1. CASE p = name
      BY <3>1, <1>1, <1>2, <1>8
    <3>2. CASE p # name
      <4>1. PICK v \in 1 .. made : p = path[v]
        BY <3>2, <2>1, <2>3 DEF LogInv, NewestOnDisk
      <4> QED
        BY <4>1, <1>1, <1>2, <1>8
    <3> QED
      BY <3>1, <3>2
  <2> QED
    BY <2>2, <2>3 DEF NewestOnDisk
<1> QED
  BY <1>5, <1>6, <1>7, <1>9, <1>10 DEF LogInv

LEMMA RotateKeeps ==
  ASSUME LogInv, NEW g \in Callers, Rotate(g)
  PROVE  LogInv'
<1> DEFINE w == to[g]
           next == <<nameBase[w], sequence[w]>>
<1>1. pc[g] = "writing"
  BY DEF Rotate, NoRoom
<1>2. /\ w \in 1 .. made /\ w \in Writers /\ open[w]
      /\ \A v \in 1 .. made : open[v] => v = w
  BY <1>1, TheOpenWriter
<1>3. /\ disk' = Remove(Create(next, w), path[w])
      /\ path' = [path EXCEPT ![w] = next]
      /\ size' = [size EXCEPT ![w] = 0]
      /\ sequence' = [sequence EXCEPT ![w] = @ + 1]
      /\ UNCHANGED <<second, config, calls, made, nameBase, open, stream>>
  BY DEF Rotate
<1>4. sequence[w] \in Nat
  BY <1>2 DEF LogInv, Ranges
<1>5. path[w] # next
  BY <1>2, <1>4 DEF LogInv, Names
<1> HIDE DEF w, next
<1>6. Ranges'
  BY <1>2, <1>3, <1>4 DEF LogInv, Ranges, config, calls
<1>7. CallRanges' /\ OneOpen'
  BY <1>3 DEF LogInv, CallRanges, OneOpen, config, calls
<1>8. path'[w] = next /\ \A v \in 1 .. made : v # w => path'[v] = path[v]
  BY <1>2, <1>3 DEF LogInv, Ranges
<1>9. Names'
  <2>1. sequence'[w] = sequence[w] + 1 /\ nameBase'[w] = nameBase[w]
    BY <1>2, <1>3 DEF LogInv, Ranges
  <2>2. \E k \in Nat : path'[w] = <<nameBase'[w], k>> /\ k < sequence'[w]
    BY <2>1, <1>4, <1>8 DEF next
  <2>3. \A v \in 1 .. made : v # w => sequence'[v] = sequence[v] /\ nameBase'[v] = nameBase[v]
    BY <1>2, <1>3 DEF LogInv, Ranges
  <2> QED
    BY <2>2, <2>3, <1>3, <1>8 DEF LogInv, Names
<1>10. NewestOnDisk'
  <2>1. /\ DOMAIN disk' = (DOMAIN disk \cup {next}) \ {path[w]}
        /\ disk'[next] = Holds(w, Len(stream[w]), Len(stream[w]))
        /\ \A p \in DOMAIN disk' : p # next => disk'[p] = disk[p]
    BY <1>3, <1>5 DEF Create, Remove
  <2>2. ASSUME NEW v \in 1 .. made', open'[v] \/ OwnNames(v)'
        PROVE  /\ size'[v] <= MaxFileSize
               /\ path'[v] \in DOMAIN disk'
               /\ disk'[path'[v]] = Holds(v, Len(stream'[v]) - size'[v], Len(stream'[v]))
    <3>1. CASE v = w
      <4>1. size'[w] = 0 /\ stream'[w] = stream[w] /\ Len(stream[w]) \in Nat
        BY <1>2, <1>3 DEF LogInv, Ranges
      <4>2. MaxFileSize \in Nat /\ Len(stream[w]) - 0 = Len(stream[w])
        BY <4>1, SizesAssumption
      <4> QED
        BY <3>1, <1>5, <1>8, <2>1, <4>1, <4>2
    <3>2. CASE v # w
      <4>1. v \in 1 .. made /\ ~open[v] /\ OwnNames(v)
        BY <3>2, <2>2, <1>2, <1>3 DEF OwnNames
      <4>2. path[v] # path[w] /\ path[v] # next
        BY <3>2, <4>1, <1>2, <1>4, OwnFiles DEF LogInv, next
      <4>3. /\ size[v] <= MaxFileSize
            /\ path[v] \in DOMAIN disk
            /\ disk[path[v]] = Holds(v, Len(stream[v]) - size[v], Len(stream[v]))
        BY <4>1 DEF LogInv, NewestOnDisk
      <4>4. size'[v] = size[v] /\ stream'[v] = stream[v] /\ path'[v] = path[v]
        BY <3>2, <4>1, <1>2, <1>3, <1>8 DEF LogInv, Ranges
      <4> QED
        BY <2>1, <4>2, <4>3, <4>4
    <3> QED
      BY <3>1, <3>2
  <2>3. ASSUME NEW p \in DOMAIN disk' PROVE \E v \in 1 .. made' : p = path'[v]
    <3>1. CASE p = next
      BY <3>1, <1>2, <1>3, <1>8
    <3>2. CASE p # next
      <4>1. PICK v \in 1 .. made : p = path[v]
        BY <3>2, <2>1, <2>3 DEF LogInv, NewestOnDisk
      <4>2. v # w
        BY <4>1, <2>1, <2>3
      <4> QED
        BY <4>1, <4>2, <1>3, <1>8
    <3> QED
      BY <3>1, <3>2
  <2> QED
    BY <2>2, <2>3 DEF NewestOnDisk
<1> QED
  BY <1>6, <1>7, <1>9, <1>10 DEF LogInv

\* What is written to the open writer's file, while there is room for it, keeps the part
\* of the invariant that is about writers.
LEMMA WrittenKeeps ==
  ASSUME LogInv, NEW g \in Callers, pc[g] = "writing", NEW n \in Nat,
         size[to[g]] + n <= MaxFileSize, Written(g, n),
         UNCHANGED <<second, config, lines, made, nameBase, sequence, path, open>>
  PROVE  Ranges' /\ Names' /\ NewestOnDisk'
<1> DEFINE w == to[g]
<1>1. /\ w \in 1 .. made /\ w \in Writers /\ open[w]
      /\ \A v \in 1 .. made : open[v] => v = w
  BY TheOpenWriter
<1>2. stream[w] \in Seq(Nat) /\ size[w] \in Nat /\ line[g] \in Nat
  BY <1>1 DEF LogInv, Ranges, CallRanges
<1> DEFINE longer == stream[w] \o [i \in 1 .. n |-> line[g]]
           f == disk[path[w]]
<1>3. longer \in Seq(Nat) /\ Len(longer) = Len(stream[w]) + n
  BY <1>2, Appended
<1>4. /\ stream' = [stream EXCEPT ![w] = longer]
      /\ size' = [size EXCEPT ![w] = @ + n]
      /\ disk' = [p \in DOMAIN disk |->
                    IF p = path[w] THEN Holds(f.writer, f.from, f.to + n) ELSE disk[p]]
  BY DEF Written
<1> HIDE DEF w, longer, f
<1>5. Ranges'
  <2>1. stream' \in [Writers -> Seq(Nat)]
    BY <1>1, <1>3, <1>4 DEF LogInv, Ranges
  <2>2. size' \in [Writers -> Nat] /\ \A v \in Writers : v > made => size'[v] = 0
    BY <1>1, <1>2, <1>4 DEF LogInv, Ranges
  <2> QED
    BY <2>1, <2>2 DEF LogInv, Ranges, config
<1>6. Names'
  BY DEF LogInv, Names
<1>7. NewestOnDisk'
  <2>1. ASSUME NEW v \in 1 .. made', open'[v] \/ OwnNames(v)'
        PROVE  /\ size'[v] <= MaxFileSize
               /\ path'[v] \in DOMAIN disk'
               /\ disk'[path'[v]] = Holds(v, Len(stream'[v]) - size'[v], Len(stream'[v]))
    <3>0. v \in 1 .. made /\ (open[v] \/ OwnNames(v)) /\ path' = path
      BY <2>1 DEF OwnNames
    <3>1. /\ size[v] <= MaxFileSize
          /\ path[v] \in DOMAIN disk
          /\ disk[path[v]] = Holds(v, Len(stream[v]) - size[v], Len(stream[v]))
      BY <3>0 DEF LogInv, NewestOnDisk
    <3>2. CASE v = w
      <4>1. size'[w] = size[w] + n /\ stream'[w] = longer
        BY <1>1, <1>4 DEF LogInv, Ranges
      <4>2. f.writer = w /\ f.from = Len(stream[w]) - size[w] /\ f.to = Len(stream[w])
        BY <3>1, <3>2 DEF f, Holds
      <4>3. Len(stream[w]) \in Nat /\ Len(stream[w]) - size[w] = Len(longer) - (size[w] + n)
        BY <1>2, <1>3
      <4>4. disk'[path[w]] = Holds(f.writer, f.from, f.to + n) /\ path[w] \in DOMAIN disk'
        BY <1>4, <3>1, <3>2
      <4>5. size'[w] <= MaxFileSize
        BY <4>1 DEF w
      <4> QED
        BY <3>0, <3>2, <4>1, <4>2, <4>3, <4>4, <4>5, <1>3
    <3>3. CASE v # w
      <4>1. ~open[v] /\ OwnNames(v) /\ 0 \in Nat
        BY <3>0, <3>3, <1>1
      <4>2. path[v] # path[w]
        BY <3>0, <3>3, <4>1, <1>1, OwnFiles DEF LogInv
      <4>3. size'[v] = size[v] /\ stream'[v] = stream[v]
        BY <3>3, <1>1, <1>4 DEF LogInv, Ranges
      <4> QED
        BY <3>0, <3>1, <4>2, <4>3, <1>4
    <3> QED
      BY <3>2, <3>3
  <2>2. \A p \in DOMAIN disk' : \E v \in 1 .. made' : p = path'[v]
    BY <1>4 DEF LogInv, NewestOnDisk
  <2> QED
    BY <2>1, <2>2 DEF NewestOnDisk
<1> QED
  BY <1>5, <1>6, <1>7

\* A chunk fits into what is left of the file.
LEMMA ChunkFits ==
  ASSUME LogInv, NEW g \in Callers, Room(g)
  PROVE  /\ pc[g] = "writing"
         /\ Chunk(g) \in Nat /\ Chunk(g) <= left[g]
         /\ size[to[g]] \in Nat /\ size[to[g]] + Chunk(g) <= MaxFileSize
         /\ left[g] \in Nat
<1>1. pc[g] = "writing" /\ left[g] > 0 /\ size[to[g]] < MaxFileSize
  BY DEF Room
<1>2. to[g] \in Writers
  BY <1>1, TheOpenWriter
<1>3. size[to[g]] \in Nat /\ left[g] \in Nat /\ MaxFileSize \in Nat
  BY <1>2, SizesAssumption DEF LogInv, Ranges, CallRanges
<1> QED
  BY <1>1, <1>3 DEF Chunk

LEMMA WriteChunkKeeps ==
  ASSUME LogInv, NEW g \in Callers, WriteChunk(g)
  PROVE  LogInv'
<1>1. /\ Room(g) /\ Written(g, Chunk(g))
      /\ left' = [left EXCEPT ![g] = @ - Chunk(g)]
      /\ UNCHANGED <<second, config, lines, pc, to, line, made, nameBase, sequence, path, open>>
  BY DEF WriteChunk
<1>2. Ranges' /\ Names' /\ NewestOnDisk'
  BY <1>1, ChunkFits, WrittenKeeps
<1>3. left[g] - Chunk(g) \in Nat
  BY <1>1, ChunkFits
<1>4. CallRanges'
  BY <1>1, <1>3 DEF LogInv, CallRanges
<1>5. OneOpen'
  BY <1>1 DEF LogInv, OneOpen, config
<1> QED
  BY <1>2, <1>4, <1>5 DEF LogInv

LEMMA ChunkFailsKeeps ==
  ASSUME LogInv, NEW g \in Callers, ChunkFails(g)
  PROVE  LogInv'
<1>1. /\ Room(g) /\ Return(g)
      /\ UNCHANGED <<second, config, made, nameBase, sequence, path, open>>
  BY DEF ChunkFails
<1>2. PICK n \in 0 .. Chunk(g) - 1 : Written(g, n)
  BY DEF ChunkFails
<1>3. n \in Nat /\ size[to[g]] + n <= MaxFileSize /\ pc[g] = "writing"
  <2>1. /\ pc[g] = "writing" /\ Chunk(g) \in Nat /\ size[to[g]] \in Nat
        /\ size[to[g]] + Chunk(g) <= MaxFileSize /\ MaxFileSize \in Nat
    BY <1>1, ChunkFits, SizesAssumption
  <2> QED
    BY <2>1
<1>4. CallRanges' /\ OneOpen' /\ lines' = lines
  BY <1>1, ReturnKeeps DEF config
<1>5. Ranges' /\ Names' /\ NewestOnDisk'
  BY <1>1, <1>2, <1>3, <1>4, WrittenKeeps
<1> QED
  BY <1>4, <1>5 DEF LogInv

-----------------------------------------------------------------------------

LEMMA LogStep == LogInv /\ [Next]_vars => LogInv'
<1> SUFFICES ASSUME LogInv, [Next]_vars PROVE LogInv'
  OBVIOUS
<1>1. CASE Tick \/ (\E enabled \in BOOLEAN : SetDebug(enabled)) \/ InitLogger \/ UNCHANGED vars
  <2>1. /\ UNCHANGED <<writers, calls, fileWriter, Logger>>
        /\ second' \in {second, second + 1}
    BY <1>1 DEF Tick, SetDebug, InitLogger, vars, config
  <2> QED
    BY <2>1, SettingKeeps
<1>2. CASE Close
  BY <1>2, CloseKeeps
<1>3. CASE NewWriter
  BY <1>3, NewWriterKeeps
<1>4. CASE NoWriter
  BY <1>4, NoWriterKeeps
<1>5. ASSUME NEW g \in Callers, Logging(g) PROVE LogInv'
  <2>1. CASE \E n \in LineSizes : LogInfof(g, n)
    BY <2>1, LogInfofKeeps
  <2>2. CASE Lost(g) \/ RotationFails(g) \/ EndWrite(g)
    <3>1. Return(g) /\ UNCHANGED <<second, config, writers>>
      BY <2>2 DEF Lost, RotationFails, EndWrite
    <3> QED
      BY <3>1, ReturningKeeps
  <2>3. CASE BeginWrite(g)
    BY <2>3, BeginWriteKeeps
  <2>4. CASE Rotate(g)
    BY <2>4, RotateKeeps
  <2>5. CASE WriteChunk(g)
    BY <2>5, WriteChunkKeeps
  <2>6. CASE ChunkFails(g)
    BY <2>6, ChunkFailsKeeps
  <2> QED
    BY <1>5, <2>1, <2>2, <2>3, <2>4, <2>5, <2>6 DEF Logging, Writing
<1> QED
  BY <1>1, <1>2, <1>3, <1>4, <1>5 DEF Next, Configuring

\* The files hold the newest output of their writers, without a gap and within the
\* limit, and there is no other file: whatever fails, and whenever InitLogger runs.
THEOREM KeepsNewest == Spec => []NewestOnDisk
<1>1. LogInv => NewestOnDisk
  BY DEF LogInv
<1> QED
  BY <1>1, LogInitially, LogStep, PTL DEF Spec

\* Nothing is written to a writer that InitLogger has closed, and no two are open.
WritesToOpen == \A g \in Callers : pc[g] = "writing" => open[to[g]] /\ to[g] = fileWriter

THEOREM WritesGoToTheOpenWriter == Spec => []WritesToOpen
<1>1. LogInv => WritesToOpen
  <2> SUFFICES ASSUME LogInv, NEW g \in Callers, pc[g] = "writing"
               PROVE  open[to[g]] /\ to[g] = fileWriter
    BY DEF WritesToOpen
  <2>1. to[g] \in Writers /\ open[to[g]]
    BY TheOpenWriter
  <2> QED
    BY <2>1 DEF LogInv, OneOpen
<1> QED
  BY <1>1, LogInitially, LogStep, PTL DEF Spec

-----------------------------------------------------------------------------
(* Lines.                                                                  *)

Unmixed(s) ==
  \A i, j, k \in 1 .. Len(s) : i < j /\ j < k /\ s[i] = s[k] => s[j] = s[i]

\* Nothing comes after what there is of line l.
AtEnd(s, l) == \A i, j \in 1 .. Len(s) : i < j /\ s[i] = l => s[j] = l

Has(s, l) == \E i \in 1 .. Len(s) : s[i] = l

\* Lines have numbers of their own; one goroutine writes, and has written last; what
\* waits to be written is in no file yet.
Numbered ==
  /\ \A g \in Callers : pc[g] # "idle" => line[g] <= lines
  /\ \A g, h \in Callers :
       pc[g] # "idle" /\ pc[h] # "idle" /\ line[g] = line[h] => g = h
  /\ \A w \in Writers : \A l \in Nat : Has(stream[w], l) => l <= lines

OneWrites == \A g, h \in Callers : pc[g] = "writing" /\ pc[h] = "writing" => g = h

Streams ==
  /\ \A g \in Callers : pc[g] = "called" => \A w \in Writers : ~Has(stream[w], line[g])
  /\ \A g \in Callers : pc[g] = "writing" => AtEnd(stream[to[g]], line[g])
  /\ \A w \in Writers : Unmixed(stream[w])

LineInv == Numbered /\ OneWrites /\ Streams

Units(n, l) == [i \in 1 .. n |-> l]

\* More of a line that is at the end.
LEMMA Appending ==
  ASSUME NEW s \in Seq(Nat), NEW n \in Nat, NEW l \in Nat, Unmixed(s), AtEnd(s, l),
         NEW t, t = s \o Units(n, l)
  PROVE  /\ Unmixed(t) /\ AtEnd(t, l)
         /\ \A m : Has(t, m) => Has(s, m) \/ m = l
<1> DEFINE u == Units(n, l)
<1>1. u \in Seq(Nat) /\ Len(u) = n /\ \A i \in 1 .. n : u[i] = l
  BY SeqDef, LenProperties DEF Units
<1> HIDE DEF u
<1>2. /\ Len(s) \in Nat /\ Len(t) = Len(s) + n
      /\ \A i \in 1 .. Len(t) : t[i] = IF i <= Len(s) THEN s[i] ELSE u[i - Len(s)]
  <2>1. t = s \o u
    BY DEF u
  <2> QED
    BY <1>1, <2>1, ConcatProperties, LenProperties
<1>3. \A i \in 1 .. Len(t) : IF i <= Len(s) THEN i \in 1 .. Len(s) /\ t[i] = s[i] ELSE t[i] = l
  <2> SUFFICES ASSUME NEW i \in 1 .. Len(t)
               PROVE  IF i <= Len(s) THEN i \in 1 .. Len(s) /\ t[i] = s[i] ELSE t[i] = l
    OBVIOUS
  <2>1. ~(i <= Len(s)) => i - Len(s) \in 1 .. n
    BY <1>2
  <2> QED
    BY <1>1, <1>2, <2>1
<1>4. ASSUME NEW i \in 1 .. Len(t), NEW j \in 1 .. Len(t), i < j, t[i] = l PROVE t[j] = l
  <2>1. CASE j <= Len(s)
    <3>1. i <= Len(s)
      BY <1>2, <1>4, <2>1
    <3> QED
      BY <1>3, <1>4, <2>1, <3>1 DEF AtEnd
  <2> QED
    BY <1>3, <2>1
<1>5. ASSUME NEW i \in 1 .. Len(t), NEW j \in 1 .. Len(t), NEW k \in 1 .. Len(t),
             i < j, j < k, t[i] = t[k]
      PROVE  t[j] = t[i]
  <2>1. CASE k <= Len(s)
    <3>1. i <= Len(s) /\ j <= Len(s)
      BY <1>2, <1>5, <2>1
    <3> QED
      BY <1>3, <1>5, <2>1, <3>1 DEF Unmixed
  <2>2. CASE ~(k <= Len(s))
    <3>1. t[i] = l
      BY <1>3, <1>5, <2>2
    <3> QED
      BY <1>4, <1>5, <3>1
  <2> QED
    BY <2>1, <2>2
<1>6. ASSUME NEW m, NEW i \in 1 .. Len(t), t[i] = m PROVE Has(s, m) \/ m = l
  BY <1>3, <1>6 DEF Has
<1> QED
  BY <1>4, <1>5, <1>6 DEF Unmixed, AtEnd, Has

LEMMA LineInitially == Init => LineInv
<1> SUFFICES ASSUME Init PROVE LineInv
  OBVIOUS
<1>1. \A w \in Writers : stream[w] = <<>>
  BY DEF Init
<1>2. Unmixed(<<>>) /\ \A l : ~Has(<<>>, l)
  BY DEF Unmixed, Has
<1>3. \A g \in Callers : pc[g] = "idle"
  BY DEF Init
<1> QED
  BY <1>1, <1>2, <1>3 DEF LineInv, Numbered, OneWrites, Streams

\* A call that returns, and steps of no call.
LEMMA LineReturn ==
  ASSUME LogInv, LineInv, NEW g \in Callers, Return(g), UNCHANGED stream
  PROVE  LineInv'
<1>1. pc'[g] = "idle" /\ lines' = lines
      /\ \A h \in Callers : h # g => pc'[h] = pc[h] /\ line'[h] = line[h] /\ to'[h] = to[h]
  BY DEF Return, LogInv, CallRanges
<1>2. Numbered'
  BY <1>1 DEF LineInv, Numbered
<1>3. OneWrites'
  BY <1>1 DEF LineInv, OneWrites
<1>4. Streams'
  BY <1>1 DEF LineInv, Streams
<1> QED
  BY <1>2, <1>3, <1>4 DEF LineInv

LEMMA LineUnchanged ==
  ASSUME LineInv, UNCHANGED <<stream, calls>>
  PROVE  LineInv'
BY DEF LineInv, Numbered, OneWrites, Streams, calls

LEMMA LineLogInfof ==
  ASSUME LogInv, LineInv, NEW g \in Callers, NEW n \in LineSizes, LogInfof(g, n)
  PROVE  LineInv'
<1>1. /\ pc'[g] = "called" /\ line'[g] = lines + 1 /\ lines' = lines + 1
      /\ \A h \in Callers : h # g => pc'[h] = pc[h] /\ line'[h] = line[h] /\ to'[h] = to[h]
      /\ UNCHANGED stream
  BY DEF LogInfof, LogInv, CallRanges, writers
<1>2. lines \in Nat /\ \A h \in Callers : line[h] \in Nat
  BY DEF LogInv, Ranges, CallRanges
<1>3. Numbered'
  BY <1>1, <1>2 DEF LineInv, Numbered
<1>4. OneWrites'
  BY <1>1 DEF LineInv, OneWrites
<1>5. \A w \in Writers : ~Has(stream[w], lines + 1)
  BY <1>2 DEF LineInv, Numbered
<1>6. Streams'
  BY <1>1, <1>5 DEF LineInv, Streams
<1> QED
  BY <1>3, <1>4, <1>6 DEF LineInv

LEMMA LineBeginWrite ==
  ASSUME LogInv, LineInv, NEW g \in Callers, BeginWrite(g)
  PROVE  LineInv'
<1>1. /\ pc[g] = "called" /\ pc'[g] = "writing" /\ ~Locked(to[g]) /\ open[to[g]]
      /\ \A h \in Callers : h # g => pc'[h] = pc[h]
      /\ UNCHANGED <<stream, lines, line, to>>
  BY DEF BeginWrite, LogInv, CallRanges, writers
<1>2. Numbered'
  BY <1>1 DEF LineInv, Numbered
<1>3. to[g] \in Writers /\ to[g] = fileWriter
  <2>1. to[g] \in 0 .. made /\ to[g] # 0 /\ made \in Nat /\ made <= MaxWriters
    BY <1>1 DEF LogInv, Ranges, CallRanges, OneOpen
  <2>2. to[g] \in Writers
    BY <2>1, LimitsAssumption DEF Writers
  <2> QED
    BY <1>1, <2>2 DEF LogInv, OneOpen
<1>4. \A h \in Callers : pc[h] # "writing"
  BY <1>1, <1>3, TheOpenWriter DEF Locked, LogInv, OneOpen
<1>5. OneWrites'
  BY <1>1, <1>4 DEF OneWrites
<1>6. AtEnd(stream[to[g]], line[g])
  BY <1>1, <1>3 DEF LineInv, Streams, Has, AtEnd
<1>7. Streams'
  BY <1>1, <1>4, <1>6 DEF LineInv, Streams
<1> QED
  BY <1>2, <1>5, <1>7 DEF LineInv

\* Part of the line of the goroutine that writes is appended; the goroutine goes on or
\* returns.
LEMMA LineWritten ==
  ASSUME LogInv, LineInv, NEW g \in Callers, pc[g] = "writing", NEW n \in Nat, Written(g, n),
         lines' = lines,
         \A h \in Callers : h # g => pc'[h] = pc[h] /\ line'[h] = line[h] /\ to'[h] = to[h],
         pc'[g] \in {"idle", "writing"},
         pc'[g] # "idle" => line'[g] = line[g] /\ to'[g] = to[g]
  PROVE  LineInv'
<1> DEFINE w == to[g]
           l == line[g]
           s == stream[w]
           t == stream'[w]
<1>1. w \in Writers /\ s \in Seq(Nat) /\ l \in Nat
  BY TheOpenWriter DEF LogInv, Ranges, CallRanges
<1>2. t = s \o Units(n, l) /\ \A v \in Writers : v # w => stream'[v] = stream[v]
  BY <1>1 DEF Written, Units, LogInv, Ranges
<1>3. Unmixed(s) /\ AtEnd(s, l)
  BY <1>1 DEF LineInv, Streams
<1> HIDE DEF w, l, s, t
<1>4. Unmixed(t) /\ AtEnd(t, l) /\ \A m : Has(t, m) => Has(s, m) \/ m = l
  BY <1>1, <1>2, <1>3, Appending
<1>5. \A v \in Writers : \A m : Has(stream'[v], m) => Has(stream[v], m) \/ m = l
  BY <1>2, <1>4 DEF s, t
<1>6. Numbered'
  BY <1>5 DEF LineInv, Numbered, l
<1>7. OneWrites'
  BY DEF LineInv, OneWrites
<1>8. ASSUME NEW h \in Callers, pc'[h] = "called", NEW v \in Writers
      PROVE  ~Has(stream'[v], line'[h])
  <2>1. h # g /\ pc[h] = "called" /\ line'[h] = line[h]
    BY <1>8
  <2>2. line[h] # l /\ ~Has(stream[v], line[h])
    BY <2>1 DEF LineInv, Numbered, Streams, l
  <2> QED
    BY <1>5, <2>1, <2>2
<1>9. ASSUME NEW h \in Callers, pc'[h] = "writing" PROVE AtEnd(stream'[to'[h]], line'[h])
  <2>1. h = g
    BY <1>9 DEF LineInv, OneWrites
  <2> QED
    BY <1>4, <1>9, <2>1 DEF w, l, t
<1>10. \A v \in Writers : Unmixed(stream'[v])
  BY <1>2, <1>4 DEF LineInv, Streams, t
<1>11. Streams'
  BY <1>8, <1>9, <1>10 DEF Streams
<1> QED
  BY <1>6, <1>7, <1>11 DEF LineInv

LEMMA LineStep == LogInv /\ LineInv /\ [Next]_vars => LineInv'
<1> SUFFICES ASSUME LogInv, LineInv, [Next]_vars PROVE LineInv'
  OBVIOUS
<1>1. CASE UNCHANGED <<stream, calls>>
  BY <1>1, LineUnchanged
<1>2. CASE Tick \/ (\E enabled \in BOOLEAN : SetDebug(enabled)) \/ Configuring \/ UNCHANGED vars
  <2>1. UNCHANGED <<stream, calls>>
    BY <1>2 DEF Tick, SetDebug, Configuring, InitLogger, Close, NewWriter, NoWriter, Configured,
         vars, writers
  <2> QED
    BY <2>1, LineUnchanged
<1>3. ASSUME NEW g \in Callers, Logging(g) PROVE LineInv'
  <2>1. CASE \E n \in LineSizes : LogInfof(g, n)
    BY <2>1, LineLogInfof
  <2>2. CASE Lost(g) \/ RotationFails(g) \/ EndWrite(g)
    BY <2>2, LineReturn DEF Lost, RotationFails, EndWrite, writers
  <2>3. CASE BeginWrite(g)
    BY <2>3, LineBeginWrite
  <2>4. CASE Rotate(g)
    BY <2>4, LineUnchanged DEF Rotate
  <2>5. CASE WriteChunk(g)
    <3>1. /\ Written(g, Chunk(g)) /\ pc[g] = "writing" /\ Chunk(g) \in Nat
          /\ UNCHANGED <<lines, pc, line, to>>
      BY <2>5, ChunkFits DEF WriteChunk
    <3> QED
      BY <3>1, LineWritten
  <2>6. CASE ChunkFails(g)
    <3>1. Room(g) /\ Return(g)
      BY <2>6 DEF ChunkFails
    <3>2. PICK n \in 0 .. Chunk(g) - 1 : Written(g, n)
      BY <2>6 DEF ChunkFails
    <3>3. n \in Nat /\ pc[g] = "writing"
      BY <3>1, ChunkFits
    <3>4. /\ lines' = lines /\ pc'[g] = "idle"
          /\ \A h \in Callers : h # g => pc'[h] = pc[h] /\ line'[h] = line[h] /\ to'[h] = to[h]
      BY <3>1 DEF Return, LogInv, CallRanges
    <3> QED
      BY <3>2, <3>3, <3>4, LineWritten
  <2> QED
    BY <1>3, <2>1, <2>2, <2>3, <2>4, <2>5, <2>6 DEF Logging, Writing
<1> QED
  BY <1>2, <1>3 DEF Next

\* No two lines get mixed up in any file, however many goroutines log while InitLogger
\* changes writers and writers change files; and nothing is written to a writer that
\* InitLogger has closed.
THEOREM LinesStayWhole == Spec => []LinesWhole
<1>1. LineInv /\ WritesToOpen => LinesWhole
  BY DEF LineInv, Streams, Unmixed, LinesWhole, WritesToOpen
<1> QED
  BY <1>1, LogInitially, LogStep, LineInitially, LineStep, WritesGoToTheOpenWriter, PTL DEF Spec

-----------------------------------------------------------------------------
(* A call of Write comes to its end.                                       *)

\* What a call has before it: two steps for each unit at most, a change of files and a
\* chunk; a change of files when the one it is in is full; to get the mutex, and to return.
Effort(g) ==
  CASE pc[g] = "idle"    -> 0
    [] pc[g] = "called"  -> 2 * left[g] + 3
    [] pc[g] = "writing" -> 2 * left[g] + 1 + (IF size[to[g]] >= MaxFileSize THEN 1 ELSE 0)

\* The call's own steps bring it nearer to its end, and nobody else's take it farther off.
EffortSinks ==
  \A g \in Callers :
    /\ Lost(g) \/ BeginWrite(g) \/ Writing(g) => Effort(g)' < Effort(g)
    /\ pc[g] # "idle" => Effort(g)' <= Effort(g)

Places == \A g \in Callers : pc[g] \in {"idle", "called", "writing"}

LEMMA PlacesStep == LogInv /\ Places /\ [Next]_vars => Places'
<1> SUFFICES ASSUME LogInv, Places, [Next]_vars PROVE Places'
  OBVIOUS
<1>1. DOMAIN pc = Callers
  BY DEF LogInv, CallRanges
<1>2. CASE pc' = pc
  BY <1>2 DEF Places
<1>3. CASE pc' # pc
  <2>1. PICK g \in Callers : Logging(g)
    BY <1>3 DEF Next, vars, calls, Tick, SetDebug, Configuring, InitLogger, Close, NewWriter,
         NoWriter, Configured
  <2>2. \E p \in {"idle", "called", "writing"} : pc' = [pc EXCEPT ![g] = p]
    BY <1>3, <2>1 DEF Logging, Writing, LogInfof, Lost, BeginWrite, Rotate, RotationFails,
         WriteChunk, ChunkFails, EndWrite, Return, calls
  <2> QED
    BY <1>1, <2>2 DEF Places
<1> QED
  BY <1>2, <1>3

LEMMA EffortIs ==
  ASSUME LogInv, Places, NEW g \in Callers
  PROVE  /\ left[g] \in Nat /\ to[g] \in Nat /\ Effort(g) \in Nat
         /\ pc[g] = "writing" => to[g] \in Writers /\ size[to[g]] \in Nat
<1>1. left[g] \in Nat /\ to[g] \in Nat /\ pc[g] \in {"idle", "called", "writing"}
  BY DEF LogInv, CallRanges, Ranges, Places
<1>2. pc[g] = "writing" => to[g] \in Writers /\ size[to[g]] \in Nat
  BY TheOpenWriter DEF LogInv, Ranges
<1>3. Effort(g) \in Nat
  BY <1>1 DEF Effort
<1> QED
  BY <1>1, <1>2, <1>3

LEMMA ReturnEnds ==
  ASSUME LogInv, Places, NEW g \in Callers, pc[g] # "idle", Return(g)
  PROVE  Effort(g)' = 0 /\ Effort(g) > 0
<1>1. pc'[g] = "idle" /\ pc[g] \in {"called", "writing"}
  BY DEF Return, LogInv, CallRanges, Places
<1>2. left[g] \in Nat
  BY EffortIs
<1>3. Effort(g)' = 0
  BY <1>1 DEF Effort
<1>4. Effort(g) > 0
  BY <1>1, <1>2 DEF Effort
<1> QED
  BY <1>3, <1>4

\* A step of its own.
LEMMA OwnEffort ==
  ASSUME LogInv, Places, LogInv', NEW g \in Callers, Lost(g) \/ BeginWrite(g) \/ Writing(g)
  PROVE  Effort(g)' < Effort(g)
<1>1. left[g] \in Nat /\ Effort(g) \in Nat /\ MaxFileSize \in Nat \ {0} /\ DOMAIN pc = Callers
  BY EffortIs, SizesAssumption DEF LogInv, CallRanges
<1>2. CASE Lost(g) \/ RotationFails(g) \/ ChunkFails(g) \/ EndWrite(g)
  <2>1. pc[g] # "idle" /\ Return(g)
    BY <1>2 DEF Lost, RotationFails, ChunkFails, EndWrite, NoRoom, Room
  <2> QED
    BY <1>1, <2>1, ReturnEnds
<1>3. CASE BeginWrite(g)
  <2>1. pc[g] = "called" /\ pc'[g] = "writing" /\ left'[g] = left[g]
    BY <1>1, <1>3 DEF BeginWrite
  <2>2. Effort(g) = 2 * left[g] + 3
    BY <2>1 DEF Effort
  <2>3. Effort(g)' \in {2 * left[g] + 1, 2 * left[g] + 2}
    BY <1>1, <2>1 DEF Effort
  <2> QED
    BY <1>1, <2>2, <2>3
<1>4. CASE Rotate(g)
  <2>1. /\ pc[g] = "writing" /\ size[to[g]] >= MaxFileSize
        /\ size' = [size EXCEPT ![to[g]] = 0] /\ UNCHANGED <<pc, to, left>>
    BY <1>4 DEF Rotate, NoRoom, calls
  <2>2. size'[to[g]] = 0
    BY <2>1, EffortIs DEF LogInv, Ranges
  <2>3. Effort(g) = 2 * left[g] + 2
    BY <1>1, <2>1 DEF Effort
  <2>4. Effort(g)' = 2 * left[g] + 1
    BY <1>1, <2>1, <2>2 DEF Effort
  <2> QED
    BY <1>1, <2>3, <2>4
<1>5. CASE WriteChunk(g)
  <2>1. /\ pc[g] = "writing" /\ left[g] > 0 /\ size[to[g]] < MaxFileSize
        /\ UNCHANGED <<pc, to>>
        /\ left' = [left EXCEPT ![g] = @ - Chunk(g)]
    BY <1>5 DEF WriteChunk, Room
  <2>2. size[to[g]] \in Nat
    BY <2>1, EffortIs
  <2>3. Chunk(g) \in Nat \ {0}
    BY <1>1, <2>1, <2>2 DEF Chunk
  <2>4. left'[g] = left[g] - Chunk(g)
    BY <2>1 DEF LogInv, CallRanges
  <2>5. Effort(g) = 2 * left[g] + 1
    BY <1>1, <2>1, <2>2 DEF Effort
  <2>6. left'[g] \in Nat /\ pc'[g] = "writing"
    BY <2>1 DEF LogInv, CallRanges
  <2>7. Effort(g)' \in {2 * left'[g] + 1, 2 * left'[g] + 2}
    BY <1>1, <2>1, <2>3, <2>4, <2>6 DEF Effort
  <2> QED
    BY <1>1, <2>3, <2>4, <2>5, <2>6, <2>7
<1> QED
  BY <1>2, <1>3, <1>4, <1>5 DEF Writing

\* A step of somebody else: a goroutine in Write has the writer to itself.
LEMMA OthersEffort ==
  ASSUME LogInv, LineInv, Places, LogInv', [Next]_vars, NEW g \in Callers,
         ~(\E n \in LineSizes : LogInfof(g, n)), ~(Lost(g) \/ BeginWrite(g) \/ Writing(g))
  PROVE  Effort(g)' = Effort(g)
<1>1. left[g] \in Nat /\ DOMAIN pc = Callers /\ Callers = DOMAIN to /\ Callers = DOMAIN left
  BY EffortIs DEF LogInv, CallRanges
<1>2. pc'[g] = pc[g] /\ to'[g] = to[g] /\ left'[g] = left[g]
  <2>1. CASE UNCHANGED calls
    BY <2>1 DEF calls
  <2>2. ASSUME NEW h \in Callers, Logging(h)
        PROVE  pc'[g] = pc[g] /\ to'[g] = to[g] /\ left'[g] = left[g]
    <3>1. h # g
      BY <2>2 DEF Logging
    <3> QED
      BY <1>1, <2>2, <3>1 DEF Logging, Writing, LogInfof, Lost, BeginWrite, Rotate, RotationFails,
           WriteChunk, ChunkFails, EndWrite, Return, calls
  <2> QED
    BY <2>1, <2>2 DEF Next, vars, Tick, SetDebug, Configuring, InitLogger, Close, NewWriter,
         NoWriter, Configured
<1>3. CASE pc[g] # "writing"
  BY <1>2, <1>3 DEF Effort, Places
<1>4. CASE pc[g] = "writing"
  <2>1. size' = size
    <3>1. CASE UNCHANGED size
      BY <3>1
    <3>2. ASSUME NEW h \in Callers, Writing(h), size' # size PROVE FALSE
      <4>1. h # g
        BY <3>2
      <4>2. pc[h] = "writing"
        BY <3>2 DEF Writing, Rotate, RotationFails, WriteChunk, ChunkFails, EndWrite, NoRoom, Room
      <4> QED
        BY <1>4, <4>1, <4>2 DEF LineInv, OneWrites
    <3> QED
      BY <3>1, <3>2 DEF Next, Logging, LogInfof, Lost, BeginWrite, vars, writers, Tick, SetDebug,
           Configuring, InitLogger, Close, NewWriter, NoWriter, Configured
  <2> QED
    BY <1>2, <1>4, <2>1 DEF Effort
<1> QED
  BY <1>3, <1>4

\* Every call that logs has only so many steps to take, whatever the others do to files
\* and settings in the meantime, and however often the writer changes files under it.
THEOREM WritingIsFinite == Spec => [](\A g \in Callers : Effort(g) \in Nat) /\ [][EffortSinks]_vars
<1> DEFINE WInv == LogInv /\ LineInv /\ Places
<1>1. Init => Places
  BY DEF Init, Places
<1>2. Spec => []WInv
  BY <1>1, LogInitially, LogStep, LineInitially, LineStep, PlacesStep, PTL DEF Spec
<1>3. WInv => \A g \in Callers : Effort(g) \in Nat
  BY EffortIs
<1>4. WInv' => (\A g \in Callers : Effort(g) \in Nat)'
  BY <1>3, PTL
<1>5. WInv /\ WInv' /\ [Next]_vars => EffortSinks
  <2> SUFFICES ASSUME WInv, WInv', [Next]_vars, NEW g \in Callers
               PROVE  /\ Lost(g) \/ BeginWrite(g) \/ Writing(g) => Effort(g)' < Effort(g)
                      /\ pc[g] # "idle" => Effort(g)' <= Effort(g)
    BY DEF EffortSinks
  <2>1. Effort(g) \in Nat
    BY EffortIs
  <2>2. Effort(g)' \in Nat
    BY <1>4
  <2>3. CASE Lost(g) \/ BeginWrite(g) \/ Writing(g)
    BY <2>1, <2>2, <2>3, OwnEffort
  <2>4. CASE \E n \in LineSizes : LogInfof(g, n)
    <3>1. pc[g] = "idle"
      BY <2>4 DEF LogInfof
    <3>2. ~(Lost(g) \/ BeginWrite(g) \/ Writing(g))
      BY <3>1 DEF Lost, BeginWrite, Writing, Rotate, RotationFails, WriteChunk, ChunkFails, EndWrite,
           NoRoom, Room
    <3> QED
      BY <3>1, <3>2
  <2>5. CASE ~(Lost(g) \/ BeginWrite(g) \/ Writing(g)) /\ ~(\E n \in LineSizes : LogInfof(g, n))
    BY <2>1, <2>5, OthersEffort
  <2> QED
    BY <2>3, <2>4, <2>5
<1>6. Spec => [](\A g \in Callers : Effort(g) \in Nat)
  BY <1>2, <1>3, PTL
<1>7. Spec => [][EffortSinks]_vars
  BY <1>2, <1>5, PTL DEF Spec
<1> QED
  BY <1>6, <1>7
=============================================================================
