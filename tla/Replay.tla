------------------------------- MODULE Replay -------------------------------
(***************************************************************************)
(* tcpPlayback/tcpPlayer.go without a parser.  ReplayFileToTarget, which   *)
(* tcp-proxy calls, makes one pass over the record file to find the most   *)
(* frequent destination and a second one to send what went there to the    *)
(* new target.  SendSinglePacket makes one pass and sends what went to a   *)
(* given destination to one of two connections, by where it came from.     *)
(* All read the file through a bufio.Scanner, which hands over a record as *)
(* soon as Split finds one in what has been read so far.                   *)
(*                                                                         *)
(* The file is opened with O_APPEND by every run of the recorder.  One of  *)
(* its records may be cut short: the recorder was killed while writing it. *)
(* A record of which nothing was written is none of them.                  *)
(***************************************************************************)
EXTENDS RecordFormat, Pacing, FiniteSets, Functions

CONSTANTS
  Packets,              \* what may be recorded: [body, from, to]
  MaxPackets,           \* bound on the records in the file
  TimeOf,               \* when its records were written
  Client, Target,       \* addresses the TcpPlayer of SendSinglePacket is made for
  ReadSizes,            \* how many symbols a read may return
  MaxTokenSize          \* size of the scanner's buffer

ASSUME BoundsAssumption == MaxPackets \in Nat /\ MaxTokenSize \in Nat \ {0}
ASSUME PacketsAssumption == \A p \in Packets : p.body \in Seq(Range(p.body))
ASSUME ReadAssumption == ReadSizes \subseteq Nat \ {0}
ASSUME TimeAssumption == TimeOf \in [1 .. MaxPackets -> Stamps]

VARIABLES
  packets,              \* what was recorded
  cut, kept,            \* record number cut has its first kept symbols only (0: none is cut)
  file,                 \* the file with these records
  pass,                 \* "detect", "replay", "single", "done" or "panic"
  replayTime,           \* TcpPlayer.replayTime
  position,             \* how much of the file has been read
  buffer,               \* what the scanner has read and not handed over
  atEOF,                \* it has seen the end of the file
  tokens,               \* history: what it has handed over in this pass
  packet,               \* what UnMarshal made of the last of them, until it is dealt with
  counts,               \* detectRecordedTarget: counts
  recordedTo,           \* its result, or SendSinglePacket's argument
  sent,                 \* what each connection has got
  result                \* of ReplayFileToTarget

input   == <<packets, cut, kept, file>>
scanner == <<position, buffer, atEOF, tokens, packet>>
player  == <<replayTime, recordedTo, sent, pacing>>
vars    == <<input, pass, scanner, counts, player, result>>

Targets == {p.to : p \in Packets}
NoTarget == "none"

Record(i) ==
  IF i = cut THEN SubSeq(Marshal(packets[i], TimeOf[i]), 1, kept)
  ELSE Marshal(packets[i], TimeOf[i])

Records == [i \in 1 .. Len(packets) |-> Record(i)]

Init ==
  /\ packets \in UNION {[1 .. n -> Packets] : n \in 0 .. MaxPackets}
  /\ cut \in 0 .. Len(packets)
  /\ kept \in IF cut = 0 THEN {0} ELSE 1 .. Len(Marshal(packets[cut], TimeOf[cut])) - 1
  /\ file = FlattenSeq(Records)
  /\ \/ pass = "detect" /\ recordedTo = NoTarget /\ replayTime = FALSE
     \/ pass = "single" /\ recordedTo \in Targets /\ replayTime \in BOOLEAN
  /\ position = 0
  /\ buffer = <<>>
  /\ atEOF = FALSE
  /\ tokens = <<>>
  /\ packet = Nothing
  /\ counts = [t \in Targets |-> 0]
  /\ sent = [side \in Sides |-> <<>>]
  /\ result = "none"
  /\ PacingInit

\* The program is in the scanner; or it has come to the end of the file there.
Scanning == pass \in {"detect", "replay", "single"} /\ packet = Nothing
Ended    == Scanning /\ atEOF /\ Split(buffer, atEOF).token = <<>>

-----------------------------------------------------------------------------
(* The scanner.                                                            *)

NeedsMore == Scanning /\ ~atEOF /\ Split(buffer, atEOF).token = <<>>

Read ==
  /\ Len(buffer) < MaxTokenSize
  /\ NeedsMore
  /\ \E n \in ReadSizes :
       LET upTo == Min({position + n, Len(file), position + MaxTokenSize - Len(buffer)})
       IN  /\ buffer' = buffer \o SubSeq(file, position + 1, upTo)
           /\ position' = upTo
           /\ atEOF' = (upTo = position)
  /\ UNCHANGED <<input, pass, tokens, packet, counts, player, result>>

\* bufio.ErrTooLong: every pass ends with it; SendSinglePacket logs it.
TooLong ==
  /\ Len(buffer) >= MaxTokenSize
  /\ NeedsMore
  /\ pass' = "done"
  /\ result' = IF pass = "single" THEN "none" ELSE "failed"
  /\ UNCHANGED <<input, scanner, counts, player>>

\* The scanner hands over the next record.
Scan ==
  /\ Scanning
  /\ \E found \in {Split(buffer, atEOF)} :
       /\ found.token # <<>>
       /\ buffer' = SubSeq(buffer, found.advance + 1, Len(buffer))
       /\ tokens' = Append(tokens, found.token)
       /\ packet' = UnMarshal(found.token)
  /\ UNCHANGED <<input, pass, position, atEOF, counts, player, result>>

Crash ==
  /\ packet.kind = "panic"
  /\ pass' = "panic"
  /\ packet' = Nothing
  /\ UNCHANGED <<input, position, buffer, atEOF, tokens, counts, player, result>>

\* Mutant: a record that cannot be read is tried again.
SkipRetries ==
  /\ packet.kind = "error"
  /\ UNCHANGED vars

\* A record that cannot be read is logged and left out.
Skip ==
  /\ packet.kind = "error"
  /\ packet' = Nothing
  /\ UNCHANGED <<input, pass, position, buffer, atEOF, tokens, counts, player, result>>

-----------------------------------------------------------------------------
(* detectRecordedTarget.                                                   *)

Count ==
  /\ pass = "detect"
  /\ packet.kind = "packet"
  /\ counts' = [counts EXCEPT ![packet.to] = @ + 1]
  /\ packet' = Nothing
  /\ UNCHANGED <<input, pass, position, buffer, atEOF, tokens, player, result>>

\* The file is opened again, and the target dialled.  The caller says whether to
\* keep time.
StartReplay ==
  /\ pass' = "replay"
  /\ replayTime' \in BOOLEAN
  /\ position' = 0
  /\ buffer' = <<>>
  /\ atEOF' = FALSE
  /\ tokens' = <<>>
  /\ UNCHANGED <<input, packet, counts, sent, pacing, result>>

\* The order of Go's map decides between destinations of equal count.
Detect ==
  /\ pass = "detect"
  /\ Ended
  /\ \E t \in Targets :
       /\ counts[t] > 0
       /\ \A u \in Targets : counts[u] <= counts[t]
       /\ recordedTo' = t
  /\ StartReplay

\* There is no packet, or the file or the target cannot be opened.
NotDetected ==
  /\ pass = "detect"
  /\ Ended
  /\ pass' = "done"
  /\ result' = "failed"
  /\ UNCHANGED <<input, scanner, counts, player>>

-----------------------------------------------------------------------------
(* ReplayToTarget.                                                         *)

\* waitingAndSend, before a packet is written to the connection of that side.
Pace(side) ==
  IF replayTime THEN \E milli \in Clocks : Wait(side, packet.time, milli) ELSE UNCHANGED pacing

Written(side, body) == sent' = [sent EXCEPT ![side] = Append(@, body)]

NextPacket ==
  /\ packet.kind = "packet"
  /\ packet' = Nothing
  /\ UNCHANGED <<input, position, buffer, atEOF, tokens, counts, recordedTo, replayTime>>

\* Mutant: packets for every destination are sent.
SendAll ==
  /\ pass = "replay"
  /\ NextPacket
  /\ Pace("target")
  /\ Written("target", packet.body)
  /\ UNCHANGED <<pass, result>>

Send ==
  /\ pass = "replay"
  /\ NextPacket
  /\ IF packet.to = recordedTo THEN Pace("target") /\ Written("target", packet.body)
     ELSE UNCHANGED <<sent, pacing>>
  /\ UNCHANGED <<pass, result>>

WriteFails ==
  /\ pass = "replay"
  /\ NextPacket
  /\ packet.to = recordedTo
  /\ Pace("target")
  /\ pass' = "done"
  /\ result' = "failed"
  /\ UNCHANGED sent

Finish ==
  /\ pass = "replay"
  /\ Ended
  /\ pass' = "done"
  /\ result' = IF sent["target"] = <<>> THEN "failed" ELSE "replayed"
  /\ UNCHANGED <<input, scanner, counts, player>>

-----------------------------------------------------------------------------
(* SendSinglePacket.                                                       *)

Origin(side) == IF side = "client" THEN Client ELSE Target

\* SendPacket; its error is ignored when the write fails.
SendPacket(side) ==
  /\ pass = "single"
  /\ NextPacket
  /\ packet.to = recordedTo
  /\ packet.from = Origin(side)
  /\ Pace(side)
  /\ Written(side, packet.body) \/ UNCHANGED sent
  /\ UNCHANGED <<pass, result>>

\* The packet went elsewhere, or "packet from error", which is ignored too.
NotForUs ==
  /\ pass = "single"
  /\ NextPacket
  /\ packet.to = recordedTo => \A side \in Sides : packet.from # Origin(side)
  /\ UNCHANGED <<pass, sent, pacing, result>>

FinishSingle ==
  /\ pass = "single"
  /\ Ended
  /\ pass' = "done"
  /\ UNCHANGED <<input, scanner, counts, player, result>>

-----------------------------------------------------------------------------

Next ==
  \/ Read \/ TooLong \/ Scan \/ Crash \/ Skip
  \/ Count \/ Detect \/ NotDetected
  \/ Send \/ WriteFails \/ Finish
  \/ NotForUs \/ FinishSingle \/ \E side \in Sides : SendPacket(side)

\* The program runs until it is done.
Spec == Init /\ [][Next]_vars /\ WF_vars(Next)

-----------------------------------------------------------------------------
(* Properties.                                                             *)

\* A record is replayed if it is whole.
Whole(i) == i # cut
Plain(p) == p.body = HandleDataBody(p.body)
AllPlain == \A i \in 1 .. Len(packets) : Plain(packets[i])

\* A record whose writing stopped within the magic header becomes part of the
\* record before it.
CutInMagic == cut # 0 /\ kept \in 1 .. Len(MagicHeader) - 1

\* The bodies that were recorded for a destination, in order: all, or those that came
\* from one place.
To(t)     == {i \in 1 .. Len(packets) : Whole(i) /\ packets[i].to = t}
From(f)   == {i \in 1 .. Len(packets) : packets[i].from = f}
Chosen(I) == [i \in 1 .. Len(packets) |-> IF i \in I THEN <<packets[i].body>> ELSE <<>>]

BodiesTo(t)        == FlattenSeq(Chosen(To(t)))
BodiesFromTo(f, t) == FlattenSeq(Chosen(From(f) \cap To(t)))

\* s is t with some of its elements left out.
PartOf(s, t) ==
  \E f \in [1 .. Len(s) -> 1 .. Len(t)] :
    /\ \A i \in 1 .. Len(s) : s[i] = t[f[i]]
    /\ \A i, j \in 1 .. Len(s) : i < j => f[i] < f[j]

\* Whatever the recorded data contains, and however the reads fall, the scanner
\* hands over the records that were written, one by one.
FramingHolds ==
  ~CutInMagic => IsPrefix(tokens, Records)

\* ReplayFileToTarget picks a destination that most whole records went to, and the
\* target gets what went there, in the order and the pieces in which it was recorded,
\* also around a record that was cut short: as long as no "\nt" was in it.  When
\* success is reported nothing is missing.  SendSinglePacket gives each connection
\* some of what came from its address: what a write failed on is missing, and nobody
\* is told.
SentAsRecorded ==
  AllPlain /\ ~CutInMagic =>
    /\ recordedTo # NoTarget /\ counts[recordedTo] > 0 =>
         /\ \A t \in Targets : Len(BodiesTo(t)) <= Len(BodiesTo(recordedTo))
         /\ IsPrefix(sent["target"], BodiesTo(recordedTo))
         /\ result = "replayed" => sent["target"] = BodiesTo(recordedTo)
    /\ pass = "single" =>
         \A side \in Sides : PartOf(sent[side], BodiesFromTo(Origin(side), recordedTo))

\* A replay comes to an end.
Ends == <>(pass \in {"done", "panic"})

\* proto/consts_test.go:19 : reading a record gives what was written.
RoundTrip ==
  cut = 0 /\ pass = "replay" => IsPrefix(sent["target"], BodiesTo(recordedTo))

\* Records that cannot be read "do not interrupt" the replay
\* (tcpPlayback/interfaces.md:64).
NeverPanics == pass # "panic"

\* With replayTime the player "sleeps by the time difference between packets, to simulate
\* the real timing" (tcpPlayback/interfaces.md:133): before a packet it pauses no longer
\* than what lay between it and the one before it on that connection.
PausesFollowTheGaps ==
  [][\A side \in Sides :
       LET gap == packageTime'[side] - packageTime[side]
       IN  packageTime[side] # 0 /\ gap # 0 => pause' <= Max({0, gap})]_vars
=============================================================================
