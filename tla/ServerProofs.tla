---------------------------- MODULE ServerProofs ----------------------------
(***************************************************************************)
(* The server uses its registry as LockRegistry says, so that what is      *)
(* proved of the registry holds in the server; the records of each queue   *)
(* are in the file in turn, but for those whose write failed; and a signal *)
(* loses nothing that has been written: for any connections, chunks and    *)
(* buffer size.                                                            *)
(***************************************************************************)
EXTENDS Server, LockRegistryProofs, SequenceTheorems

-----------------------------------------------------------------------------
(* The registry.                                                           *)

LEMMA ServerStep == [ServerNext]_serverVars => [Next]_vars
<1> SUFFICES ASSUME [ServerNext]_serverVars PROVE [Next]_vars
  OBVIOUS
<1>1. ASSUME NEW c \in Conns, Serve(c) PROVE [Next]_vars
  <2>1. CASE Dial(c)
    BY <2>1 DEF Dial, Next
  <2>2. CASE Setup(c)
    BY <2>2 DEF Setup, Next
  <2>3. CASE CloseHook(c)
    BY <2>3 DEF CloseHook, Next
  <2>4. CASE DialFails(c) \/ ResourceFails(c)
            \/ \E d \in Directions : DrawIndex(c, d) \/ HandOver(c, d) \/ Done(c, d)
    BY <2>4 DEF DialFails, ResourceFails, DrawIndex, HandOver, Done
  <2> QED
    BY <1>1, <2>1, <2>2, <2>3, <2>4 DEF Serve
<1>2. ASSUME NEW r \in Conns, Write(r) PROVE UNCHANGED vars
  BY <1>2 DEF Write, BeginWrite, Begin, EndWrite, WriteFails, WriteClosed
<1>3. CASE CheckLocks
  BY <1>3 DEF CheckLocks, Next
<1>4. CASE Close \/ Exit
  BY <1>4 DEF Close, Exit
<1>5. CASE UNCHANGED serverVars
  BY <1>5 DEF serverVars
<1> QED
  BY <1>1, <1>2, <1>3, <1>4, <1>5 DEF ServerNext

\* Whatever the server does, its registry goes through steps of LockRegistry.
THEOREM ServerUsesRegistry == ServerSpec => Spec
<1>1. ServerInit => Init
  BY DEF ServerInit
<1> QED
  BY <1>1, ServerStep, PTL DEF ServerSpec, Spec

\* So a lock's counter is the number of connections that have it and have not
\* released it, also while connections are served, fail or end.
THEOREM ServerCountsReferences ==
  ASSUME IsFiniteSet(Conns) PROVE ServerSpec => []RefsMatch
BY ServerUsesRegistry, RefsCorrect, PTL

\* And connections do not share a write queue, as long as no port is the first number
\* of an address.
THEOREM ServerKeepsQueuesApart == ServerSpec => []OwnQueue
BY ServerUsesRegistry, QueuesAreOwn, PTL

-----------------------------------------------------------------------------
(* The stream: what the queues have written, in the file and the buffer.   *)

Parts == [queue : Conns, index : Nat, half : {1, 2}]

SinkTypes ==
  /\ buffer \in Seq(Parts)
  /\ Len(buffer) <= BufferSize
  /\ file \in Seq(Parts)
  /\ next \in [Conns -> Nat \ {0}]
  /\ writing \in [Conns -> Nat]
  /\ sink \in {"file", "buffered"}
  /\ process \in {"up", "closed", "exited"}
  /\ failed \subseteq Conns \X Nat
  /\ sink = "file" => buffer = <<>>

Stream == file \o buffer

In(x, s) == \E k \in 1 .. Len(s) : s[k] = x

\* Sequence s is the beginning of t.
Begins(s, t) == Len(s) <= Len(t) /\ \A k \in 1 .. Len(s) : s[k] = t[k]

\* What is in a part of a sequence is in the whole, and the other way round.
LEMMA InConcat ==
  ASSUME NEW S, NEW s \in Seq(S), NEW t \in Seq(S), NEW x
  PROVE  /\ s \o t \in Seq(S)
         /\ In(x, s) => In(x, s \o t)
         /\ In(x, t) => In(x, s \o t)
         /\ In(x, s \o t) => In(x, s) \/ In(x, t)
<1>1. /\ s \o t \in Seq(S) /\ Len(s \o t) = Len(s) + Len(t)
      /\ Len(s) \in Nat /\ Len(t) \in Nat
      /\ \A i \in 1 .. Len(s) : (s \o t)[i] = s[i]
      /\ \A i \in 1 .. Len(t) : (s \o t)[Len(s) + i] = t[i]
  BY ConcatProperties, LenProperties
<1> DEFINE u == s \o t
<1> HIDE DEF u
<1>2. In(x, s) => In(x, u)
  BY <1>1 DEF In, u
<1>3. ASSUME NEW i \in 1 .. Len(t), t[i] = x PROVE In(x, u)
  <2>1. Len(s) + i \in 1 .. Len(u) /\ u[Len(s) + i] = x
    BY <1>1, <1>3 DEF u
  <2> QED
    BY <2>1 DEF In
<1>4. ASSUME NEW k \in 1 .. Len(u), u[k] = x PROVE In(x, s) \/ In(x, t)
  <2>1. CASE k <= Len(s)
    <3>1. k \in 1 .. Len(s) /\ s[k] = x
      BY <1>1, <1>4, <2>1 DEF u
    <3> QED
      BY <3>1 DEF In
  <2>2. CASE k > Len(s)
    <3>1. k - Len(s) \in 1 .. Len(t) /\ Len(s) + (k - Len(s)) = k
      BY <1>1, <1>4, <2>2 DEF u
    <3>2. t[k - Len(s)] = x
      BY <1>1, <1>4, <3>1 DEF u
    <3> QED
      BY <3>1, <3>2 DEF In
  <2> QED
    BY <1>1, <1>4, <2>1, <2>2 DEF u
<1> QED
  BY <1>1, <1>2, <1>3, <1>4 DEF In, u

\* What begins a part goes on to begin the whole.
LEMMA BeginsConcat ==
  ASSUME NEW S, NEW s \in Seq(S), NEW t \in Seq(S), NEW u \in Seq(S), Begins(t, u)
  PROVE  Begins(s \o t, s \o u)
<1>1. Len(s) \in Nat /\ Len(t) \in Nat /\ Len(u) \in Nat
  BY LenProperties
<1>2. Len(t) <= Len(u) /\ \A k \in 1 .. Len(t) : t[k] = u[k]
  BY DEF Begins
<1>3. /\ Len(s \o t) = Len(s) + Len(t)
      /\ \A k \in 1 .. Len(s) + Len(t) : (s \o t)[k] = IF k <= Len(s) THEN s[k] ELSE t[k - Len(s)]
  BY ConcatProperties
<1>4. /\ Len(s \o u) = Len(s) + Len(u)
      /\ \A k \in 1 .. Len(s) + Len(u) : (s \o u)[k] = IF k <= Len(s) THEN s[k] ELSE u[k - Len(s)]
  BY ConcatProperties
<1>5. ASSUME NEW k \in 1 .. Len(s) + Len(t) PROVE (s \o t)[k] = (s \o u)[k]
  <2>1. ~(k <= Len(s)) => k - Len(s) \in 1 .. Len(t)
    BY <1>1
  <2>2. k \in 1 .. Len(s) + Len(u)
    BY <1>1, <1>2
  <2> QED
    BY <1>2, <1>3, <1>4, <2>1, <2>2
<1> QED
  BY <1>1, <1>2, <1>3, <1>4, <1>5 DEF Begins

LEMMA BeginsWhole ==
  ASSUME NEW S, NEW s \in Seq(S), NEW t \in Seq(S)
  PROVE  Begins(s, s \o t)
<1>1. Begins(<<>>, t) /\ <<>> \in Seq(S)
  BY LenProperties DEF Begins
<1>2. s \o <<>> = s
  BY ConcatEmptySeq
<1> QED
  BY <1>1, <1>2, BeginsConcat

LEMMA BeginsPart ==
  ASSUME NEW S, NEW s \in Seq(S), NEW n \in 0 .. Len(s)
  PROVE  /\ SubSeq(s, 1, n) \in Seq(S) /\ Len(SubSeq(s, 1, n)) = n
         /\ Begins(SubSeq(s, 1, n), s)
<1>1. /\ SubSeq(s, 1, n) \in Seq(S) /\ Len(SubSeq(s, 1, n)) = n
      /\ \A i \in 1 .. n : SubSeq(s, 1, n)[i] = s[i]
  OBVIOUS
<1>2. Len(s) \in Nat
  BY LenProperties
<1> QED
  BY <1>1, <1>2 DEF Begins

LEMMA BeginsTransitive ==
  ASSUME NEW S, NEW s \in Seq(S), NEW t \in Seq(S), NEW u \in Seq(S), Begins(s, t), Begins(t, u)
  PROVE  Begins(s, u)
<1>1. Len(s) \in Nat /\ Len(t) \in Nat /\ Len(u) \in Nat
  BY LenProperties
<1> QED
  BY <1>1 DEF Begins

\* A sequence is its beginning and its end.
LEMMA Parted ==
  ASSUME NEW S, NEW s \in Seq(S), NEW n \in 0 .. Len(s)
  PROVE  /\ SubSeq(s, 1, n) \in Seq(S) /\ SubSeq(s, n + 1, Len(s)) \in Seq(S)
         /\ Len(SubSeq(s, n + 1, Len(s))) = Len(s) - n
         /\ SubSeq(s, 1, n) \o SubSeq(s, n + 1, Len(s)) = s
<1>1. Len(s) \in Nat
  BY LenProperties
<1>2. SubSeq(s, 1, n) \in Seq(S) /\ SubSeq(s, n + 1, Len(s)) \in Seq(S)
      /\ Len(SubSeq(s, n + 1, Len(s))) = Len(s) - n
  OBVIOUS
<1>3. 1 \in 1 .. Len(s) + 1 /\ n \in 1 - 1 .. Len(s) /\ Len(s) \in n .. Len(s)
  BY <1>1
<1>4. SubSeq(s, 1, n) \o SubSeq(s, n + 1, Len(s)) = SubSeq(s, 1, Len(s))
  BY <1>3, ConcatAdjacentSubSeq
<1> QED
  BY <1>2, <1>4, SubSeqFull

-----------------------------------------------------------------------------
(* Sequences of records.                                                   *)

\* The k-th half of s is in turn, F being the records whose write failed.
InTurn(s, k, F) ==
  LET q == s[k].queue
      i == s[k].index
  IN  IF s[k].half = 2 THEN k > 1 /\ s[k - 1] = Half(q, i, 1)
      ELSE /\ k < Len(s) /\ <<q, i>> \notin F => s[k + 1] = Half(q, i, 2)
           /\ \A n \in 1 .. k - 1 : s[n].queue = q => s[n].index < i
           /\ \A j \in 1 .. i - 1 :
                <<q, j>> \in F \/ \E n \in 1 .. k - 1 : s[n] = Half(q, j, 2)

Ordered(s, F) == \A k \in 1 .. Len(s) : InTurn(s, k, F)

\* The last record is not cut short unless its write failed: another may follow it.
Whole(s, F) == \A k \in 1 .. Len(s) :
  s[k].half = 1 /\ <<s[k].queue, s[k].index>> \notin F => k < Len(s)

\* What there is of queue r comes before item i, and what comes before it is there or
\* has failed.
UpTo(s, r, i, F) ==
  /\ \A k \in 1 .. Len(s) : s[k].queue = r => s[k].index < i
  /\ \A j \in 1 .. i - 1 : <<r, j>> \in F \/ In(Half(r, j, 2), s)

\* A beginning of an ordered record is ordered.
LEMMA OrderedPrefix ==
  ASSUME NEW s \in Seq(Parts), NEW t \in Seq(Parts), NEW F, Ordered(t, F), Begins(s, t)
  PROVE  Ordered(s, F)
<1>1. Len(s) \in Nat /\ Len(t) \in Nat /\ Len(s) <= Len(t) /\ \A k \in 1 .. Len(s) : s[k] = t[k]
  BY LenProperties DEF Begins
<1> SUFFICES ASSUME NEW k \in 1 .. Len(s) PROVE InTurn(s, k, F)
  BY DEF Ordered
<1>2. k \in 1 .. Len(t) /\ InTurn(t, k, F) /\ s[k] = t[k]
  BY <1>1 DEF Ordered
<1>3. \A n \in 1 .. k - 1 : n \in 1 .. Len(s) /\ s[n] = t[n]
  BY <1>1
<1>4. k < Len(s) => k < Len(t) /\ s[k + 1] = t[k + 1]
  BY <1>1
<1>5. k > 1 => s[k - 1] = t[k - 1]
  BY <1>1, <1>3
<1> QED
  BY <1>2, <1>3, <1>4, <1>5 DEF InTurn

\* It does not matter for what is ordered that more records have failed.
LEMMA MoreFail ==
  ASSUME NEW s, NEW F, NEW G, F \subseteq G
  PROVE  /\ Ordered(s, F) => Ordered(s, G)
         /\ Whole(s, F) => Whole(s, G)
<1>1. ASSUME NEW k \in 1 .. Len(s), InTurn(s, k, F) PROVE InTurn(s, k, G)
  BY <1>1 DEF InTurn
<1> QED
  BY <1>1 DEF Ordered, Whole

\* The next record of a queue, when what precedes it there has been written or failed.
LEMMA OrderedNext ==
  ASSUME NEW s \in Seq(Parts), NEW F, Ordered(s, F), Whole(s, F),
         NEW r \in Conns, NEW i \in Nat, UpTo(s, r, i, F),
         NEW t, t = s \o Halves(r, i)
  PROVE  /\ t \in Seq(Parts) /\ Len(t) = Len(s) + 2 /\ Begins(s, t)
         /\ t[Len(s) + 1] = Half(r, i, 1)
         /\ Ordered(t, F) /\ Whole(t, F)
         /\ In(Half(r, i, 2), t)
         /\ \A k \in 1 .. Len(t) : k <= Len(s) \/ (t[k].queue = r /\ t[k].index = i)
<1> DEFINE n == Len(s)
           h == Halves(r, i)
<1>1. n \in Nat
  BY LenProperties
<1>2. /\ h \in Seq(Parts) /\ Len(h) = 2
      /\ h[1] = Half(r, i, 1) /\ h[2] = Half(r, i, 2) /\ t = s \o h
  BY DEF Halves, Half, Parts
<1> HIDE DEF h
<1>3. /\ t \in Seq(Parts) /\ Len(t) = n + 2
      /\ \A k \in 1 .. n + 2 : t[k] = IF k <= n THEN s[k] ELSE h[k - n]
  <2>1. s \o h \in Seq(Parts) /\ Len(s \o h) = n + Len(h)
        /\ \A k \in 1 .. n + Len(h) : (s \o h)[k] = IF k <= n THEN s[k] ELSE h[k - n]
    BY <1>2, ConcatProperties
  <2> QED
    BY <1>2, <2>1
<1>4. n + 1 \in 1 .. n + 2 /\ n + 2 \in 1 .. n + 2 /\ (n + 1) - n = 1 /\ (n + 2) - n = 2
      /\ ~(n + 1 <= n) /\ ~(n + 2 <= n) /\ (n + 2) - 1 = n + 1 /\ (n + 1) + 1 = n + 2
      /\ (n + 1) - 1 = n /\ n + 1 < n + 2 /\ n + 2 > 1
  BY <1>1
<1>5. /\ t[n + 1] = Half(r, i, 1) /\ t[n + 2] = Half(r, i, 2)
      /\ \A k \in 1 .. n : t[k] = s[k]
  <2>1. t[n + 1] = h[1] /\ t[n + 2] = h[2]
    BY <1>3, <1>4
  <2>2. \A k \in 1 .. n : t[k] = s[k]
    BY <1>1, <1>3
  <2> QED
    BY <1>2, <2>1, <2>2
<1> HIDE DEF n
<1>6. ASSUME NEW k \in 1 .. n PROVE InTurn(t, k, F)
  <2>1. InTurn(s, k, F) /\ t[k] = s[k]
    BY <1>5, <1>6 DEF Ordered, n
  <2>2. \A m \in 1 .. k - 1 : m \in 1 .. n
    BY <1>1, <1>6
  <2>3. \A m \in 1 .. k - 1 : t[m] = s[m]
    BY <1>5, <2>2
  <2>4. k > 1 => k - 1 \in 1 .. n
    BY <1>1, <1>6
  <2>5. k > 1 => t[k - 1] = s[k - 1]
    BY <1>5, <2>4
  <2>6. k < n => k + 1 \in 1 .. n
    BY <1>1, <1>6
  <2>7. k < n => t[k + 1] = s[k + 1]
    BY <1>5, <2>6
  <2>8. s[k].half = 1 /\ <<s[k].queue, s[k].index>> \notin F => k < n
    <3>1. n = Len(s)
      BY DEF n
    <3>2. k \in 1 .. Len(s)
      BY <1>6, <3>1
    <3>3. s[k].half = 1 /\ <<s[k].queue, s[k].index>> \notin F => k < Len(s)
      BY <3>2 DEF Whole
    <3> QED
      BY <3>1, <3>3
  <2>9. s[k].half \in {1, 2}
    <3>1. k \in 1 .. Len(s)
      BY <1>6 DEF n
    <3>2. s[k] \in Parts
      BY <3>1
    <3> QED
      BY <3>2 DEF Parts
  <2> QED
    BY <2>1, <2>3, <2>5, <2>7, <2>8, <2>9 DEF InTurn, n
<1>7. InTurn(t, n + 1, F)
  <2>1. \A m \in 1 .. n : t[m].queue = r => t[m].index < i
    BY <1>5 DEF UpTo, n
  <2>2. ASSUME NEW j \in 1 .. i - 1 PROVE <<r, j>> \in F \/ \E m \in 1 .. n : t[m] = Half(r, j, 2)
    BY <1>5 DEF UpTo, In, n
  <2>3. t[n + 1].queue = r /\ t[n + 1].index = i /\ t[n + 1].half = 1
    BY <1>5 DEF Half
  <2>4. t[(n + 1) + 1] = Half(r, i, 2)
    BY <1>4, <1>5
  <2> QED
    BY <1>4, <2>1, <2>2, <2>3, <2>4 DEF InTurn
<1>8. InTurn(t, n + 2, F)
  <2>1. t[n + 2].queue = r /\ t[n + 2].index = i /\ t[n + 2].half = 2
    BY <1>5 DEF Half
  <2>2. t[(n + 2) - 1] = Half(r, i, 1)
    BY <1>4, <1>5
  <2> QED
    BY <1>4, <2>1, <2>2 DEF InTurn
<1>9. \A k \in 1 .. n + 2 : k \in 1 .. n \/ k = n + 1 \/ k = n + 2
  BY <1>1
<1>10. Ordered(t, F)
  BY <1>3, <1>6, <1>7, <1>8, <1>9 DEF Ordered
<1>11. Whole(t, F)
  <2>1. t[n + 2].half # 1
    BY <1>5 DEF Half
  <2>2. \A k \in 1 .. n + 2 : k < n + 2 \/ k = n + 2
    BY <1>1
  <2> QED
    BY <1>3, <2>1, <2>2 DEF Whole
<1>12. Begins(s, t) /\ In(Half(r, i, 2), t)
  <2>1. n <= Len(t) /\ n + 2 \in 1 .. Len(t)
    BY <1>1, <1>3, <1>4
  <2>2. In(Half(r, i, 2), t)
    BY <1>5, <2>1 DEF In
  <2>3. n = Len(s)
    BY DEF n
  <2>4. Len(s) <= Len(t) /\ \A k \in 1 .. Len(s) : s[k] = t[k]
    BY <1>5, <2>1, <2>3
  <2> QED
    BY <2>2, <2>4 DEF Begins
<1>13. \A k \in 1 .. n + 2 : k <= n \/ (t[k].queue = r /\ t[k].index = i)
  <2>1. /\ t[n + 1].queue = r /\ t[n + 1].index = i
        /\ t[n + 2].queue = r /\ t[n + 2].index = i
    BY <1>5 DEF Half
  <2>2. ASSUME NEW k \in 1 .. n + 2 PROVE k <= n \/ (t[k].queue = r /\ t[k].index = i)
    <3>1. CASE k \in 1 .. n
      BY <1>1, <3>1
    <3>2. CASE k = n + 1
      BY <2>1, <3>2
    <3>3. CASE k = n + 2
      BY <2>1, <3>3
    <3> QED
      BY <1>9, <2>2, <3>1, <3>2, <3>3
  <2> QED
    BY <2>2
<1> QED
  BY <1>3, <1>5, <1>10, <1>11, <1>12, <1>13 DEF n

\* As much of that record as a write that failed has left: none of it, or its first half.
LEMMA OrderedTorn ==
  ASSUME NEW s \in Seq(Parts), NEW t \in Seq(Parts), NEW u \in Seq(Parts), NEW F,
         NEW r \in Conns, NEW i \in Nat,
         Whole(s, F), Ordered(t, F), Begins(s, t), Begins(u, t),
         t[Len(s) + 1] = Half(r, i, 1), Len(u) \in {Len(s), Len(s) + 1}
  PROVE  Begins(s, u) /\ Ordered(u, F \cup {<<r, i>>}) /\ Whole(u, F \cup {<<r, i>>})
<1>1. Len(s) \in Nat /\ Len(u) \in Nat /\ Len(t) \in Nat
  BY LenProperties
<1>2. /\ \A k \in 1 .. Len(s) : u[k] = s[k]
      /\ Len(s) <= Len(u)
      /\ Len(u) = Len(s) + 1 => u[Len(s) + 1] = Half(r, i, 1)
  BY <1>1 DEF Begins
<1>3. Ordered(u, F \cup {<<r, i>>})
  BY OrderedPrefix, MoreFail
<1>4. ASSUME NEW k \in 1 .. Len(u), u[k].half = 1,
             <<u[k].queue, u[k].index>> \notin F \cup {<<r, i>>}
      PROVE  k < Len(u)
  <2>1. CASE k \in 1 .. Len(s)
    BY <1>1, <1>2, <1>4, <2>1 DEF Whole
  <2>2. CASE k \notin 1 .. Len(s)
    <3>1. Len(u) = Len(s) + 1 /\ k = Len(s) + 1
      BY <1>1, <2>2
    <3>2. u[k].queue = r /\ u[k].index = i
      BY <1>2, <3>1 DEF Half
    <3> QED
      BY <1>4, <3>2
  <2> QED
    BY <2>1, <2>2
<1> QED
  BY <1>2, <1>3, <1>4 DEF Begins, Whole

-----------------------------------------------------------------------------
(* What the queues write.                                                  *)

\* What has been taken from the queue of r, and is not being written.
DoneWith(r, i) == r \in Conns /\ i \in 1 .. next[r] - 1 /\ i # writing[r]

\* As long as the process runs: the stream is a record, of what the queues are done with.
StreamInv ==
  /\ Ordered(Stream, failed) /\ Whole(Stream, failed)
  /\ \A k \in 1 .. Len(Stream) : DoneWith(Stream[k].queue, Stream[k].index)
  /\ \A r \in Conns : \A i \in Nat :
       DoneWith(r, i) => <<r, i>> \in failed \/ In(Half(r, i, 2), Stream)
  /\ \A r \in Conns : writing[r] # 0 => next[r] = writing[r] + 1

Kept == process # "up" => \A s \in safe : In(Half(s[1], s[2], 2), file)

Turns ==
  ~raced =>
    /\ Kept
    /\ process = "exited" => Ordered(file, failed)
    /\ process # "exited" => StreamInv

\* The stream and the record that queue r is writing.
Longer(r) == Stream \o Halves(r, writing[r])

LEMMA BeginsIn ==
  ASSUME NEW S, NEW s \in Seq(S), NEW t \in Seq(S), Begins(s, t), NEW x, In(x, s)
  PROVE  In(x, t)
<1>1. Len(s) \in Nat /\ Len(t) \in Nat
  BY LenProperties
<1> QED
  BY <1>1 DEF Begins, In

\* A write or a flush continues the file.
LEMMA KeptGoesOn ==
  ASSUME Kept, SinkTypes, process # "up", NEW s \in Seq(Parts), file' = file \o s, safe' = safe
  PROVE  Kept'
<1>1. \A x : In(x, file) => In(x, file')
  BY InConcat DEF SinkTypes
<1> QED
  BY <1>1 DEF Kept

LEMMA StreamType == ASSUME SinkTypes PROVE Stream \in Seq(Parts) /\ Begins(file, Stream)
BY BeginsWhole, ConcatProperties DEF SinkTypes, Stream

\* What a write gives to the file and what it leaves in the buffer.
LEMMA WrittenTo ==
  ASSUME SinkTypes, NEW r \in Conns
  PROVE  /\ ToFile(r) \in Seq(Parts) /\ ToBuffer(r) \in Seq(Parts)
         /\ Len(ToBuffer(r)) <= BufferSize
         /\ sink = "file" => ToFile(r) = Halves(r, writing[r]) /\ ToBuffer(r) = <<>>
         /\ sink = "buffered" =>
              \/ ToFile(r) = <<>>
              \/ Len(ToFile(r)) = BufferSize /\ Len(buffer) <= BufferSize /\ BufferSize <= Len(buffer) + 1
         /\ Longer(r) = file \o (ToFile(r) \o ToBuffer(r))
<1> DEFINE h == Halves(r, writing[r])
<1>1. file \in Seq(Parts) /\ buffer \in Seq(Parts) /\ h \in Seq(Parts) /\ Len(h) = 2
  BY DEF SinkTypes, Halves, Half, Parts
<1> HIDE DEF h
<1>2. All(r) \in Seq(Parts) /\ file \o All(r) = Stream \o h
  BY <1>1, ConcatProperties, ConcatAssociative DEF All, Stream, h
<1>3. Len(All(r)) = Len(buffer) + 2 /\ Len(buffer) \in Nat /\ Len(buffer) <= BufferSize
      /\ BufferSize \in Nat /\ BufferSize >= 2
  <2>1. Len(buffer \o h) = Len(buffer) + Len(h)
    BY <1>1, ConcatProperties
  <2> QED
    BY <1>1, <2>1, LenProperties, BufferAssumption DEF All, h, SinkTypes
<1>4. CASE sink = "file"
  <2>1. ToFile(r) = h /\ ToBuffer(r) = <<>>
    BY <1>4 DEF ToFile, ToBuffer, h
  <2>2. Stream = file
    BY <1>1, <1>4, ConcatEmptySeq DEF Stream, SinkTypes
  <2>3. ToFile(r) \o ToBuffer(r) = h
    BY <1>1, <2>1, ConcatEmptySeq
  <2>4. Len(ToBuffer(r)) <= BufferSize
    BY <1>3, <2>1
  <2> QED
    BY <1>1, <1>4, <2>1, <2>2, <2>3, <2>4 DEF h, Longer
<1>5. CASE sink # "file" /\ Len(All(r)) <= BufferSize
  <2>1. ToFile(r) = <<>> /\ ToBuffer(r) = All(r)
    BY <1>5 DEF ToFile, ToBuffer
  <2>2. ToFile(r) \o ToBuffer(r) = All(r)
    BY <1>2, <2>1, ConcatEmptySeq
  <2>3. Stream \o h = file \o (ToFile(r) \o ToBuffer(r))
    BY <1>2, <2>2
  <2>4. Len(ToBuffer(r)) <= BufferSize /\ ToBuffer(r) \in Seq(Parts) /\ ToFile(r) \in Seq(Parts)
    BY <1>2, <1>5, <2>1
  <2> QED
    BY <1>5, <2>1, <2>3, <2>4 DEF h, Longer
<1>6. CASE sink # "file" /\ ~(Len(All(r)) <= BufferSize)
  <2>1. ToFile(r) = SubSeq(All(r), 1, BufferSize)
        /\ ToBuffer(r) = SubSeq(All(r), BufferSize + 1, Len(All(r)))
    BY <1>6 DEF ToFile, ToBuffer
  <2>2. BufferSize \in 0 .. Len(All(r)) /\ BufferSize <= Len(buffer) + 1
        /\ Len(All(r)) - BufferSize <= BufferSize
    BY <1>3, <1>6
  <2>3. Len(ToBuffer(r)) = Len(All(r)) - BufferSize
        /\ ToFile(r) \in Seq(Parts) /\ ToBuffer(r) \in Seq(Parts)
        /\ ToFile(r) \o ToBuffer(r) = All(r)
    BY <1>2, <2>1, <2>2, Parted
  <2>4. Len(ToFile(r)) = BufferSize
    BY <1>2, <2>1, <2>2, BeginsPart
  <2> QED
    BY <1>2, <1>3, <1>6, <2>2, <2>3, <2>4 DEF h, Longer
<1> QED
  BY <1>4, <1>5, <1>6

\* A write that succeeds appends the record to the stream.
LEMMA WriteAppends ==
  ASSUME SinkTypes, NEW r \in Conns, file' = file \o ToFile(r), buffer' = ToBuffer(r)
  PROVE  Stream' = Longer(r)
<1>1. Stream' = (file \o ToFile(r)) \o ToBuffer(r)
  BY DEF Stream
<1>2. file \in Seq(Parts) /\ ToFile(r) \in Seq(Parts) /\ ToBuffer(r) \in Seq(Parts)
  BY WrittenTo DEF SinkTypes
<1>3. (file \o ToFile(r)) \o ToBuffer(r) = file \o (ToFile(r) \o ToBuffer(r))
  BY <1>2, ConcatAssociative
<1> QED
  BY <1>1, <1>3, WrittenTo

\* A write that is cut off leaves a beginning of that.
LEMMA WriteBegins ==
  ASSUME SinkTypes, NEW r \in Conns, NEW n \in 0 .. Len(ToFile(r))
  PROVE  /\ SubSeq(ToFile(r), 1, n) \in Seq(Parts)
         /\ file \o SubSeq(ToFile(r), 1, n) \in Seq(Parts)
         /\ Begins(file \o SubSeq(ToFile(r), 1, n), Longer(r))
<1> DEFINE part == SubSeq(ToFile(r), 1, n)
           rest == ToFile(r) \o ToBuffer(r)
<1>1. file \in Seq(Parts) /\ ToFile(r) \in Seq(Parts) /\ ToBuffer(r) \in Seq(Parts)
  BY WrittenTo DEF SinkTypes
<1>2. part \in Seq(Parts) /\ Begins(part, ToFile(r))
  BY <1>1, BeginsPart
<1>3. rest \in Seq(Parts) /\ Begins(ToFile(r), rest)
  BY <1>1, BeginsWhole, ConcatProperties
<1>4. Longer(r) = file \o rest
  BY WrittenTo
<1> HIDE DEF part, rest
<1>5. Begins(part, rest)
  BY <1>1, <1>2, <1>3, BeginsTransitive
<1>6. file \o part \in Seq(Parts) /\ Begins(file \o part, file \o rest)
  BY <1>1, <1>2, <1>3, <1>5, BeginsConcat, ConcatProperties
<1> QED
  BY <1>2, <1>4, <1>6 DEF part

\* The next record of a queue can follow the stream.
LEMMA StreamNext ==
  ASSUME SinkTypes, StreamInv, NEW r \in Conns, writing[r] # 0
  PROVE  /\ Longer(r) \in Seq(Parts) /\ Len(Longer(r)) = Len(Stream) + 2
         /\ Begins(Stream, Longer(r))
         /\ Longer(r)[Len(Stream) + 1] = Half(r, writing[r], 1)
         /\ Ordered(Longer(r), failed) /\ Whole(Longer(r), failed)
         /\ In(Half(r, writing[r], 2), Longer(r))
         /\ \A k \in 1 .. Len(Longer(r)) :
              k <= Len(Stream) \/ (Longer(r)[k].queue = r /\ Longer(r)[k].index = writing[r])
<1>1. Stream \in Seq(Parts) /\ writing[r] \in Nat /\ next[r] = writing[r] + 1
  BY StreamType DEF SinkTypes, StreamInv
<1>2. ASSUME NEW k \in 1 .. Len(Stream), Stream[k].queue = r PROVE Stream[k].index < writing[r]
  <2>1. DoneWith(r, Stream[k].index)
    BY <1>2 DEF StreamInv
  <2> QED
    BY <1>1, <2>1 DEF DoneWith
<1>3. ASSUME NEW j \in 1 .. writing[r] - 1
      PROVE  <<r, j>> \in failed \/ In(Half(r, j, 2), Stream)
  <2>1. DoneWith(r, j) /\ j \in Nat
    BY <1>1 DEF DoneWith
  <2> QED
    BY <2>1 DEF StreamInv
<1>4. Ordered(Stream, failed) /\ Whole(Stream, failed)
  BY DEF StreamInv
<1> DEFINE s == Stream
           i == writing[r]
           t == Longer(r)
<1>5. /\ s \in Seq(Parts) /\ r \in Conns /\ i \in Nat /\ t = s \o Halves(r, i)
      /\ Ordered(s, failed) /\ Whole(s, failed)
      /\ UpTo(s, r, i, failed)
  BY <1>1, <1>2, <1>3, <1>4 DEF UpTo, Longer
<1> HIDE DEF s, i, t
<1>6. /\ t \in Seq(Parts) /\ Len(t) = Len(s) + 2 /\ Begins(s, t)
      /\ t[Len(s) + 1] = Half(r, i, 1)
      /\ Ordered(t, failed) /\ Whole(t, failed)
      /\ In(Half(r, i, 2), t)
      /\ \A k \in 1 .. Len(t) : k <= Len(s) \/ (t[k].queue = r /\ t[k].index = i)
  <2>1. t \in Seq(Parts) /\ Begins(s, t)
    BY ONLY <1>5, OrderedNext
  <2>4. Len(t) = Len(s) + 2
    BY ONLY <1>5, OrderedNext
  <2>5. t[Len(s) + 1] = Half(r, i, 1)
    BY ONLY <1>5, OrderedNext
  <2>2. Ordered(t, failed) /\ Whole(t, failed) /\ In(Half(r, i, 2), t)
    BY ONLY <1>5, OrderedNext
  <2>3. \A k \in 1 .. Len(t) : k <= Len(s) \/ (t[k].queue = r /\ t[k].index = i)
    BY ONLY <1>5, OrderedNext
  <2> QED
    BY <2>1, <2>2, <2>3, <2>4, <2>5
<1> QED
  BY <1>6 DEF s, i, t

\* When a write ends, its record is in the stream or has failed.
LEMMA StreamGoesOn ==
  ASSUME SinkTypes, StreamInv, NEW r \in Conns, writing[r] # 0,
         writing' = [writing EXCEPT ![r] = 0], next' = next,
         Stream' \in Seq(Parts), Begins(Stream, Stream'),
         \A k \in 1 .. Len(Stream') :
           k <= Len(Stream) \/ (Stream'[k].queue = r /\ Stream'[k].index = writing[r]),
         failed \subseteq failed', Ordered(Stream', failed'), Whole(Stream', failed'),
         <<r, writing[r]>> \in failed' \/ In(Half(r, writing[r], 2), Stream')
  PROVE  StreamInv'
<1>1. /\ next[r] = writing[r] + 1 /\ writing[r] \in Nat \ {0}
      /\ writing \in [Conns -> Nat] /\ next \in [Conns -> Nat \ {0}]
      /\ Stream \in Seq(Parts)
  BY StreamType DEF StreamInv, SinkTypes
<1>2. ASSUME NEW q \in Conns, NEW i
      PROVE  i \in 1 .. next'[q] - 1 /\ i # writing'[q]
               <=> DoneWith(q, i) \/ (q = r /\ i = writing[r])
  <2>1. CASE q = r
    BY <1>1, <2>1 DEF DoneWith
  <2>2. CASE q # r
    BY <1>1, <2>2 DEF DoneWith
  <2> QED
    BY <2>1, <2>2
<1>3. ASSUME NEW k \in 1 .. Len(Stream') PROVE DoneWith(Stream[k].queue, Stream[k].index)'
  <2> DEFINE q == Stream'[k].queue
             i == Stream'[k].index
  <2> SUFFICES q \in Conns /\ (DoneWith(q, i) \/ (q = r /\ i = writing[r]))
    BY <1>2 DEF DoneWith
  <2>1. CASE k <= Len(Stream)
    <3>1. k \in 1 .. Len(Stream) /\ Stream'[k] = Stream[k]
      BY <1>1, <2>1, LenProperties DEF Begins
    <3>2. DoneWith(Stream[k].queue, Stream[k].index)
      BY <3>1 DEF StreamInv
    <3> QED
      BY <3>1, <3>2 DEF DoneWith
  <2> QED
    BY <2>1
<1>4. ASSUME NEW q \in Conns, NEW i \in Nat, DoneWith(q, i)'
      PROVE  <<q, i>> \in failed' \/ In(Half(q, i, 2), Stream')
  <2>1. CASE DoneWith(q, i)
    <3>1. <<q, i>> \in failed \/ In(Half(q, i, 2), Stream)
      BY <2>1 DEF StreamInv
    <3> QED
      BY <1>1, <3>1, BeginsIn
  <2>2. CASE q = r /\ i = writing[r]
    BY <2>2
  <2> QED
    BY <1>2, <1>4, <2>1, <2>2 DEF DoneWith
<1>5. ASSUME NEW q \in Conns, writing'[q] # 0 PROVE next'[q] = writing'[q] + 1
  BY <1>1, <1>5 DEF StreamInv
<1> QED
  BY <1>3, <1>4, <1>5 DEF StreamInv

-----------------------------------------------------------------------------
(* The steps.                                                              *)

LEMMA SinkTypesInit == ServerInit => SinkTypes
<1> SUFFICES ASSUME ServerInit PROVE SinkTypes
  OBVIOUS
<1>1. buffer = <<>> /\ file = <<>> /\ Len(buffer) <= BufferSize
  BY BufferAssumption DEF ServerInit
<1> QED
  BY <1>1 DEF ServerInit, SinkTypes

LEMMA SinkTypesStep == SinkTypes /\ [ServerNext]_serverVars => SinkTypes'
<1> SUFFICES ASSUME SinkTypes, [ServerNext]_serverVars PROVE SinkTypes'
  OBVIOUS
<1>1. ASSUME NEW c \in Conns, Serve(c) PROVE SinkTypes'
  <2>1. UNCHANGED <<next, writing, output, sink, process>>
    BY <1>1 DEF Serve, Dial, DialFails, Setup, ResourceFails, DrawIndex, HandOver, Done, CloseHook,
         queues
  <2> QED
    BY <2>1 DEF SinkTypes, output
<1>2. ASSUME NEW r \in Conns, BeginWrite(r) PROVE SinkTypes'
  BY <1>2 DEF BeginWrite, Begin, TakeUp, SinkTypes
<1>3. ASSUME NEW r \in Conns, EndWrite(r) PROVE SinkTypes'
  <2>1. ToFile(r) \in Seq(Parts) /\ file \o ToFile(r) \in Seq(Parts)
    BY WrittenTo, ConcatProperties DEF SinkTypes
  <2>2. /\ ToBuffer(r) \in Seq(Parts) /\ Len(ToBuffer(r)) <= BufferSize
        /\ sink = "file" => ToBuffer(r) = <<>>
    BY WrittenTo
  <2> QED
    BY <1>3, <2>1, <2>2 DEF EndWrite, SinkTypes
<1>4. ASSUME NEW r \in Conns, WriteFails(r) PROVE SinkTypes'
  <2>2. ASSUME NEW n \in 0 .. Len(ToFile(r)) - 1,
               file' = file \o SubSeq(ToFile(r), 1, n),
               buffer' = IF sink = "file" THEN <<>> ELSE SubSeq(ToFile(r), n + 1, Len(ToFile(r)))
        PROVE  file' \in Seq(Parts) /\ buffer' \in Seq(Parts) /\ Len(buffer') <= BufferSize
               /\ (sink = "file" => buffer' = <<>>)
    <3>1. ToFile(r) \in Seq(Parts) /\ Len(ToFile(r)) \in Nat
      BY WrittenTo, LenProperties
    <3>2. n \in 0 .. Len(ToFile(r)) /\ ToFile(r) # <<>>
      BY <3>1
    <3>3. file' \in Seq(Parts)
      BY <2>2, <3>2, WriteBegins
    <3>4. CASE sink = "file"
      BY <2>2, <3>3, <3>4, BufferAssumption
    <3>5. CASE sink # "file"
      <4>1. Len(ToFile(r)) = BufferSize
        BY <3>2, <3>5, WrittenTo DEF SinkTypes
      <4>2. buffer' = SubSeq(ToFile(r), n + 1, Len(ToFile(r)))
        BY <2>2, <3>5
      <4>3. buffer' \in Seq(Parts) /\ Len(buffer') = Len(ToFile(r)) - n
        BY <3>1, <3>2, <4>2, Parted
      <4> QED
        BY <3>3, <3>5, <4>1, <4>3, BufferAssumption
    <3> QED
      BY <3>4, <3>5
  <2>3. /\ file' \in Seq(Parts) /\ buffer' \in Seq(Parts) /\ Len(buffer') <= BufferSize
        /\ sink = "file" => buffer' = <<>>
    <3>1. CASE UNCHANGED <<file, buffer>>
      BY <3>1 DEF SinkTypes
    <3> QED
      BY <1>4, <2>2, <3>1 DEF WriteFails
  <2>4. writing' \in [Conns -> Nat] /\ failed' \subseteq Conns \X Nat
    BY <1>4 DEF WriteFails, Failed, SinkTypes
  <2> QED
    BY <1>4, <2>3, <2>4 DEF WriteFails, SinkTypes
<1>5. ASSUME NEW r \in Conns, WriteClosed(r) PROVE SinkTypes'
  BY <1>5 DEF WriteClosed, TakeUp, Failed, SinkTypes
<1>6. CASE Close
  <2>1. file' \in Seq(Parts) /\ buffer' \in Seq(Parts) /\ Len(buffer') <= BufferSize
        /\ (sink = "file" => buffer' = <<>>)
    <3>1. CASE UNCHANGED <<file, buffer>>
      BY <3>1 DEF SinkTypes
    <3>2. CASE file' = file \o buffer /\ buffer' = <<>>
      BY <3>2, ConcatProperties, BufferAssumption DEF SinkTypes
    <3>3. ASSUME NEW n \in 0 .. Len(buffer) - 1,
                 file' = file \o SubSeq(buffer, 1, n), buffer' = SubSeq(buffer, n + 1, Len(buffer))
          PROVE  file' \in Seq(Parts) /\ buffer' \in Seq(Parts) /\ Len(buffer') <= BufferSize
                 /\ sink # "file"
      <4>1. buffer \in Seq(Parts) /\ Len(buffer) \in Nat /\ file \in Seq(Parts) /\ Len(buffer) <= BufferSize
        BY LenProperties DEF SinkTypes
      <4>2. n \in 0 .. Len(buffer) /\ buffer # <<>>
        BY <4>1
      <4>3. SubSeq(buffer, 1, n) \in Seq(Parts) /\ buffer' \in Seq(Parts) /\ Len(buffer') = Len(buffer) - n
        BY <3>3, <4>1, <4>2, Parted
      <4>4. file' \in Seq(Parts)
        BY <3>3, <4>1, <4>3, ConcatProperties
      <4> QED
        BY <4>1, <4>2, <4>3, <4>4, BufferAssumption DEF SinkTypes
    <3> QED
      BY <1>6, <3>1, <3>2, <3>3 DEF Close, Flush
  <2> QED
    BY <1>6, <2>1 DEF Close, queues, SinkTypes
<1>7. CASE Exit
  <2>1. file' \in Seq(Parts)
    <3>1. ASSUME NEW r \in Conns, NEW n \in 1 .. Len(ToFile(r)),
                 file' = file \o SubSeq(ToFile(r), 1, n)
          PROVE  file' \in Seq(Parts)
      <4>1. n \in 0 .. Len(ToFile(r))
        OBVIOUS
      <4> QED
        BY <3>1, <4>1, WriteBegins
    <3> QED
      BY <1>7, <3>1 DEF Exit, SinkTypes
  <2> QED
    BY <1>7, <2>1 DEF Exit, queues, SinkTypes
<1>8. CASE CheckLocks \/ UNCHANGED serverVars
  BY <1>8 DEF CheckLocks, serverVars, server, queues, output, SinkTypes
<1> QED
  BY <1>1, <1>2, <1>3, <1>4, <1>5, <1>6, <1>7, <1>8 DEF ServerNext, Write

LEMMA TurnsInit == ServerInit => Turns
<1> SUFFICES ASSUME ServerInit PROVE Turns
  OBVIOUS
<1>1. /\ Stream = <<>> /\ process = "up"
      /\ \A r \in Conns : next[r] = 1 /\ writing[r] = 0
  BY DEF ServerInit, Stream
<1>2. Len(Stream) = 0 /\ \A k \in 1 .. Len(Stream) : FALSE
  BY <1>1
<1>3. \A r, i : ~DoneWith(r, i)
  BY <1>1 DEF DoneWith
<1> QED
  BY <1>1, <1>2, <1>3 DEF Turns, Kept, StreamInv, Ordered, Whole

\* Steps of which the sink sees nothing.
LEMMA TurnsUnchanged ==
  ASSUME Turns, UNCHANGED <<next, writing, output, sink, process, safe>>
  PROVE  Turns'
BY DEF Turns, Kept, StreamInv, DoneWith, Stream, output

LEMMA TurnsBeginWrite ==
  ASSUME SinkTypes, Turns, NEW r \in Conns, BeginWrite(r), process # "exited"
  PROVE  Turns'
<1> SUFFICES ASSUME ~raced' PROVE Turns'
  BY DEF Turns
<1>1. /\ next' = [next EXCEPT ![r] = next[r] + 1]
      /\ writing' = [writing EXCEPT ![r] = next[r]]
      /\ writing[r] = 0 /\ ~raced
      /\ UNCHANGED <<buffer, file, process, failed, safe>>
  BY DEF BeginWrite, Begin, TakeUp
<1>2. next \in [Conns -> Nat \ {0}] /\ writing \in [Conns -> Nat]
  BY DEF SinkTypes
<1>3. Stream' = Stream
  BY <1>1 DEF Stream
<1>4. StreamInv /\ Kept
  BY <1>1 DEF Turns
<1>5. ASSUME NEW q \in Conns, NEW i
      PROVE  i \in 1 .. next'[q] - 1 /\ i # writing'[q] <=> DoneWith(q, i)
  <2>1. CASE q = r
    BY <1>1, <1>2, <2>1 DEF DoneWith
  <2>2. CASE q # r
    BY <1>1, <1>2, <2>2 DEF DoneWith
  <2> QED
    BY <2>1, <2>2
<1>6. \A q \in Conns : writing'[q] # 0 => next'[q] = writing'[q] + 1
  BY <1>1, <1>2, <1>4 DEF StreamInv
<1>7. \A k \in 1 .. Len(Stream) : DoneWith(Stream[k].queue, Stream[k].index)'
  BY <1>3, <1>4, <1>5 DEF StreamInv, DoneWith
<1>8. ASSUME NEW q \in Conns, NEW i \in Nat, DoneWith(q, i)'
      PROVE  <<q, i>> \in failed \/ In(Half(q, i, 2), Stream)
  <2>1. DoneWith(q, i)
    BY <1>5, <1>8 DEF DoneWith
  <2> QED
    BY <1>4, <2>1 DEF StreamInv
<1>9. StreamInv'
  BY <1>1, <1>3, <1>4, <1>6, <1>7, <1>8 DEF StreamInv
<1> QED
  BY <1>1, <1>4, <1>9 DEF Turns, Kept

LEMMA TurnsEndWrite ==
  ASSUME SinkTypes, SinkTypes', Turns, NEW r \in Conns, EndWrite(r), process # "exited"
  PROVE  Turns'
<1> SUFFICES ASSUME ~raced' PROVE Turns'
  BY DEF Turns
<1>1. /\ writing[r] # 0 /\ ~raced
      /\ writing' = [writing EXCEPT ![r] = 0]
      /\ file' = file \o ToFile(r) /\ buffer' = ToBuffer(r)
      /\ UNCHANGED <<next, process, failed, safe>>
  BY DEF EndWrite
<1>2. StreamInv /\ Kept
  BY <1>1 DEF Turns
<1>3. Stream' = Longer(r)
  BY <1>1, WriteAppends
<1>4. /\ Stream' \in Seq(Parts) /\ Begins(Stream, Stream')
      /\ Ordered(Stream', failed) /\ Whole(Stream', failed)
      /\ In(Half(r, writing[r], 2), Stream')
      /\ \A k \in 1 .. Len(Stream') :
           k <= Len(Stream) \/ (Stream'[k].queue = r /\ Stream'[k].index = writing[r])
  BY <1>1, <1>2, <1>3, StreamNext
<1>5. StreamInv'
  BY <1>1, <1>2, <1>4, StreamGoesOn
<1>6. Kept'
  <2>1. ToFile(r) \in Seq(Parts)
    BY WrittenTo
  <2> QED
    BY <1>1, <1>2, <2>1, KeptGoesOn DEF Kept
<1> QED
  BY <1>1, <1>5, <1>6 DEF Turns

\* A write that fails leaves none of its record in the stream, or the first half.
LEMMA FailedWriteStream ==
  ASSUME SinkTypes, SinkTypes', NEW r \in Conns, WriteFails(r), ~broken
  PROVE  Begins(Stream', Longer(r)) /\ Len(Stream') \in {Len(Stream), Len(Stream) + 1}
<1>1. PICK n \in 0 .. Len(ToFile(r)) - 1 :
        /\ file' = file \o SubSeq(ToFile(r), 1, n)
        /\ buffer' = IF sink = "file" THEN <<>> ELSE SubSeq(ToFile(r), n + 1, Len(ToFile(r)))
  BY DEF WriteFails
<1>2. ToFile(r) \in Seq(Parts) /\ Len(ToFile(r)) \in Nat /\ file \in Seq(Parts) /\ buffer \in Seq(Parts)
      /\ Len(file) \in Nat /\ Len(buffer) \in Nat
  BY WrittenTo, LenProperties DEF SinkTypes
<1>3. n \in 0 .. Len(ToFile(r)) /\ ToFile(r) # <<>>
  BY <1>2
<1>4. /\ SubSeq(ToFile(r), 1, n) \in Seq(Parts) /\ Len(SubSeq(ToFile(r), 1, n)) = n
      /\ Begins(file \o SubSeq(ToFile(r), 1, n), Longer(r))
  BY <1>2, <1>3, WriteBegins, BeginsPart
<1>5. Len(Stream) = Len(file) + Len(buffer)
  BY <1>2, ConcatProperties DEF Stream
<1>6. CASE sink = "file"
  <2>1. Stream' = file' /\ file' = file \o SubSeq(ToFile(r), 1, n)
    <3>1. Stream' = file' \o <<>> /\ file' \in Seq(Parts)
      BY <1>1, <1>6 DEF Stream, SinkTypes
    <3> QED
      BY <1>1, <3>1, ConcatEmptySeq
  <2>2. Len(Stream') = Len(file) + n
    BY <1>2, <1>4, <2>1, ConcatProperties
  <2>3. Len(ToFile(r)) = 2 /\ Len(buffer) = 0
    <3>1. ToFile(r) = Halves(r, writing[r]) /\ buffer = <<>>
      BY <1>6, WrittenTo DEF SinkTypes
    <3> QED
      BY <3>1 DEF Halves
  <2> QED
    BY <1>2, <1>4, <1>5, <2>1, <2>2, <2>3
<1>7. CASE sink # "file"
  <2>1. Stream' = file \o ToFile(r)
    <3> DEFINE a == SubSeq(ToFile(r), 1, n)
               b == SubSeq(ToFile(r), n + 1, Len(ToFile(r)))
    <3>1. a \in Seq(Parts) /\ b \in Seq(Parts) /\ a \o b = ToFile(r)
      BY <1>2, <1>3, Parted
    <3>2. Stream' = (file \o a) \o b
      BY <1>1, <1>7 DEF Stream
    <3> HIDE DEF a, b
    <3>4. file \in Seq(Parts) /\ a \in Seq(Parts) /\ b \in Seq(Parts)
      BY <1>2, <3>1
    <3>3. (file \o a) \o b = file \o (a \o b)
      BY ONLY <3>4, ConcatAssociative
    <3> QED
      BY <3>1, <3>2, <3>3
  <2>2. Begins(file \o ToFile(r), Longer(r))
    <3>1. SubSeq(ToFile(r), 1, Len(ToFile(r))) = ToFile(r)
      BY <1>2, SubSeqFull
    <3>2. Len(ToFile(r)) \in 0 .. Len(ToFile(r))
      BY <1>2
    <3>3. Begins(file \o SubSeq(ToFile(r), 1, Len(ToFile(r))), Longer(r))
      BY <3>2, WriteBegins
    <3> QED
      BY <3>1, <3>3
  <2>3. Len(Stream') = Len(file) + Len(ToFile(r))
    BY <1>2, <2>1, ConcatProperties
  <2>4. Len(ToFile(r)) = BufferSize /\ Len(buffer) <= BufferSize /\ BufferSize <= Len(buffer) + 1
    BY <1>3, <1>7, WrittenTo DEF SinkTypes
  <2>5. Len(Stream') \in {Len(Stream), Len(Stream) + 1}
    <3>1. Len(file) \in Nat /\ Len(buffer) \in Nat /\ BufferSize \in Nat
      BY <1>2, BufferAssumption
    <3>2. BufferSize = Len(buffer) \/ BufferSize = Len(buffer) + 1
      BY <2>4, <3>1
    <3>3. Len(Stream') = Len(file) + BufferSize
      BY <2>3, <2>4
    <3> QED
      BY <1>5, <3>1, <3>2, <3>3
  <2> QED
    BY <2>1, <2>2, <2>5
<1> QED
  BY <1>6, <1>7

LEMMA TurnsWriteFails ==
  ASSUME SinkTypes, SinkTypes', Turns, NEW r \in Conns, WriteFails(r), process # "exited"
  PROVE  Turns'
<1> SUFFICES ASSUME ~raced' PROVE Turns'
  BY DEF Turns
<1>1. /\ writing[r] # 0 /\ ~raced
      /\ writing' = [writing EXCEPT ![r] = 0]
      /\ failed' = failed \cup {<<r, writing[r]>>}
      /\ UNCHANGED <<next, process, safe>>
  BY DEF WriteFails, Failed
<1>2. StreamInv /\ Kept
  BY <1>1 DEF Turns
<1>3. /\ Stream \in Seq(Parts) /\ Stream' \in Seq(Parts) /\ Len(Stream) \in Nat
      /\ writing[r] \in Nat
  BY StreamType, ConcatProperties, LenProperties DEF SinkTypes, Stream
<1>4. Whole(Stream, failed) /\ Ordered(Stream, failed)
  BY <1>2 DEF StreamInv
<1>5. /\ Longer(r) \in Seq(Parts) /\ Begins(Stream, Longer(r))
      /\ Longer(r)[Len(Stream) + 1] = Half(r, writing[r], 1)
      /\ Ordered(Longer(r), failed)
  BY <1>1, <1>2, StreamNext
<1>6. /\ Begins(Stream, Stream')
      /\ Ordered(Stream', failed') /\ Whole(Stream', failed')
      /\ Len(Stream') \in {Len(Stream), Len(Stream) + 1}
      /\ Len(Stream') = Len(Stream) + 1 => Stream'[Len(Stream) + 1] = Half(r, writing[r], 1)
  <2>1. CASE broken
    <3>1. Stream' = Stream
      BY <2>1 DEF WriteFails, Stream
    <3>2. Ordered(Stream, failed') /\ Whole(Stream, failed')
      BY <1>1, <1>4, MoreFail
    <3> QED
      BY <1>3, <3>1, <3>2 DEF Begins
  <2>2. CASE ~broken
    <3>1. Begins(Stream', Longer(r)) /\ Len(Stream') \in {Len(Stream), Len(Stream) + 1}
      BY <2>2, FailedWriteStream
    <3>2. /\ Begins(Stream, Stream')
          /\ Ordered(Stream', failed \cup {<<r, writing[r]>>})
          /\ Whole(Stream', failed \cup {<<r, writing[r]>>})
      BY <1>3, <1>4, <1>5, <3>1, OrderedTorn
    <3>3. Len(Stream') = Len(Stream) + 1 => Stream'[Len(Stream) + 1] = Half(r, writing[r], 1)
      BY <1>3, <1>5, <3>1 DEF Begins
    <3> QED
      BY <1>1, <3>1, <3>2, <3>3
  <2> QED
    BY <2>1, <2>2
<1>7. ASSUME NEW k \in 1 .. Len(Stream')
      PROVE  k <= Len(Stream) \/ (Stream'[k].queue = r /\ Stream'[k].index = writing[r])
  <2>1. k <= Len(Stream) \/ (k = Len(Stream) + 1 /\ Len(Stream') = Len(Stream) + 1)
    BY <1>3, <1>6
  <2> QED
    BY <1>6, <2>1 DEF Half
<1>8. StreamInv'
  BY <1>1, <1>2, <1>3, <1>6, <1>7, StreamGoesOn
<1>9. Kept'
  <2>1. CASE UNCHANGED file
    BY <1>1, <1>2, <2>1 DEF Kept
  <2>2. ASSUME NEW n \in 0 .. Len(ToFile(r)) - 1, file' = file \o SubSeq(ToFile(r), 1, n)
        PROVE  Kept'
    <3>1. Len(ToFile(r)) \in Nat
      BY WrittenTo, LenProperties
    <3>2. SubSeq(ToFile(r), 1, n) \in Seq(Parts)
      BY <3>1, WriteBegins
    <3> QED
      BY <1>1, <1>2, <2>2, <3>2, KeptGoesOn DEF Kept
  <2> QED
    BY <2>1, <2>2 DEF WriteFails
<1> QED
  BY <1>1, <1>8, <1>9 DEF Turns

LEMMA TurnsWriteClosed ==
  ASSUME SinkTypes, Turns, NEW r \in Conns, WriteClosed(r)
  PROVE  Turns'
<1> SUFFICES ASSUME ~raced' PROVE Turns'
  BY DEF Turns
<1>1. /\ process = "closed" /\ writing[r] = 0 /\ ~raced
      /\ next' = [next EXCEPT ![r] = next[r] + 1]
      /\ failed' = failed \cup {<<r, next[r]>>}
      /\ UNCHANGED <<writing, buffer, file, process, safe>>
  BY DEF WriteClosed, TakeUp, Failed
<1>2. next \in [Conns -> Nat \ {0}] /\ writing \in [Conns -> Nat]
  BY DEF SinkTypes
<1>3. Stream' = Stream
  BY <1>1 DEF Stream
<1>4. StreamInv /\ Kept
  BY <1>1 DEF Turns
<1>5. ASSUME NEW q \in Conns, NEW i
      PROVE  i \in 1 .. next'[q] - 1 /\ i # writing'[q]
               <=> DoneWith(q, i) \/ (q = r /\ i = next[r])
  <2>1. CASE q = r
    BY <1>1, <1>2, <2>1 DEF DoneWith
  <2>2. CASE q # r
    BY <1>1, <1>2, <2>2 DEF DoneWith
  <2> QED
    BY <2>1, <2>2
<1>6. \A q \in Conns : writing'[q] # 0 => next'[q] = writing'[q] + 1
  BY <1>1, <1>2, <1>4 DEF StreamInv
<1>7. \A k \in 1 .. Len(Stream) : DoneWith(Stream[k].queue, Stream[k].index)'
  BY <1>3, <1>4, <1>5 DEF StreamInv, DoneWith
<1>8. ASSUME NEW q \in Conns, NEW i \in Nat, DoneWith(q, i)'
      PROVE  <<q, i>> \in failed' \/ In(Half(q, i, 2), Stream)
  <2>1. DoneWith(q, i) \/ (q = r /\ i = next[r])
    BY <1>5, <1>8 DEF DoneWith
  <2> QED
    BY <1>1, <1>4, <2>1 DEF StreamInv
<1>9. Ordered(Stream, failed') /\ Whole(Stream, failed')
  BY <1>1, <1>4, MoreFail DEF StreamInv
<1>10. StreamInv'
  BY <1>1, <1>3, <1>6, <1>7, <1>8, <1>9 DEF StreamInv
<1> QED
  BY <1>1, <1>4, <1>10 DEF Turns, Kept

LEMMA TurnsClose ==
  ASSUME SinkTypes, Turns, Close
  PROVE  Turns'
<1> SUFFICES ASSUME ~raced' PROVE Turns'
  BY DEF Turns
<1>1. /\ process = "up" /\ process' = "closed" /\ ~raced
      /\ safe' = IF broken' THEN {} ELSE Written \ failed
      /\ UNCHANGED <<next, writing, failed>>
  BY DEF Close, queues
<1>2. StreamInv
  BY <1>1 DEF Turns
<1>3. file \in Seq(Parts) /\ buffer \in Seq(Parts) /\ Len(buffer) \in Nat
  BY LenProperties DEF SinkTypes
<1>4. Stream' = Stream
  <2>1. CASE UNCHANGED <<file, buffer>>
    BY <2>1 DEF Stream
  <2>2. CASE file' = file \o buffer /\ buffer' = <<>>
    BY <1>3, <2>2, ConcatProperties, ConcatEmptySeq DEF Stream
  <2>3. ASSUME NEW n \in 0 .. Len(buffer) - 1,
               file' = file \o SubSeq(buffer, 1, n), buffer' = SubSeq(buffer, n + 1, Len(buffer))
        PROVE  Stream' = Stream
    <3> DEFINE a == SubSeq(buffer, 1, n)
               b == SubSeq(buffer, n + 1, Len(buffer))
    <3>1. n \in 0 .. Len(buffer)
      BY <1>3
    <3>2. a \in Seq(Parts) /\ b \in Seq(Parts) /\ a \o b = buffer
      BY <1>3, <3>1, Parted
    <3>3. Stream' = (file \o a) \o b
      BY <2>3 DEF Stream
    <3> HIDE DEF a, b
    <3>5. file \in Seq(Parts) /\ a \in Seq(Parts) /\ b \in Seq(Parts)
      BY <1>3, <3>2
    <3>4. (file \o a) \o b = file \o (a \o b)
      BY ONLY <3>5, ConcatAssociative
    <3> QED
      BY <3>2, <3>3, <3>4 DEF Stream
  <2> QED
    BY <2>1, <2>2, <2>3 DEF Close, Flush
<1>5. StreamInv'
  BY <1>1, <1>2, <1>4 DEF StreamInv, DoneWith
<1>6. ASSUME NEW s \in safe' PROVE In(Half(s[1], s[2], 2), file')
  <2>1. s \in Written \ failed /\ file' = Stream
    BY <1>1, <1>6 DEF Close, Flush, Stream
  <2>2. PICK r \in Conns : s \in {r} \X ((1 .. next[r] - 1) \ {writing[r]})
    BY <2>1 DEF Written
  <2>3. s = <<r, s[2]>> /\ s[1] = r /\ s[2] \in Nat /\ DoneWith(r, s[2])
    BY <2>2 DEF DoneWith, SinkTypes
  <2> QED
    BY <1>2, <2>1, <2>3 DEF StreamInv
<1> QED
  BY <1>1, <1>5, <1>6 DEF Turns, Kept

LEMMA TurnsExit ==
  ASSUME SinkTypes, SinkTypes', Turns, Exit
  PROVE  Turns'
<1> SUFFICES ASSUME ~raced' PROVE Turns'
  BY DEF Turns
<1>1. /\ process = "closed" /\ process' = "exited" /\ ~raced
      /\ UNCHANGED <<failed, safe>>
  BY DEF Exit
<1>2. StreamInv /\ Kept
  BY <1>1 DEF Turns
<1>3. CASE UNCHANGED file
  <2>1. Ordered(file, failed)
    BY <1>2, StreamType, OrderedPrefix DEF StreamInv, SinkTypes
  <2> QED
    BY <1>1, <1>2, <1>3, <2>1 DEF Turns, Kept
<1>4. ASSUME NEW r \in Conns, NEW n \in 1 .. Len(ToFile(r)), writing[r] # 0,
             file' = file \o SubSeq(ToFile(r), 1, n)
      PROVE  Turns'
  <2>1. n \in 0 .. Len(ToFile(r))
    OBVIOUS
  <2>2. SubSeq(ToFile(r), 1, n) \in Seq(Parts) /\ file' \in Seq(Parts) /\ Begins(file', Longer(r))
    BY <1>4, <2>1, WriteBegins
  <2>3. Longer(r) \in Seq(Parts) /\ Ordered(Longer(r), failed)
    BY <1>2, <1>4, StreamNext
  <2>4. Ordered(file', failed)
    BY <2>2, <2>3, OrderedPrefix
  <2>5. Kept'
    BY <1>1, <1>2, <1>4, <2>2, KeptGoesOn
  <2> QED
    BY <1>1, <2>4, <2>5 DEF Turns
<1> QED
  BY <1>3, <1>4 DEF Exit

LEMMA TurnsStep == SinkTypes /\ SinkTypes' /\ Turns /\ [ServerNext]_serverVars => Turns'
<1> SUFFICES ASSUME SinkTypes, SinkTypes', Turns, [ServerNext]_serverVars PROVE Turns'
  OBVIOUS
<1>1. ASSUME NEW c \in Conns, Serve(c) PROVE Turns'
  <2>1. UNCHANGED <<next, writing, output, sink, process, safe>>
    BY <1>1 DEF Serve, Dial, DialFails, Setup, ResourceFails, DrawIndex, HandOver, Done, CloseHook,
         queues
  <2> QED
    BY <2>1, TurnsUnchanged
<1>2. ASSUME NEW r \in Conns, Write(r), process # "exited" PROVE Turns'
  BY <1>2, TurnsBeginWrite, TurnsEndWrite, TurnsWriteFails, TurnsWriteClosed DEF Write
<1>3. CASE CheckLocks \/ UNCHANGED serverVars
  <2>1. UNCHANGED <<next, writing, output, sink, process, safe>>
    BY <1>3 DEF CheckLocks, serverVars, server, queues
  <2> QED
    BY <2>1, TurnsUnchanged
<1>4. CASE Close
  BY <1>4, TurnsClose
<1>5. CASE Exit
  BY <1>5, TurnsExit
<1> QED
  BY <1>1, <1>2, <1>3, <1>4, <1>5 DEF ServerNext

LEMMA TurnsAlways == ServerSpec => [](SinkTypes /\ Turns)
<1>1. ServerInit => SinkTypes /\ Turns
  BY SinkTypesInit, TurnsInit
<1>2. SinkTypes /\ Turns /\ [ServerNext]_serverVars => (SinkTypes /\ Turns)'
  BY SinkTypesStep, TurnsStep
<1> QED
  BY <1>1, <1>2, PTL DEF ServerSpec

\* The record file can be replayed: records are whole and in turn, and what is missing
\* or cut short before the end of the file is a record whose write returned an error -
\* on a full disk, say.  But for two writers in the shared bufio.Writer at once.
THEOREM RecordsAreInTurn == ServerSpec => []RecordsInTurn
<1>1. SinkTypes /\ Turns /\ ~raced => Ordered(file, failed)
  <2> SUFFICES ASSUME SinkTypes, StreamInv PROVE Ordered(file, failed)
    BY DEF Turns
  <2> QED
    BY StreamType, OrderedPrefix DEF StreamInv, SinkTypes
<1>2. SinkTypes /\ Turns => RecordsInTurn
  BY <1>1 DEF Ordered, InTurn, RecordsInTurn
<1> QED
  BY <1>2, TurnsAlways, PTL

\* And when a signal comes, the records written before it are kept.
THEOREM SignalLosesNothingWritten == ServerSpec => []CloseKeepsWritten
<1>1. Turns => CloseKeepsWritten
  BY DEF Turns, Kept, In, CloseKeepsWritten
<1> QED
  BY <1>1, TurnsAlways, PTL

-----------------------------------------------------------------------------
(* Types.                                                                  *)

\* The connections that copy have been set up, and so have a lock.
ServerTypes ==
  /\ stage \in [Conns -> {"none", "proxied", "ended"}]
  /\ copying \subseteq Copies
  /\ \A x \in copying : pc[x[1]] = "serving"
  /\ loadIndex \in [Copies -> Nat]
  /\ chunks \in 0 .. MaxChunks
  /\ drawn \in [Conns -> Nat]
  /\ items \in [Conns -> SUBSET Nat]
  /\ broken \in BOOLEAN
  /\ raced \in BOOLEAN
  /\ safe \subseteq Conns \X Nat

LEMMA ServerTypesInit == ServerInit => ServerTypes
<1> SUFFICES ASSUME ServerInit PROVE ServerTypes
  OBVIOUS
<1>1. 0 \in 0 .. MaxChunks
  BY ChunksAssumption
<1>2. copying = {} /\ safe = {}
  BY DEF ServerInit
<1>3. loadIndex \in [Copies -> Nat]
  BY DEF ServerInit
<1> QED
  BY <1>1, <1>2, <1>3 DEF ServerInit, ServerTypes

\* The registry changes where a connection is only in the connection's own steps.
LEMMA ServeTypes ==
  ASSUME Types, ServerTypes, NEW c \in Conns, Serve(c)
  PROVE  ServerTypes'
<1> USE DEF ServerTypes, Types, serving, queues, output
<1>1. CASE Dial(c) \/ DialFails(c) \/ ResourceFails(c)
  BY <1>1 DEF Dial, DialFails, ResourceFails, Accept, Move, Stage, vars, conn, Copies
<1>2. CASE Setup(c)
  <2>1. /\ pc[c] # "serving"
        /\ \A d \in Conns \ {c} : pc'[d] = pc[d]
    BY <1>2 DEF Setup, GetResource, Lookup, FoundUnder, CreateLockGroup, CreateLock, AddRelease,
         Other, IncreaseGetIndex, CheckOther, SetOther, Move
  <2>2. copying' \subseteq Copies /\ \A x \in copying' : pc'[x[1]] = "serving"
    BY <1>2, <2>1 DEF Setup, Copies
  <2> QED
    BY <1>2, <2>2 DEF Setup
<1>3. ASSUME NEW d \in Directions, DrawIndex(c, d) PROVE ServerTypes'
  <2>1. pc[c] = "serving" /\ <<c, d>> \in Copies
    BY <1>3 DEF DrawIndex
  <2>2. lock[c] \in Conns /\ index[lock[c]] + drawn[lock[c]] \in Nat
    BY <2>1 DEF HasLock
  <2>3. chunks' \in 0 .. MaxChunks
    BY <1>3, ChunksAssumption DEF DrawIndex
  <2>4. drawn' \in [Conns -> Nat]
    BY <1>3, <2>2 DEF DrawIndex
  <2>5. loadIndex' \in [Copies -> Nat]
    BY <1>3, <2>2 DEF DrawIndex
  <2> QED
    BY <1>3, <2>3, <2>4, <2>5 DEF DrawIndex, vars, conn
<1>4. ASSUME NEW d \in Directions, HandOver(c, d) PROVE ServerTypes'
  <2>1. <<c, d>> \in Copies /\ loadIndex[<<c, d>>] \in Nat
    BY <1>4 DEF HandOver
  <2>2. items' \in [Conns -> SUBSET Nat]
    BY <1>4, <2>1 DEF HandOver
  <2>3. loadIndex' \in [Copies -> Nat]
    BY <1>4 DEF HandOver
  <2> QED
    BY <1>4, <2>2, <2>3 DEF HandOver, vars, conn
<1>5. ASSUME NEW d \in Directions, Done(c, d) PROVE ServerTypes'
  BY <1>5 DEF Done, vars, conn
<1>6. CASE CloseHook(c)
  <2>1. \A x \in copying : x[1] # c
    BY <1>6 DEF CloseHook, Copies
  <2> QED
    BY <1>6, <2>1 DEF CloseHook, Release, Move, Stage, Copies
<1> QED
  BY <1>1, <1>2, <1>3, <1>4, <1>5, <1>6 DEF Serve

LEMMA WriteTypes ==
  ASSUME SinkTypes, ServerTypes, NEW r \in Conns, Write(r)
  PROVE  ServerTypes'
<1> USE DEF ServerTypes, serving
<1>1. CASE BeginWrite(r)
  BY <1>1 DEF BeginWrite, Begin, TakeUp, vars, conn
<1>2. CASE EndWrite(r)
  BY <1>2 DEF EndWrite, vars, conn
<1>3. CASE WriteFails(r)
  BY <1>3 DEF WriteFails, vars, conn
<1>4. CASE WriteClosed(r)
  BY <1>4 DEF WriteClosed, TakeUp, vars, conn
<1> QED
  BY <1>1, <1>2, <1>3, <1>4 DEF Write

LEMMA WrittenType == SinkTypes => Written \subseteq Conns \X Nat
BY DEF SinkTypes, Written

LEMMA ServerTypesStep ==
  Types /\ SinkTypes /\ ServerTypes /\ [ServerNext]_serverVars => ServerTypes'
<1> SUFFICES ASSUME Types, SinkTypes, ServerTypes, [ServerNext]_serverVars PROVE ServerTypes'
  OBVIOUS
<1> USE DEF ServerTypes, serving, queues, output
<1>1. CASE CheckLocks
  BY <1>1 DEF CheckLocks, Sweep, Snapshot, CheckEntry, Delete, conn, server
<1>2. CASE Close
  <2>1. safe' \subseteq Conns \X Nat
    BY <1>2, WrittenType DEF Close
  <2>2. broken' \in BOOLEAN
    BY <1>2 DEF Close, Flush
  <2> QED
    BY <1>2, <2>1, <2>2 DEF Close, vars, conn
<1>3. CASE Exit
  BY <1>3 DEF Exit, vars, conn
<1>4. CASE UNCHANGED serverVars
  BY <1>4 DEF serverVars, server, vars, conn
<1> QED
  BY <1>1, <1>2, <1>3, <1>4, ServeTypes, WriteTypes DEF ServerNext

\* The variables keep their types: the buffer holds no more than it has room for, also
\* what a failed write leaves there, and a connection that copies has a lock to draw
\* indices from.
THEOREM ServerTypeCorrect == ASSUME IsFiniteSet(Conns) PROVE ServerSpec => []ServerTypeOK
<1>1. TypeOK /\ SinkTypes /\ ServerTypes => ServerTypeOK
  BY DEF SinkTypes, ServerTypes, ServerTypeOK
<1>2. ServerInit => Types
  BY TypesInit DEF ServerInit
<1>3. Types /\ [ServerNext]_serverVars => Types'
  BY TypesStep, ServerStep
<1>4. ServerSpec => []TypeOK
  BY ServerUsesRegistry, TypeCorrect, PTL
<1> QED
  BY <1>1, <1>2, <1>3, <1>4, SinkTypesInit, SinkTypesStep, ServerTypesInit, ServerTypesStep, PTL
  DEF ServerSpec
=============================================================================
