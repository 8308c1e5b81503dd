-------------------------- MODULE ConnectionProofs --------------------------
(***************************************************************************)
(* Theorems about a proxied connection, however many bytes the peers send  *)
(* and whatever becomes of the connections.                                *)
(*                                                                         *)
(*   TypeCorrect           the type invariant;                             *)
(*   RecordCovers          what is passed on is recorded, but for a lone   *)
(*                         last byte;                                      *)
(*   IndicesAreAccounted   no index is used twice, and at most one for     *)
(*                         each direction is missing;                      *)
(*   RecordIsAPrefix       the record of a stream is a prefix of it;       *)
(*   RepliesFollow         a reply is recorded after its request;          *)
(*   RestsTogether         both directions have ended when the gateway     *)
(*                         comes to rest after the end of one;             *)
(*   RestsUpToDate         when it rests at most one byte is held back;    *)
(*   RestsWritten          and all chunks whose turn has come are written; *)
(*   ComesToRest           and rest it does, once the peers fall silent.   *)
(*                                                                         *)
(* The invariant says where the bytes are that a direction has read        *)
(* (Bytes), which indices are out (Indices), how the chunks of a stream    *)
(* follow each other (Chunked), what the queue has done (InTurn), and what *)
(* a chunk can be an answer to (Heard, Answers) and which connections are  *)
(* open (Closed).  Work is what the gateway has left to do, as a number.   *)
(***************************************************************************)
EXTENDS Connection, SequenceTheorems, FiniteSetTheorems, TLAPS

Points == {"first", "rest", "hook", "write"} \cup Closing \cup {"done"}

LEMMA TheOther ==
  /\ Other("inbound") = "outbound" /\ Other("outbound") = "inbound"
  /\ \A d \in Directions : Other(d) \in Directions /\ Other(d) # d
  /\ \A d, e \in Directions : e = d \/ e = Other(d)
BY DEF Other, Directions

-----------------------------------------------------------------------------
(* Bytes.                                                                  *)

Ranges ==
  /\ stage \in {"accepted", "dialed", "serving", "rejected", "released"}
  /\ open \subseteq Directions
  /\ sent \in [Directions -> Nat]
  /\ pc \in [Directions -> Points]
  /\ taken \in [Directions -> Nat]
  /\ kept \in [Directions -> Nat]
  /\ loadIndex \in [Directions -> Nat]
  /\ size \in [Directions -> Nat]
  /\ last \in [Directions -> BOOLEAN]
  /\ forwarded \in [Directions -> Nat]
  /\ nextIndex \in Nat

\* Where the bytes are that a direction has read: on record, passed on, or in its hands.
Place(d) ==
  /\ kept[d] <= taken[d] /\ taken[d] <= sent[d]
  /\ pc[d] = "first" => forwarded[d] = kept[d] /\ taken[d] = kept[d] /\ ~last[d]
  /\ pc[d] = "rest"  => forwarded[d] = kept[d] /\ taken[d] = kept[d] + 1 /\ size[d] = 1 /\ ~last[d]
  /\ pc[d] = "hook"  => forwarded[d] = kept[d] /\ taken[d] = kept[d] + size[d] /\ size[d] > 1 /\ ~last[d]
  /\ pc[d] = "write" => /\ forwarded[d] + size[d] = taken[d]
                        /\ IF last[d] THEN forwarded[d] = kept[d] /\ size[d] = 1
                           ELSE kept[d] = taken[d] /\ size[d] > 1
  /\ Stopping(d)     => forwarded[d] <= taken[d] /\ forwarded[d] <= kept[d] + 1

\* Before the connection is served no direction runs.
NotYet == stage \in {"accepted", "dialed"} => nextIndex = 0 /\ \A d \in Directions : pc[d] = "first"

\* A direction stops when no more can be read; and it has passed on all there was unless
\* a connection was broken or closed.
Ending(d) ==
  /\ last[d] => ReadFails(d)
  /\ pc[d] = "closeClient" /\ open = Directions /\ broken = {} =>
       d \in ended /\ forwarded[d] = sent[d]

Bytes == Ranges /\ NotYet /\ \A d \in Directions : Place(d) /\ Ending(d)

LEMMA BytesInit == Init => Bytes
BY DEF Init, Bytes, Ranges, NotYet, Place, Ending, Stopping, Closing, Points, Directions

LEMMA BytesStep == Bytes /\ [Next]_vars => Bytes'
<1> SUFFICES ASSUME Bytes, [Next]_vars PROVE Bytes'
  OBVIOUS
<1> USE DEF Bytes, Ranges, NotYet, Place, Ending, Stopping, Closing, Points, ReadFails, copying, peers, server
<1>1. CASE Accepting
  BY <1>1 DEF Accepting, DialFails, Dial, ResourceFails, GetResource, CloseHook
<1>2. ASSUME NEW d \in Directions, Send(d) \/ End(d) \/ Break(d) PROVE Bytes'
  <2>1. Ranges' /\ NotYet' /\ \A e \in Directions : Place(e)'
    <3>1. CASE Send(d)
      BY <3>1 DEF Send
    <3>2. CASE End(d) \/ Break(d)
      BY <3>2 DEF End, Break
    <3> QED
      BY <1>2, <3>1, <3>2
  <2>2. ASSUME NEW e \in Directions PROVE Ending(e)'
    <3>1. CASE Send(d)
      BY <3>1 DEF Send
    <3>2. CASE End(d)
      BY <3>2 DEF End
    <3>3. CASE Break(d)
      BY <3>3 DEF Break
    <3> QED
      BY <1>2, <3>1, <3>2, <3>3
  <2> QED
    BY <2>1, <2>2
<1>3. ASSUME NEW d \in Directions, ReadFirst(d) PROVE Bytes'
  BY <1>3 DEF ReadFirst, HasData, TakeIndex
<1>4. ASSUME NEW d \in Directions, ReadFirstFails(d) PROVE Bytes'
  BY <1>4 DEF ReadFirstFails
<1>5. ASSUME NEW d \in Directions, ReadRest(d) PROVE Bytes'
  BY <1>5 DEF ReadRest, HasData
<1>6. ASSUME NEW d \in Directions, ReadRestFails(d) PROVE Bytes'
  BY <1>6 DEF ReadRestFails
<1>7. ASSUME NEW d \in Directions, Hook(d) PROVE Bytes'
  BY <1>7 DEF Hook
<1>8. ASSUME NEW d \in Directions, Forward(d) PROVE Bytes'
  BY <1>8 DEF Forward
<1>9. ASSUME NEW d \in Directions, ForwardFails(d) PROVE Bytes'
  BY <1>9, TheOther DEF ForwardFails
<1>10. ASSUME NEW d \in Directions, CloseClient(d) \/ CloseTarget(d) PROVE Bytes'
  <2>1. Ranges' /\ NotYet' /\ \A e \in Directions : Place(e)'
    BY <1>10 DEF CloseClient, CloseTarget
  <2>2. open' # Directions
    BY <1>10 DEF CloseClient, CloseTarget, Directions
  <2>3. ASSUME NEW e \in Directions PROVE Ending(e)'
    BY <1>10, <2>2 DEF CloseClient, CloseTarget
  <2> QED
    BY <2>1, <2>3
<1>11. CASE Recording
  BY <1>11 DEF Recording, Enqueue, BeginWrite, FinishWrite
<1>12. CASE UNCHANGED vars
  BY <1>12 DEF vars
<1> QED
  BY <1>1, <1>2, <1>3, <1>4, <1>5, <1>6, <1>7, <1>8, <1>9, <1>10, <1>11, <1>12 DEF Next, Peers, Copy

-----------------------------------------------------------------------------
(* Indices.                                                                *)

\* An index has been used when a chunk was handed over under it.  What a direction drew
\* last is used when it is about to draw the next one.
Indices ==
  /\ DOMAIN chunk \subseteq 1 .. nextIndex - 1
  /\ \A d \in Directions :
       /\ loadIndex[d] < nextIndex \/ loadIndex[d] = 0
       /\ pc[d] = "first" \/ (pc[d] = "write" /\ ~last[d]) =>
            loadIndex[d] = 0 \/ loadIndex[d] \in DOMAIN chunk
       /\ pc[d] \in {"rest", "hook"} => loadIndex[d] # 0
  /\ stage \in {"serving", "released"} => nextIndex # 0
  /\ IndicesAccounted

LEMMA IndicesInit == Init => Indices
BY DEF Init, Indices, IndicesAccounted, Directions

LEMMA AfterWrite ==
  ASSUME Bytes, NEW d \in Directions, Forward(d) \/ ForwardFails(d), NEW e \in Directions
  PROVE  pc'[e] = pc[e] \/ pc'[e] = "closeClient" \/ (pc'[e] = "first" /\ pc[e] = "write" /\ ~last[e])
<1>1. pc \in [Directions -> Points] /\ last \in [Directions -> BOOLEAN]
  BY DEF Bytes, Ranges
<1>2. CASE Forward(d)
  <2>1. pc[d] = "write" /\ pc' = [pc EXCEPT ![d] = IF last[d] THEN "closeClient" ELSE "first"]
    BY <1>2 DEF Forward
  <2>2. CASE e = d
    BY <1>1, <2>1, <2>2
  <2>3. CASE e # d
    BY <1>1, <2>1, <2>3
  <2> QED
    BY <2>2, <2>3
<1>3. CASE ForwardFails(d)
  BY <1>1, <1>3 DEF ForwardFails
<1> QED
  BY <1>2, <1>3

LEMMA IndicesStep == Bytes /\ Indices /\ [Next]_vars => Indices'
<1> SUFFICES ASSUME Bytes, Indices, [Next]_vars PROVE Indices'
  OBVIOUS
<1> USE TheOther DEF Bytes, Ranges, NotYet, Indices, IndicesAccounted, copying, peers, server
<1>1. CASE Accepting
  BY <1>1 DEF Accepting, DialFails, Dial, ResourceFails, GetResource, CloseHook
<1>2. ASSUME NEW d \in Directions, Send(d) \/ End(d) \/ Break(d) PROVE Indices'
  <2>1. UNCHANGED <<stage, copying>>
    BY <1>2 DEF Send, End, Break
  <2> QED
    BY <2>1
<1>3. ASSUME NEW d \in Directions, ReadFirst(d) PROVE Indices'
  BY <1>3 DEF ReadFirst, TakeIndex
<1>4. ASSUME NEW d \in Directions, ReadFirstFails(d) \/ ReadRest(d) \/ ReadRestFails(d) PROVE Indices'
  BY <1>4 DEF ReadFirstFails, ReadRest, ReadRestFails
<1>5. ASSUME NEW d \in Directions, Hook(d) PROVE Indices'
  <2>1. DOMAIN chunk' = DOMAIN chunk \cup {loadIndex[d]}
    BY <1>5 DEF Hook, Recorded
  <2> QED
    BY <1>5, <2>1 DEF Hook
<1>6. ASSUME NEW d \in Directions, Forward(d) \/ ForwardFails(d) PROVE Indices'
  <2>1. stage' = stage /\ nextIndex' = nextIndex /\ chunk' = chunk /\ loadIndex' = loadIndex /\ last' = last
    BY <1>6 DEF Forward, ForwardFails
  <2>2. \A e \in Directions : pc'[e] \in {"rest", "hook"} => pc[e] \in {"rest", "hook"}
    BY <1>6, AfterWrite
  <2>3. \A e \in Directions : pc'[e] = "first" \/ (pc'[e] = "write" /\ ~last[e]) =>
                              pc[e] = "first" \/ (pc[e] = "write" /\ ~last[e])
    BY <1>6, AfterWrite
  <2> QED
    BY <2>1, <2>2, <2>3
<1>7. ASSUME NEW d \in Directions, CloseClient(d) \/ CloseTarget(d) PROVE Indices'
  BY <1>7 DEF CloseClient, CloseTarget
<1>8. CASE Recording
  BY <1>8 DEF Recording, Enqueue, BeginWrite, FinishWrite
<1>9. CASE UNCHANGED vars
  BY <1>9 DEF vars
<1> QED
  BY <1>1, <1>2, <1>3, <1>4, <1>5, <1>6, <1>7, <1>8, <1>9 DEF Next, Peers, Copy


-----------------------------------------------------------------------------
(* Chunks.                                                                 *)

Drawn(d) == pc[d] \in {"rest", "hook"}

\* What a step does to the chunks and to what they depend on.
Quiet ==
  /\ UNCHANGED <<chunk, kept, loadIndex>>
  /\ \A e \in Directions : Drawn(e)' => Drawn(e)

LEMMA Kinds ==
  ASSUME Bytes, [Next]_vars
  PROVE  Quiet \/ (\E d \in Directions : ReadFirst(d)) \/ (\E d \in Directions : Hook(d))
<1> USE DEF Quiet, Drawn
<1>1. pc \in [Directions -> Points]
  BY DEF Bytes, Ranges
<1>2. CASE UNCHANGED <<chunk, kept, loadIndex, pc>>
  BY <1>2
<1>3. ASSUME NEW d \in Directions, NEW p \in Points \ {"rest", "hook"},
             UNCHANGED <<chunk, kept, loadIndex>>, pc' = [pc EXCEPT ![d] = p] PROVE Quiet
  BY <1>1, <1>3
<1>4. CASE Accepting \/ Peers \/ Recording \/ UNCHANGED vars
  <2>1. CASE Accepting
    BY <1>2, <2>1 DEF Accepting, DialFails, Dial, ResourceFails, GetResource, CloseHook, copying
  <2>2. CASE Peers
    BY <1>2, <2>2 DEF Peers, Send, End, Break, copying
  <2>3. CASE Recording
    BY <1>2, <2>3 DEF Recording, Enqueue, BeginWrite, FinishWrite, copying
  <2>4. CASE UNCHANGED vars
    BY <1>2, <2>4 DEF vars, copying
  <2> QED
    BY <1>4, <2>1, <2>2, <2>3, <2>4
<1>5. ASSUME NEW d \in Directions, Copy(d), ~ReadFirst(d), ~Hook(d) PROVE Quiet
  <2>1. CASE ReadFirstFails(d)
    BY <1>3, <2>1 DEF ReadFirstFails, Points, Closing
  <2>2. CASE ReadRest(d)
    <3>1. pc[d] = "rest" /\ pc' = [pc EXCEPT ![d] = "hook"] /\ UNCHANGED <<chunk, kept, loadIndex>>
      BY <2>2 DEF ReadRest
    <3> QED
      BY <1>1, <3>1
  <2>3. CASE ReadRestFails(d)
    BY <1>3, <2>3 DEF ReadRestFails, Points, Closing
  <2>4. CASE Forward(d) \/ ForwardFails(d)
    <3>1. UNCHANGED <<chunk, kept, loadIndex>>
      BY <2>4 DEF Forward, ForwardFails
    <3> QED
      BY <2>4, <3>1, AfterWrite
  <2>5. CASE CloseClient(d) \/ CloseTarget(d)
    BY <1>3, <2>5 DEF CloseClient, CloseTarget, Points, Closing
  <2> QED
    BY <1>5, <2>1, <2>2, <2>3, <2>4, <2>5 DEF Copy
<1> QED
  BY <1>4, <1>5 DEF Next

\* Handing a chunk over leaves the others alone.
LEMMA HookRecords ==
  ASSUME Bytes, Indices, NEW d \in Directions, Hook(d)
  PROVE  /\ loadIndex[d] \notin DOMAIN chunk
         /\ DOMAIN chunk' = DOMAIN chunk \cup {loadIndex[d]}
         /\ \A i \in DOMAIN chunk : chunk'[i] = chunk[i]
         /\ LET c == chunk'[loadIndex[d]] IN c.dir = d /\ c.first = kept[d] + 1 /\ c.last = taken[d]
         /\ kept[d] \in Nat /\ taken[d] \in Nat /\ kept[d] < taken[d]
         /\ kept'[d] = taken[d] /\ \A e \in Directions : e # d => kept'[e] = kept[e]
         /\ loadIndex' = loadIndex
<1>1. loadIndex[d] \notin DOMAIN chunk
  BY DEF Hook, Indices, IndicesAccounted
<1>2. chunk' = Recorded(d)
  BY DEF Hook
<1>3. DOMAIN chunk' = DOMAIN chunk \cup {loadIndex[d]}
  BY <1>2 DEF Recorded
<1>4. \A i \in DOMAIN chunk : chunk'[i] = chunk[i]
  BY <1>1, <1>2 DEF Recorded
<1>5. chunk'[loadIndex[d]] = [dir |-> d, first |-> kept[d] + 1, last |-> taken[d]]
  BY <1>2 DEF Recorded
<1>6. kept[d] \in Nat /\ taken[d] \in Nat /\ kept[d] < taken[d]
  BY DEF Bytes, Ranges, Place, Hook
<1>7. kept' = [kept EXCEPT ![d] = taken[d]] /\ loadIndex' = loadIndex
  BY DEF Hook
<1> QED
  BY <1>1, <1>3, <1>4, <1>5, <1>6, <1>7 DEF Bytes, Ranges

\* A stream's chunks follow each other without a gap, in the order of their indices,
\* up to what the direction has handed over.
Chunked ==
  /\ \A i \in DOMAIN chunk :
       /\ i <= loadIndex[chunk[i].dir]
       /\ chunk[i].dir \in Directions /\ chunk[i].first \in Nat \ {0} /\ chunk[i].last \in Nat
       /\ chunk[i].first <= chunk[i].last /\ chunk[i].last <= kept[chunk[i].dir]
       /\ \/ chunk[i].first = 1
          \/ \E j \in DOMAIN chunk : j < i /\ chunk[j].dir = chunk[i].dir /\ chunk[j].last = chunk[i].first - 1
  /\ \A i, j \in DOMAIN chunk : i < j /\ chunk[i].dir = chunk[j].dir => chunk[i].last < chunk[j].first
  /\ \A d \in Directions : kept[d] = 0 \/ \E i \in DOMAIN chunk : chunk[i].dir = d /\ chunk[i].last = kept[d]

LEMMA ChunkedInit == Init => Chunked
BY DEF Init, Chunked, Directions

LEMMA ChunkedStep == Bytes /\ Indices /\ Chunked /\ [Next]_vars => Chunked'
<1> SUFFICES ASSUME Bytes, Indices, Chunked, [Next]_vars PROVE Chunked'
  OBVIOUS
<1>1. CASE Quiet
  BY <1>1 DEF Quiet, Chunked
<1>2. ASSUME NEW d \in Directions, ReadFirst(d) PROVE Chunked'
  <2>1. UNCHANGED <<chunk, kept>> /\ loadIndex' = [loadIndex EXCEPT ![d] = nextIndex]
    BY <1>2 DEF ReadFirst, TakeIndex
  <2>2. nextIndex \in Nat /\ \A i \in DOMAIN chunk : i \in Nat /\ i <= nextIndex
    BY DEF Bytes, Ranges, Indices
  <2>3. \A i \in DOMAIN chunk : i <= loadIndex'[chunk[i].dir]
    BY <2>1, <2>2 DEF Chunked, Bytes, Ranges
  <2> QED
    BY <2>1, <2>3 DEF Chunked
<1>3. ASSUME NEW d \in Directions, Hook(d) PROVE Chunked'
  <2> DEFINE n == loadIndex[d]
  <2>1. /\ n \notin DOMAIN chunk
        /\ DOMAIN chunk' = DOMAIN chunk \cup {n}
        /\ \A i \in DOMAIN chunk : chunk'[i] = chunk[i]
        /\ chunk'[n].dir = d /\ chunk'[n].first = kept[d] + 1 /\ chunk'[n].last = taken[d]
        /\ kept[d] \in Nat /\ taken[d] \in Nat /\ kept[d] < taken[d]
        /\ kept'[d] = taken[d] /\ \A e \in Directions : e # d => kept'[e] = kept[e]
        /\ loadIndex' = loadIndex
    BY <1>3, HookRecords
  <2>2. n \in Nat /\ \A i \in DOMAIN chunk : i \in Nat
    BY DEF Bytes, Ranges, Indices
  <2>3. \A i \in DOMAIN chunk : chunk[i].dir = d => i < n /\ chunk[i].last <= kept[d] /\ chunk[i].last \in Nat
    BY <2>1, <2>2 DEF Chunked
  <2>4. \A i \in DOMAIN chunk :
          chunk[i].last \in Nat /\ kept[chunk[i].dir] \in Nat /\ kept[chunk[i].dir] <= kept'[chunk[i].dir]
    BY <2>1 DEF Chunked, Bytes, Ranges
  <2> HIDE DEF n
  <2>5. ASSUME NEW i \in DOMAIN chunk'
        PROVE  /\ i <= loadIndex'[chunk'[i].dir]
               /\ chunk'[i].dir \in Directions /\ chunk'[i].first \in Nat \ {0} /\ chunk'[i].last \in Nat
               /\ chunk'[i].first <= chunk'[i].last /\ chunk'[i].last <= kept'[chunk'[i].dir]
    <3>1. CASE i = n
      BY <2>1, <2>2, <3>1 DEF n
    <3>2. CASE i \in DOMAIN chunk
      BY <2>1, <2>4, <3>2 DEF Chunked
    <3> QED
      BY <2>1, <3>1, <3>2
  <2>6. ASSUME NEW i \in DOMAIN chunk'
        PROVE  \/ chunk'[i].first = 1
               \/ \E j \in DOMAIN chunk' : j < i /\ chunk'[j].dir = chunk'[i].dir /\ chunk'[j].last = chunk'[i].first - 1
    <3>1. CASE i = n
      <4>1. kept[d] = 0 \/ \E j \in DOMAIN chunk : chunk[j].dir = d /\ chunk[j].last = kept[d]
        BY DEF Chunked
      <4>2. CASE kept[d] = 0
        BY <2>1, <3>1, <4>2
      <4>3. ASSUME NEW j \in DOMAIN chunk, chunk[j].dir = d, chunk[j].last = kept[d]
            PROVE  j < i /\ chunk'[j].dir = chunk'[i].dir /\ chunk'[j].last = chunk'[i].first - 1
        BY <2>1, <2>3, <3>1, <4>3
      <4> QED
        BY <2>1, <4>1, <4>2, <4>3
    <3>2. CASE i \in DOMAIN chunk
      BY <2>1, <3>2 DEF Chunked
    <3> QED
      BY <2>1, <3>1, <3>2
  <2>7. ASSUME NEW i \in DOMAIN chunk', NEW j \in DOMAIN chunk', i < j, chunk'[i].dir = chunk'[j].dir
        PROVE  chunk'[i].last < chunk'[j].first
    <3>1. CASE j = n
      <4>1. i \in DOMAIN chunk /\ chunk[i].dir = d
        BY <2>1, <2>2, <2>7, <3>1
      <4>2. chunk[i].last <= kept[d] /\ chunk[i].last \in Nat
        BY <2>3, <4>1
      <4> QED
        BY <2>1, <3>1, <4>1, <4>2
    <3>2. CASE j \in DOMAIN chunk /\ i = n
      BY <2>1, <2>2, <2>3, <2>7, <3>2
    <3>3. CASE j \in DOMAIN chunk /\ i \in DOMAIN chunk
      BY <2>1, <2>7, <3>3 DEF Chunked
    <3> QED
      BY <2>1, <3>1, <3>2, <3>3
  <2>8. ASSUME NEW e \in Directions
        PROVE  kept'[e] = 0 \/ \E i \in DOMAIN chunk' : chunk'[i].dir = e /\ chunk'[i].last = kept'[e]
    <3>1. CASE e = d
      BY <2>1, <3>1
    <3>2. CASE e # d
      BY <2>1, <3>2 DEF Chunked
    <3> QED
      BY <3>1, <3>2
  <2> QED
    BY <2>5, <2>6, <2>7, <2>8 DEF Chunked
<1> QED
  BY <1>1, <1>2, <1>3, Kinds

-----------------------------------------------------------------------------
(* The record.                                                             *)

\* The queue writes under consecutive indices what has been handed over.
InTurn ==
  /\ submitted \subseteq DOMAIN chunk
  /\ handled \in Seq(Nat)
  /\ \A k \in 1..Len(handled) : handled[k] = k /\ k \in submitted
  /\ writing = 0 \/ (writing = Len(handled) + 1 /\ writing \in submitted)

LEMMA InTurnInit == Init => InTurn
BY DEF Init, Queue!Init, InTurn

LEMMA InTurnStep == Bytes /\ Indices /\ InTurn /\ [Next]_vars => InTurn'
<1> SUFFICES ASSUME Bytes, Indices, InTurn, [Next]_vars PROVE InTurn'
  OBVIOUS
<1>1. DOMAIN chunk \subseteq DOMAIN chunk'
  <2>1. CASE Quiet
    BY <2>1 DEF Quiet
  <2>2. ASSUME NEW d \in Directions, ReadFirst(d) PROVE DOMAIN chunk \subseteq DOMAIN chunk'
    BY <2>2 DEF ReadFirst
  <2>3. ASSUME NEW d \in Directions, Hook(d) PROVE DOMAIN chunk \subseteq DOMAIN chunk'
    BY <2>3, HookRecords
  <2> QED
    BY <2>1, <2>2, <2>3, Kinds
<1>2. CASE UNCHANGED queue
  BY <1>1, <1>2 DEF InTurn, queue
<1>3. CASE Accepting
  BY <1>2, <1>3 DEF Accepting, DialFails, Dial, ResourceFails, GetResource, CloseHook
<1>4. CASE Peers
  BY <1>2, <1>4 DEF Peers, Send, End, Break
<1>5. ASSUME NEW d \in Directions, Copy(d) PROVE InTurn'
  BY <1>2, <1>5 DEF Copy, ReadFirst, ReadFirstFails, ReadRest, ReadRestFails, Hook, Forward, ForwardFails,
                    CloseClient, CloseTarget
<1>6. ASSUME NEW i \in 1..MaxIndex, Enqueue(i) PROVE InTurn'
  BY <1>1, <1>6 DEF Enqueue, Queue!Submit, InTurn
<1>7. CASE BeginWrite
  BY <1>1, <1>7 DEF BeginWrite, Queue!Begin, InTurn
<1>8. CASE FinishWrite
  <2>1. writing = Len(handled) + 1 /\ writing \in submitted /\ handled \in Seq(Nat) /\ Len(handled) \in Nat
    BY <1>8 DEF FinishWrite, Queue!Finish, InTurn
  <2>2. handled' = Append(handled, writing) /\ writing' = 0 /\ submitted' = submitted
    BY <1>8 DEF FinishWrite, Queue!Finish
  <2>3. handled' \in Seq(Nat) /\ Len(handled') = Len(handled) + 1
    BY <2>1, <2>2
  <2>4. \A k \in 1..Len(handled') : handled'[k] = k /\ k \in submitted
    BY <2>1, <2>2, <2>3 DEF InTurn
  <2> QED
    BY <1>1, <2>2, <2>3, <2>4 DEF InTurn
<1>9. CASE UNCHANGED vars
  BY <1>2, <1>9 DEF vars, queue
<1> QED
  BY <1>3, <1>4, <1>5, <1>6, <1>7, <1>8, <1>9 DEF Next, Recording

LEMMA PrefixFollows == Indices /\ Chunked /\ InTurn => RecordIsPrefix
<1> SUFFICES ASSUME Indices, Chunked, InTurn, NEW k \in 1..Len(handled)
             PROVE  LET c      == chunk[handled[k]]
                        before == {0} \cup {chunk[handled[j]].last : j \in
                                              {m \in 1..k - 1 : chunk[handled[m]].dir = c.dir}}
                    IN  c.first - 1 \in before /\ \A l \in before : l < c.first
  BY DEF RecordIsPrefix
<1> DEFINE c      == chunk[handled[k]]
           earlier == {m \in 1..k - 1 : chunk[handled[m]].dir = c.dir}
           before == {0} \cup {chunk[handled[j]].last : j \in earlier}
<1>1. /\ Len(handled) \in Nat
      /\ \A m \in 1..k : handled[m] = m /\ m \in DOMAIN chunk
  BY DEF InTurn
<1>2. c = chunk[k] /\ c.first \in Nat \ {0} /\ k \in Nat
  BY <1>1 DEF Chunked
<1>3. \A m \in 1..k - 1 : handled[m] = m /\ m \in DOMAIN chunk /\ m < k
  BY <1>1
<1>4. c.first - 1 \in before
  <2>1. CASE c.first = 1
    BY <2>1
  <2>2. CASE c.first # 1
    <3>1. PICK j \in DOMAIN chunk : j < k /\ chunk[j].dir = c.dir /\ chunk[j].last = c.first - 1
      BY <1>1, <1>2, <2>2 DEF Chunked
    <3>2. j \in 1..k - 1
      BY <1>2, <3>1 DEF Indices
    <3>3. j \in earlier /\ chunk[handled[j]].last = c.first - 1
      BY <1>3, <3>1, <3>2
    <3> QED
      BY <3>3
  <2> QED
    BY <2>1, <2>2
<1>5. ASSUME NEW l \in before PROVE l < c.first
  <2>1. CASE l = 0
    BY <1>2, <2>1
  <2>2. ASSUME NEW j \in earlier, l = chunk[handled[j]].last PROVE l < c.first
    <3>1. handled[j] = j /\ j \in DOMAIN chunk /\ j < k /\ chunk[j].dir = chunk[k].dir
      BY <1>1, <1>2, <1>3
    <3> QED
      BY <1>1, <1>2, <2>2, <3>1 DEF Chunked
  <2> QED
    BY <2>1, <2>2
<1> QED
  BY <1>4, <1>5


-----------------------------------------------------------------------------
(* Requests before replies.                                                *)

\* The history of a stream has an entry for every byte, and none exceeds what has been
\* passed on of the opposite stream.
Heard ==
  /\ seen \in [Directions -> Seq(Nat)]
  /\ \A d \in Directions :
    /\ Len(seen[d]) = sent[d]
    /\ \A b \in 1..sent[d] : seen[d][b] <= forwarded[Other(d)]

LEMMA HeardInit == Init => Heard
BY DEF Init, Heard, Directions

\* The history only grows.
SeenGrows == \A e \in Directions : sent[e] <= sent'[e] /\ \A b \in 1..sent[e] : seen'[e][b] = seen[e][b]

LEMMA HeardStep == Bytes /\ Heard /\ [Next]_vars => Heard' /\ SeenGrows
<1> SUFFICES ASSUME Bytes, Heard, [Next]_vars PROVE Heard' /\ SeenGrows
  OBVIOUS
<1>1. sent \in [Directions -> Nat] /\ forwarded \in [Directions -> Nat] /\ size \in [Directions -> Nat]
  BY DEF Bytes, Ranges
<1>2. ASSUME UNCHANGED <<sent, seen>>,
             \A e \in Directions : forwarded'[e] \in Nat /\ forwarded[e] <= forwarded'[e]
      PROVE  Heard' /\ SeenGrows
  BY <1>1, <1>2, TheOther DEF Heard, SeenGrows
<1>3. ASSUME UNCHANGED <<sent, seen, forwarded>> PROVE Heard' /\ SeenGrows
  BY <1>1, <1>2, <1>3
<1>4. CASE Accepting
  BY <1>3, <1>4 DEF Accepting, DialFails, Dial, ResourceFails, GetResource, CloseHook, peers, copying
<1>5. ASSUME NEW d \in Directions, Send(d) PROVE Heard' /\ SeenGrows
  <2>1. /\ sent' = [sent EXCEPT ![d] = @ + 1] /\ forwarded' = forwarded
        /\ seen' = [seen EXCEPT ![d] = Append(@, forwarded[Other(d)])]
    BY <1>5 DEF Send, copying
  <2>2. seen[d] \in Seq(Nat) /\ Len(seen[d]) = sent[d] /\ sent[d] \in Nat /\ forwarded[Other(d)] \in Nat
    BY <1>1, TheOther DEF Heard
  <2> DEFINE longer == Append(seen[d], forwarded[Other(d)])
  <2>3. longer \in Seq(Nat) /\ Len(longer) = sent[d] + 1
    BY <2>2
  <2>4. (\A b \in 1..sent[d] : longer[b] = seen[d][b]) /\ longer[sent[d] + 1] = forwarded[Other(d)]
    BY <2>2
  <2>5. sent'[d] = sent[d] + 1 /\ \A e \in Directions : e # d => sent'[e] = sent[e] /\ seen'[e] = seen[e]
    BY <1>1, <2>1
  <2>6. seen'[d] = longer /\ seen' = [e \in Directions |-> seen'[e]]
    BY <2>1 DEF Heard
  <2> HIDE DEF longer
  <2>7. \A e \in Directions : seen'[e] \in Seq(Nat) /\ Len(seen'[e]) = sent'[e]
    BY <2>3, <2>5, <2>6 DEF Heard
  <2>8. ASSUME NEW e \in Directions, NEW b \in 1..sent'[e] PROVE seen'[e][b] <= forwarded'[Other(e)]
    <3>1. CASE e = d /\ b = sent[d] + 1
      BY <2>1, <2>2, <2>4, <2>6, <3>1
    <3>2. CASE e = d /\ b \in 1..sent[d]
      BY <2>1, <2>4, <2>6, <3>2 DEF Heard
    <3>3. CASE e # d
      BY <2>1, <2>5, <3>3 DEF Heard
    <3> QED
      BY <2>2, <2>5, <3>1, <3>2, <3>3
  <2>9. ASSUME NEW e \in Directions PROVE sent[e] <= sent'[e] /\ \A b \in 1..sent[e] : seen'[e][b] = seen[e][b]
    <3>1. sent[e] \in Nat
      BY <1>1
    <3>2. CASE e = d
      BY <2>2, <2>4, <2>5, <2>6, <3>2
    <3>3. CASE e # d
      BY <2>5, <3>1, <3>3
    <3> QED
      BY <3>2, <3>3
  <2> QED
    BY <2>6, <2>7, <2>8, <2>9 DEF Heard, SeenGrows
<1>6. ASSUME NEW d \in Directions, End(d) \/ Break(d) PROVE Heard' /\ SeenGrows
  BY <1>3, <1>6 DEF End, Break, copying
<1>7. ASSUME NEW d \in Directions, Copy(d), ~Forward(d), ~ForwardFails(d) PROVE Heard' /\ SeenGrows
  BY <1>3, <1>7 DEF Copy, ReadFirst, ReadFirstFails, ReadRest, ReadRestFails, Hook, CloseClient, CloseTarget, peers
<1>8. ASSUME NEW d \in Directions, Forward(d) \/ ForwardFails(d) PROVE Heard' /\ SeenGrows
  <2>1. UNCHANGED <<sent, seen>>
    BY <1>8 DEF Forward, ForwardFails, peers
  <2>2. \E n \in Nat : forwarded' = [forwarded EXCEPT ![d] = @ + n]
    <3>1. CASE Forward(d)
      BY <1>1, <3>1 DEF Forward
    <3>2. CASE ForwardFails(d)
      <4>1. PICK n \in 0..(size[d] - 1) : forwarded' = [forwarded EXCEPT ![d] = @ + n]
        BY <3>2 DEF ForwardFails
      <4>2. n \in Nat
        BY <1>1
      <4> QED
        BY <4>1, <4>2
    <3> QED
      BY <1>8, <3>1, <3>2
  <2>3. \A e \in Directions : forwarded'[e] \in Nat /\ forwarded[e] <= forwarded'[e]
    BY <1>1, <2>2
  <2> QED
    BY <1>2, <2>1, <2>3
<1>9. CASE Recording
  BY <1>3, <1>9 DEF Recording, Enqueue, BeginWrite, FinishWrite, peers, copying
<1>10. CASE UNCHANGED vars
  BY <1>3, <1>10 DEF vars, peers, copying
<1> QED
  BY <1>4, <1>5, <1>6, <1>7, <1>8, <1>9, <1>10 DEF Next, Peers

\* The bytes a direction is about to hand over, or has handed over, answer at most what
\* the other one had handed over before, unless that one has stopped for good.
Ahead(d) ==
  Drawn(d) =>
    /\ \A i \in DOMAIN chunk :
         chunk[i].dir # d /\ chunk[i].first <= seen[d][kept[d] + 1] => i < loadIndex[d]
    /\ \A e \in Directions \ {d} : Stopping(e) \/ seen[d][kept[d] + 1] <= kept[e]
Late(j) ==
  \A e \in Directions \ {chunk[j].dir} : Stopping(e) \/ seen[chunk[j].dir][chunk[j].first] <= kept[e]

Answers ==
  /\ \A d \in Directions : Ahead(d)
  /\ \A j \in DOMAIN chunk : Late(j)
  /\ CausalOrder

LEMMA AnswersInit == Init => Answers
BY DEF Init, Answers, Ahead, Late, CausalOrder, Drawn, Directions

\* A direction that stops has stopped, and what has been handed over stays so.
LEMMA Onwards ==
  ASSUME Bytes, [Next]_vars, NEW e \in Directions
  PROVE  (Stopping(e) => Stopping(e)') /\ kept[e] \in Nat /\ kept'[e] \in Nat /\ kept[e] <= kept'[e]
<1>1. pc \in [Directions -> Points] /\ kept \in [Directions -> Nat]
  BY DEF Bytes, Ranges
<1>2. kept'[e] \in Nat /\ kept[e] <= kept'[e]
  <2>1. ASSUME NEW d \in Directions, Hook(d) PROVE kept'[e] \in Nat /\ kept[e] <= kept'[e]
    BY <1>1, <2>1 DEF Hook, Bytes, Ranges, Place
  <2> QED
    BY <1>1, <2>1, Kinds DEF Quiet, ReadFirst
<1>3. Stopping(e) => Stopping(e)'
  <2> USE DEF Stopping, Closing
  <2>1. ASSUME NEW d \in Directions, Copy(d) PROVE Stopping(e) => Stopping(e)'
    <3>1. \/ pc[d] \notin Closing \cup {"done"} /\ (\A f \in Directions : f # d => pc'[f] = pc[f])
          \/ (\E p \in Closing \cup {"done"} : pc' = [pc EXCEPT ![d] = p])
      BY <1>1, <2>1 DEF Copy, ReadFirst, ReadFirstFails, ReadRest, ReadRestFails, Hook, Forward, ForwardFails,
                        CloseClient, CloseTarget
    <3> QED
      BY <1>1, <3>1
  <2>2. CASE Accepting
    BY <2>2 DEF Accepting, DialFails, Dial, ResourceFails, GetResource, CloseHook, copying
  <2>3. CASE Peers
    BY <2>3 DEF Peers, Send, End, Break, copying
  <2>4. CASE Recording
    BY <2>4 DEF Recording, Enqueue, BeginWrite, FinishWrite, copying
  <2>5. CASE UNCHANGED vars
    BY <2>5 DEF vars, copying
  <2> QED
    BY <2>1, <2>2, <2>3, <2>4, <2>5 DEF Next
<1> QED
  BY <1>1, <1>2, <1>3

LEMMA AnswersStep == Bytes /\ Indices /\ Chunked /\ Heard /\ Answers /\ [Next]_vars => Answers'
<1> SUFFICES ASSUME Bytes, Indices, Chunked, Heard, Answers, [Next]_vars PROVE Answers'
  OBVIOUS
<1>1. \A e \in Directions : (Stopping(e) => Stopping(e)') /\ kept[e] \in Nat /\ kept'[e] \in Nat /\ kept[e] <= kept'[e]
  BY Onwards
<1>2. \A i \in DOMAIN chunk :
        /\ i \in Nat /\ chunk[i].dir \in Directions /\ Other(chunk[i].dir) \in Directions
        /\ chunk[i].first \in 1..sent[chunk[i].dir]
        /\ seen[chunk[i].dir][chunk[i].first] \in Nat
        /\ seen'[chunk[i].dir][chunk[i].first] = seen[chunk[i].dir][chunk[i].first]
  <2> SUFFICES ASSUME NEW i \in DOMAIN chunk
               PROVE  /\ i \in Nat /\ chunk[i].dir \in Directions /\ Other(chunk[i].dir) \in Directions
                      /\ chunk[i].first \in 1..sent[chunk[i].dir]
                      /\ seen[chunk[i].dir][chunk[i].first] \in Nat
                      /\ seen'[chunk[i].dir][chunk[i].first] = seen[chunk[i].dir][chunk[i].first]
    OBVIOUS
  <2> DEFINE d == chunk[i].dir
  <2>1. i \in Nat /\ d \in Directions /\ Other(d) \in Directions
    BY TheOther DEF Chunked, Indices
  <2>2. kept[d] \in Nat /\ taken[d] \in Nat /\ sent[d] \in Nat /\ kept[d] <= taken[d] /\ taken[d] <= sent[d]
    BY <2>1 DEF Bytes, Ranges, Place
  <2>3. chunk[i].first \in Nat \ {0} /\ chunk[i].last \in Nat /\ chunk[i].first <= chunk[i].last /\ chunk[i].last <= kept[d]
    BY DEF Chunked
  <2>4. chunk[i].first \in 1..sent[d]
    BY <2>2, <2>3
  <2>5. seen[d] \in Seq(Nat) /\ Len(seen[d]) = sent[d]
    BY <2>1 DEF Heard
  <2>6. seen[d][chunk[i].first] \in Nat
    BY <2>4, <2>5
  <2>7. seen'[d][chunk[i].first] = seen[d][chunk[i].first]
    BY <2>1, <2>4, HeardStep DEF SeenGrows
  <2> QED
    BY <2>1, <2>4, <2>6, <2>7
<1>3. ASSUME NEW d \in Directions, Drawn(d)
      PROVE  kept[d] + 1 \in 1..sent[d] /\ seen[d][kept[d] + 1] \in Nat /\ seen'[d][kept[d] + 1] = seen[d][kept[d] + 1]
  <2>1. kept[d] + 1 \in 1..sent[d]
    BY <1>3 DEF Drawn, Bytes, Ranges, Place
  <2> QED
    BY <2>1, HeardStep DEF Heard, SeenGrows
<1>4. CASE Quiet
  <2>1. UNCHANGED <<chunk, kept, loadIndex>> /\ \A e \in Directions : Drawn(e)' => Drawn(e)
    BY <1>4 DEF Quiet
  <2>2. ASSUME NEW d \in Directions PROVE Ahead(d)'
    <3> SUFFICES ASSUME Drawn(d)' PROVE Ahead(d)'
      BY DEF Ahead
    <3>1. seen'[d][kept'[d] + 1] = seen[d][kept[d] + 1] /\ Ahead(d) /\ Drawn(d)
      BY <1>3, <2>1 DEF Answers
    <3> QED
      BY <1>1, <2>1, <3>1 DEF Ahead
  <2>3. ASSUME NEW j \in DOMAIN chunk PROVE Late(j)'
    <3>1. Late(j) /\ chunk'[j] = chunk[j] /\ kept' = kept
      BY <2>1 DEF Answers
    <3> QED
      BY <1>1, <1>2, <3>1 DEF Late
  <2>4. CausalOrder'
    BY <1>2, <2>1 DEF Answers, CausalOrder
  <2> QED
    BY <2>1, <2>2, <2>3, <2>4 DEF Answers
<1>5. ASSUME NEW d \in Directions, ReadFirst(d) PROVE Answers'
  <2>1. UNCHANGED <<chunk, kept, sent, seen, forwarded>> /\ loadIndex' = [loadIndex EXCEPT ![d] = nextIndex]
    BY <1>5 DEF ReadFirst, TakeIndex, peers
  <2>2. pc' = [pc EXCEPT ![d] = "rest"] /\ pc[d] = "first" /\ taken[d] < sent[d] /\ taken[d] = kept[d]
    BY <1>5 DEF ReadFirst, HasData, Bytes, Place
  <2>3. loadIndex'[d] = nextIndex /\ \A e \in Directions : e # d => loadIndex'[e] = loadIndex[e] /\ pc'[e] = pc[e]
    BY <2>1, <2>2 DEF Bytes, Ranges
  <2>4. ASSUME NEW e \in Directions PROVE Ahead(e)'
    <3>1. CASE e = d
      <4>1. \A i \in DOMAIN chunk : i < nextIndex
        BY DEF Indices, Bytes, Ranges
      <4>2. \A f \in Directions \ {d} : f = Other(d)
        BY TheOther
      <4>3. kept[d] + 1 \in 1..sent[d]
        BY <1>1, <2>2 DEF Bytes, Ranges
      <4>4. \A f \in Directions \ {d} : seen[d][kept[d] + 1] <= forwarded[f] /\ seen[d][kept[d] + 1] \in Nat
        BY <4>2, <4>3 DEF Heard
      <4>5. \A f \in Directions : Stopping(f) \/ forwarded[f] <= kept[f]
        BY DEF Bytes, Ranges, Place, Points, Stopping
      <4>6. \A f \in Directions \ {d} : Stopping(f) \/ seen[d][kept[d] + 1] <= kept[f]
        BY <1>1, <4>4, <4>5 DEF Bytes, Ranges
      <4> QED
        BY <1>1, <2>1, <2>3, <3>1, <4>1, <4>6 DEF Ahead
    <3>2. CASE e # d
      <4>1. Drawn(e)' = Drawn(e)
        BY <2>3, <3>2 DEF Drawn
      <4> QED
        BY <1>1, <2>1, <2>3, <3>2, <4>1 DEF Ahead, Answers
    <3> QED
      BY <3>1, <3>2
  <2>5. ASSUME NEW j \in DOMAIN chunk PROVE Late(j)'
    BY <1>1, <2>1 DEF Late, Answers
  <2>6. CausalOrder'
    BY <2>1 DEF Answers, CausalOrder
  <2> QED
    BY <2>1, <2>4, <2>5, <2>6 DEF Answers
<1>6. ASSUME NEW d \in Directions, Hook(d) PROVE Answers'
  <2> DEFINE n == loadIndex[d]
  <2>1. /\ n \notin DOMAIN chunk
        /\ DOMAIN chunk' = DOMAIN chunk \cup {n}
        /\ \A i \in DOMAIN chunk : chunk'[i] = chunk[i]
        /\ chunk'[n].dir = d /\ chunk'[n].first = kept[d] + 1 /\ chunk'[n].last = taken[d]
        /\ kept[d] \in Nat /\ taken[d] \in Nat /\ kept[d] < taken[d]
        /\ kept'[d] = taken[d] /\ \A e \in Directions : e # d => kept'[e] = kept[e]
        /\ loadIndex' = loadIndex
    BY <1>6, HookRecords
  <2>2. seen' = seen /\ Drawn(d) /\ ~Stopping(d) /\ n \in Nat
    BY <1>6 DEF Hook, peers, Drawn, Stopping, Closing, Bytes, Ranges
  <2>3. \A e \in Directions : Drawn(e)' => Drawn(e) /\ e # d
    BY <1>6 DEF Hook, Drawn, Bytes, Ranges
  <2>4. Ahead(d)
    BY DEF Answers
  <2> HIDE DEF n
  <2>5. ASSUME NEW e \in Directions PROVE Ahead(e)'
    <3> SUFFICES ASSUME Drawn(e)' PROVE Ahead(e)'
      BY DEF Ahead
    <3>1. Drawn(e) /\ e # d /\ kept'[e] = kept[e] /\ Ahead(e)
      BY <2>1, <2>3 DEF Answers
    <3>2. seen[e][kept[e] + 1] \in Nat /\ seen[e][kept[e] + 1] <= kept[d]
      BY <1>3, <2>2, <3>1 DEF Ahead
    <3>3. \A i \in DOMAIN chunk' : chunk'[i].dir # e /\ chunk'[i].first <= seen'[e][kept'[e] + 1] => i < loadIndex'[e]
      <4>1. ~(chunk'[n].first <= seen'[e][kept'[e] + 1])
        BY <2>1, <2>2, <3>1, <3>2
      <4> QED
        BY <2>1, <2>2, <3>1, <4>1 DEF Ahead
    <3>4. \A f \in Directions \ {e} : Stopping(f)' \/ seen'[e][kept'[e] + 1] <= kept'[f]
      BY <1>1, <2>2, <3>1, <3>2 DEF Ahead
    <3> QED
      BY <3>3, <3>4 DEF Ahead
  <2>6. ASSUME NEW j \in DOMAIN chunk' PROVE Late(j)'
    <3>1. CASE j = n
      <4>1. seen[d][kept[d] + 1] \in Nat /\ \A e \in Directions \ {d} : Stopping(e) \/ seen[d][kept[d] + 1] <= kept[e]
        BY <1>3, <2>2, <2>4 DEF Ahead
      <4> QED
        BY <1>1, <2>1, <2>2, <3>1, <4>1 DEF Late
    <3>2. CASE j \in DOMAIN chunk
      <4>1. Late(j) /\ chunk'[j] = chunk[j] /\ seen[chunk[j].dir][chunk[j].first] \in Nat
        BY <1>2, <2>1, <3>2 DEF Answers
      <4> QED
        BY <1>1, <2>2, <4>1 DEF Late
    <3> QED
      BY <2>1, <3>1, <3>2
  <2>7. ASSUME NEW i \in DOMAIN chunk', NEW j \in DOMAIN chunk', chunk'[i].dir # chunk'[j].dir,
               seen'[chunk'[j].dir][chunk'[j].first] >= chunk'[i].first
        PROVE  i < j
    <3>1. CASE i \in DOMAIN chunk /\ j \in DOMAIN chunk
      BY <2>1, <2>2, <2>7, <3>1 DEF Answers, CausalOrder
    <3>2. CASE i \in DOMAIN chunk /\ j = n
      <4>1. chunk[i].dir # d /\ chunk[i].first <= seen[d][kept[d] + 1]
        BY <2>1, <2>2, <2>7, <3>2
      <4> QED
        BY <2>2, <2>4, <3>2, <4>1 DEF Ahead, n
    <3>3. CASE i = n /\ j \in DOMAIN chunk
      <4>1. Late(j) /\ chunk[j].dir # d
        BY <2>1, <2>7, <3>3 DEF Answers
      <4>2. seen[chunk[j].dir][chunk[j].first] <= kept[d]
        BY <2>2, <4>1 DEF Late
      <4>3. seen[chunk[j].dir][chunk[j].first] >= kept[d] + 1
        BY <2>1, <2>2, <2>7, <3>3
      <4> QED
        BY <1>1, <1>2, <3>3, <4>2, <4>3
    <3>4. CASE i = n /\ j = n
      BY <2>7, <3>4
    <3> QED
      BY <2>1, <3>1, <3>2, <3>3, <3>4
  <2> QED
    BY <2>5, <2>6, <2>7 DEF Answers, CausalOrder
<1> QED
  BY <1>4, <1>5, <1>6, Kinds


-----------------------------------------------------------------------------
(* Bounds.                                                                 *)

\* A direction takes two bytes at least between two indices, so what it has drawn
\* is at most half of what it has taken, but for a lone last byte.
Pace(d, n) ==
  IF pc[d] \in {"first", "hook"} \/ (pc[d] = "write" /\ ~last[d])
    THEN 2 * n <= taken[d]
    ELSE 2 * n <= taken[d] + 1
Paced == \E n, m \in Nat : nextIndex <= n + m + 1 /\ Pace("inbound", n) /\ Pace("outbound", m)

LEMMA Drawing ==
  ASSUME NEW x \in Nat, NEW y \in Nat, NEW n \in Nat, NEW m \in Nat, NEW l \in Nat,
         x <= n + m + 1, y + n <= x + l
  PROVE  y <= l + m + 1
OBVIOUS

LEMMA PacedInit == Init => Paced
<1> SUFFICES ASSUME Init PROVE Paced
  OBVIOUS
<1>1. nextIndex <= 0 + 0 + 1 /\ Pace("inbound", 0) /\ Pace("outbound", 0)
  BY DEF Init, Pace, Directions
<1> QED
  BY <1>1 DEF Paced

LEMMA PacedStep == Bytes /\ Paced /\ [Next]_vars => Paced'
<1> SUFFICES ASSUME Bytes, [Next]_vars,
                    NEW n \in Nat, NEW m \in Nat,
                    nextIndex <= n + m + 1, Pace("inbound", n), Pace("outbound", m)
             PROVE  Paced'
  BY DEF Paced
<1>1. /\ pc \in [Directions -> Points] /\ taken \in [Directions -> Nat] /\ last \in [Directions -> BOOLEAN]
      /\ nextIndex \in Nat /\ "inbound" \in Directions /\ "outbound" \in Directions /\ Directions = {"inbound", "outbound"}
  BY DEF Bytes, Ranges, Directions
<1>2. ASSUME UNCHANGED <<taken, pc, last>>, nextIndex' = nextIndex PROVE Paced'
  <2>1. nextIndex' <= n + m + 1 /\ Pace("inbound", n)' /\ Pace("outbound", m)'
    BY <1>2 DEF Pace
  <2> QED
    BY <2>1 DEF Paced
<1>3. CASE Accepting
  <2>1. CASE GetResource
    <3>1. nextIndex = 0 /\ nextIndex' = nextIndex + 1 /\ UNCHANGED <<taken, pc, last>>
      BY <2>1 DEF GetResource, Bytes, NotYet
    <3>2. nextIndex' <= n + m + 1 /\ Pace("inbound", n)' /\ Pace("outbound", m)'
      BY <3>1 DEF Pace
    <3> QED
      BY <3>2 DEF Paced
  <2> QED
    BY <1>2, <1>3, <2>1 DEF Accepting, DialFails, Dial, ResourceFails, CloseHook, copying
<1>4. CASE Peers
  BY <1>2, <1>4 DEF Peers, Send, End, Break, copying
<1>5. CASE Recording
  BY <1>2, <1>5 DEF Recording, Enqueue, BeginWrite, FinishWrite, copying
<1>6. CASE UNCHANGED vars
  BY <1>2, <1>6 DEF vars, copying
<1>7. ASSUME NEW d \in Directions, NEW k \in Nat, Pace(d, k), Copy(d)
      PROVE  \E l \in Nat : Pace(d, l)' /\ nextIndex' + k <= nextIndex + l
  <2>1. ASSUME Pace(d, k)', nextIndex' = nextIndex PROVE \E l \in Nat : Pace(d, l)' /\ nextIndex' + k <= nextIndex + l
    BY <1>1, <2>1
  <2>2. CASE ReadFirst(d)
    <3>1. taken'[d] = taken[d] + 1 /\ nextIndex' = nextIndex + 1 /\ pc'[d] = "rest" /\ pc[d] = "first"
      BY <1>1, <2>2 DEF ReadFirst, TakeIndex
    <3>2. Pace(d, k + 1)' /\ k + 1 \in Nat /\ nextIndex' + k <= nextIndex + (k + 1)
      BY <1>1, <1>7, <3>1 DEF Pace
    <3> QED
      BY <3>2
  <2>3. CASE ReadRest(d)
    <3>1. PICK b \in 1..(sent[d] - taken[d]) : taken' = [taken EXCEPT ![d] = @ + b]
      BY <2>3 DEF ReadRest
    <3>2. pc'[d] = "hook" /\ pc[d] = "rest" /\ taken'[d] >= taken[d] + 1 /\ nextIndex' = nextIndex
      BY <1>1, <2>3, <3>1 DEF ReadRest, Bytes, Ranges
    <3>3. taken'[d] \in Nat
      BY <1>1, <3>1 DEF Bytes, Ranges
    <3> QED
      BY <1>1, <1>7, <2>1, <3>2, <3>3 DEF Pace
  <2>4. CASE ReadFirstFails(d)
    BY <1>1, <1>7, <2>1, <2>4 DEF ReadFirstFails, Pace
  <2>5. CASE ReadRestFails(d)
    BY <1>1, <1>7, <2>1, <2>5 DEF ReadRestFails, Pace
  <2>6. CASE Hook(d)
    <3>1. ~last[d]
      BY <2>6 DEF Hook, Bytes, Place
    <3> QED
      BY <1>1, <1>7, <2>1, <2>6, <3>1 DEF Hook, Pace
  <2>7. CASE Forward(d)
    BY <1>1, <1>7, <2>1, <2>7 DEF Forward, Pace
  <2>8. CASE ForwardFails(d)
    BY <1>1, <1>7, <2>1, <2>8 DEF ForwardFails, Pace
  <2>9. CASE CloseClient(d) \/ CloseTarget(d)
    BY <1>1, <1>7, <2>1, <2>9 DEF CloseClient, CloseTarget, Pace
  <2> QED
    BY <1>7, <2>2, <2>3, <2>4, <2>5, <2>6, <2>7, <2>8, <2>9 DEF Copy
<1>8. ASSUME NEW d \in Directions, Copy(d), NEW e \in Directions, e # d, NEW k \in Nat, Pace(e, k) PROVE Pace(e, k)'
  <2>1. pc'[e] = pc[e] /\ taken'[e] = taken[e] /\ last'[e] = last[e]
    BY <1>1, <1>8 DEF Copy, ReadFirst, ReadFirstFails, ReadRest, ReadRestFails, Hook, Forward, ForwardFails,
                      CloseClient, CloseTarget
  <2> QED
    BY <1>8, <2>1 DEF Pace
<1>9. nextIndex' \in Nat
  BY BytesStep DEF Bytes, Ranges
<1>10. CASE Copy("inbound")
  <2>1. PICK l \in Nat : Pace("inbound", l)' /\ nextIndex' + n <= nextIndex + l
    BY <1>1, <1>7, <1>10
  <2>2. Pace("outbound", m)'
    BY <1>1, <1>8, <1>10
  <2>3. nextIndex' <= l + m + 1
    BY <1>1, <1>9, <2>1, Drawing
  <2> QED
    BY <2>1, <2>2, <2>3 DEF Paced
<1>11. CASE Copy("outbound")
  <2>1. PICK l \in Nat : Pace("outbound", l)' /\ nextIndex' + m <= nextIndex + l
    BY <1>1, <1>7, <1>11
  <2>2. Pace("inbound", n)'
    BY <1>1, <1>8, <1>11
  <2>3. nextIndex' <= n + l + 1
    <3>1. nextIndex' + m <= nextIndex + l /\ nextIndex <= m + n + 1
      BY <1>1, <2>1
    <3>2. nextIndex' <= l + n + 1
      BY <1>1, <1>9, <3>1, Drawing
    <3> QED
      BY <1>9, <3>2
  <2> QED
    BY <2>1, <2>2, <2>3 DEF Paced
<1> QED
  BY <1>1, <1>3, <1>4, <1>5, <1>6, <1>10, <1>11 DEF Next

\* What the type invariant bounds: the streams by what the peers send, a chunk by its stream.
Bounded ==
  /\ waitingRelease = IF stage = "serving" THEN 1 ELSE 0
  /\ ended \subseteq Directions /\ broken \subseteq Directions
  /\ \A d \in Directions : size[d] <= taken[d] /\ sent[d] <= Limit(d)
  /\ \A i \in DOMAIN chunk : chunk[i] \in [dir : Directions, first : Nat, last : Nat]
  /\ failed \subseteq DOMAIN chunk

LEMMA BoundedInit == Init => Bounded
BY BytesAssumption DEF Init, Queue!Init, Bounded, Limit, Directions

LEMMA BoundedStep == Bytes /\ InTurn /\ InTurn' /\ Bounded /\ [Next]_vars => Bounded'
<1> SUFFICES ASSUME Bytes, InTurn, InTurn', Bounded, [Next]_vars PROVE Bounded'
  OBVIOUS
<1>1. /\ taken \in [Directions -> Nat] /\ kept \in [Directions -> Nat] /\ sent \in [Directions -> Nat]
      /\ size \in [Directions -> Nat] /\ ("inbound" \in Directions)
  BY DEF Bytes, Ranges, Directions
<1>2. ASSUME UNCHANGED <<waitingRelease, stage, size, taken, chunk, failed>>,
             ended' \subseteq Directions, broken' \subseteq Directions,
             \A d \in Directions : sent'[d] <= Limit(d)
      PROVE  Bounded'
  BY <1>2 DEF Bounded
<1>3. CASE Accepting
  BY <1>3 DEF Accepting, DialFails, Dial, ResourceFails, GetResource, CloseHook, Bounded, peers, copying, queue
<1>4. ASSUME NEW d \in Directions, Send(d) PROVE Bounded'
  <2>1. \A e \in Directions : sent'[e] <= Limit(e)
    <3>1. sent' = [sent EXCEPT ![d] = @ + 1] /\ sent[d] < Limit(d)
      BY <1>4 DEF Send
    <3>2. Limit(d) \in Nat
      BY BytesAssumption DEF Limit
    <3> QED
      BY <1>1, <3>1, <3>2 DEF Bounded
  <2> QED
    BY <1>2, <1>4, <2>1 DEF Send, server, copying, queue, Bounded
<1>5. ASSUME NEW d \in Directions, End(d) \/ Break(d) PROVE Bounded'
  BY <1>2, <1>5 DEF End, Break, server, copying, queue, Bounded
<1>6. ASSUME NEW d \in Directions, Copy(d) PROVE Bounded'
  <2>1. UNCHANGED <<waitingRelease, stage, peers, failed>>
    BY <1>6 DEF Copy, ReadFirst, ReadFirstFails, ReadRest, ReadRestFails, Hook, Forward, ForwardFails,
                CloseClient, CloseTarget, server, queue
  <2>2. \A e \in Directions : size'[e] <= taken'[e]
    <3>1. CASE ReadFirst(d)
      BY <1>1, <3>1 DEF ReadFirst, Bounded
    <3>2. CASE ReadRest(d)
      <4>1. PICK n \in 1..(sent[d] - taken[d]) :
              taken' = [taken EXCEPT ![d] = @ + n] /\ size' = [size EXCEPT ![d] = @ + n]
        BY <3>2 DEF ReadRest
      <4> QED
        BY <1>1, <4>1 DEF Bounded
    <3>3. CASE ~ReadFirst(d) /\ ~ReadRest(d)
      BY <1>6, <3>3 DEF Copy, ReadFirstFails, ReadRestFails, Hook, Forward, ForwardFails,
                        CloseClient, CloseTarget, Bounded
    <3> QED
      BY <3>1, <3>2, <3>3
  <2>3. /\ DOMAIN chunk \subseteq DOMAIN chunk'
        /\ \A i \in DOMAIN chunk' : chunk'[i] \in [dir : Directions, first : Nat, last : Nat]
    <3>1. CASE Hook(d)
      BY <1>1, <3>1 DEF Hook, Recorded, Bounded
    <3>2. CASE ~Hook(d)
      BY <1>6, <3>2 DEF Copy, ReadFirst, ReadFirstFails, ReadRest, ReadRestFails, Forward, ForwardFails,
                        CloseClient, CloseTarget, Bounded
    <3> QED
      BY <3>1, <3>2
  <2> QED
    BY <2>1, <2>2, <2>3 DEF Bounded, peers
<1>7. CASE Recording
  <2>1. UNCHANGED <<server, peers, copying>>
    BY <1>7 DEF Recording, Enqueue, BeginWrite, FinishWrite
  <2>2. failed' \subseteq DOMAIN chunk
    <3>1. CASE FinishWrite
      BY <3>1 DEF FinishWrite, Queue!Finish, InTurn, Bounded
    <3> QED
      BY <1>7, <3>1 DEF Recording, Enqueue, BeginWrite, Queue!Submit, Queue!Begin, Bounded
  <2> QED
    BY <2>1, <2>2 DEF Bounded, server, peers, copying
<1>8. CASE UNCHANGED vars
  BY <1>8 DEF vars, server, peers, copying, queue, Bounded
<1> QED
  BY <1>3, <1>4, <1>5, <1>6, <1>7, <1>8 DEF Next, Peers

LEMMA SeqOver ==
  ASSUME NEW S, NEW T, NEW s \in Seq(S), \A k \in 1..Len(s) : s[k] \in T
  PROVE  s \in Seq(T)
<1>1. Len(s) \in Nat /\ s \in [1..Len(s) -> S]
  BY LenProperties
<1>2. s \in [1..Len(s) -> T]
  BY <1>1
<1> QED
  BY <1>1, <1>2, SeqDef

LEMMA Halves == \A a, b \in Nat : 2 * a <= b + 1 => a <= (b + 1) \div 2
OBVIOUS

-----------------------------------------------------------------------------
(* At rest.                                                                *)

\* Nothing moves but the peers, and the goroutine that has not started to serve yet.
LEMMA NothingMoves ==
  ASSUME Bytes, Gateway
  PROVE  ~Settled
<1> USE DEF Settled
<1>1. CASE CloseHook
  BY <1>1 DEF CloseHook
<1>2. ASSUME NEW d \in Directions, Copy(d) PROVE ~Settled
  <2>1. pc[d] # "done"
    BY <1>2 DEF Copy, ReadFirst, ReadFirstFails, ReadRest, ReadRestFails, Hook, Forward,
                ForwardFails, CloseClient, CloseTarget
  <2>2. \/ pc[d] \notin {"first", "rest"}
        \/ pc[d] = "first" /\ stage = "serving" /\ ~Blocked(d)
        \/ pc[d] = "rest" /\ ~Blocked(d)
    BY <1>2 DEF Copy, ReadFirst, ReadFirstFails, ReadRest, ReadRestFails, Hook, Forward,
                ForwardFails, CloseClient, CloseTarget, Blocked
  <2> QED
    BY <2>1, <2>2
<1>3. CASE \E i \in 1..MaxIndex : Enqueue(i)
  BY <1>3 DEF Enqueue, Queue!Submit
<1>4. CASE BeginWrite \/ FinishWrite
  BY <1>4 DEF BeginWrite, FinishWrite, Queue!Begin, Queue!Finish
<1> QED
  BY <1>1, <1>2, <1>3, <1>4 DEF Gateway, Recording

\* Which connections are open: both while a direction that is served has not closed one,
\* none once one of them is done.
Closed ==
  /\ stage \notin {"serving", "released"} => \A d \in Directions : pc[d] = "first"
  /\ stage = "accepted" => open = {"inbound"}
  /\ stage \in {"dialed", "serving"} /\ (\A d \in Directions : pc[d] \notin {"closeTarget", "done"}) =>
       open = Directions
  /\ \A d \in Directions :
       /\ pc[d] \in {"closeTarget", "done"} => "inbound" \notin open
       /\ pc[d] = "done" => "outbound" \notin open

LEMMA ClosedInit == Init => Closed
BY DEF Init, Closed, Directions

LEMMA ClosedStep == Bytes /\ Closed /\ [Next]_vars => Closed'
<1> SUFFICES ASSUME Bytes, Closed, [Next]_vars PROVE Closed'
  OBVIOUS
<1> USE DEF Closed, Points, Closing, peers, server, copying
<1>1. pc \in [Directions -> Points] /\ open \subseteq Directions /\ Directions = {"inbound", "outbound"}
  BY DEF Bytes, Ranges, Directions
<1>2. CASE Accepting
  <2>1. CASE CloseHook
    BY <1>1, <2>1 DEF CloseHook
  <2> QED
    BY <1>1, <1>2, <2>1 DEF Accepting, DialFails, Dial, ResourceFails, GetResource
<1>3. ASSUME NEW d \in Directions, Send(d) \/ End(d) \/ Break(d) PROVE Closed'
  BY <1>3 DEF Send, End, Break
<1>4. ASSUME NEW d \in Directions, Copy(d) PROVE Closed'
  <2>1. stage' = stage
    BY <1>4 DEF Copy, ReadFirst, ReadFirstFails, ReadRest, ReadRestFails, Hook, Forward,
                ForwardFails, CloseClient, CloseTarget
  <2>2. stage \in {"serving", "released"}
    <3>1. pc[d] = "first" => stage = "serving"
      BY <1>4 DEF Copy, ReadFirst, ReadFirstFails, ReadRest, ReadRestFails, Hook, Forward,
                  ForwardFails, CloseClient, CloseTarget
    <3> QED
      BY <3>1
  <2>3. CASE CloseClient(d)
    BY <1>1, <2>1, <2>2, <2>3 DEF CloseClient
  <2>4. CASE CloseTarget(d)
    BY <1>1, <2>1, <2>2, <2>4 DEF CloseTarget
  <2>5. CASE ~CloseClient(d) /\ ~CloseTarget(d)
    <3>1. open' = open /\ pc[d] \notin {"closeTarget", "done"}
      BY <1>4, <2>5 DEF Copy, ReadFirst, ReadFirstFails, ReadRest, ReadRestFails, Hook, Forward, ForwardFails
    <3>2. \A e \in Directions : pc'[e] = pc[e] \/ (e = d /\ pc'[e] \notin {"closeTarget", "done"})
      BY <1>1, <1>4, <2>5 DEF Copy, ReadFirst, ReadFirstFails, ReadRest, ReadRestFails, Hook, Forward, ForwardFails
    <3> QED
      BY <2>1, <2>2, <3>1, <3>2
  <2> QED
    BY <2>3, <2>4, <2>5
<1>5. CASE Recording
  BY <1>5 DEF Recording, Enqueue, BeginWrite, FinishWrite
<1>6. CASE UNCHANGED vars
  BY <1>6 DEF vars
<1> QED
  BY <1>2, <1>3, <1>4, <1>5, <1>6 DEF Next, Peers

\* The inductive invariant.
Inv ==
  /\ Bytes /\ Indices /\ Chunked
  /\ InTurn
  /\ Heard /\ Answers
  /\ Paced /\ Bounded
  /\ Closed

LEMMA InvInit == Init => Inv
BY ClosedInit, BytesInit, IndicesInit, ChunkedInit, InTurnInit, HeardInit, AnswersInit, PacedInit, BoundedInit DEF Inv

LEMMA InvStep == Inv /\ [Next]_vars => Inv'
BY BytesStep, IndicesStep, ChunkedStep, InTurnStep, HeardStep, AnswersStep, PacedStep, BoundedStep,
   ClosedStep DEF Inv

LEMMA TypesFollow == Inv => TypeOK
<1> SUFFICES ASSUME Inv PROVE TypeOK
  OBVIOUS
<1>1. /\ ClientBytes \in Nat \ {0} /\ TargetBytes \in Nat \ {0} /\ MaxBytes \in Nat \ {0}
      /\ \A d \in Directions : Limit(d) \in Nat /\ Limit(d) <= MaxBytes
  BY BytesAssumption DEF Limit, MaxBytes
<1>2. MaxIndex \in Nat
  BY <1>1 DEF MaxIndex
<1>3. /\ stage \in {"accepted", "dialed", "serving", "rejected", "released"}
      /\ open \subseteq Directions /\ last \in [Directions -> BOOLEAN]
      /\ sent \in [Directions -> Nat] /\ taken \in [Directions -> Nat] /\ kept \in [Directions -> Nat]
      /\ size \in [Directions -> Nat] /\ forwarded \in [Directions -> Nat] /\ nextIndex \in Nat
      /\ loadIndex \in [Directions -> Nat]
      /\ pc \in [Directions -> {"first", "rest", "hook", "write"} \cup Closing \cup {"done"}]
  BY DEF Inv, Bytes, Ranges, Points
<1>4. ASSUME NEW d \in Directions
      PROVE  /\ sent[d] \in 0..MaxBytes /\ taken[d] \in 0..MaxBytes /\ kept[d] \in 0..MaxBytes
             /\ size[d] \in 0..MaxBytes /\ forwarded[d] \in 0..MaxBytes
  <2>1. kept[d] <= taken[d] /\ taken[d] <= sent[d] /\ size[d] <= taken[d] /\ sent[d] <= Limit(d)
    BY DEF Inv, Bytes, Place, Bounded
  <2>2. forwarded[d] <= taken[d]
    BY <1>3 DEF Inv, Bytes, Place, Stopping
  <2> QED
    BY <1>1, <1>3, <2>1, <2>2
<1>5. nextIndex <= MaxIndex + 1
  <2>1. PICK n \in Nat, m \in Nat : nextIndex <= n + m + 1 /\ Pace("inbound", n) /\ Pace("outbound", m)
    BY DEF Inv, Paced
  <2>2. taken["inbound"] \in Nat /\ taken["inbound"] <= ClientBytes
        /\ taken["outbound"] \in Nat /\ taken["outbound"] <= TargetBytes
    BY <1>1, <1>3 DEF Inv, Bytes, Place, Bounded, Limit, Directions
  <2>3. 2 * n <= taken["inbound"] + 1 /\ 2 * m <= taken["outbound"] + 1
    BY <2>1, <2>2 DEF Pace
  <2>4. n <= (ClientBytes + 1) \div 2
    BY <1>1, <2>2, <2>3, Halves
  <2>5. m <= (TargetBytes + 1) \div 2
    BY <1>1, <2>2, <2>3, Halves
  <2> QED
    BY <1>1, <1>3, <2>1, <2>4, <2>5 DEF MaxIndex
<1>6. DOMAIN chunk \subseteq 1..MaxIndex /\ \A d \in Directions : loadIndex[d] \in 0..MaxIndex
  BY <1>2, <1>3, <1>5 DEF Inv, Indices
<1>7. ASSUME NEW i \in DOMAIN chunk PROVE chunk[i] \in Chunks
  <2>1. chunk[i] \in [dir : Directions, first : Nat, last : Nat]
    BY DEF Inv, Bounded
  <2>2. chunk[i].first \in 1..MaxBytes /\ chunk[i].last \in 1..MaxBytes
    BY <1>1, <1>4, <2>1 DEF Inv, Chunked
  <2> QED
    BY <2>1, <2>2 DEF Chunks
<1>8. Queue!TypeOK
  <2>1. submitted \subseteq 1..MaxIndex /\ failed \subseteq 1..MaxIndex
    BY <1>6 DEF Inv, InTurn, Bounded
  <2>2. writing \in 0..MaxIndex
    BY <1>2, <2>1 DEF Inv, InTurn
  <2>3. handled \in Seq(1..MaxIndex)
    <3>1. handled \in Seq(Nat) /\ Len(handled) \in Nat /\ \A k \in 1..Len(handled) : handled[k] \in 1..MaxIndex
      BY <2>1 DEF Inv, InTurn
    <3> QED
      BY <3>1, SeqOver
  <2> QED
    BY <2>1, <2>2, <2>3 DEF Queue!TypeOK, Queue!Items
<1>9. seen \in [Directions -> Seq(0..MaxBytes)]
  <2>1. ASSUME NEW d \in Directions PROVE seen[d] \in Seq(0..MaxBytes)
    <3>1. seen[d] \in Seq(Nat) /\ Len(seen[d]) = sent[d] /\ \A b \in 1..sent[d] : seen[d][b] <= forwarded[Other(d)]
      BY DEF Inv, Heard
    <3>2. forwarded[Other(d)] \in 0..MaxBytes
      BY <1>4, TheOther
    <3>3. \A b \in 1..Len(seen[d]) : seen[d][b] \in 0..MaxBytes
      BY <1>1, <3>1, <3>2
    <3> QED
      BY <3>1, <3>3, SeqOver
  <2> QED
    BY <2>1 DEF Inv, Heard
<1> QED
  BY <1>1, <1>2, <1>3, <1>4, <1>5, <1>6, <1>7, <1>8, <1>9 DEF TypeOK, Inv, Bounded

-----------------------------------------------------------------------------
(* Coming to rest.                                                         *)

\* What a direction has before it: four for each byte it can still read, and what is
\* to be done before it reads again, or is done.
Rank(p) ==
  CASE p = "first" -> 3 [] p = "rest" -> 5 [] p = "hook" -> 8 [] p = "write" -> 4
    [] p = "closeClient" -> 2 [] p = "closeTarget" -> 1 [] p = "done" -> 0
Share(d) == 4 * (sent[d] - taken[d]) + Rank(pc[d])

\* A chunk is handed over, taken up and written.
Backlog ==
  3 * Cardinality(DOMAIN chunk) - Cardinality(submitted) - 2 * Len(handled)
    - (IF writing = 0 THEN 0 ELSE 1)

\* What the gateway has to do if the peers send no more.
Work ==
  Share("inbound") + Share("outbound") + Backlog + (IF stage = "released" THEN 0 ELSE 1)

LEMMA BacklogIs ==
  ASSUME Indices, Bytes, InTurn
  PROVE  /\ IsFiniteSet(DOMAIN chunk) /\ IsFiniteSet(submitted)
         /\ Cardinality(DOMAIN chunk) \in Nat /\ Cardinality(submitted) \in Nat /\ Len(handled) \in Nat
         /\ Backlog \in Nat
<1>1. nextIndex \in Nat /\ Len(handled) \in Nat
  BY LenProperties DEF Bytes, Ranges, InTurn
<1>2. DOMAIN chunk \in SUBSET (1 .. nextIndex - 1) /\ submitted \in SUBSET DOMAIN chunk
  BY DEF Indices, InTurn
<1>3. IsFiniteSet(1 .. nextIndex - 1)
  BY <1>1, FS_Interval
<1>4. IsFiniteSet(DOMAIN chunk)
  BY <1>2, <1>3, FS_Subset
<1>5. IsFiniteSet(submitted) /\ Cardinality(submitted) <= Cardinality(DOMAIN chunk)
  BY <1>2, <1>4, FS_Subset
<1>6. Cardinality(DOMAIN chunk) \in Nat /\ Cardinality(submitted) \in Nat
  BY <1>4, <1>5, FS_CardinalityType
<1> DEFINE n == Len(handled) + (IF writing = 0 THEN 0 ELSE 1)
<1>7. n \in Nat /\ 1 .. n \in SUBSET submitted
  BY <1>1 DEF InTurn
<1>8. Cardinality(1 .. n) = n
  BY <1>7, FS_Interval
<1>9. n <= Cardinality(submitted)
  BY <1>5, <1>7, <1>8, FS_Subset
<1> QED
  BY <1>1, <1>4, <1>5, <1>6, <1>9 DEF Backlog

LEMMA ShareIs ==
  ASSUME Bytes, NEW d \in Directions
  PROVE  Share(d) \in Nat /\ sent[d] \in Nat /\ taken[d] \in Nat
<1>1. sent[d] \in Nat /\ taken[d] \in Nat /\ taken[d] <= sent[d]
  BY DEF Bytes, Ranges, Place
<1>2. pc[d] \in Points
  BY DEF Bytes, Ranges
<1>3. Rank(pc[d]) \in Nat
  BY <1>2 DEF Rank, Points, Closing
<1> QED
  BY <1>1, <1>3 DEF Share

\* The parts of Work are natural numbers, and it is their sum from either end.
Weighed ==
  /\ Share("inbound") \in Nat /\ Share("outbound") \in Nat /\ Backlog \in Nat /\ Work \in Nat
  /\ \A d \in Directions :
       /\ Share(d) \in Nat /\ Share(Other(d)) \in Nat
       /\ Work = Share(d) + Share(Other(d)) + Backlog + (IF stage = "released" THEN 0 ELSE 1)

LEMMA WorkIs ==
  ASSUME Inv
  PROVE  Weighed
<1>1. Share("inbound") \in Nat /\ Share("outbound") \in Nat /\ Backlog \in Nat
  BY ShareIs, BacklogIs DEF Directions, Inv
<1> QED
  BY <1>1, TheOther DEF Weighed, Work, Directions

\* The queue's steps.
LEMMA RecordingSinks ==
  ASSUME Bytes, Indices, InTurn, Recording
  PROVE  Backlog' < Backlog /\ UNCHANGED <<sent, taken, pc, stage>>
<1>0. /\ IsFiniteSet(submitted)
      /\ Cardinality(DOMAIN chunk) \in Nat /\ Cardinality(submitted) \in Nat /\ Len(handled) \in Nat
  BY BacklogIs
<1>1. ASSUME NEW i \in 1..MaxIndex, Enqueue(i)
      PROVE  Backlog' < Backlog /\ UNCHANGED <<sent, taken, pc, stage>>
  <2>1. /\ i \notin submitted /\ submitted' = submitted \cup {i}
        /\ UNCHANGED <<writing, handled, chunk, sent, taken, pc, stage>>
    BY <1>1 DEF Enqueue, Queue!Submit, server, peers, copying
  <2>2. Cardinality(submitted') = Cardinality(submitted) + 1
    BY <1>0, <2>1, FS_AddElement
  <2> QED
    BY <1>0, <2>1, <2>2 DEF Backlog
<1>2. CASE BeginWrite
  BY <1>0, <1>2 DEF BeginWrite, Queue!Begin, Backlog, server, peers, copying
<1>3. CASE FinishWrite
  <2>1. /\ writing # 0 /\ writing' = 0 /\ handled' = Append(handled, writing)
        /\ UNCHANGED <<submitted, chunk, sent, taken, pc, stage>>
    BY <1>3 DEF FinishWrite, Queue!Finish, server, peers, copying
  <2>2. handled \in Seq(Nat) /\ writing \in Nat
    BY <1>0, <2>1 DEF InTurn
  <2>3. Len(handled') = Len(handled) + 1
    BY <2>1, <2>2, AppendProperties
  <2> QED
    BY <1>0, <2>1, <2>3 DEF Backlog
<1> QED
  BY <1>1, <1>2, <1>3 DEF Recording

\* A direction's steps: what it hands over is less than what it has had to do for it.
LEMMA CopySinks ==
  ASSUME Bytes, Indices, InTurn, Weighed', NEW d \in Directions, Copy(d)
  PROVE  /\ Share(d)' + Backlog' < Share(d) + Backlog
         /\ Share(Other(d))' = Share(Other(d))
         /\ UNCHANGED <<sent, stage>>
<1>0. /\ Share(d) \in Nat /\ sent[d] \in Nat /\ taken[d] \in Nat /\ Backlog \in Nat
      /\ Other(d) \in Directions /\ Other(d) # d
      /\ pc \in [Directions -> Points] /\ taken \in [Directions -> Nat]
  BY ShareIs, BacklogIs, TheOther DEF Bytes, Ranges
<1>1. UNCHANGED <<sent, stage, submitted, writing, handled>>
  BY DEF Copy, ReadFirst, ReadFirstFails, ReadRest, ReadRestFails, Hook, Forward, ForwardFails,
         CloseClient, CloseTarget, peers, server, queue
<1>2. taken'[Other(d)] = taken[Other(d)] /\ pc'[Other(d)] = pc[Other(d)]
  BY <1>0 DEF Copy, ReadFirst, ReadFirstFails, ReadRest, ReadRestFails, Hook, Forward, ForwardFails,
              CloseClient, CloseTarget
<1>3. CASE ~Hook(d)
  <2>1. Backlog' = Backlog
    BY <1>1, <1>3 DEF Copy, ReadFirst, ReadFirstFails, ReadRest, ReadRestFails, Forward, ForwardFails,
                      CloseClient, CloseTarget, Backlog
  <2>2. Share(d)' < Share(d)
    <3>1. CASE ReadFirst(d)
      BY <1>0, <1>1, <3>1 DEF ReadFirst, Share, Rank
    <3>2. CASE ReadRest(d)
      BY <1>0, <1>1, <3>2 DEF ReadRest, HasData, Share, Rank
    <3>3. CASE ReadFirstFails(d) \/ ReadRestFails(d)
      BY <1>0, <1>1, <3>3 DEF ReadFirstFails, ReadRestFails, Share, Rank
    <3>4. CASE Forward(d) \/ ForwardFails(d)
      BY <1>0, <1>1, <3>4 DEF Forward, ForwardFails, Share, Rank
    <3>5. CASE CloseClient(d) \/ CloseTarget(d)
      BY <1>0, <1>1, <3>5 DEF CloseClient, CloseTarget, Share, Rank
    <3> QED
      BY <1>3, <3>1, <3>2, <3>3, <3>4, <3>5 DEF Copy
  <2>3. Share(d)' \in Nat /\ Share(Other(d))' = Share(Other(d))
    BY <1>0, <1>1, <1>2 DEF Weighed, Share
  <2> QED
    BY <1>0, <1>1, <2>1, <2>2, <2>3
<1>4. CASE Hook(d)
  <2>1. DOMAIN chunk' = DOMAIN chunk \cup {loadIndex[d]}
    BY <1>4 DEF Hook, Recorded
  <2>2. /\ IsFiniteSet(DOMAIN chunk) /\ Cardinality(DOMAIN chunk) \in Nat
        /\ Cardinality(submitted) \in Nat /\ Len(handled) \in Nat
    BY BacklogIs
  <2>3. Cardinality(DOMAIN chunk') \in {Cardinality(DOMAIN chunk), Cardinality(DOMAIN chunk) + 1}
    BY <2>1, <2>2, FS_AddElement
  <2>4. Backlog' \in {Backlog, Backlog + 3}
    BY <1>1, <2>2, <2>3 DEF Backlog
  <2>5. Share(d)' = Share(d) - 4
    BY <1>0, <1>1, <1>4 DEF Hook, Share, Rank
  <2> QED
    BY <1>0, <1>1, <1>2, <2>4, <2>5 DEF Share
<1> QED
  BY <1>3, <1>4

\* One step: the gateway's lower Work, and nothing but what a peer sends raises it.
Sinks ==
  /\ Gateway => Work' < Work
  /\ sent' = sent => Work' <= Work

LEMMA WorkSinks ==
  ASSUME Inv, [Next]_vars, Weighed, Weighed'
  PROVE  Sinks
<1>0. Work \in Nat /\ Work' \in Nat
  BY DEF Weighed
<1>1. CASE Recording
  <2>1. Backlog' < Backlog /\ UNCHANGED <<sent, taken, pc, stage>> /\ Backlog \in Nat /\ Backlog' \in Nat
    BY <1>1, RecordingSinks DEF Inv, Weighed
  <2>2. Share("inbound")' = Share("inbound") /\ Share("outbound")' = Share("outbound")
    BY <2>1 DEF Share
  <2>3. Work' < Work
    BY <2>1, <2>2 DEF Work, Weighed
  <2> QED
    BY <1>0, <2>3 DEF Sinks
<1>2. ASSUME NEW d \in Directions, Copy(d) PROVE Sinks
  <2>1. /\ Share(d)' + Backlog' < Share(d) + Backlog /\ Share(Other(d))' = Share(Other(d))
        /\ UNCHANGED <<sent, stage>>
    BY <1>2, CopySinks DEF Inv
  <2>2. /\ Share(d) \in Nat /\ Share(Other(d)) \in Nat /\ Backlog \in Nat
        /\ Share(d)' \in Nat /\ Share(Other(d))' \in Nat /\ Backlog' \in Nat
    BY <1>2 DEF Weighed
  <2>3. /\ Work = Share(d) + Share(Other(d)) + Backlog + (IF stage = "released" THEN 0 ELSE 1)
        /\ Work' = Share(d)' + Share(Other(d))' + Backlog' + (IF stage' = "released" THEN 0 ELSE 1)
    BY <1>2 DEF Weighed
  <2>4. Work' < Work
    BY <2>1, <2>2, <2>3
  <2> QED
    BY <1>0, <2>4 DEF Sinks
<1>3. CASE Accepting
  <2>1. UNCHANGED <<sent, taken, pc, chunk, submitted, writing, handled>>
    BY <1>3 DEF Accepting, DialFails, Dial, ResourceFails, GetResource, CloseHook, peers, copying, queue
  <2>2. Share("inbound")' = Share("inbound") /\ Share("outbound")' = Share("outbound") /\ Backlog' = Backlog
    BY <2>1 DEF Share, Backlog
  <2>3. CASE CloseHook
    BY <1>0, <2>2, <2>3 DEF Work, Weighed, CloseHook, Sinks
  <2>4. CASE ~CloseHook
    <3>1. stage # "released" /\ stage' # "released"
      BY <1>3, <2>4 DEF Accepting, DialFails, Dial, ResourceFails, GetResource
    <3>2. Work' = Work
      BY <2>2, <3>1 DEF Work
    <3>3. ~Gateway
      <4>1. \A d \in Directions : pc[d] = "first" /\ stage # "serving"
        BY <1>3, <2>4 DEF Inv, Closed, Accepting, DialFails, Dial, ResourceFails, GetResource
      <4>2. \A d \in Directions : ~Copy(d)
        BY <4>1 DEF Copy, ReadFirst, ReadFirstFails, ReadRest, ReadRestFails, Hook, Forward,
                    ForwardFails, CloseClient, CloseTarget
      <4>3. ~Recording
        BY <1>0, <2>2, <3>1, <3>2, RecordingSinks DEF Inv, Weighed
      <4> QED
        BY <2>4, <4>2, <4>3 DEF Gateway
    <3> QED
      BY <1>0, <3>2, <3>3 DEF Sinks
  <2> QED
    BY <2>3, <2>4
<1>4. CASE ~Recording /\ (\A d \in Directions : ~Copy(d)) /\ ~Accepting
  <2>1. ~Gateway
    BY <1>4 DEF Gateway, Accepting
  <2>2. sent' = sent => Work' = Work
    <3>1. Peers \/ UNCHANGED vars
      BY <1>4 DEF Next
    <3>2. UNCHANGED <<taken, pc, chunk, submitted, writing, handled, stage>>
      BY <3>1 DEF Peers, Send, End, Break, vars, server, copying, queue
    <3> QED
      BY <3>2 DEF Work, Share, Backlog
  <2> QED
    BY <1>0, <2>1, <2>2 DEF Sinks
<1> QED
  BY <1>1, <1>2, <1>3, <1>4

-----------------------------------------------------------------------------
(* The theorems.                                                           *)

LEMMA Invariance == Spec => []Inv
BY InvInit, InvStep, PTL DEF Spec

\* The variables keep their types, within what the peers send: no stream takes more
\* indices than the write queue of the model has numbers.
THEOREM TypeCorrect == Spec => []TypeOK
BY Invariance, TypesFollow, PTL

\* What the peers received is on record, but for a last byte that came alone; and
\* a direction that ends because its sender did has passed on every byte.
THEOREM RecordCovers == Spec => []RecordCoversForwarded
<1>1. Inv => RecordCoversForwarded
  BY DEF Inv, Bytes, Ranges, Place, Ending, RecordCoversForwarded, Stopping, Closing, Points
<1> QED
  BY <1>1, Invariance, PTL

\* Every index that was drawn is used, or in the hands of a direction; and the one a
\* direction is about to record under is fresh and its own.
THEOREM IndicesAreAccounted == Spec => []IndicesAccounted
<1>1. Inv => IndicesAccounted
  BY DEF Inv, Indices
<1> QED
  BY <1>1, Invariance, PTL

\* Whatever the order in which the goroutines ran, what is written of each stream is a
\* prefix of it, in order and without a gap.
THEOREM RecordIsAPrefix == Spec => []RecordIsPrefix
<1>1. Inv => RecordIsPrefix
  BY PrefixFollows DEF Inv
<1> QED
  BY <1>1, Invariance, PTL

\* A chunk whose first byte answers what its sender had received is recorded after it.
THEOREM RepliesFollow == Spec => []CausalOrder
<1>1. Inv => CausalOrder
  BY DEF Inv, Answers
<1> QED
  BY <1>1, Invariance, PTL

\* When one direction has ended the gateway does not rest until the other one has ended too
\* and the lock is released, however many bytes there were and whatever broke.
THEOREM RestsTogether == Spec => []EndsTogether
<1>1. ASSUME Inv, NEW d \in Directions, pc[d] = "done", stage # "released" PROVE ~Settled
  <2>1. stage = "serving" /\ open = {}
    BY <1>1 DEF Inv, Closed, Bytes, Ranges, Directions
  <2>2. \A e \in Directions : ~Blocked(e)
    BY <2>1 DEF Blocked, ReadFails
  <2> QED
    BY <2>1, <2>2 DEF Settled
<1>2. Inv => EndsTogether
  BY <1>1 DEF EndsTogether
<1> QED
  BY <1>2, Invariance, PTL

\* However many bytes the peers send, the gateway does not rest with more than one of
\* them not passed on, while both directions run.
THEOREM RestsUpToDate == Spec => []LagAtMostOneByte
<1>1. ASSUME Inv, Undisturbed, NEW d \in Directions, forwarded[d] < sent[d] - 1 PROVE ~Settled
  <2>1. /\ stage = "serving" /\ broken = {} /\ open = Directions
        /\ pc[d] \in {"first", "rest", "hook", "write"}
    BY <1>1 DEF Inv, Closed, Bytes, Ranges, Undisturbed, Stopping, Closing, Points
  <2>2. sent[d] \in Nat /\ taken[d] \in Nat /\ kept[d] \in Nat /\ forwarded[d] \in Nat
    BY <1>1 DEF Inv, Bytes, Ranges
  <2>3. pc[d] \in {"first", "rest"} => taken[d] < sent[d]
    BY <1>1, <2>2 DEF Inv, Bytes, Place
  <2>4. pc[d] \in {"first", "rest"} => ~Blocked(d)
    BY <2>1, <2>3 DEF Blocked, HasData
  <2> QED
    BY <2>1, <2>4 DEF Settled
<1>2. Inv => LagAtMostOneByte
  BY <1>1 DEF LagAtMostOneByte
<1> QED
  BY <1>2, Invariance, PTL

\* However many chunks there are, the gateway does not rest with one unwritten whose turn
\* has come, in whatever order they were handed over and whichever writes failed.
THEOREM RestsWritten == Spec => []WrittenInTurn
<1>1. ASSUME Inv, Settled, NEW i \in 1..MaxIndex, 1..i \subseteq DOMAIN chunk PROVE Written(i)
  <2>1. i \in Nat /\ Len(handled) \in Nat
    BY <1>1, LenProperties DEF Inv, InTurn
  <2>2. 1..i \subseteq submitted /\ Len(handled) + 1 \notin submitted
    BY <1>1 DEF Settled
  <2>3. i <= Len(handled)
    BY <2>1, <2>2
  <2>4. i \in 1..Len(handled) /\ handled[i] = i
    BY <1>1, <2>1, <2>3 DEF Inv, InTurn
  <2> QED
    BY <2>4 DEF Written
<1>2. Inv => WrittenInTurn
  BY <1>1 DEF WrittenInTurn
<1> QED
  BY <1>2, Invariance, PTL

\* The gateway comes to rest when the peers fall silent: each of its steps lowers a
\* natural number, which only what they send can raise, and where no guard of the gateway
\* holds it takes no step.
THEOREM ComesToRest == Spec => [](Work \in Nat) /\ [][Sinks]_vars /\ [][Gateway => ~Settled]_vars
<1>1. Inv => Work \in Nat
  BY WorkIs DEF Weighed
<1>2. Inv => Weighed
  BY WorkIs
<1>3. Inv /\ Weighed /\ [Next]_vars /\ Weighed' => [Sinks]_vars
  BY WorkSinks
<1>4. Inv => [Gateway => ~Settled]_vars
  BY NothingMoves DEF Inv
<1>5. Spec => [](Work \in Nat)
  BY <1>1, Invariance, PTL
<1>6. Spec => [][Sinks]_vars
  BY <1>2, <1>3, Invariance, PTL DEF Spec
<1>7. Spec => [][Gateway => ~Settled]_vars
  BY <1>4, Invariance, PTL
<1> QED
  BY <1>5, <1>6, <1>7
=============================================================================
