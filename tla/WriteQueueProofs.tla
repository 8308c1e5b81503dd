-------------------------- MODULE WriteQueueProofs --------------------------
(***************************************************************************)
(* Theorems about WriteQueue, for every number N of chunks.                *)
(*                                                                         *)
(*   TypeCorrect        the type invariant, however the goroutines share   *)
(*                      the processor;                                     *)
(*   OneProcessorSafe   with one processor (~Preemptible): no nil          *)
(*                      dereference, one handler at a time, hooks in       *)
(*                      order;                                             *)
(*   IndexSteps         with one processor: CurrentIndex never moves       *)
(*                      backwards and never jumps;                         *)
(*   OneProcessorImplements  with one processor: WriteQueue implements     *)
(*                      the safety part of OrderedWriter;                  *)
(*   NothingIsStranded  with one processor: a quiet queue has written      *)
(*                      every item that was due;                           *)
(*   NeverPanics        the first conjunct of OneProcessorSafe by itself;  *)
(*   NeverCyclic        however the goroutines share the processor: the    *)
(*                      list never closes on itself.                       *)
(*                                                                         *)
(* TypeOK is not inductive by itself: what is stored into the list comes   *)
(* from the locals, whose ranges depend on the control point (LocalsOK).   *)
(* The safety properties rest on Handoff, which says for every control     *)
(* point between claim and release how handleQueues, CurrentIndex and the  *)
(* number of handled items are related.  NothingStranded is about the list *)
(* itself: ListInv says that every link leads to the next item in order,   *)
(* and that somebody looks after the item that is due.  NeverCyclic needs  *)
(* no order of the goroutines at all: what is stored into the list comes   *)
(* from nodes that were already behind the one it is stored into (Ranked), *)
(* or is an item nobody else knows yet (Unknown).                          *)
(***************************************************************************)
EXTENDS WriteQueue, WellFoundedInduction, TLAPS

\* The ranges the locals of a goroutine have where they are used.
LocalsOK ==
  \A g \in Items :
    /\ pc[g] \in {"compare", "advance", "splice", "linkPrev"} => findPrev[g] \in Nodes
    /\ pc[g] \in {"checkIndex", "checkBusy", "claim"} \cup Holding => ptr[g] \in Items
    /\ pc[g] = "unlink" => tmp[g] \in Items \cup {Nil}
    /\ pc[g] = "bump" => tmp[g] \in Nat

TypeInv == TypeOK /\ LocalsOK

LEMMA TypeInit == Init => TypeInv
<1> SUFFICES ASSUME Init PROVE TypeInv
  OBVIOUS
<1> USE NAssumption DEF Init, Items, Nodes, Header, Nil
<1>1. \A g \in Items : pc[g] = "idle"
  OBVIOUS
<1>2. pc \in [Items -> Points]
  BY DEF Points, Unlinked
<1>3. handled \in Seq(Items)
  OBVIOUS
<1>4. TypeOK
  BY <1>2, <1>3 DEF TypeOK
<1>5. LocalsOK
  BY <1>1 DEF LocalsOK, Holding
<1> QED
  BY <1>4, <1>5 DEF TypeInv

\* Every action keeps the types, whichever processor model is chosen.
LEMMA TypeStep == TypeInv /\ [Next]_vars => TypeInv'
<1> SUFFICES ASSUME TypeInv, [Next]_vars PROVE TypeInv'
  OBVIOUS
<1> USE NAssumption DEF TypeInv, TypeOK, LocalsOK, Items, Nodes, Header, Nil,
        Points, Unlinked, Claiming, Holding, shared, locals, past
<1>1. CASE UNCHANGED vars
  BY <1>1 DEF vars
<1>2. ASSUME NEW g \in Items, AddItem(g) PROVE TypeInv'
  BY <1>2 DEF AddItem, Move
<1>3. ASSUME NEW g \in Items, Walk(g) PROVE TypeInv'
  BY <1>3 DEF Walk, Move, DereferencesNil
<1>4. ASSUME NEW g \in Items, Compare(g) PROVE TypeInv'
  BY <1>4 DEF Compare, Move, DereferencesNil
<1>5. ASSUME NEW g \in Items, Advance(g) PROVE TypeInv'
  BY <1>5 DEF Advance, Move
<1>6. ASSUME NEW g \in Items, Splice(g) PROVE TypeInv'
  BY <1>6 DEF Splice, Move
<1>7. ASSUME NEW g \in Items, LinkPrev(g) PROVE TypeInv'
  BY <1>7 DEF LinkPrev, Move
<1>8. ASSUME NEW g \in Items, LinkItem(g) PROVE TypeInv'
  BY <1>8 DEF LinkItem, Move
<1>9. ASSUME NEW g \in Items, Peek(g) PROVE TypeInv'
  <2>1. link[Header] \in Items \cup {Nil}
    OBVIOUS
  <2>2. CASE link[Header] = Nil
    BY <1>9, <2>2 DEF Peek, Move
  <2>3. CASE link[Header] \in Items
    BY <1>9, <2>3 DEF Peek, Move
  <2> QED
    BY <2>1, <2>2, <2>3
<1>10. ASSUME NEW g \in Items, CheckIndex(g) PROVE TypeInv'
  BY <1>10 DEF CheckIndex, Move
<1>11. ASSUME NEW g \in Items, CheckBusy(g) PROVE TypeInv'
  BY <1>11 DEF CheckBusy, Move
<1>12. ASSUME NEW g \in Items, Claim(g) PROVE TypeInv'
  BY <1>12 DEF Claim, Move
<1>13. ASSUME NEW g \in Items, ReadTail(g) PROVE TypeInv'
  BY <1>13 DEF ReadTail, Move
<1>14. ASSUME NEW g \in Items, Unlink(g) PROVE TypeInv'
  BY <1>14 DEF Unlink, Move
<1>15. ASSUME NEW g \in Items, ReadIndex(g) PROVE TypeInv'
  BY <1>15 DEF ReadIndex, Move
<1>16. ASSUME NEW g \in Items, Bump(g) PROVE TypeInv'
  BY <1>16 DEF Bump, Move
<1>17. ASSUME NEW g \in Items, Clear(g) PROVE TypeInv'
  BY <1>17 DEF Clear, Move
<1>18. ASSUME NEW g \in Items, Fetch(g) PROVE TypeInv'
  BY <1>18 DEF Fetch, Move, DereferencesNil
<1>19. ASSUME NEW g \in Items, Write(g) PROVE TypeInv'
  BY <1>19 DEF Write, Move
<1>20. ASSUME NEW g \in Items, Release(g) PROVE TypeInv'
  BY <1>20 DEF Release, Move
<1>21. ASSUME NEW g \in Items, Panic(g) PROVE TypeInv'
  BY <1>21 DEF Panic
<1>22. QED
  BY <1>1, <1>2, <1>3, <1>4, <1>5, <1>6, <1>7, <1>8, <1>9, <1>10, <1>11, <1>12,
     <1>13, <1>14, <1>15, <1>16, <1>17, <1>18, <1>19, <1>20, <1>21 DEF Next, Run

\* Every variable keeps its range and every local is in range where it is
\* used, also when the goroutines race: TypeOK of the run queue.
THEOREM TypeCorrect == Spec => []TypeOK
<1>1. TypeInv => TypeOK
  BY DEF TypeInv
<1> QED
  BY <1>1, TypeInit, TypeStep, PTL DEF Spec

-----------------------------------------------------------------------------
(* One processor.                                                          *)

\* Only one goroutine is ever between two points where it may lose the
\* processor.
Exclusive ==
  \A g, h \in Items : pc[g] \notin Yielding /\ pc[h] \notin Yielding => g = h

\* What a goroutine that walks the list has already checked.
Cursor(g) ==
  /\ pc[g] = "walk" => findPrev[g] # Nil
  /\ pc[g] \in {"compare", "advance"} => link[findPrev[g]] # Nil

\* What a goroutine that claims or handles an item knows of the shared state.
Handoff(g) ==
  /\ pc[g] \in {"checkBusy", "claim"} => ptr[g] = CurrentIndex
  /\ pc[g] = "claim" => handleQueues = Nil
  /\ pc[g] = "bump" => tmp[g] = CurrentIndex
  /\ pc[g] \in Holding =>
       /\ handleQueues = ptr[g]
       /\ ptr[g] = IF pc[g] = "release" THEN Len(handled) ELSE Len(handled) + 1
       /\ CurrentIndex = IF pc[g] \in {"readTail", "unlink", "readIndex", "bump"}
                            THEN ptr[g] ELSE ptr[g] + 1

\* What holds when no item is claimed.
Unclaimed == handleQueues = Nil => CurrentIndex = Len(handled) + 1

CoopInv ==
  /\ TypeInv
  /\ NoPanic
  /\ Exclusive
  /\ SingleHandler
  /\ InOrder
  /\ \A g \in Items : Cursor(g) /\ Handoff(g)
  /\ Unclaimed

LEMMA CoopInit == Init => CoopInv
<1> SUFFICES ASSUME Init PROVE CoopInv
  OBVIOUS
<1>1. TypeInv
  BY TypeInit
<1>2. (\A g \in Items : pc[g] = "idle") /\ handled = <<>>
  BY DEF Init
<1> QED
  BY <1>1, <1>2 DEF Init, CoopInv, NoPanic, Exclusive, SingleHandler, InOrder, Cursor,
     Handoff, Unclaimed, Yielding, Holding

\* The processor is free to run g only when every other goroutine has stopped
\* at a point where it may lose it.
LEMMA CoopStep == ~Preemptible /\ CoopInv /\ [Next]_vars => CoopInv'
<1> SUFFICES ASSUME ~Preemptible, CoopInv, [Next]_vars PROVE CoopInv'
  OBVIOUS
<1>0. TypeInv'
  BY TypeStep DEF CoopInv
<1> USE <1>0 DEF CoopInv, TypeInv, TypeOK, LocalsOK, NoPanic, Exclusive, SingleHandler,
        InOrder, Cursor, Handoff, Unclaimed, Items, Nodes, Header, Nil, Points, Unlinked,
        Claiming, Holding, Yielding, shared, locals, past, MayRun, Move
<1>1. CASE UNCHANGED vars
  BY <1>1 DEF vars
<1>2. ASSUME NEW g \in Items, AddItem(g) PROVE CoopInv'
  BY <1>2 DEF AddItem
<1>3. ASSUME NEW g \in Items, Walk(g) PROVE CoopInv'
  BY <1>3 DEF Walk
<1>4. ASSUME NEW g \in Items, Compare(g) PROVE CoopInv'
  BY <1>4 DEF Compare
<1>5. ASSUME NEW g \in Items, Advance(g) PROVE CoopInv'
  BY <1>5 DEF Advance
<1>6. ASSUME NEW g \in Items, Splice(g) PROVE CoopInv'
  BY <1>6 DEF Splice
<1>7. ASSUME NEW g \in Items, LinkPrev(g) PROVE CoopInv'
  BY <1>7 DEF LinkPrev
<1>8. ASSUME NEW g \in Items, LinkItem(g) PROVE CoopInv'
  <2>1. \A h \in Items \ {g} : pc[h] \in Yielding /\ pc'[h] = pc[h]
    BY <1>8 DEF LinkItem
  <2>2. NoPanic' /\ Exclusive' /\ SingleHandler'
    BY <1>8, <2>1 DEF LinkItem
  <2>3. InOrder'
    BY <1>8 DEF LinkItem
  <2>4. Cursor(g)' /\ Handoff(g)' /\ Unclaimed'
    BY <1>8 DEF LinkItem
  <2>5. ASSUME NEW h \in Items \ {g} PROVE Cursor(h)' /\ Handoff(h)'
    BY <1>8, <2>1 DEF LinkItem
  <2> QED
    BY <2>2, <2>3, <2>4, <2>5
<1>9. ASSUME NEW g \in Items, Peek(g) PROVE CoopInv'
  BY <1>9 DEF Peek
<1>10. ASSUME NEW g \in Items, CheckIndex(g) PROVE CoopInv'
  BY <1>10 DEF CheckIndex
<1>11. ASSUME NEW g \in Items, CheckBusy(g) PROVE CoopInv'
  BY <1>11 DEF CheckBusy
<1>12. ASSUME NEW g \in Items, Claim(g) PROVE CoopInv'
  <2>1. /\ pc[g] = "claim" /\ pc' = [pc EXCEPT ![g] = "readTail"] /\ handleQueues' = ptr[g]
        /\ UNCHANGED <<link, CurrentIndex, findPrev, ptr, tmp, handled, failed, panicked>>
    BY <1>12 DEF Claim
  <2>2. ptr[g] = CurrentIndex /\ handleQueues = Nil /\ CurrentIndex = Len(handled) + 1
    BY <2>1
  <2>3. \A h \in Items : h # g => pc[h] \in Yielding /\ pc'[h] = pc[h]
    BY <1>12, <2>1 DEF Claim
  <2>4. \A h \in Items : h # g => pc[h] \notin Holding
    BY <2>2
  <2>5. (\A h \in Items : Cursor(h) /\ Handoff(h))' /\ Unclaimed'
    BY <2>1, <2>2, <2>3, <2>4
  <2> QED
    BY <2>1, <2>3, <2>4, <2>5
<1>13. ASSUME NEW g \in Items, ReadTail(g) PROVE CoopInv'
  BY <1>13 DEF ReadTail
<1>14. ASSUME NEW g \in Items, Unlink(g) PROVE CoopInv'
  BY <1>14 DEF Unlink
<1>15. ASSUME NEW g \in Items, ReadIndex(g) PROVE CoopInv'
  BY <1>15 DEF ReadIndex
<1>16. ASSUME NEW g \in Items, Bump(g) PROVE CoopInv'
  <2>1. \A h \in Items \ {g} : pc[h] \in Yielding /\ pc'[h] = pc[h]
    BY <1>16 DEF Bump
  <2>2. NoPanic' /\ Exclusive' /\ SingleHandler'
    BY <1>16, <2>1 DEF Bump
  <2>3. InOrder'
    BY <1>16 DEF Bump
  <2>4. Cursor(g)' /\ Handoff(g)' /\ Unclaimed'
    BY <1>16 DEF Bump
  <2>5. ASSUME NEW h \in Items \ {g} PROVE Cursor(h)' /\ Handoff(h)'
    BY <1>16, <2>1 DEF Bump
  <2> QED
    BY <2>2, <2>3, <2>4, <2>5
<1>17. ASSUME NEW g \in Items, Clear(g) PROVE CoopInv'
  <2>1. \A h \in Items \ {g} : pc[h] \in Yielding /\ pc'[h] = pc[h]
    BY <1>17 DEF Clear
  <2>2. NoPanic' /\ Exclusive' /\ SingleHandler'
    BY <1>17, <2>1 DEF Clear
  <2>3. InOrder'
    BY <1>17 DEF Clear
  <2>4. Cursor(g)' /\ Handoff(g)' /\ Unclaimed'
    BY <1>17 DEF Clear
  <2>5. ASSUME NEW h \in Items \ {g} PROVE Cursor(h)' /\ Handoff(h)'
    BY <1>17, <2>1 DEF Clear
  <2> QED
    BY <2>2, <2>3, <2>4, <2>5
<1>18. ASSUME NEW g \in Items, Fetch(g) PROVE CoopInv'
  BY <1>18 DEF Fetch
<1>19. ASSUME NEW g \in Items, Write(g) PROVE CoopInv'
  <2>1. \A h \in Items \ {g} : pc[h] \in Yielding /\ pc'[h] = pc[h]
    BY <1>19 DEF Write
  <2>2. NoPanic' /\ Exclusive' /\ SingleHandler'
    BY <1>19, <2>1 DEF Write
  <2>3. InOrder'
    BY <1>19 DEF Write
  <2>a. ptr[g] \in Items /\ handled \in Seq(Items) /\ handled' = Append(handled, ptr[g])
    BY <1>19 DEF Write
  <2>b. Len(handled') = Len(handled) + 1
    BY <2>a
  <2>c. pc'[g] = "release" /\ ptr'[g] = ptr[g] /\ ptr[g] = Len(handled) + 1
    BY <1>19 DEF Write
  <2>d. handleQueues' = ptr[g] /\ CurrentIndex' = ptr[g] + 1
    BY <1>19 DEF Write
  <2>4. Cursor(g)' /\ Handoff(g)' /\ Unclaimed'
    BY <2>b, <2>c, <2>d
  <2>5. ASSUME NEW h \in Items \ {g} PROVE Cursor(h)' /\ Handoff(h)'
    BY <1>19, <2>1 DEF Write
  <2> QED
    BY <2>2, <2>3, <2>4, <2>5
<1>20. ASSUME NEW g \in Items, Release(g) PROVE CoopInv'
  <2>1. \A h \in Items \ {g} : pc[h] \in Yielding /\ pc'[h] = pc[h]
    BY <1>20 DEF Release
  <2>2. NoPanic' /\ Exclusive' /\ SingleHandler'
    BY <1>20, <2>1 DEF Release
  <2>3. InOrder'
    BY <1>20 DEF Release
  <2>4. Cursor(g)' /\ Handoff(g)' /\ Unclaimed'
    BY <1>20 DEF Release
  <2>5. ASSUME NEW h \in Items \ {g} PROVE Cursor(h)' /\ Handoff(h)'
    BY <1>20, <2>1 DEF Release
  <2> QED
    BY <2>2, <2>3, <2>4, <2>5
<1>21. ASSUME NEW g \in Items, Panic(g) PROVE CoopInv'
  BY <1>21 DEF Panic, DereferencesNil
<1>22. QED
  BY <1>1, <1>2, <1>3, <1>4, <1>5, <1>6, <1>7, <1>8, <1>9, <1>10, <1>11, <1>12, <1>13, <1>14, <1>15, <1>16, <1>17, <1>18, <1>19, <1>20, <1>21 DEF Next, Run

\* With one processor no goroutine dereferences nil, no item is claimed while
\* another one is being handled, and the hooks run in the order of the indices:
\* the comment at WriteQueue.go:77 is true of such a build.
THEOREM OneProcessorSafe ==
  ~Preemptible => (Spec => [](NoPanic /\ SingleHandler /\ InOrder))
<1> SUFFICES ASSUME ~Preemptible PROVE Spec => [](NoPanic /\ SingleHandler /\ InOrder)
  OBVIOUS
<1>1. CoopInv /\ [Next]_vars => CoopInv'
  BY CoopStep
<1>2. CoopInv => NoPanic /\ SingleHandler /\ InOrder
  BY DEF CoopInv
<1> QED
  BY <1>1, <1>2, CoopInit, PTL DEF Spec

\* With one processor the next index due only ever advances by one: the store
\* at line 81 never works with a CurrentIndex that has changed since it was read.
THEOREM IndexSteps == ~Preemptible => (Spec => CurrentIndexSteps)
<1> SUFFICES ASSUME ~Preemptible PROVE Spec => CurrentIndexSteps
  OBVIOUS
<1>1. CoopInv /\ [Next]_vars => CoopInv'
  BY CoopStep
<1>2. CoopInv /\ [Next]_vars => [CurrentIndex' \in {CurrentIndex, CurrentIndex + 1}]_vars
  <2> SUFFICES ASSUME CoopInv, Next PROVE CurrentIndex' \in {CurrentIndex, CurrentIndex + 1}
    OBVIOUS
  <2> PICK g \in Items : AddItem(g) \/ Run(g)
    BY DEF Next
  <2>1. CASE Bump(g)
    BY <2>1 DEF Bump, Move, CoopInv, Handoff
  <2>2. CASE ~Bump(g)
    BY <2>2 DEF Run, AddItem, Walk, Compare, Advance, Splice, LinkPrev, LinkItem, Peek,
       CheckIndex, CheckBusy, Claim, ReadTail, Unlink, ReadIndex, Clear, Fetch, Write,
       Release, Panic, shared
  <2> QED
    BY <2>1, <2>2
<1> QED
  BY <1>1, <1>2, CoopInit, PTL DEF Spec, CurrentIndexSteps

-----------------------------------------------------------------------------
(* Refinement: the initial state maps to an initial state of OrderedWriter,*)
(* and every step to a step or a stutter.  LinkItem is Submit, Claim is    *)
(* Begin, Write is Finish; everything else stutters.  Beyond CoopInv the   *)
(* mapping needs that only submitted items can be claimed: every pointer   *)
(* that leaves AddItem names a linked item.                                *)

Linked(x) == x \in Items => pc[x] \notin Unlinked

\* An item is reachable before its own link is set only while its goroutine
\* has the processor.
PointersLinked ==
  /\ \A n \in Nodes : link[n] \in Items => pc[link[n]] \notin Unlinked \ {"linkItem"}
  /\ \A g \in Items :
       /\ pc[g] \in {"linkPrev", "linkItem", "checkIndex", "checkBusy", "claim"} \cup Holding
            => Linked(ptr[g])
       /\ pc[g] = "unlink" => Linked(tmp[g])

RefInv == CoopInv /\ PointersLinked

LEMMA RefInit == Init => RefInv
<1> SUFFICES ASSUME Init PROVE RefInv
  OBVIOUS
<1>1. CoopInv
  BY CoopInit
<1>2. PointersLinked
  BY NAssumption DEF Init, PointersLinked, Items, Nodes, Header, Nil, Holding
<1> QED
  BY <1>1, <1>2 DEF RefInv

LEMMA RefStep == ~Preemptible /\ RefInv /\ [Next]_vars => RefInv'
<1> SUFFICES ASSUME ~Preemptible, RefInv, [Next]_vars PROVE RefInv'
  OBVIOUS
<1>0. CoopInv'
  BY CoopStep DEF RefInv
<1> SUFFICES PointersLinked'
  BY <1>0 DEF RefInv
<1> USE NAssumption DEF RefInv, CoopInv, TypeInv, TypeOK, LocalsOK, Exclusive, PointersLinked,
        Linked, Items, Nodes, Header, Nil, Points, Unlinked, Claiming, Holding, Yielding,
        shared, locals, past, MayRun, Move
<1>1. CASE UNCHANGED vars
  BY <1>1 DEF vars
<1>2. ASSUME NEW g \in Items, AddItem(g) PROVE PointersLinked'
  BY <1>2 DEF AddItem
<1>3. ASSUME NEW g \in Items, Walk(g) PROVE PointersLinked'
  BY <1>3 DEF Walk
<1>4. ASSUME NEW g \in Items, Compare(g) PROVE PointersLinked'
  BY <1>4 DEF Compare
<1>5. ASSUME NEW g \in Items, Advance(g) PROVE PointersLinked'
  BY <1>5 DEF Advance
<1>6. ASSUME NEW g \in Items, Splice(g) PROVE PointersLinked'
  <2>1. \A h \in Items \ {g} : pc[h] \in Yielding /\ pc'[h] = pc[h]
    BY <1>6 DEF Splice
  <2>2. link[findPrev[g]] \in Items \cup {Nil} /\ Linked(link[findPrev[g]])
    BY <1>6, <2>1 DEF Splice
  <2>3. ptr'[g] = link[findPrev[g]] /\ Linked(link[findPrev[g]])'
    BY <1>6, <2>1, <2>2 DEF Splice
  <2>4. \A n \in Nodes : link'[n] \in Items => pc'[link'[n]] \notin Unlinked \ {"linkItem"}
    BY <1>6, <2>1 DEF Splice
  <2>5. ASSUME NEW h \in Items \ {g}
        PROVE  /\ pc'[h] \in {"linkPrev", "linkItem", "checkIndex", "checkBusy", "claim"} \cup Holding
                    => Linked(ptr[h])'
               /\ pc'[h] = "unlink" => Linked(tmp[h])'
    BY <1>6, <2>1 DEF Splice
  <2>6. /\ pc'[g] \in {"linkPrev", "linkItem", "checkIndex", "checkBusy", "claim"} \cup Holding
             => Linked(ptr[g])'
        /\ pc'[g] = "unlink" => Linked(tmp[g])'
    BY <1>6, <2>1, <2>3 DEF Splice
  <2> QED
    BY <2>4, <2>5, <2>6
<1>7. ASSUME NEW g \in Items, LinkPrev(g) PROVE PointersLinked'
  BY <1>7 DEF LinkPrev
<1>8. ASSUME NEW g \in Items, LinkItem(g) PROVE PointersLinked'
  BY <1>8 DEF LinkItem
<1>9. ASSUME NEW g \in Items, Peek(g) PROVE PointersLinked'
  <2>1. \A h \in Items \ {g} : pc[h] \in Yielding /\ pc'[h] = pc[h]
    BY <1>9 DEF Peek
  <2>a. Header \in Nodes /\ link[Header] \in Items \cup {Nil} /\ pc[g] \notin Unlinked
    BY <1>9 DEF Peek
  <2>b. ASSUME link[Header] \in Items PROVE pc[link[Header]] # "linkItem"
    BY <2>1, <2>a, <2>b
  <2>2. link[Header] \in Items \cup {Nil} /\ Linked(link[Header])
    BY <2>a, <2>b
  <2>3. ptr'[g] = link[Header] /\ Linked(link[Header])'
    BY <1>9, <2>1, <2>2 DEF Peek
  <2>4. \A n \in Nodes : link'[n] \in Items => pc'[link'[n]] \notin Unlinked \ {"linkItem"}
    BY <1>9, <2>1 DEF Peek
  <2>5. ASSUME NEW h \in Items \ {g}
        PROVE  /\ pc'[h] \in {"linkPrev", "linkItem", "checkIndex", "checkBusy", "claim"} \cup Holding
                    => Linked(ptr[h])'
               /\ pc'[h] = "unlink" => Linked(tmp[h])'
    BY <1>9, <2>1 DEF Peek
  <2>6. /\ pc'[g] \in {"linkPrev", "linkItem", "checkIndex", "checkBusy", "claim"} \cup Holding
             => Linked(ptr[g])'
        /\ pc'[g] = "unlink" => Linked(tmp[g])'
    BY <1>9, <2>1, <2>3 DEF Peek
  <2> QED
    BY <2>4, <2>5, <2>6
<1>10. ASSUME NEW g \in Items, CheckIndex(g) PROVE PointersLinked'
  BY <1>10 DEF CheckIndex
<1>11. ASSUME NEW g \in Items, CheckBusy(g) PROVE PointersLinked'
  BY <1>11 DEF CheckBusy
<1>12. ASSUME NEW g \in Items, Claim(g) PROVE PointersLinked'
  BY <1>12 DEF Claim
<1>13. ASSUME NEW g \in Items, ReadTail(g) PROVE PointersLinked'
  <2>1. \A h \in Items \ {g} : pc[h] \in Yielding /\ pc'[h] = pc[h]
    BY <1>13 DEF ReadTail
  <2>a. ptr[g] \in Nodes /\ link[ptr[g]] \in Items \cup {Nil} /\ pc[g] \notin Unlinked
    BY <1>13 DEF ReadTail
  <2>b. ASSUME link[ptr[g]] \in Items PROVE pc[link[ptr[g]]] # "linkItem"
    BY <2>1, <2>a, <2>b
  <2>2. link[ptr[g]] \in Items \cup {Nil} /\ Linked(link[ptr[g]])
    BY <2>a, <2>b
  <2>3. tmp'[g] = link[ptr[g]] /\ Linked(link[ptr[g]])'
    BY <1>13, <2>1, <2>2 DEF ReadTail
  <2>4. \A n \in Nodes : link'[n] \in Items => pc'[link'[n]] \notin Unlinked \ {"linkItem"}
    BY <1>13, <2>1 DEF ReadTail
  <2>5. ASSUME NEW h \in Items \ {g}
        PROVE  /\ pc'[h] \in {"linkPrev", "linkItem", "checkIndex", "checkBusy", "claim"} \cup Holding
                    => Linked(ptr[h])'
               /\ pc'[h] = "unlink" => Linked(tmp[h])'
    BY <1>13, <2>1 DEF ReadTail
  <2>6. /\ pc'[g] \in {"linkPrev", "linkItem", "checkIndex", "checkBusy", "claim"} \cup Holding
             => Linked(ptr[g])'
        /\ pc'[g] = "unlink" => Linked(tmp[g])'
    BY <1>13, <2>1, <2>3 DEF ReadTail
  <2> QED
    BY <2>4, <2>5, <2>6
<1>14. ASSUME NEW g \in Items, Unlink(g) PROVE PointersLinked'
  BY <1>14 DEF Unlink
<1>15. ASSUME NEW g \in Items, ReadIndex(g) PROVE PointersLinked'
  BY <1>15 DEF ReadIndex
<1>16. ASSUME NEW g \in Items, Bump(g) PROVE PointersLinked'
  BY <1>16 DEF Bump
<1>17. ASSUME NEW g \in Items, Clear(g) PROVE PointersLinked'
  BY <1>17 DEF Clear
<1>18. ASSUME NEW g \in Items, Fetch(g) PROVE PointersLinked'
  BY <1>18 DEF Fetch, Handoff
<1>19. ASSUME NEW g \in Items, Write(g) PROVE PointersLinked'
  BY <1>19 DEF Write
<1>20. ASSUME NEW g \in Items, Release(g) PROVE PointersLinked'
  BY <1>20 DEF Release
<1>21. ASSUME NEW g \in Items, Panic(g) PROVE PointersLinked'
  BY <1>21 DEF Panic
<1>22. QED
  BY <1>1, <1>2, <1>3, <1>4, <1>5, <1>6, <1>7, <1>8, <1>9, <1>10, <1>11, <1>12, <1>13, <1>14, <1>15, <1>16, <1>17, <1>18, <1>19, <1>20, <1>21 DEF Next, Run

-----------------------------------------------------------------------------
(* The mapping.                                                            *)

Submitted == {g \in Items : pc[g] \notin Unlinked}
Writing   == IF handleQueues = Len(handled) + 1 THEN handleQueues ELSE 0

\* A step that moves no goroutine into or out of Unlinked, and changes neither
\* the claim nor the history, is a stutter.
LEMMA StutterStep ==
  ASSUME TypeOK, NEW g \in Items, NEW from \in Points, NEW to \in Points, Move(g, from, to),
         from \in Unlinked <=> to \in Unlinked, UNCHANGED <<handleQueues, past>>
  PROVE  UNCHANGED <<Submitted, Writing, handled, failed>>
  BY DEF TypeOK, Move, Submitted, Writing, past

LEMMA RefNext ==
  ~Preemptible /\ RefInv /\ [Next]_vars =>
    [Ordered!Next]_<<Submitted, Writing, handled, failed>>
<1> SUFFICES ASSUME ~Preemptible, RefInv, [Next]_vars
             PROVE  [Ordered!Next]_<<Submitted, Writing, handled, failed>>
  OBVIOUS
<1> DEFINE Stutter == UNCHANGED <<Submitted, Writing, handled, failed>>
<1>0. TypeOK /\ handled \in Seq(Items) /\ Len(handled) \in Nat
  BY DEF RefInv, CoopInv, TypeInv, TypeOK
<1>a. CASE UNCHANGED vars
  BY <1>a DEF vars, shared, past, Submitted, Writing
<1>b. ASSUME NEW g \in Items, LinkItem(g) PROVE Ordered!Submit(g)
  <2>1. pc[g] \in Unlinked /\ pc' = [pc EXCEPT ![g] = "peek"]
    BY <1>b DEF LinkItem, Move, Unlinked
  <2>2. g \notin Submitted /\ Submitted' = Submitted \cup {g}
    BY <1>0, <2>1 DEF Submitted, TypeOK, Unlinked
  <2>3. UNCHANGED <<Writing, handled, failed>>
    BY <1>b DEF LinkItem, Writing, past
  <2> QED
    BY <2>2, <2>3 DEF Ordered!Submit, Submitted, Writing
<1>c. ASSUME NEW g \in Items, Claim(g) PROVE Ordered!Begin
  <2>1. handleQueues = Nil /\ ptr[g] = Len(handled) + 1 /\ ptr[g] \in Items /\ Linked(ptr[g])
    BY <1>c DEF Claim, Move, RefInv, CoopInv, TypeInv, LocalsOK, Handoff, Unclaimed, PointersLinked
  <2>2. Writing = 0 /\ Len(handled) + 1 \in Submitted
    BY <1>0, <2>1 DEF Writing, Submitted, Linked, Nil
  <2>3. Submitted' = Submitted
    BY <1>0, <1>c DEF Claim, Move, TypeOK, Submitted, Unlinked
  <2>4. handled' = handled /\ failed' = failed /\ handleQueues' = Len(handled) + 1
    BY <1>c, <2>1 DEF Claim, past
  <2>5. Writing' = Len(handled) + 1
    BY <2>4 DEF Writing
  <2> QED
    BY <2>2, <2>3, <2>4, <2>5 DEF Ordered!Begin, Submitted, Writing
<1>d. ASSUME NEW g \in Items, Write(g) PROVE Ordered!Finish
  <2>1. handleQueues = ptr[g] /\ ptr[g] = Len(handled) + 1 /\ ptr[g] \in Items
    BY <1>d DEF Write, Move, RefInv, CoopInv, TypeInv, LocalsOK, Handoff, Holding
  <2>2. Writing = ptr[g] /\ Writing # 0
    BY <1>0, <2>1 DEF Writing, Items
  <2>3. handled' = Append(handled, Writing) /\ failed' \in {failed, failed \cup {Writing}}
    BY <1>d, <2>2 DEF Write
  <2>4. Len(handled') = Len(handled) + 1
    BY <1>0, <2>1, <2>2, <2>3
  <2>5. Writing' = 0
    BY <1>0, <1>d, <2>1, <2>4 DEF Write, shared, Writing
  <2>6. Submitted' = Submitted
    BY <1>0, <1>d DEF Write, Move, TypeOK, Submitted, Unlinked
  <2> QED
    BY <2>2, <2>3, <2>5, <2>6 DEF Ordered!Finish, Submitted, Writing
<1>e. ASSUME NEW g \in Items, Release(g) PROVE Stutter
  <2>1. handleQueues = Len(handled)
    BY <1>e DEF Release, Move, RefInv, CoopInv, Handoff, Holding
  <2>2. handleQueues' = Nil /\ handled' = handled /\ failed' = failed
    BY <1>e DEF Release, past
  <2>3. Submitted' = Submitted
    BY <1>0, <1>e DEF Release, Move, TypeOK, Submitted, Unlinked
  <2> QED
    BY <1>0, <2>1, <2>2, <2>3 DEF Writing, Nil
<1>f. ASSUME NEW g \in Items, Panic(g) PROVE Stutter
  BY <1>f DEF Panic, shared, past, Submitted, Writing
<1>g. ASSUME NEW g \in Items, AddItem(g) \/ Walk(g) \/ Compare(g) \/ Advance(g) \/ Splice(g)
                               \/ LinkPrev(g)
      PROVE Stutter
  BY <1>0, <1>g, StutterStep DEF AddItem, Walk, Compare, Advance, Splice, LinkPrev, shared,
     Points, Unlinked
<1>h. ASSUME NEW g \in Items, Peek(g) \/ CheckIndex(g) \/ CheckBusy(g) \/ ReadTail(g) \/ Unlink(g)
                               \/ ReadIndex(g) \/ Bump(g) \/ Clear(g) \/ Fetch(g)
      PROVE Stutter
  BY <1>0, <1>h, StutterStep DEF Peek, CheckIndex, CheckBusy, ReadTail, Unlink, ReadIndex, Bump,
     Clear, Fetch, shared, Points, Unlinked, Claiming, Holding
<1>i. (\E g \in Items : LinkItem(g) \/ Claim(g) \/ Write(g)) => Ordered!Next
  BY <1>b, <1>c, <1>d DEF Ordered!Next, Ordered!Items, Items
<1>j. Next => Ordered!Next \/ Stutter
  BY <1>e, <1>f, <1>g, <1>h, <1>i DEF Next, Run
<1> QED
  BY <1>a, <1>j

\* The abstract variables are Submitted, Writing, handled and failed: what a
\* WriteQueue promises (OrderedWriter) is what it does, on one processor.
THEOREM OneProcessorImplements ==
  ~Preemptible => (Spec => Ordered!Init /\ [][Ordered!Next]_(Ordered!vars))
<1> SUFFICES ASSUME ~Preemptible PROVE Spec => Ordered!Init /\ [][Ordered!Next]_(Ordered!vars)
  OBVIOUS
<1>1. Init => Ordered!Init
  BY NAssumption DEF Init, Ordered!Init, Unlinked, Nil
<1>2. RefInv /\ [Next]_vars => RefInv'
  BY RefStep
<1>3. RefInv /\ [Next]_vars => [Ordered!Next]_(Ordered!vars)
  BY RefNext DEF Ordered!vars, Submitted, Writing
<1> QED
  BY <1>1, <1>2, <1>3, RefInit, PTL DEF Spec

-----------------------------------------------------------------------------
(* One processor: nothing is stranded.                                     *)

\* Some goroutine has taken the first item off the list and not yet counted it.
Taken == \E g \in Items : pc[g] \in {"readIndex", "bump"}

\* The items that must be on the list.
Listed(i) == pc[i] \notin Unlinked /\ IF Taken THEN i > CurrentIndex ELSE i >= CurrentIndex

At(n) == n = Header \/ (n \in Items /\ Listed(n))

\* x is the first of them behind n, or Nil.
Behind(n, x) ==
  /\ x # Nil => x \in Items /\ Listed(x) /\ x > n
  /\ \A i \in Items : Listed(i) /\ i > n => x # Nil /\ x <= i

\* Every link leads to the next item, except for the one that is being set.
Chained ==
  \A n \in Nodes : At(n) =>
    \/ Behind(n, link[n])
    \/ \E g \in Items : pc[g] = "linkItem" /\ findPrev[g] = n

\* What is counted has been linked.
Passed == \A i \in Items : i < CurrentIndex => pc[i] \notin Unlinked

\* What a goroutine that walks or changes the list knows of it.
Walker(g) ==
  /\ pc[g] \in {"walk", "compare", "advance", "splice", "linkPrev", "linkItem"} =>
       At(findPrev[g]) /\ findPrev[g] < g
  /\ pc[g] = "advance" => link[findPrev[g]] < g
  /\ pc[g] = "splice" => link[findPrev[g]] = Nil \/ link[findPrev[g]] > g
  /\ pc[g] = "linkPrev" => ptr[g] = link[findPrev[g]]
  /\ pc[g] \in {"linkPrev", "linkItem"} =>
       (ptr[g] = Nil \/ ptr[g] > g) /\ Behind(findPrev[g], ptr[g])
  /\ pc[g] = "linkItem" => link[findPrev[g]] = g
  /\ pc[g] \in {"checkIndex", "checkBusy", "claim", "readTail", "unlink"} => ptr[g] = link[Header]
  /\ pc[g] = "unlink" => tmp[g] = link[ptr[g]]

\* A claim is somebody's, and somebody looks after the item that is due.
Held  == handleQueues # Nil => \E g \in Items : pc[g] \in Holding
Awake == \A k \in Items : k = CurrentIndex /\ Listed(k) =>
           \E g \in Items : pc[g] \in Claiming \cup Holding

ListInv == Chained /\ Passed /\ (\A g \in Items : Walker(g)) /\ Held /\ Awake

LEMMA ListInit == Init => ListInv
<1> SUFFICES ASSUME Init PROVE ListInv
  OBVIOUS
<1>1. \A g \in Items : pc[g] = "idle"
  BY DEF Init
<1>2. \A i \in Items : ~Listed(i)
  BY <1>1 DEF Listed, Unlinked
<1>3. link = [n \in Nodes |-> Nil] /\ CurrentIndex = 1 /\ handleQueues = Nil
  BY DEF Init
<1>4. Chained
  BY <1>2, <1>3 DEF Chained, Behind, At
<1>5. Passed
  BY <1>3 DEF Passed, Items
<1>6. \A g \in Items : Walker(g)
  BY <1>1 DEF Walker
<1> QED
  BY <1>2, <1>3, <1>4, <1>5, <1>6 DEF ListInv, Held, Awake

\* A goroutine that has the processor has it alone.
LEMMA Alone ==
  ASSUME ~Preemptible, RefInv, NEW g \in Items, NEW from, NEW to, Move(g, from, to)
  PROVE  /\ pc[g] = from /\ pc'[g] = to
         /\ \A h \in Items : h # g => pc[h] \in Yielding /\ pc'[h] = pc[h]
BY DEF RefInv, CoopInv, TypeInv, TypeOK, Move, MayRun

LEMMA SameList ==
  ASSUME \A i \in Items : Listed(i)' <=> Listed(i)
  PROVE  /\ \A n : At(n)' <=> At(n)
         /\ \A n, x : Behind(n, x)' <=> Behind(n, x)
<1>1. \A n : At(n)' <=> At(n)
  BY DEF At
<1>2. \A n, x : Behind(n, x)' <=> Behind(n, x)
  BY DEF Behind
<1> QED
  BY <1>1, <1>2

LEMMA OthersWalk ==
  ASSUME NEW h \in Items, pc'[h] \in Yielding
  PROVE  Walker(h)'
BY DEF Walker, Yielding

\* A step of g that neither begins nor ends the setting of a link.
LEMMA ListStays ==
  ASSUME ~Preemptible, RefInv, ListInv, NEW g \in Items, NEW from, NEW to, Move(g, from, to),
         from # "linkItem", to # "linkItem", from \in Unlinked <=> to \in Unlinked,
         CurrentIndex' = CurrentIndex,
         \A i \in Items : Listed(i)' <=> Listed(i),
         \A n \in Nodes : At(n) => link'[n] = link[n],
         Walker(g)'
  PROVE  Chained' /\ Passed' /\ \A h \in Items : Walker(h)'
<1>1. /\ pc[g] = from /\ pc'[g] = to
      /\ \A h \in Items : h # g => pc[h] \in Yielding /\ pc'[h] = pc[h]
  BY Alone
<1>2. \A h \in Items : pc[h] # "linkItem" /\ pc'[h] # "linkItem"
  BY <1>1 DEF Yielding
<1>3. /\ \A n : At(n)' <=> At(n)
      /\ \A n, x : Behind(n, x)' <=> Behind(n, x)
  BY SameList
<1>4. Chained'
  <2> SUFFICES ASSUME NEW n \in Nodes, At(n)' PROVE Behind(n, link[n])'
    BY DEF Chained
  <2>1. PICK x : x = link[n]
    OBVIOUS
  <2>2. At(n) /\ link'[n] = x
    BY <1>3, <2>1
  <2>3. Behind(n, x)
    BY <1>2, <2>1, <2>2 DEF ListInv, Chained
  <2>4. Behind(n, x)'
    BY <1>3, <2>3
  <2> QED
    BY <2>2, <2>4 DEF Behind
<1>5. Passed'
  BY <1>1 DEF ListInv, Passed
<1>6. \A h \in Items : Walker(h)'
  BY <1>1, OthersWalk
<1> QED
  BY <1>4, <1>5, <1>6


LEMMA ListedStays ==
  ASSUME ~Preemptible, RefInv, NEW g \in Items, NEW from, NEW to, Move(g, from, to),
         from \in Unlinked <=> to \in Unlinked, UNCHANGED CurrentIndex,
         from \in {"readIndex", "bump"} <=> to \in {"readIndex", "bump"}
  PROVE  \A i \in Items : Listed(i)' <=> Listed(i)
<1>1. /\ pc[g] = from /\ pc'[g] = to
      /\ \A h \in Items : h # g => pc[h] \in Yielding /\ pc'[h] = pc[h]
  BY Alone
<1>2. Taken' <=> Taken
  BY <1>1 DEF Taken
<1>3. \A i \in Items : pc'[i] \in Unlinked <=> pc[i] \in Unlinked
  BY <1>1
<1> QED
  BY <1>2, <1>3 DEF Listed

\* A claim and the item that is due are looked after as long as g goes on with it.
LEMMA HeldStays ==
  ASSUME ~Preemptible, RefInv, ListInv, NEW g \in Items, NEW from, NEW to, Move(g, from, to),
         UNCHANGED handleQueues, from \in Holding => to \in Holding
  PROVE  Held'
<1>1. /\ pc[g] = from /\ pc'[g] = to
      /\ \A h \in Items : h # g => pc[h] \in Yielding /\ pc'[h] = pc[h]
  BY Alone
<1>2. \A h \in Items : pc[h] \in Holding => pc'[h] \in Holding
  BY <1>1
<1> QED
  BY <1>2 DEF ListInv, Held

LEMMA AwakeStays ==
  ASSUME ~Preemptible, RefInv, ListInv, NEW g \in Items, NEW from, NEW to, Move(g, from, to),
         \A i \in Items : Listed(i)' <=> Listed(i), UNCHANGED CurrentIndex,
         from \in Claiming \cup Holding => to \in Claiming \cup Holding
  PROVE  Awake'
<1>1. /\ pc[g] = from /\ pc'[g] = to
      /\ \A h \in Items : h # g => pc[h] \in Yielding /\ pc'[h] = pc[h]
  BY Alone
<1>2. \A h \in Items : pc[h] \in Claiming \cup Holding => pc'[h] \in Claiming \cup Holding
  BY <1>1
<1> QED
  BY <1>2 DEF ListInv, Awake

\* The link of a node that is on the list, when nobody is setting one.
LEMMA LinkIs ==
  ASSUME ~Preemptible, RefInv, ListInv, NEW g \in Items, NEW from, NEW to, Move(g, from, to),
         from # "linkItem", NEW n \in Nodes, At(n)
  PROVE  Behind(n, link[n])
<1>1. \A h \in Items : pc[h] # "linkItem"
  BY Alone DEF Yielding
<1> QED
  BY <1>1 DEF ListInv, Chained

LEMMA NodesAre == Header \in Nodes /\ \A i \in Items : i \in Nodes /\ i \in Int /\ i > Header /\ i # Nil
BY NAssumption DEF Header, Nodes, Items, Nil

\* AddItem, up to the insertion point.
LEMMA SearchStep ==
  ASSUME ~Preemptible, RefInv, ListInv, NEW g \in Items,
         AddItem(g) \/ Walk(g) \/ Compare(g) \/ Advance(g) \/ Splice(g)
  PROVE  ListInv'
<1>1. PICK from \in {"idle", "walk", "compare", "advance", "splice"},
           to \in {"walk", "compare", "splice", "advance", "linkPrev"} : Move(g, from, to)
  BY DEF AddItem, Walk, Compare, Advance, Splice
<1>2. UNCHANGED <<link, CurrentIndex, handleQueues>>
  BY DEF AddItem, Walk, Compare, Advance, Splice, shared
<1>3. from \in Unlinked /\ to \in Unlinked /\ from \notin Claiming \cup Holding /\ from # "linkItem"
      /\ to # "linkItem" /\ from \notin {"readIndex", "bump"} /\ to \notin {"readIndex", "bump"}
  BY DEF Unlinked, Claiming, Holding
<1>4. pc[g] = from /\ pc'[g] = to
  BY <1>1, Alone
<1>5. \A i \in Items : Listed(i)' <=> Listed(i)
  BY <1>1, <1>2, <1>3, ListedStays
<1>6. /\ \A n : At(n)' <=> At(n)
      /\ \A n, x : Behind(n, x)' <=> Behind(n, x)
  BY <1>5, SameList
<1>7. Held'
  BY <1>1, <1>2, <1>3, HeldStays
<1>8. Awake'
  BY <1>1, <1>2, <1>3, <1>5, AwakeStays
<1>9. /\ findPrev \in [Items -> Nodes \cup {Nil}] /\ ptr \in [Items -> Items \cup {Nil}]
      /\ link \in [Nodes -> Items \cup {Nil}] /\ g \in Int
  BY DEF RefInv, CoopInv, TypeInv, TypeOK, Items
<1>10. PICK p \in Nodes \cup {Nil} : p = findPrev[g]
  BY <1>9
<1>11. Walker(g)
  BY DEF ListInv
<1>12. ASSUME At(p) PROVE p \in Nodes /\ p \in Int /\ Behind(p, link[p])
  <2>1. p \in Nodes /\ p \in Int
    BY <1>12, NodesAre DEF At, Header
  <2> QED
    BY <1>1, <1>3, <1>12, <2>1, LinkIs
<1>13. Walker(g)'
  <2>1. CASE AddItem(g)
    <3>1. pc'[g] = "walk" /\ findPrev'[g] = Header
      BY <1>9, <2>1 DEF AddItem, Move, RefInv, CoopInv, TypeInv, TypeOK
    <3> QED
      BY <3>1, NodesAre DEF Walker, At
  <2>2. CASE Walk(g)
    <3>1. /\ At(p) /\ p < g /\ findPrev'[g] = p /\ link' = link
          /\ \/ link[p] = Nil /\ pc'[g] = "splice"
             \/ pc'[g] = "compare"
      BY <1>2, <1>4, <1>10, <1>11, <2>2, Alone DEF Walk, locals, Walker, Move
    <3>2. At(p)'
      BY <1>6, <3>1
    <3> QED
      BY <3>1, <3>2 DEF Walker
  <2>3. CASE Compare(g)
    <3>1. At(p) /\ p < g /\ findPrev'[g] = p /\ link' = link /\ pc[g] = "compare"
          /\ pc'[g] = IF link[p] > g /\ p < g THEN "splice" ELSE "advance"
      BY <1>2, <1>4, <1>10, <1>11, <2>3, Alone DEF Compare, Between, locals, Walker, Move
    <3>2. At(p)'
      BY <1>6, <3>1
    <3>3. link[p] # Nil
      BY <1>10, <3>1 DEF RefInv, CoopInv, Cursor
    <3>4. link[p] \in Items /\ Listed(link[p])
      BY <1>12, <3>1, <3>3 DEF Behind
    <3>5. link[p] # g /\ link[p] \in Int
      BY <3>1, <3>4, NodesAre DEF Listed, Unlinked
    <3> QED
      BY <1>9, <3>1, <3>2, <3>5 DEF Walker
  <2>4. CASE Advance(g)
    <3>1. At(p) /\ link[p] < g /\ findPrev'[g] = link[p] /\ link[p] # Nil /\ pc'[g] = "walk"
      BY <1>2, <1>4, <1>9, <1>10, <1>11, <2>4, Alone DEF Advance, Walker, Move, RefInv, CoopInv, Cursor
    <3>2. PICK x \in Items : x = link[p]
      BY <1>12, <3>1 DEF Behind
    <3>3. At(x)
      BY <1>12, <3>1, <3>2 DEF Behind, At
    <3>4. At(x)'
      BY <1>6, <3>3
    <3> QED
      BY <3>1, <3>2, <3>4 DEF Walker, At
  <2>5. CASE Splice(g)
    <3>1. /\ At(p) /\ p < g /\ findPrev'[g] = p /\ link' = link /\ pc'[g] = "linkPrev"
          /\ ptr'[g] = link[p] /\ (link[p] = Nil \/ link[p] > g)
      BY <1>2, <1>4, <1>9, <1>10, <1>11, <2>5, Alone DEF Splice, Walker, Move
    <3>2. PICK x : x = link[p]
      OBVIOUS
    <3>3. At(p)' /\ Behind(p, x)'
      BY <1>6, <1>12, <3>1, <3>2
    <3> QED
      BY <3>1, <3>2, <3>3 DEF Walker
  <2> QED
    BY <2>1, <2>2, <2>3, <2>4, <2>5
<1>14. Chained' /\ Passed' /\ \A h \in Items : Walker(h)'
  BY <1>1, <1>2, <1>3, <1>5, <1>13, ListStays
<1> QED
  BY <1>7, <1>8, <1>14 DEF ListInv


\* The steps from the end of AddItem to the claim.
LEMMA ClaimStep ==
  ASSUME ~Preemptible, RefInv, ListInv, NEW g \in Items,
         Peek(g) \/ CheckIndex(g) \/ CheckBusy(g) \/ Claim(g)
  PROVE  ListInv'
<1>1. PICK from \in Claiming, to \in {"checkIndex", "checkBusy", "claim", "readTail", "done"} :
        Move(g, from, to)
  BY DEF Peek, CheckIndex, CheckBusy, Claim, Claiming
<1>2. link' = link /\ CurrentIndex' = CurrentIndex
  BY DEF Peek, CheckIndex, CheckBusy, Claim, shared
<1>3. /\ from \notin Unlinked /\ to \notin Unlinked /\ from # "linkItem" /\ to # "linkItem"
      /\ from \notin {"readIndex", "bump"} /\ to \notin {"readIndex", "bump"} /\ from \notin Holding
  BY DEF Unlinked, Claiming, Holding
<1>4. /\ pc[g] = from /\ pc'[g] = to
      /\ \A h \in Items : h # g => pc[h] \in Yielding /\ pc'[h] = pc[h]
  BY <1>1, Alone
<1>5. \A i \in Items : Listed(i)' <=> Listed(i)
  BY <1>1, <1>2, <1>3, ListedStays
<1>6. /\ ptr \in [Items -> Items \cup {Nil}] /\ link \in [Nodes -> Items \cup {Nil}]
      /\ pc[g] \in {"checkIndex", "checkBusy", "claim"} => ptr[g] \in Items
  BY DEF RefInv, CoopInv, TypeInv, TypeOK, LocalsOK
<1>7. Behind(Header, link[Header])
  BY <1>1, <1>3, LinkIs, NodesAre DEF At
<1>8. Walker(g)
  BY DEF ListInv
<1>9. Walker(g)'
  <2>1. CASE Peek(g)
    <3>1. ptr'[g] = link[Header] /\ pc'[g] \in {"done", "checkIndex"}
      BY <1>4, <1>6, <2>1 DEF Peek, Move, RefInv, CoopInv, TypeInv, TypeOK
    <3> QED
      BY <1>2, <3>1 DEF Walker
  <2>2. CASE CheckIndex(g) \/ CheckBusy(g) \/ Claim(g)
    <3>1. /\ pc[g] \in {"checkIndex", "checkBusy", "claim"} /\ ptr' = ptr
          /\ pc'[g] \in {"done", "checkBusy", "claim", "readTail"}
      BY <1>4, <2>2 DEF CheckIndex, CheckBusy, Claim, Move, locals, RefInv, CoopInv, TypeInv, TypeOK
    <3> QED
      BY <1>2, <1>8, <3>1 DEF Walker
  <2> QED
    BY <2>1, <2>2
<1>10. Held'
  <2>1. CASE Claim(g)
    BY <2>1, <1>4 DEF Claim, Move, Held, Holding, RefInv, CoopInv, TypeInv, TypeOK
  <2>2. CASE Peek(g) \/ CheckIndex(g) \/ CheckBusy(g)
    <3>1. handleQueues' = handleQueues
      BY <2>2 DEF Peek, CheckIndex, CheckBusy, shared
    <3> QED
      BY <1>1, <1>3, <3>1, HeldStays
  <2> QED
    BY <2>1, <2>2
<1>11. Awake'
  <2>1. CASE to # "done"
    BY <2>1, <1>1, <1>2, <1>5, AwakeStays DEF Claiming, Holding
  <2>2. CASE to = "done" /\ Peek(g)
    <3>1. link[Header] = Nil
      BY <2>2, <1>4 DEF Peek, Move, RefInv, CoopInv, TypeInv, TypeOK
    <3>2. \A i \in Items : ~Listed(i)
      BY <3>1, <1>7, NodesAre DEF Behind
    <3> QED
      BY <1>5, <3>2 DEF Awake
  <2>3. CASE to = "done" /\ CheckIndex(g)
    <3>1. ptr[g] # CurrentIndex /\ pc[g] = "checkIndex"
      BY <2>3, <1>4 DEF CheckIndex, Move, RefInv, CoopInv, TypeInv, TypeOK
    <3>2. ptr[g] \in Items /\ ptr[g] = link[Header]
      BY <3>1, <1>6, <1>8 DEF Walker
    <3>3. Listed(ptr[g]) /\ \A i \in Items : Listed(i) => ptr[g] <= i
      BY <3>2, <1>7, NodesAre DEF Behind
    <3>4. ptr[g] >= CurrentIndex
      BY <3>2, <3>3, NodesAre DEF Listed, RefInv, CoopInv, TypeInv, TypeOK
    <3>5. \A k \in Items : k = CurrentIndex => ~Listed(k)
      BY <3>1, <3>2, <3>3, <3>4, NodesAre
    <3> QED
      BY <1>2, <1>5, <3>5 DEF Awake
  <2>4. CASE to = "done" /\ CheckBusy(g)
    <3>1. handleQueues # Nil
      BY <2>4, <1>4 DEF CheckBusy, Move, RefInv, CoopInv, TypeInv, TypeOK
    <3>2. PICK h \in Items : pc[h] \in Holding
      BY <3>1 DEF ListInv, Held
    <3>3. pc'[h] \in Holding
      BY <3>2, <1>3, <1>4
    <3> QED
      BY <3>3 DEF Awake
  <2>5. CASE to = "done" /\ Claim(g)
    BY <2>5, <1>4 DEF Claim, Move, RefInv, CoopInv, TypeInv, TypeOK
  <2> QED
    BY <2>1, <2>2, <2>3, <2>4, <2>5
<1>12. Chained' /\ Passed' /\ \A h \in Items : Walker(h)'
  BY <1>1, <1>2, <1>3, <1>5, <1>9, ListStays
<1> QED
  BY <1>10, <1>11, <1>12 DEF ListInv

\* The steps of the claim that leave the list and CurrentIndex alone, and the
\* clearing of the taken item's own link, which is no longer on the list.
LEMMA HoldStep ==
  ASSUME ~Preemptible, RefInv, ListInv, NEW g \in Items,
         ReadTail(g) \/ ReadIndex(g) \/ Clear(g) \/ Fetch(g) \/ Write(g) \/ Release(g)
  PROVE  ListInv'
<1>1. PICK from \in Holding, to \in Holding \cup {"peek"} :
        /\ Move(g, from, to)
        /\ from \in {"readIndex", "bump"} <=> to \in {"readIndex", "bump"}
        /\ to = "peek" => Release(g)
  BY DEF ReadTail, ReadIndex, Clear, Fetch, Write, Release, Holding
<1>2. CurrentIndex' = CurrentIndex
  BY DEF ReadTail, ReadIndex, Clear, Fetch, Write, Release, shared
<1>3. /\ from \notin Unlinked /\ to \notin Unlinked /\ from # "linkItem" /\ to # "linkItem"
      /\ to \in Claiming \cup Holding
  BY DEF Unlinked, Claiming, Holding
<1>4. /\ pc[g] = from /\ pc'[g] = to
      /\ \A h \in Items : h # g => pc[h] \in Yielding /\ pc'[h] = pc[h]
  BY <1>1, Alone
<1>5. \A i \in Items : Listed(i)' <=> Listed(i)
  BY <1>1, <1>2, <1>3, ListedStays
<1>6. /\ link \in [Nodes -> Items \cup {Nil}] /\ ptr[g] \in Items
      /\ tmp \in [Items -> Int]
      /\ pc[g] = "clear" => CurrentIndex = ptr[g] + 1
  BY <1>4 DEF RefInv, CoopInv, TypeInv, TypeOK, LocalsOK, Handoff, Holding
<1>7. Walker(g)
  BY DEF ListInv
<1>8. \A n \in Nodes : At(n) => link'[n] = link[n]
  <2>1. CASE Clear(g)
    <3>1. link' = [link EXCEPT ![ptr[g]] = Nil] /\ CurrentIndex = ptr[g] + 1
      BY <2>1, <1>6 DEF Clear, Move
    <3>2. ~At(ptr[g])
      BY <3>1, <1>6, NodesAre DEF At, Listed
    <3> QED
      BY <3>1, <3>2, <1>6
  <2>2. CASE ReadTail(g) \/ ReadIndex(g) \/ Fetch(g) \/ Write(g) \/ Release(g)
    BY <2>2 DEF ReadTail, ReadIndex, Fetch, Write, Release, shared
  <2> QED
    BY <2>1, <2>2
<1>9. Walker(g)'
  <2>1. CASE ReadTail(g)
    <3>1. /\ pc[g] = "readTail" /\ pc'[g] = "unlink" /\ ptr' = ptr /\ link' = link
          /\ tmp'[g] = link[ptr[g]]
      BY <1>6, <2>1 DEF ReadTail, Move, shared, RefInv, CoopInv, TypeInv, TypeOK
    <3> QED
      BY <1>7, <3>1 DEF Walker
  <2>2. CASE ReadIndex(g) \/ Clear(g) \/ Fetch(g) \/ Write(g) \/ Release(g)
    <3>1. pc'[g] \in {"bump", "fetch", "write", "release", "peek"}
      BY <2>2 DEF ReadIndex, Clear, Fetch, Write, Release, Move, RefInv, CoopInv, TypeInv, TypeOK
    <3> QED
      BY <3>1 DEF Walker
  <2> QED
    BY <2>1, <2>2
<1>10. Held'
  <2>1. CASE Release(g)
    BY <2>1 DEF Release, Held
  <2>2. CASE ReadTail(g) \/ ReadIndex(g) \/ Clear(g) \/ Fetch(g) \/ Write(g)
    <3>1. handleQueues' = handleQueues
      BY <2>2 DEF ReadTail, ReadIndex, Clear, Fetch, Write, shared
    <3>2. to \in Holding
      <4>1. pc'[g] # "peek"
        BY <2>2 DEF ReadTail, ReadIndex, Clear, Fetch, Write, Move, RefInv, CoopInv, TypeInv, TypeOK
      <4> QED
        BY <4>1, <1>1, <1>4
    <3> QED
      BY <1>1, <3>1, <3>2, HeldStays
  <2> QED
    BY <2>1, <2>2
<1>11. Awake'
  BY <1>1, <1>2, <1>3, <1>5, AwakeStays
<1>12. Chained' /\ Passed' /\ \A h \in Items : Walker(h)'
  BY <1>1, <1>2, <1>3, <1>5, <1>8, <1>9, ListStays
<1> QED
  BY <1>10, <1>11, <1>12 DEF ListInv


\* Taking the first item off the list, and counting it, leave the others listed.
LEMMA UnlinkStep ==
  ASSUME ~Preemptible, RefInv, ListInv, NEW g \in Items, Unlink(g)
  PROVE  ListInv'
<1>1. Move(g, "unlink", "readIndex")
  BY DEF Unlink
<1>2. /\ pc[g] = "unlink" /\ pc'[g] = "readIndex"
      /\ \A h \in Items : h # g => pc[h] \in Yielding /\ pc'[h] = pc[h]
  BY <1>1, Alone
<1>3. /\ link' = [link EXCEPT ![Header] = tmp[g]] /\ CurrentIndex' = CurrentIndex
      /\ handleQueues' = handleQueues /\ link \in [Nodes -> Items \cup {Nil}]
  BY DEF Unlink, RefInv, CoopInv, TypeInv, TypeOK
<1>4. PICK c \in Items : c = ptr[g]
  BY <1>2 DEF RefInv, CoopInv, TypeInv, LocalsOK, Holding
<1>5. CurrentIndex = c
  BY <1>2, <1>4 DEF RefInv, CoopInv, Handoff, Holding
<1>6. c = link[Header] /\ tmp[g] = link[c]
  BY <1>2, <1>4 DEF ListInv, Walker
<1>7. ~Taken /\ Taken'
  BY <1>2 DEF Taken, Yielding
<1>8. \A i \in Items : pc'[i] \in Unlinked <=> pc[i] \in Unlinked
  BY <1>2 DEF Unlinked
<1>9. \A i \in Items : Listed(i)' <=> Listed(i) /\ i > c
  BY <1>3, <1>5, <1>7, <1>8, NodesAre DEF Listed
<1>10. \A n \in Nodes : At(n) => Behind(n, link[n])
  BY <1>1, LinkIs
<1>11. Header \in Nodes /\ c \in Nodes /\ c # Nil /\ c \in Int /\ c > Header
  BY NodesAre
<1>12. Behind(Header, c)
  BY <1>6, <1>10, <1>11 DEF At
<1>13. At(c)
  BY <1>11, <1>12 DEF Behind, At
<1>14. PICK x : x = link[c]
  OBVIOUS
<1>15. Behind(c, x)
  BY <1>10, <1>11, <1>13, <1>14
<1>16. link'[Header] = x
  BY <1>3, <1>6, <1>11, <1>14
<1>17. Chained'
  <2> SUFFICES ASSUME NEW n \in Nodes, At(n)' PROVE Behind(n, link[n])'
    BY DEF Chained
  <2>1. CASE n = Header
    <3>1. x # Nil => x \in Items /\ Listed(x)' /\ x > Header
      BY <1>9, <1>11, <1>15, NodesAre DEF Behind
    <3>2. ASSUME NEW i \in Items, Listed(i)' PROVE x # Nil /\ x <= i
      BY <1>9, <1>15, <3>2 DEF Behind
    <3>3. Behind(Header, x)'
      BY <3>1, <3>2 DEF Behind
    <3> QED
      BY <1>16, <2>1, <3>3 DEF Behind
  <2>2. CASE n # Header
    <3>1. n \in Items /\ Listed(n) /\ n > c
      BY <1>9, <2>2 DEF At
    <3>2. PICK y : y = link[n]
      OBVIOUS
    <3>3. Behind(n, y)
      BY <1>10, <3>1, <3>2 DEF At
    <3>4. ASSUME y # Nil PROVE y \in Items /\ Listed(y)' /\ y > n
      <4>1. y \in Items /\ Listed(y) /\ y > n
        BY <3>3, <3>4 DEF Behind
      <4>2. y > c
        BY <1>11, <3>1, <4>1, NodesAre
      <4> QED
        BY <1>9, <4>1, <4>2
    <3>5. ASSUME NEW i \in Items, Listed(i)', i > n PROVE y # Nil /\ y <= i
      BY <1>9, <3>3, <3>5 DEF Behind
    <3>6. Behind(n, y)'
      BY <3>4, <3>5 DEF Behind
    <3>7. link'[n] = y
      BY <1>3, <2>2, <3>2
    <3> QED
      BY <3>6, <3>7 DEF Behind
  <2> QED
    BY <2>1, <2>2
<1>18. Passed'
  BY <1>3, <1>8 DEF ListInv, Passed
<1>19. \A h \in Items : Walker(h)'
  <2>1. Walker(g)'
    BY <1>2 DEF Walker
  <2> QED
    BY <1>2, <2>1, OthersWalk
<1>20. Held'
  BY <1>1, <1>3, HeldStays DEF Holding
<1>21. Awake'
  BY <1>2 DEF Awake, Holding
<1> QED
  BY <1>17, <1>18, <1>19, <1>20, <1>21 DEF ListInv

LEMMA BumpStep ==
  ASSUME ~Preemptible, RefInv, ListInv, NEW g \in Items, Bump(g)
  PROVE  ListInv'
<1>1. Move(g, "bump", "clear")
  BY DEF Bump
<1>2. /\ pc[g] = "bump" /\ pc'[g] = "clear"
      /\ \A h \in Items : h # g => pc[h] \in Yielding /\ pc'[h] = pc[h]
  BY <1>1, Alone
<1>3. /\ link' = link /\ handleQueues' = handleQueues
      /\ CurrentIndex' = CurrentIndex + 1 /\ CurrentIndex \in Int
  BY <1>2 DEF Bump, RefInv, CoopInv, TypeInv, TypeOK, Handoff
<1>4. ptr[g] = CurrentIndex
  BY <1>2 DEF RefInv, CoopInv, Handoff, Holding
<1>5. ptr[g] \in Items => pc[ptr[g]] \notin Unlinked
  BY <1>2 DEF RefInv, PointersLinked, Linked, Holding
<1>6. Taken /\ ~Taken'
  BY <1>2 DEF Taken, Yielding
<1>7. \A i \in Items : pc'[i] \in Unlinked <=> pc[i] \in Unlinked
  BY <1>2 DEF Unlinked
<1>8. \A i \in Items : Listed(i)' <=> Listed(i)
  BY <1>3, <1>6, <1>7, NodesAre DEF Listed
<1>9. /\ \A n : At(n)' <=> At(n)
      /\ \A n, x : Behind(n, x)' <=> Behind(n, x)
  BY <1>8, SameList
<1>10. Chained'
  <2> SUFFICES ASSUME NEW n \in Nodes, At(n)' PROVE Behind(n, link[n])'
    BY DEF Chained
  <2>1. PICK x : x = link[n]
    OBVIOUS
  <2>2. At(n)
    BY <1>9
  <2>3. Behind(n, x)
    BY <1>1, <2>1, <2>2, LinkIs
  <2>4. Behind(n, x)' /\ link'[n] = x
    BY <1>3, <1>9, <2>1, <2>3
  <2> QED
    BY <2>4 DEF Behind
<1>11. Passed'
  <2> SUFFICES ASSUME NEW i \in Items, i < CurrentIndex + 1 PROVE pc'[i] \notin Unlinked
    BY <1>3 DEF Passed
  <2>1. i < CurrentIndex \/ i = CurrentIndex
    BY <1>3, NodesAre
  <2> QED
    BY <1>4, <1>5, <1>7, <2>1 DEF ListInv, Passed
<1>12. \A h \in Items : Walker(h)'
  <2>1. Walker(g)'
    BY <1>2 DEF Walker
  <2> QED
    BY <1>2, <2>1, OthersWalk
<1>13. Held'
  BY <1>1, <1>3, HeldStays DEF Holding
<1>14. Awake'
  BY <1>2 DEF Awake, Holding
<1> QED
  BY <1>10, <1>11, <1>12, <1>13, <1>14 DEF ListInv

\* The two stores that put the new item between its neighbours.
LEMMA LinkPrevStep ==
  ASSUME ~Preemptible, RefInv, ListInv, NEW g \in Items, LinkPrev(g)
  PROVE  ListInv'
<1>1. Move(g, "linkPrev", "linkItem")
  BY DEF LinkPrev
<1>2. /\ pc[g] = "linkPrev" /\ pc'[g] = "linkItem"
      /\ \A h \in Items : h # g => pc[h] \in Yielding /\ pc'[h] = pc[h]
  BY <1>1, Alone
<1>3. /\ link' = [link EXCEPT ![findPrev[g]] = g] /\ CurrentIndex' = CurrentIndex
      /\ handleQueues' = handleQueues /\ findPrev' = findPrev /\ ptr' = ptr
      /\ link \in [Nodes -> Items \cup {Nil}]
  BY DEF LinkPrev, locals, RefInv, CoopInv, TypeInv, TypeOK
<1>4. \A i \in Items : Listed(i)' <=> Listed(i)
  BY <1>1, <1>3, ListedStays DEF Unlinked
<1>5. /\ \A n : At(n)' <=> At(n)
      /\ \A n, x : Behind(n, x)' <=> Behind(n, x)
  BY <1>4, SameList
<1>6. PICK p : p = findPrev[g]
  OBVIOUS
<1>7. PICK x : x = ptr[g]
  OBVIOUS
<1>8. At(p) /\ p < g /\ (x = Nil \/ x > g) /\ Behind(p, x)
  BY <1>2, <1>6, <1>7 DEF ListInv, Walker
<1>9. p \in Nodes
  BY <1>8, NodesAre DEF At
<1>10. Chained'
  <2> SUFFICES ASSUME NEW n \in Nodes, At(n)', n # p PROVE Behind(n, link[n])'
    BY <1>2, <1>3, <1>6 DEF Chained
  <2>1. PICK y : y = link[n]
    OBVIOUS
  <2>2. At(n)
    BY <1>5
  <2>3. Behind(n, y)
    BY <1>1, <2>1, <2>2, LinkIs
  <2>4. Behind(n, y)' /\ link'[n] = y
    BY <1>3, <1>5, <1>6, <2>1, <2>3
  <2> QED
    BY <2>4 DEF Behind
<1>11. Passed'
  BY <1>2, <1>3 DEF ListInv, Passed, Unlinked
<1>12. \A h \in Items : Walker(h)'
  <2>1. At(p)' /\ Behind(p, x)'
    BY <1>5, <1>8
  <2>2. link'[p] = g /\ findPrev'[g] = p /\ ptr'[g] = x
    BY <1>3, <1>6, <1>7, <1>9
  <2>3. Walker(g)'
    BY <1>2, <1>8, <2>1, <2>2 DEF Walker
  <2> QED
    BY <1>2, <2>3, OthersWalk
<1>13. Held'
  BY <1>1, <1>3, HeldStays DEF Holding
<1>14. Awake'
  BY <1>1, <1>3, <1>4, AwakeStays DEF Claiming, Holding
<1> QED
  BY <1>10, <1>11, <1>12, <1>13, <1>14 DEF ListInv

LEMMA LinkItemStep ==
  ASSUME ~Preemptible, RefInv, ListInv, NEW g \in Items, LinkItem(g)
  PROVE  ListInv'
<1>1. Move(g, "linkItem", "peek")
  BY DEF LinkItem
<1>2. /\ pc[g] = "linkItem" /\ pc'[g] = "peek"
      /\ \A h \in Items : h # g => pc[h] \in Yielding /\ pc'[h] = pc[h]
  BY <1>1, Alone
<1>3. /\ link' = [link EXCEPT ![g] = ptr[g]] /\ CurrentIndex' = CurrentIndex
      /\ handleQueues' = handleQueues /\ CurrentIndex \in Int
      /\ link \in [Nodes -> Items \cup {Nil}]
  BY DEF LinkItem, RefInv, CoopInv, TypeInv, TypeOK
<1>4. ~Taken /\ ~Taken'
  BY <1>2 DEF Taken, Yielding
<1>5. \A i \in Items : i # g => (pc'[i] \in Unlinked <=> pc[i] \in Unlinked)
  BY <1>2
<1>6. g >= CurrentIndex /\ ~Listed(g) /\ Listed(g)'
  <2>1. pc[g] \in Unlinked /\ pc'[g] \notin Unlinked
    BY <1>2 DEF Unlinked
  <2>2. g >= CurrentIndex
    BY <1>3, <2>1, NodesAre DEF ListInv, Passed
  <2> QED
    BY <1>3, <1>4, <2>1, <2>2 DEF Listed
<1>7. \A i \in Items : i # g => (Listed(i)' <=> Listed(i))
  BY <1>3, <1>4, <1>5 DEF Listed
<1>8. PICK q : q = findPrev[g]
  OBVIOUS
<1>9. PICK x : x = ptr[g]
  OBVIOUS
<1>10. At(q) /\ q < g /\ (x = Nil \/ x > g) /\ Behind(q, x) /\ link[q] = g
  BY <1>2, <1>8, <1>9 DEF ListInv, Walker
<1>11. q \in Nodes /\ q \in Int /\ g \in Nodes /\ g \in Int /\ g # Nil /\ g > Header /\ Header \in Int
  BY <1>10, NodesAre DEF At, Header
<1>12. \A i \in Items : Listed(i) => i \in Int /\ i # g
  BY <1>6, NodesAre
<1>13. Chained'
  <2> SUFFICES ASSUME NEW n \in Nodes, At(n)' PROVE Behind(n, link[n])'
    BY DEF Chained
  <2>1. CASE n = g
    <3>1. x # Nil => x \in Items /\ Listed(x)' /\ x > g
      BY <1>7, <1>10, <1>12 DEF Behind
    <3>2. ASSUME NEW i \in Items, Listed(i)', i > g PROVE x # Nil /\ x <= i
      <4>1. i \in Int
        BY NodesAre
      <4>2. i # g /\ Listed(i) /\ i > q
        BY <1>7, <1>10, <1>11, <3>2, <4>1
      <4> QED
        BY <1>10, <4>2 DEF Behind
    <3>3. Behind(g, x)'
      BY <3>1, <3>2 DEF Behind
    <3>4. link'[g] = x
      BY <1>3, <1>9, <1>11
    <3> QED
      BY <2>1, <3>3, <3>4 DEF Behind
  <2>2. CASE n = q
    <3>1. ASSUME NEW i \in Items, Listed(i)', i > q PROVE g <= i
      <4>1. CASE i = g
        BY <4>1, <1>11
      <4>2. CASE i # g
        <5>1. Listed(i) /\ i \in Int
          BY <1>7, <3>1, <4>2, NodesAre
        <5>2. x \in Items /\ x <= i
          BY <1>10, <3>1, <5>1 DEF Behind
        <5>3. x \in Int /\ x > g
          BY <1>10, <5>2, NodesAre
        <5> QED
          BY <1>11, <5>1, <5>2, <5>3
      <4> QED
        BY <4>1, <4>2
    <3>2. Behind(q, g)'
      BY <1>6, <1>10, <1>11, <3>1 DEF Behind
    <3>3. link'[q] = g
      BY <1>3, <1>10, <1>11
    <3> QED
      BY <2>2, <3>2, <3>3 DEF Behind
  <2>3. CASE n # g /\ n # q
    <3>1. At(n) /\ n \in Int
      BY <1>7, <2>3, NodesAre DEF At, Header
    <3>2. PICK y : y = link[n]
      OBVIOUS
    <3>3. Behind(n, y)
      <4>1. \A h \in Items : pc[h] = "linkItem" => h = g
        BY <1>2 DEF Yielding
      <4> QED
        BY <1>8, <2>3, <3>1, <3>2, <4>1 DEF ListInv, Chained
    <3>4. n < g => y # Nil /\ y <= g
      <4> SUFFICES ASSUME n < g PROVE y # Nil /\ y <= g
        OBVIOUS
      <4>1. CASE n < q
        <5>1. q \in Items /\ Listed(q)
          BY <1>10, <1>11, <3>1, <4>1, NodesAre DEF At
        <5>2. y # Nil /\ y <= q
          BY <3>3, <4>1, <5>1 DEF Behind
        <5>3. y \in Items
          BY <3>3, <5>2 DEF Behind
        <5> QED
          BY <1>10, <1>11, <5>2, <5>3, NodesAre
      <4>2. CASE q < n
        <5>1. n \in Items /\ Listed(n)
          BY <1>10, <1>11, <3>1, <4>2, NodesAre DEF At
        <5>2. x # Nil /\ x <= n /\ x \in Items
          BY <1>10, <4>2, <5>1 DEF Behind
        <5> QED
          BY <1>10, <1>11, <3>1, <5>2, NodesAre
      <4> QED
        BY <1>11, <2>3, <3>1, <4>1, <4>2
    <3>5. y # Nil => y \in Items /\ Listed(y)' /\ y > n
      BY <1>7, <1>12, <3>3 DEF Behind
    <3>6. ASSUME NEW i \in Items, Listed(i)', i > n PROVE y # Nil /\ y <= i
      BY <1>7, <3>3, <3>4, <3>6 DEF Behind
    <3>7. Behind(n, y)'
      BY <3>5, <3>6 DEF Behind
    <3>8. link'[n] = y
      BY <1>3, <2>3, <3>2
    <3> QED
      BY <3>7, <3>8 DEF Behind
  <2> QED
    BY <2>1, <2>2, <2>3
<1>14. Passed'
  BY <1>2, <1>3, <1>5 DEF ListInv, Passed, Unlinked
<1>15. \A h \in Items : Walker(h)'
  <2>1. Walker(g)'
    BY <1>2 DEF Walker
  <2> QED
    BY <1>2, <2>1, OthersWalk
<1>16. Held'
  BY <1>1, <1>3, HeldStays DEF Holding
<1>17. Awake'
  BY <1>2 DEF Awake, Claiming
<1> QED
  BY <1>13, <1>14, <1>15, <1>16, <1>17 DEF ListInv


LEMMA ListStep == ~Preemptible /\ RefInv /\ ListInv /\ [Next]_vars => ListInv'
<1> SUFFICES ASSUME ~Preemptible, RefInv, ListInv, [Next]_vars PROVE ListInv'
  OBVIOUS
<1>1. CASE UNCHANGED vars
  <2>1. UNCHANGED <<link, CurrentIndex, handleQueues, pc, findPrev, ptr, tmp>>
    BY <1>1 DEF vars, shared, locals
  <2>2. Taken' <=> Taken
    BY <2>1 DEF Taken
  <2>3. \A i \in Items : Listed(i)' <=> Listed(i)
    BY <2>1, <2>2 DEF Listed
  <2>4. /\ \A n : At(n)' <=> At(n)
        /\ \A n, x : Behind(n, x)' <=> Behind(n, x)
    BY <2>3, SameList
  <2>5. Chained'
    <3> SUFFICES ASSUME NEW n \in Nodes, At(n)'
                 PROVE  \/ Behind(n, link[n])'
                        \/ \E g \in Items : pc'[g] = "linkItem" /\ findPrev'[g] = n
      BY DEF Chained
    <3>1. PICK x : x = link[n]
      OBVIOUS
    <3>2. \/ Behind(n, x)
          \/ \E g \in Items : pc[g] = "linkItem" /\ findPrev[g] = n
      BY <2>4, <3>1 DEF ListInv, Chained
    <3>3. Behind(n, x) => Behind(n, x)' /\ link'[n] = x
      BY <2>1, <2>4, <3>1
    <3> QED
      BY <2>1, <3>2, <3>3 DEF Behind
  <2>6. ASSUME NEW h \in Items PROVE Walker(h)'
    <3>1. PICK p, x : p = findPrev[h] /\ x = ptr[h]
      OBVIOUS
    <3>2. /\ At(p)' <=> At(p)
          /\ Behind(p, x)' <=> Behind(p, x)
          /\ p = findPrev'[h] /\ x = ptr'[h]
      BY <2>1, <2>4, <3>1
    <3>3. Walker(h)
      BY DEF ListInv
    <3> QED
      BY <2>1, <3>1, <3>2, <3>3 DEF Walker
  <2>7. Passed' /\ Held' /\ Awake'
    BY <2>1, <2>3 DEF ListInv, Passed, Held, Awake
  <2> QED
    BY <2>5, <2>6, <2>7 DEF ListInv
<1>2. ASSUME NEW g \in Items, AddItem(g) \/ Run(g) PROVE ListInv'
  <2>1. ~Panic(g)
    BY DEF Panic, DereferencesNil, RefInv, CoopInv, Cursor, Handoff, TypeInv, LocalsOK, Holding, Items, Nil
  <2>2. \/ AddItem(g) \/ Walk(g) \/ Compare(g) \/ Advance(g) \/ Splice(g)
        \/ LinkPrev(g)
        \/ LinkItem(g)
        \/ Peek(g) \/ CheckIndex(g) \/ CheckBusy(g) \/ Claim(g)
        \/ ReadTail(g) \/ ReadIndex(g) \/ Clear(g) \/ Fetch(g) \/ Write(g) \/ Release(g)
        \/ Unlink(g)
        \/ Bump(g)
    BY <1>2, <2>1 DEF Run
  <2>3. CASE AddItem(g) \/ Walk(g) \/ Compare(g) \/ Advance(g) \/ Splice(g)
    BY <2>3, SearchStep
  <2>4. CASE LinkPrev(g)
    BY <2>4, LinkPrevStep
  <2>5. CASE LinkItem(g)
    BY <2>5, LinkItemStep
  <2>6. CASE Peek(g) \/ CheckIndex(g) \/ CheckBusy(g) \/ Claim(g)
    BY <2>6, ClaimStep
  <2>7. CASE ReadTail(g) \/ ReadIndex(g) \/ Clear(g) \/ Fetch(g) \/ Write(g) \/ Release(g)
    BY <2>7, HoldStep
  <2>8. CASE Unlink(g)
    BY <2>8, UnlinkStep
  <2>9. CASE Bump(g)
    BY <2>9, BumpStep
  <2> QED
    BY <2>2, <2>3, <2>4, <2>5, <2>6, <2>7, <2>8, <2>9
<1> QED
  BY <1>1, <1>2 DEF Next

\* When nobody runs, the first item still on the list is not the one that is
\* due, so whatever is due has been counted, and with no claim it was written.
LEMMA NothingWaits == RefInv /\ ListInv => NothingStranded
<1> SUFFICES ASSUME RefInv, ListInv, Quiescent, NEW k \in Items, Due(k)
             PROVE  \E j \in 1..Len(handled) : handled[j] = k
  BY DEF NothingStranded
<1>1. \A g \in Items : pc[g] \notin Claiming \cup Holding /\ pc[g] \notin {"readIndex", "bump"}
  BY DEF Quiescent, Claiming, Holding
<1>2. CurrentIndex = Len(handled) + 1
  BY <1>1 DEF ListInv, Held, RefInv, CoopInv, Unclaimed
<1>3. \A i \in Items : i = CurrentIndex => ~Listed(i)
  BY <1>1 DEF ListInv, Awake
<1>4. handled \in Seq(Items) /\ CurrentIndex \in Int /\ k \in Int /\ N \in Int /\ k >= 1 /\ k <= N
  BY NAssumption DEF RefInv, CoopInv, TypeInv, TypeOK, Items
<1>5. Len(handled) \in Nat
  BY <1>4
<1>6. k < CurrentIndex
  <2> SUFFICES ASSUME CurrentIndex <= k PROVE FALSE
    BY <1>4
  <2>1. CurrentIndex \in Items /\ CurrentIndex \in 1..k
    BY <1>2, <1>4, <1>5 DEF Items
  <2>2. Listed(CurrentIndex)
    BY <1>1, <1>4, <2>1 DEF Due, Listed, Taken
  <2> QED
    BY <1>3, <2>1, <2>2
<1>7. k \in 1..Len(handled)
  BY <1>2, <1>4, <1>5, <1>6
<1>8. handled[k] = k
  BY <1>7 DEF RefInv, CoopInv, InOrder
<1> QED
  BY <1>7, <1>8

\* With one processor a quiet queue has written everything that is due: an
\* insertion is never lost and a goroutine that gives up leaves nobody waiting.
THEOREM NothingIsStranded == ~Preemptible => (Spec => []NothingStranded)
<1> SUFFICES ASSUME ~Preemptible PROVE Spec => []NothingStranded
  OBVIOUS
<1>1. RefInv /\ ListInv /\ [Next]_vars => RefInv' /\ ListInv'
  BY RefStep, ListStep
<1>2. RefInv /\ ListInv => NothingStranded
  BY NothingWaits
<1> QED
  BY <1>1, <1>2, RefInit, ListInit, PTL DEF Spec

\* With one processor AddItem, ContinueHandle and HandleQueue never follow a
\* nil pointer: the recording goroutine cannot bring the gateway down.
THEOREM NeverPanics == ~Preemptible => (Spec => []NoPanic)
<1> SUFFICES ASSUME ~Preemptible PROVE Spec => []NoPanic
  OBVIOUS
<1>1. CoopInv /\ [Next]_vars => CoopInv'
  BY CoopStep
<1>2. CoopInv => NoPanic
  BY DEF CoopInv
<1> QED
  BY <1>1, <1>2, CoopInit, PTL DEF Spec
-----------------------------------------------------------------------------
(* Any number of processors: the shape of the list.                        *)

\* Following Next leads out of every set of nodes: the list has an end from wherever
\* a walk stands, also while nodes are being spliced in and taken off.
NoCycle == \A S \in SUBSET Nodes : S # {} => \E n \in S : link[n] \notin S

\* Before its first SetNext an item is known to its own goroutine only.
Fresh(g) == pc[g] \in Unlinked \ {"linkItem"}
Unknown ==
  \A g \in Items : Fresh(g) =>
    /\ link[g] = Nil /\ handleQueues # g
    /\ \A n \in Nodes : link[n] # g
    /\ \A h \in Items : findPrev[h] # g /\ ptr[h] # g /\ (pc[h] = "unlink" => tmp[h] # g)

\* The nodes can be numbered so that every link leads to a smaller number, the ones that
\* are still to be stored included, and the header has the largest.
Descends(rank) ==
  /\ \A n \in Items : rank[n] < rank[Header]
  /\ \A n \in Nodes : link[n] # Nil => rank[link[n]] < rank[n]
  /\ \A g \in Items :
       /\ pc[g] = "linkPrev" /\ ptr[g] # Nil => rank[ptr[g]] < rank[findPrev[g]]
       /\ pc[g] = "linkItem" /\ ptr[g] # Nil => rank[ptr[g]] < rank[g]

Ranked == \E rank \in [Nodes -> Nat] : Descends(rank)

ShapeInv == TypeInv /\ Unknown /\ Ranked

LEMMA ShapeInit == Init => ShapeInv
<1> SUFFICES ASSUME Init PROVE ShapeInv
  OBVIOUS
<1>1. TypeInv
  BY TypeInit
<1>2. Unknown
  BY NAssumption DEF Init, Unknown, Items, Nodes, Header, Nil
<1> DEFINE rank == [n \in Nodes |-> IF n = Header THEN 1 ELSE 0]
<1>3. rank \in [Nodes -> Nat] /\ Descends(rank)
  BY NAssumption DEF Init, Descends, Items, Nodes, Header, Nil
<1> QED
  BY <1>1, <1>2, <1>3 DEF ShapeInv, Ranked

\* What a goroutine comes to know it reads from where it was already known; the first
\* SetNext makes its own item known.
LEMMA UnknownStep == TypeInv /\ Unknown /\ [Next]_vars => Unknown'
<1> SUFFICES ASSUME TypeInv, Unknown, [Next]_vars PROVE Unknown'
  OBVIOUS
<1> USE NAssumption DEF TypeInv, TypeOK, LocalsOK, Items, Nodes, Header, Nil, Unknown, Fresh,
        Points, Unlinked, Claiming, Holding, shared, locals, past
<1>1. CASE UNCHANGED vars
  BY <1>1 DEF vars
<1>2. ASSUME NEW g \in Items, AddItem(g) PROVE Unknown'
  BY <1>2 DEF AddItem, Move
<1>3. ASSUME NEW g \in Items, Walk(g) PROVE Unknown'
  BY <1>3 DEF Walk, Move
<1>4. ASSUME NEW g \in Items, Compare(g) PROVE Unknown'
  BY <1>4 DEF Compare, Move
<1>5. ASSUME NEW g \in Items, Advance(g) PROVE Unknown'
  BY <1>5 DEF Advance, Move
<1>6. ASSUME NEW g \in Items, Splice(g) PROVE Unknown'
  BY <1>6 DEF Splice, Move
<1>7. ASSUME NEW g \in Items, LinkPrev(g) PROVE Unknown'
  BY <1>7 DEF LinkPrev, Move
<1>8. ASSUME NEW g \in Items, LinkItem(g) PROVE Unknown'
  BY <1>8 DEF LinkItem, Move
<1>9. ASSUME NEW g \in Items, Peek(g) PROVE Unknown'
  BY <1>9 DEF Peek, Move
<1>10. ASSUME NEW g \in Items, CheckIndex(g) PROVE Unknown'
  BY <1>10 DEF CheckIndex, Move
<1>11. ASSUME NEW g \in Items, CheckBusy(g) PROVE Unknown'
  BY <1>11 DEF CheckBusy, Move
<1>12. ASSUME NEW g \in Items, Claim(g) PROVE Unknown'
  BY <1>12 DEF Claim, Move
<1>13. ASSUME NEW g \in Items, ReadTail(g) PROVE Unknown'
  BY <1>13 DEF ReadTail, Move
<1>14. ASSUME NEW g \in Items, Unlink(g) PROVE Unknown'
  BY <1>14 DEF Unlink, Move
<1>15. ASSUME NEW g \in Items, ReadIndex(g) PROVE Unknown'
  BY <1>15 DEF ReadIndex, Move
<1>16. ASSUME NEW g \in Items, Bump(g) PROVE Unknown'
  BY <1>16 DEF Bump, Move
<1>17. ASSUME NEW g \in Items, Clear(g) PROVE Unknown'
  BY <1>17 DEF Clear, Move
<1>18. ASSUME NEW g \in Items, Fetch(g) PROVE Unknown'
  BY <1>18 DEF Fetch, Move
<1>19. ASSUME NEW g \in Items, Write(g) PROVE Unknown'
  BY <1>19 DEF Write, Move
<1>20. ASSUME NEW g \in Items, Release(g) PROVE Unknown'
  BY <1>20 DEF Release, Move
<1>21. ASSUME NEW g \in Items, Panic(g) PROVE Unknown'
  BY <1>21 DEF Panic
<1> QED
  BY <1>1, <1>2, <1>3, <1>4, <1>5, <1>6, <1>7, <1>8, <1>9, <1>10, <1>11, <1>12,
     <1>13, <1>14, <1>15, <1>16, <1>17, <1>18, <1>19, <1>20, <1>21 DEF Next, Run

\* The first SetNext: the item gets a number between its predecessor's and its successor's.
LEMMA InsertRanked ==
  ASSUME ShapeInv, NEW g \in Items, LinkPrev(g)
  PROVE  Ranked'
<1>1. /\ link \in [Nodes -> Items \cup {Nil}] /\ pc \in [Items -> Points]
      /\ findPrev \in [Items -> Nodes \cup {Nil}] /\ ptr \in [Items -> Items \cup {Nil}]
      /\ \A h \in Items : pc[h] = "linkPrev" => findPrev[h] \in Nodes
  BY DEF ShapeInv, TypeInv, TypeOK, LocalsOK
<1>2. Items \subseteq Nodes /\ Header \in Nodes /\ Header \notin Items /\ Nil \notin Nodes
  BY NAssumption DEF Items, Nodes, Header, Nil
<1>3. PICK rank \in [Nodes -> Nat] : Descends(rank)
  BY DEF ShapeInv, Ranked
<1>4. PICK p \in Nodes : p = findPrev[g]
  BY <1>1 DEF LinkPrev, Move
<1> DEFINE between == [n \in Nodes |-> IF n = g THEN rank[p]
                                       ELSE IF rank[n] < rank[p] THEN rank[n] ELSE rank[n] + 1]
<1>5. /\ pc[g] = "linkPrev" /\ pc' = [pc EXCEPT ![g] = "linkItem"] /\ link' = [link EXCEPT ![p] = g]
      /\ UNCHANGED <<findPrev, ptr>> /\ findPrev[g] = p
  BY <1>1, <1>4 DEF LinkPrev, Move, locals
<1>6. /\ link[g] = Nil /\ \A n \in Nodes : link[n] # g
      /\ \A h \in Items : findPrev[h] # g /\ ptr[h] # g
  BY <1>5 DEF ShapeInv, Unknown, Fresh, Unlinked
<1>7. PICK up \in [Nodes -> Nat] : up = between
  <2>1. between \in [Nodes -> Nat]
    OBVIOUS
  <2> QED
    BY <2>1
<1>8. ASSUME NEW m \in Nodes \ {g}, NEW n \in Nodes \ {g}, rank[m] < rank[n] PROVE up[m] < up[n]
  <2>1. rank[m] \in Nat /\ rank[n] \in Nat /\ rank[p] \in Nat
    OBVIOUS
  <2>2. /\ up[m] \in Nat /\ up[n] \in Nat
        /\ up[m] = IF rank[m] < rank[p] THEN rank[m] ELSE rank[m] + 1
        /\ up[n] = IF rank[n] < rank[p] THEN rank[n] ELSE rank[n] + 1
    BY <1>7
  <2> QED
    BY <1>8, <2>1, <2>2
<1>9. \A n \in Items : up[n] < up[Header]
  <2> SUFFICES ASSUME NEW n \in Items PROVE up[n] < up[Header]
    OBVIOUS
  <2>1. /\ Header # g /\ Header \in Nodes /\ n \in Nodes /\ rank[n] < rank[Header]
        /\ p \in Items => rank[p] < rank[Header]
    <3>1. g \in Nodes /\ n \in Nodes /\ Header \in Nodes /\ Header # g
      BY <1>2
    <3>2. \A m \in Items : rank[m] < rank[Header]
      BY <1>3 DEF Descends
    <3> QED
      BY <3>1, <3>2
  <2>2. CASE n = g
    <3>1. p \in Items \/ p = Header
      BY DEF Nodes, Items, Header
    <3>2. rank[p] \in Nat /\ rank[Header] \in Nat /\ rank[p] <= rank[Header]
      BY <2>1, <3>1
    <3>3. up[g] = rank[p] /\ up[Header] = rank[Header] + 1
      BY <1>2, <1>7, <2>1, <3>2
    <3> QED
      BY <2>2, <3>2, <3>3
  <2>3. CASE n # g
    BY <1>8, <2>1, <2>3
  <2> QED
    BY <2>2, <2>3
<1>10. \A n \in Nodes : link'[n] # Nil => up[link'[n]] < up[n]
  <2> SUFFICES ASSUME NEW n \in Nodes, link'[n] # Nil PROVE up[link'[n]] < up[n]
    OBVIOUS
  <2>1. CASE n = p
    <3>1. link'[n] = g /\ p # g /\ g \in Nodes
      BY <1>1, <1>2, <1>5, <1>6, <2>1
    <3>2. rank[p] \in Nat /\ up[g] = rank[p] /\ up[p] = rank[p] + 1
      BY <1>7, <3>1
    <3> QED
      BY <2>1, <3>1, <3>2
  <2>2. CASE n # p
    <3>1. link'[n] = link[n] /\ n # g /\ link[n] \in Nodes \ {g} /\ rank[link[n]] < rank[n]
      BY <1>1, <1>2, <1>3, <1>5, <1>6, <2>2 DEF Descends
    <3> QED
      BY <1>8, <3>1
  <2> QED
    BY <2>1, <2>2
<1>11. ASSUME NEW h \in Items, ptr[h] # Nil
      PROVE  /\ pc'[h] = "linkPrev" => up[ptr[h]] < up[findPrev[h]]
             /\ pc'[h] = "linkItem" => up[ptr[h]] < up[h]
  <2>1. ptr[h] \in Nodes \ {g}
    <3>1. ptr[h] \in Items /\ ptr[h] # g
      BY <1>1, <1>6, <1>11
    <3> QED
      BY <1>2, <3>1
  <2>2. CASE h = g
    <3>1. rank[ptr[h]] < rank[p] /\ rank[ptr[h]] \in Nat /\ rank[p] \in Nat
      BY <1>3, <1>4, <1>5, <1>11, <2>1, <2>2 DEF Descends
    <3>2. up[ptr[h]] = rank[ptr[h]] /\ up[g] = rank[p]
      BY <1>2, <1>7, <2>1, <3>1
    <3> QED
      BY <1>1, <1>5, <2>2, <3>1, <3>2
  <2>3. CASE h # g
    <3>1. pc'[h] = pc[h]
      BY <1>1, <1>5, <2>3
    <3>2. CASE pc[h] = "linkPrev"
      <4>1. findPrev[h] \in Nodes \ {g} /\ rank[ptr[h]] < rank[findPrev[h]]
        BY <1>1, <1>3, <1>6, <1>11, <3>2 DEF Descends
      <4> QED
        BY <1>8, <2>1, <3>1, <3>2, <4>1
    <3>3. CASE pc[h] = "linkItem"
      <4>1. h \in Nodes \ {g} /\ rank[ptr[h]] < rank[h]
        BY <1>2, <1>3, <1>11, <2>3, <3>3 DEF Descends
      <4> QED
        BY <1>8, <2>1, <3>1, <3>3, <4>1
    <3> QED
      BY <3>1, <3>2, <3>3
  <2> QED
    BY <2>2, <2>3
<1>12. Descends(up)'
  BY <1>5, <1>9, <1>10, <1>11 DEF Descends
<1> QED
  BY <1>12 DEF Ranked

\* Every other step stores only what is smaller than where it is stored: the numbers stay.
LEMMA RankedStep == ShapeInv /\ [Next]_vars => Ranked'
<1> SUFFICES ASSUME ShapeInv, [Next]_vars, \A g \in Items : ~LinkPrev(g) PROVE Ranked'
  BY InsertRanked DEF Next, Run
<1>1. PICK rank \in [Nodes -> Nat] : Descends(rank)
  BY DEF ShapeInv, Ranked
<1>2. /\ link \in [Nodes -> Items \cup {Nil}] /\ pc \in [Items -> Points]
      /\ findPrev \in [Items -> Nodes \cup {Nil}] /\ ptr \in [Items -> Items \cup {Nil}]
      /\ tmp \in [Items -> Int]
      /\ \A h \in Items : /\ pc[h] \in {"splice", "linkPrev"} => findPrev[h] \in Nodes
                          /\ pc[h] = "unlink" => tmp[h] \in Items \cup {Nil}
      /\ Items \subseteq Nodes /\ Header \in Nodes /\ Header \notin Items /\ Nil \notin Nodes
  BY NAssumption DEF ShapeInv, TypeInv, TypeOK, LocalsOK, Items, Nodes, Header, Nil
\* A step that stores no link, and by which nobody is about to store another one.
<1>3. ASSUME UNCHANGED link,
             \A g \in Items : pc'[g] \in {"linkPrev", "linkItem"} =>
                                pc'[g] = pc[g] /\ ptr'[g] = ptr[g] /\ findPrev'[g] = findPrev[g]
      PROVE  Descends(rank)'
  BY <1>1, <1>3 DEF Descends
<1>4. ASSUME UNCHANGED vars PROVE Descends(rank)'
  BY <1>3, <1>4 DEF vars, shared, locals
<1>5. ASSUME NEW g \in Items, Splice(g) PROVE Descends(rank)'
  BY <1>1, <1>2, <1>5 DEF Splice, Move, Descends, shared
<1>6. ASSUME NEW g \in Items, LinkItem(g) PROVE Descends(rank)'
  BY <1>1, <1>2, <1>6 DEF LinkItem, Move, Descends, locals
<1>7. ASSUME NEW g \in Items, Unlink(g) PROVE Descends(rank)'
  BY <1>1, <1>2, <1>7 DEF Unlink, Move, Descends, locals
<1>8. ASSUME NEW g \in Items, Clear(g) PROVE Descends(rank)'
  BY <1>1, <1>2, <1>8 DEF Clear, Move, Descends, locals
<1>9. ASSUME NEW g \in Items, AddItem(g) PROVE Descends(rank)'
  BY <1>2, <1>3, <1>9 DEF AddItem, Move, shared, locals
<1>10. ASSUME NEW g \in Items, Walk(g) PROVE Descends(rank)'
  BY <1>2, <1>3, <1>10 DEF Walk, Move, shared, locals
<1>11. ASSUME NEW g \in Items, Compare(g) PROVE Descends(rank)'
  BY <1>2, <1>3, <1>11 DEF Compare, Move, shared, locals
<1>12. ASSUME NEW g \in Items, Advance(g) PROVE Descends(rank)'
  BY <1>2, <1>3, <1>12 DEF Advance, Move, shared, locals
<1>13. ASSUME NEW g \in Items, Peek(g) PROVE Descends(rank)'
  BY <1>2, <1>3, <1>13 DEF Peek, Move, shared, locals
<1>14. ASSUME NEW g \in Items, CheckIndex(g) PROVE Descends(rank)'
  BY <1>2, <1>3, <1>14 DEF CheckIndex, Move, shared, locals
<1>15. ASSUME NEW g \in Items, CheckBusy(g) PROVE Descends(rank)'
  BY <1>2, <1>3, <1>15 DEF CheckBusy, Move, shared, locals
<1>16. ASSUME NEW g \in Items, Claim(g) PROVE Descends(rank)'
  BY <1>2, <1>3, <1>16 DEF Claim, Move, shared, locals
<1>17. ASSUME NEW g \in Items, ReadTail(g) PROVE Descends(rank)'
  BY <1>2, <1>3, <1>17 DEF ReadTail, Move, shared, locals
<1>18. ASSUME NEW g \in Items, ReadIndex(g) PROVE Descends(rank)'
  BY <1>2, <1>3, <1>18 DEF ReadIndex, Move, shared, locals
<1>19. ASSUME NEW g \in Items, Bump(g) PROVE Descends(rank)'
  BY <1>2, <1>3, <1>19 DEF Bump, Move, shared, locals
<1>20. ASSUME NEW g \in Items, Fetch(g) PROVE Descends(rank)'
  BY <1>2, <1>3, <1>20 DEF Fetch, Move, shared, locals
<1>21. ASSUME NEW g \in Items, Write(g) PROVE Descends(rank)'
  BY <1>2, <1>3, <1>21 DEF Write, Move, shared, locals
<1>22. ASSUME NEW g \in Items, Release(g) PROVE Descends(rank)'
  BY <1>2, <1>3, <1>22 DEF Release, Move, shared, locals
<1>23. ASSUME NEW g \in Items, Panic(g) PROVE Descends(rank)'
  BY <1>2, <1>3, <1>23 DEF Panic, shared, locals
<1>24. Descends(rank)'
  BY <1>4, <1>5, <1>6, <1>7, <1>8, <1>9, <1>10, <1>11, <1>12, <1>13, <1>14,
     <1>15, <1>16, <1>17, <1>18, <1>19, <1>20, <1>21, <1>22, <1>23 DEF Next, Run
<1> QED
  BY <1>24 DEF Ranked

\* A set that no link leaves would have no node of the least number.
LEMMA RankedNoCycle == ShapeInv => NoCycle
<1> SUFFICES ASSUME ShapeInv, NEW S \in SUBSET Nodes, S # {}, \A n \in S : link[n] \in S PROVE FALSE
  BY DEF NoCycle
<1>1. PICK rank \in [Nodes -> Nat] : Descends(rank)
  BY DEF ShapeInv, Ranked
<1> DEFINE R == {rank[n] : n \in S}
<1>2. R \subseteq Nat /\ R # {}
  OBVIOUS
<1>3. PICK m \in R : \A k \in R : ~(<<k, m>> \in OpToRel(<, Nat))
  BY <1>2, NatLessThanWellFounded, WFMin
<1>4. PICK n \in S : m = rank[n]
  OBVIOUS
<1>5. link[n] \in S /\ n \in Nodes /\ link[n] \in Nodes
  OBVIOUS
<1>6. link[n] # Nil
  BY <1>5, NAssumption DEF Nodes, Nil
<1>7. rank[link[n]] < rank[n] /\ rank[link[n]] \in R
  BY <1>1, <1>5, <1>6 DEF Descends
<1>8. rank[link[n]] \in Nat /\ rank[n] \in Nat
  BY <1>5
<1> QED
  BY <1>3, <1>4, <1>7, <1>8 DEF OpToRel

\* However many goroutines splice and unlink at once, on however many processors, the list
\* never closes on itself: a walk of AddItem always has an end to come to.
THEOREM NeverCyclic == Spec => []NoCycle
<1>1. ShapeInv /\ [Next]_vars => ShapeInv'
  BY TypeStep, UnknownStep, RankedStep DEF ShapeInv
<1>2. ShapeInv => NoCycle
  BY RankedNoCycle
<1> QED
  BY <1>1, <1>2, ShapeInit, PTL DEF Spec
=============================================================================
