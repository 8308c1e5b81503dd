----------------------------- MODULE WriteQueue -----------------------------
(***************************************************************************)
(* getwayServer/WriteQueue.go: the queue that puts the recorded chunks of  *)
(* one connection back into the order in which they were read.             *)
(*                                                                         *)
(* Every chunk is brought by a goroutine of its own (startRecording ends   *)
(* with `go ... AddItem(...)`), so the goroutine, its list node and the    *)
(* node's Index are all named by the same number: IncreaseGetIndex hands   *)
(* out each Index once.  Node 0 is the list header, whose Index is 0.      *)
(*                                                                         *)
(* One action per access to shared memory.  The list has no lock: only a   *)
(* single SetNext, and a single CurrentIndex Get or Set, is atomic.  The   *)
(* interleaving semantics is sequentially consistent, the weakest reading  *)
(* of the data races that still gives every access a meaning.              *)
(*                                                                         *)
(* Preemptible says how the goroutines share the processor:                *)
(*   TRUE   any goroutine may run at any time (GOMAXPROCS > 1);            *)
(*   FALSE  one processor, left only where a call can block: before        *)
(*          AddItem starts, inside HookWrite, and in the log call after it *)
(*          (GOMAXPROCS = 1, list operations shorter than a quantum).      *)
(***************************************************************************)
EXTENDS Integers, Sequences, FiniteSets

CONSTANTS
  N,                    \* number of chunks, hence of goroutines
  Preemptible

ASSUME NAssumption == N \in Nat \ {0}
ASSUME PreemptibleAssumption == Preemptible \in BOOLEAN

Items  == 1..N
Header == 0
Nodes  == 0..N
Nil    == -1

VARIABLES
  link,                 \* QueueItem.Next of every node
  CurrentIndex,         \* WriteQueue.CurrentIndex
  handleQueues,         \* WriteQueue.handleQueues
  pc,                   \* where each goroutine is
  findPrev,             \* its local findPrev (AddItem)
  ptr,                  \* its local next (AddItem, ContinueHandle), then item (HandleQueue)
  tmp,                  \* operand read but not yet stored (lines 80 and 81)
  handled,              \* history: items whose HookWrite has run, in that order
  failed,               \* history: those whose HookWrite returned an error
  panicked              \* a nil dereference has brought the process down

shared == <<link, CurrentIndex, handleQueues>>
locals == <<findPrev, ptr, tmp>>
past   == <<handled, failed>>
vars   == <<shared, pc, locals, past, panicked>>

-----------------------------------------------------------------------------
(* Control points, named for the access about to be made.                  *)

Unlinked == {"idle", "walk", "compare", "advance", "splice", "linkPrev", "linkItem"}
Claiming == {"peek", "checkIndex", "checkBusy", "claim"}
Holding  == {"readTail", "unlink", "readIndex", "bump", "clear", "fetch", "write", "release"}
Yielding == {"idle", "write", "release", "done"}
Points   == Unlinked \cup Claiming \cup Holding \cup {"done"}

TypeOK ==
  /\ link \in [Nodes -> Items \cup {Nil}]
  /\ CurrentIndex \in Nat
  /\ handleQueues \in Items \cup {Nil}
  /\ pc \in [Items -> Points]
  /\ findPrev \in [Items -> Nodes \cup {Nil}]
  /\ ptr \in [Items -> Items \cup {Nil}]
  /\ tmp \in [Items -> Int]
  /\ handled \in Seq(Items)
  /\ failed \subseteq Items
  /\ panicked \in BOOLEAN

\* NewWriteQueue: an empty list behind the header, CurrentIndex 1.
Init ==
  /\ link = [n \in Nodes |-> Nil]
  /\ CurrentIndex = 1
  /\ handleQueues = Nil
  /\ pc = [g \in Items |-> "idle"]
  /\ findPrev = [g \in Items |-> Header]
  /\ ptr = [g \in Items |-> Nil]
  /\ tmp = [g \in Items |-> 0]
  /\ handled = <<>>
  /\ failed = {}
  /\ panicked = FALSE

MayRun(g) == Preemptible \/ \A h \in Items \ {g} : pc[h] \in Yielding

\* The three nil dereferences: findPrev.Next (line 23), findPrev.Next.Index
\* (line 27) and item.Index (line 44).
DereferencesNil(g) ==
  \/ pc[g] = "walk"    /\ findPrev[g] = Nil
  \/ pc[g] = "compare" /\ link[findPrev[g]] = Nil
  \/ pc[g] = "fetch"   /\ handleQueues = Nil

\* Goroutine g is at `from`, has the processor, and moves to `to`.
Move(g, from, to) ==
  /\ ~panicked
  /\ pc[g] = from
  /\ MayRun(g)
  /\ ~DereferencesNil(g)
  /\ pc' = [pc EXCEPT ![g] = to]
  /\ UNCHANGED panicked

-----------------------------------------------------------------------------
(* AddItem: walk the list to the insertion point, splice the item in.      *)

AddItem(g) ==
  /\ Move(g, "idle", "walk")
  /\ findPrev' = [findPrev EXCEPT ![g] = Header]
  /\ UNCHANGED <<shared, ptr, tmp, past>>

\* Mutant: the end of the list is not noticed.
WalkPastEnd(g) ==
  /\ Move(g, "walk", "compare")
  /\ UNCHANGED <<shared, locals, past>>

Walk(g) ==
  /\ Move(g, "walk", IF link[findPrev[g]] = Nil THEN "splice" ELSE "compare")
  /\ UNCHANGED <<shared, locals, past>>

Between(g) == link[findPrev[g]] > g /\ findPrev[g] < g

Compare(g) ==
  /\ Move(g, "compare", IF Between(g) THEN "splice" ELSE "advance")
  /\ UNCHANGED <<shared, locals, past>>

Advance(g) ==
  /\ Move(g, "advance", "walk")
  /\ findPrev' = [findPrev EXCEPT ![g] = link[findPrev[g]]]
  /\ UNCHANGED <<shared, ptr, tmp, past>>

\* Mutant: the node before the item is remembered for the one behind it.
SplicePrev(g) ==
  /\ Move(g, "splice", "linkPrev")
  /\ ptr' = [ptr EXCEPT ![g] = findPrev[g]]
  /\ UNCHANGED <<shared, findPrev, tmp, past>>

Splice(g) ==
  /\ Move(g, "splice", "linkPrev")
  /\ ptr' = [ptr EXCEPT ![g] = link[findPrev[g]]]
  /\ UNCHANGED <<shared, findPrev, tmp, past>>

LinkPrev(g) ==
  /\ Move(g, "linkPrev", "linkItem")
  /\ link' = [link EXCEPT ![findPrev[g]] = g]
  /\ UNCHANGED <<CurrentIndex, handleQueues, locals, past>>

\* Mutant: the rest of the list is not hung behind the new item.
LinkItemDropsTail(g) ==
  /\ Move(g, "linkItem", "peek")
  /\ UNCHANGED <<shared, locals, past>>

LinkItem(g) ==
  /\ Move(g, "linkItem", "peek")
  /\ link' = [link EXCEPT ![g] = ptr[g]]
  /\ UNCHANGED <<CurrentIndex, handleQueues, locals, past>>

-----------------------------------------------------------------------------
(* ContinueHandle: take the first item if it is the next one due and no    *)
(* other item is being handled.  Returning false ends the goroutine.       *)

Peek(g) ==
  /\ Move(g, "peek", IF link[Header] = Nil THEN "done" ELSE "checkIndex")
  /\ ptr' = [ptr EXCEPT ![g] = link[Header]]
  /\ UNCHANGED <<shared, findPrev, tmp, past>>

\* Mutant: a goroutine whose item is not due yet tries again.
CheckIndexSpins(g) ==
  /\ Move(g, "checkIndex", IF ptr[g] = CurrentIndex THEN "checkBusy" ELSE "peek")
  /\ UNCHANGED <<shared, locals, past>>

CheckIndex(g) ==
  /\ Move(g, "checkIndex", IF ptr[g] = CurrentIndex THEN "checkBusy" ELSE "done")
  /\ UNCHANGED <<shared, locals, past>>

\* Mutant: handleQueues is not consulted.
CheckBusySkipped(g) ==
  /\ Move(g, "checkBusy", "claim")
  /\ UNCHANGED <<shared, locals, past>>

CheckBusy(g) ==
  /\ Move(g, "checkBusy", IF handleQueues = Nil THEN "claim" ELSE "done")
  /\ UNCHANGED <<shared, locals, past>>

Claim(g) ==
  /\ Move(g, "claim", "readTail")
  /\ handleQueues' = ptr[g]
  /\ UNCHANGED <<link, CurrentIndex, locals, past>>

ReadTail(g) ==
  /\ Move(g, "readTail", "unlink")
  /\ tmp' = [tmp EXCEPT ![g] = link[ptr[g]]]
  /\ UNCHANGED <<shared, findPrev, ptr, past>>

Unlink(g) ==
  /\ Move(g, "unlink", "readIndex")
  /\ link' = [link EXCEPT ![Header] = tmp[g]]
  /\ UNCHANGED <<CurrentIndex, handleQueues, locals, past>>

ReadIndex(g) ==
  /\ Move(g, "readIndex", "bump")
  /\ tmp' = [tmp EXCEPT ![g] = CurrentIndex]
  /\ UNCHANGED <<shared, findPrev, ptr, past>>

Bump(g) ==
  /\ Move(g, "bump", "clear")
  /\ CurrentIndex' = tmp[g] + 1
  /\ UNCHANGED <<link, handleQueues, locals, past>>

Clear(g) ==
  /\ Move(g, "clear", "fetch")
  /\ link' = [link EXCEPT ![ptr[g]] = Nil]
  /\ UNCHANGED <<CurrentIndex, handleQueues, locals, past>>

-----------------------------------------------------------------------------
(* HandleQueue: run the hook of the claimed item, release the claim, and   *)
(* go back to ContinueHandle for the next one.                             *)

Fetch(g) ==
  /\ Move(g, "fetch", "write")
  /\ ptr' = [ptr EXCEPT ![g] = handleQueues]
  /\ UNCHANGED <<shared, findPrev, tmp, past>>

\* HookWrite returns; its error is logged and changes nothing else.
Write(g) ==
  /\ Move(g, "write", "release")
  /\ handled' = Append(handled, ptr[g])
  /\ failed' \in {failed, failed \cup {ptr[g]}}
  /\ UNCHANGED <<shared, locals>>

Release(g) ==
  /\ Move(g, "release", "peek")
  /\ handleQueues' = Nil
  /\ UNCHANGED <<link, CurrentIndex, locals, past>>

Panic(g) ==
  /\ ~panicked
  /\ MayRun(g)
  /\ DereferencesNil(g)
  /\ panicked' = TRUE
  /\ UNCHANGED <<shared, pc, locals, past>>

-----------------------------------------------------------------------------

\* Everything a goroutine does once AddItem has been called.
Run(g) ==
  \/ Walk(g)      \/ Compare(g)   \/ Advance(g)   \/ Splice(g)
  \/ LinkPrev(g)  \/ LinkItem(g)
  \/ Peek(g)      \/ CheckIndex(g) \/ CheckBusy(g) \/ Claim(g)
  \/ ReadTail(g)  \/ Unlink(g)    \/ ReadIndex(g) \/ Bump(g)
  \/ Clear(g)     \/ Fetch(g)     \/ Write(g)     \/ Release(g)
  \/ Panic(g)

Next == \E g \in Items : AddItem(g) \/ Run(g)

\* The Go scheduler runs every runnable goroutine; whether another chunk
\* arrives is up to the network, so AddItem carries no fairness.
Fairness == \A g \in Items : WF_vars(Run(g))

Spec == Init /\ [][Next]_vars /\ Fairness

-----------------------------------------------------------------------------
(* Properties.                                                             *)

\* No interleaving makes AddItem or HandleQueue dereference a nil node: a
\* panic in the recording goroutine would take the whole gateway down.
NoPanic == ~panicked

\* "no task is executing" (comment at WriteQueue.go:77): an item is claimed
\* only by a goroutine that finds no other one between claim and release.
SingleHandler ==
  \A g, h \in Items : pc[g] \in Holding /\ pc[h] \in Holding => g = h

\* The hooks run in the order of the indices, none skipped and none twice.
InOrder == \A k \in 1..Len(handled) : handled[k] = k

\* The calls that have returned or are inside a hook left nothing behind:
\* when no goroutine is running, every item whose predecessors have all been
\* added has been written (no lost insertion, no lost wake-up).
Quiescent == \A g \in Items : pc[g] \in {"idle", "done"}
Due(k)    == \A i \in 1..k : pc[i] \notin Unlinked
NothingStranded ==
  Quiescent /\ ~panicked => \A k \in Items : Due(k) => \E j \in 1..Len(handled) : handled[j] = k

\* CurrentIndex never moves backwards and never jumps: an index that was
\* passed over would strand its item, one met again would write it twice.
CurrentIndexSteps == [][CurrentIndex' \in {CurrentIndex, CurrentIndex + 1}]_vars

\* Every call of AddItem returns, also when the calls race: the list never
\* becomes cyclic under the walk and no goroutine handles items forever.
EveryCallReturns ==
  \A g \in Items : pc[g] # "idle" ~> (pc[g] = "done" \/ panicked)

\* The queue implements OrderedWriter.  A chunk is submitted when its node is
\* fully linked and is being written from its claim until its hook returns.
Ordered == INSTANCE OrderedWriter WITH
  submitted <- {g \in Items : pc[g] \notin Unlinked},
  writing   <- IF handleQueues = Len(handled) + 1 THEN handleQueues ELSE 0

ImplementsOrderedWriter == Ordered!Spec
=============================================================================
