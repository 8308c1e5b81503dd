---------------------------- MODULE MCTwoQueues ----------------------------
(***************************************************************************)
(* A queue whose goroutines share one processor (WriteQueue's own          *)
(* variables) next to one whose goroutines run on processors of their own  *)
(* (Parallel).  They have nothing in common, so that it is enough to give  *)
(* chunks to one of them; which one the first call decides.                *)
(***************************************************************************)
EXTENDS WriteQueue

CONSTANT ParallelN      \* number of chunks of the parallel queue

VARIABLES plink, pCurrentIndex, phandleQueues, ppc, pfindPrev, pptr, ptmp,
          phandled, pfailed, ppanicked

parallelVars == <<plink, pCurrentIndex, phandleQueues, ppc, pfindPrev, pptr, ptmp,
                  phandled, pfailed, ppanicked>>

Parallel == INSTANCE WriteQueue WITH
  N            <- ParallelN,
  Preemptible  <- TRUE,
  link         <- plink,
  CurrentIndex <- pCurrentIndex,
  handleQueues <- phandleQueues,
  pc           <- ppc,
  findPrev     <- pfindPrev,
  ptr          <- pptr,
  tmp          <- ptmp,
  handled      <- phandled,
  failed       <- pfailed,
  panicked     <- ppanicked

MCInit == Init /\ Parallel!Init

Unused         == \A g \in Items : pc[g] = "idle"
ParallelUnused == \A g \in Parallel!Items : ppc[g] = "idle"

\* All calls have returned, or the process died.
Stopped         == \A g \in Items : pc[g] = "done"
ParallelStopped == ppanicked \/ \A g \in Parallel!Items : ppc[g] = "done"

MCNext ==
  \/ ParallelUnused /\ Next /\ UNCHANGED parallelVars
  \/ Unused /\ Parallel!Next /\ UNCHANGED vars
  \/ (Stopped \/ ParallelStopped) /\ UNCHANGED <<vars, parallelVars>>

MCSpec == MCInit /\ [][MCNext]_<<vars, parallelVars>> /\ Fairness /\ Parallel!Fairness

\* EveryCallReturns of the parallel queue: also when calls of AddItem race, the list
\* never becomes cyclic under the walk and no goroutine handles items for ever.
ParallelCallsReturn == Parallel!EveryCallReturns
=============================================================================
