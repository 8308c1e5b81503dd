--------------------------- MODULE OrderedWriter ---------------------------
(***************************************************************************)
(* What a WriteQueue promises its callers, without any of its mechanism.   *)
(*                                                                         *)
(* Chunks numbered 1, 2, 3, ... are submitted in any order.  They are      *)
(* handed to the write hook one at a time, strictly in the order of their  *)
(* numbers, each exactly once.  A hook that fails is logged and the queue  *)
(* moves on: a failed chunk is neither retried nor allowed to block its    *)
(* successors.                                                             *)
(***************************************************************************)
EXTENDS Integers, Sequences

CONSTANT N              \* chunks are numbered 1..N, N a positive number

VARIABLES
  submitted,            \* numbers handed to AddItem so far
  writing,              \* the number whose hook is running, 0 for none
  handled,              \* numbers whose hook has run, in the order it ran
  failed                \* those of them whose hook returned an error

vars == <<submitted, writing, handled, failed>>

Items == 1..N

TypeOK ==
  /\ submitted \subseteq Items
  /\ writing \in 0..N
  /\ handled \in Seq(Items)
  /\ failed \subseteq Items

Init ==
  /\ submitted = {}
  /\ writing = 0
  /\ handled = <<>>
  /\ failed = {}

Submit(i) ==
  /\ i \notin submitted
  /\ submitted' = submitted \cup {i}
  /\ UNCHANGED <<writing, handled, failed>>

\* Only the successor of the last handled number may start, and only when no
\* other hook is running.
Begin ==
  /\ writing = 0
  /\ Len(handled) + 1 \in submitted
  /\ writing' = Len(handled) + 1
  /\ UNCHANGED <<submitted, handled, failed>>

Finish ==
  /\ writing # 0
  /\ handled' = Append(handled, writing)
  /\ failed' \in {failed, failed \cup {writing}}
  /\ writing' = 0
  /\ UNCHANGED submitted

Next ==
  \/ \E i \in Items : Submit(i)
  \/ Begin
  \/ Finish

\* Submitting is up to the network; writing what can be written is not.
Fairness == WF_vars(Begin) /\ WF_vars(Finish)

Spec == Init /\ [][Next]_vars /\ Fairness
=============================================================================
