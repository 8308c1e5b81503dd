---------------------------- MODULE MCWriteQueue ----------------------------
(* Model-checking instances of WriteQueue; the bounds are in the .cfg files. *)
EXTENDS WriteQueue

\* A finished process is not a deadlock: all calls have returned, or it died.
Stopped == panicked \/ \A g \in Items : pc[g] = "done"
MCNext == Next \/ (Stopped /\ UNCHANGED vars)
MCSpec == Init /\ [][MCNext]_vars /\ Fairness
=============================================================================
