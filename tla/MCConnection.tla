---------------------------- MODULE MCConnection ----------------------------
(* Model-checking instances of Connection; the bounds are in the .cfg files. *)
EXTENDS Connection

\* A gateway that waits for its peers is not deadlocked.  So TLC reports a deadlock
\* where a guard of the gateway holds, its action cannot be taken, and the peers have
\* nothing more to do.
Stopped == stage \notin {"accepted", "dialed"} /\ Settled
MCNext == Next \/ (Stopped /\ UNCHANGED vars)
MCSpec == Init /\ [][MCNext]_vars /\ Fairness
=============================================================================
