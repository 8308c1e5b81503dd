------------------------------ MODULE MCLocks ------------------------------
(* Model-checking instances of Locks; the bounds are in the .cfg files.    *)
EXTENDS Locks

CONSTANTS g1, g2, g3

\* Connections only draw indices (g1); the others use the rest of the interface.
Mixed     == [g \in Goroutines |-> CASE g = g1 -> {"Index"}
                                      [] g = g2 -> {"Lock", "Index"}
                                      [] g = g3 -> {"Lock", "RLock"}]

\* The bound on index is reached, or everybody waits for a reader, or the program
\* has died of an Unlock too many.
Exhausted == index = MaxIndex /\ \A g \in Goroutines : call[g] # "Index"
Blocked   == \E g \in Goroutines : Reading(g)
MCNext == Next \/ ((Exhausted \/ Blocked \/ crashed) /\ UNCHANGED vars)
MCSpec == Init /\ [][MCNext]_vars /\ Fairness
=============================================================================
