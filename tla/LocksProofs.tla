---------------------------- MODULE LocksProofs ----------------------------
(* What holds of Locks for any number of goroutines and calls.             *)
EXTENDS Locks, TLAPS

\* Whoever is past Acquire and not past Release: nobody else is.
Has(g) == pc[g] \in {"flag", "inside", "fetch", "add", "exit"}
Owns(g) == Has(g) \/ pc[g] = "waiting"

Types ==
  /\ announced \in BOOLEAN
  /\ readers \in Nat
  /\ index \in Nat
  /\ readCount = 0
  /\ call \in [Goroutines -> Calls \cup {"none"}]
  /\ pc \in [Goroutines -> Points]
  /\ got \in [Goroutines -> SUBSET Nat]
  /\ isLocked \in BOOLEAN
  /\ crashed \in BOOLEAN
  /\ sweep \in {"idle", "unlock", "unflag"}
  /\ used \in BOOLEAN
  /\ swept \in BOOLEAN

\* Which call can be where.
Places ==
  \A g \in Goroutines :
    /\ pc[g] \in {"fetch", "add", "exit"} => call[g] = "Index"
    /\ pc[g] \in {"flag", "inside", "unflag"} => call[g] \in {"Lock", "RLock"}
    /\ pc[g] = "idle" <=> call[g] = "none"

\* The mutex: one owner, whose announcement keeps the readers out.
Mutex ==
  /\ \A g \in Goroutines : Owns(g) => announced
  /\ \A g, h \in Goroutines : Owns(g) /\ Owns(h) => g = h
  /\ \A g \in Goroutines : Has(g) => readers = 0
  /\ \A g \in Goroutines : Reading(g) => readers > 0

\* The indices handed out are below the next one, except between its reading and
\* its increase.
Handed ==
  /\ \A g \in Goroutines : \A n \in got[g] : n < index \/ (n = index /\ pc[g] = "add")
  /\ \A g, h \in Goroutines : g # h => got[g] \cap got[h] = {}

\* As long as nobody has called Lock or RLock the flag is down, and CheckLocks idle.
Spared ==
  ~used =>
    /\ ~swept /\ ~crashed /\ ~isLocked
    /\ sweep = "idle"
    /\ \A g \in Goroutines : call[g] \in {"none", "Index"}

IInv == Types /\ Places /\ (~swept => Mutex /\ Handed) /\ Spared

LEMMA InvInit == Init => IInv
<1> SUFFICES ASSUME Init PROVE IInv
  OBVIOUS
<1>1. Types
  BY DEF Init, Types, Points, Calls
<1>2. Places /\ Mutex
  BY DEF Init, Places, Mutex, Owns, Has, Reading
<1>3. Handed
  BY DEF Init, Handed
<1>4. Spared
  BY DEF Init, Spared
<1>5. QED
  BY <1>1, <1>2, <1>3, <1>4 DEF IInv

\* The types, and what CheckLocks may do, in every step.
LEMMA TypesStep ==
  ASSUME Types, Places, ~swept => Mutex, Spared, [Next]_vars
  PROVE  Types' /\ Places' /\ Spared'
<1> USE CallsAssumption DEF Types, Places, Mutex, Spared, Owns, Has, Points, Calls, Move, lock, mutex,
        sweeper
<1>1. ASSUME NEW g \in Goroutines, NEW c \in Calls, Start(g, c) PROVE Types' /\ Places' /\ Spared'
  BY <1>1 DEF Start
<1>2. ASSUME NEW g \in Goroutines, Acquire(g) PROVE Types' /\ Places' /\ Spared'
  BY <1>2 DEF Acquire, WithMutex
<1>3. ASSUME NEW g \in Goroutines, Flag(g) PROVE Types' /\ Places' /\ Spared'
  BY <1>3 DEF Flag
<1>4. ASSUME NEW g \in Goroutines, Unlock(g) PROVE Types' /\ Places' /\ Spared'
  BY <1>4 DEF Unlock, Release
<1>5. ASSUME NEW g \in Goroutines, Unflag(g) PROVE Types' /\ Places' /\ Spared'
  BY <1>5 DEF Unflag
<1>6. ASSUME NEW g \in Goroutines, Fetch(g) PROVE Types' /\ Places' /\ Spared'
  BY <1>6 DEF Fetch
<1>7. ASSUME NEW g \in Goroutines, Add(g) PROVE Types' /\ Places' /\ Spared'
  BY <1>7 DEF Add
<1>8. ASSUME NEW g \in Goroutines, Exit(g) PROVE Types' /\ Places' /\ Spared'
  BY <1>8 DEF Exit, Release
<1>9. ASSUME NEW g \in Goroutines, Enter(g) PROVE Types' /\ Places' /\ Spared'
  BY <1>9 DEF Enter
<1>10. ASSUME CheckLocks PROVE Types' /\ Places' /\ Spared'
  BY <1>10 DEF CheckLocks, CheckFlag, CheckFlagOf, SweepUnlock, SweepUnflag, Release
<1>11. CASE UNCHANGED vars
  BY <1>11 DEF vars
<1>12. QED
  BY <1>1, <1>2, <1>3, <1>4, <1>5, <1>6, <1>7, <1>8, <1>9, <1>10, <1>11 DEF Next, Run

\* The mutex keeps its owner, and the indices stay apart, in every step but the one
\* in which CheckLocks unlocks.
LEMMA MutexStep ==
  ASSUME Types, Places, Mutex, Handed, [Next]_vars, ~swept'
  PROVE  Mutex' /\ Handed'
<1> USE CallsAssumption DEF Types, Places, Mutex, Handed, Owns, Has, Reading, Points, Calls, Move,
        lock, mutex
<1>1. ASSUME NEW g \in Goroutines, NEW c \in Calls, Start(g, c) PROVE Mutex' /\ Handed'
  BY <1>1 DEF Start
<1>2. ASSUME NEW g \in Goroutines, Acquire(g) PROVE Mutex' /\ Handed'
  <2>1. Handed'
    BY <1>2 DEF Acquire, WithMutex
  <2>2. \A h \in Goroutines : ~Owns(h)
    BY <1>2 DEF Acquire
  <2>3. \A h \in Goroutines : h # g => pc'[h] = pc[h]
    BY <1>2 DEF Acquire
  <2>4. Mutex'
    BY <1>2, <2>2, <2>3 DEF Acquire, WithMutex
  <2>5. QED
    BY <2>1, <2>4
<1>3. ASSUME NEW g \in Goroutines, Flag(g) PROVE Mutex' /\ Handed'
  BY <1>3 DEF Flag
<1>4. ASSUME NEW g \in Goroutines, Unlock(g) PROVE Mutex' /\ Handed'
  BY <1>4 DEF Unlock, Release
<1>5. ASSUME NEW g \in Goroutines, Unflag(g) PROVE Mutex' /\ Handed'
  BY <1>5 DEF Unflag
<1>6. ASSUME NEW g \in Goroutines, Fetch(g) PROVE Mutex' /\ Handed'
  BY <1>6 DEF Fetch
<1>7. ASSUME NEW g \in Goroutines, Add(g) PROVE Mutex' /\ Handed'
  BY <1>7 DEF Add
<1>8. ASSUME NEW g \in Goroutines, Exit(g) PROVE Mutex' /\ Handed'
  BY <1>8 DEF Exit, Release
<1>9. ASSUME NEW g \in Goroutines, Enter(g) PROVE Mutex' /\ Handed'
  BY <1>9 DEF Enter
<1>10. ASSUME CheckLocks PROVE Mutex' /\ Handed'
  BY <1>10 DEF CheckLocks, CheckFlag, CheckFlagOf, SweepUnlock, SweepUnflag
<1>11. CASE UNCHANGED vars
  BY <1>11 DEF vars
<1>12. QED
  BY <1>1, <1>2, <1>3, <1>4, <1>5, <1>6, <1>7, <1>8, <1>9, <1>10, <1>11 DEF Next, Run

\* What CheckLocks has unlocked stays so.
LEMMA SweptStays == ASSUME [Next]_vars, swept PROVE swept'
BY DEF Next, Run, Start, Acquire, Flag, Unlock, Unflag, Fetch, Add, Exit, Enter, CheckLocks, CheckFlag,
   CheckFlagOf, SweepUnlock, SweepUnflag, vars, sweeper

LEMMA InvStep == IInv /\ [Next]_vars => IInv'
BY TypesStep, MutexStep, SweptStays DEF IInv, Types

LEMMA Invariant == Spec => []IInv
BY InvInit, InvStep, PTL DEF Spec

\* A goroutine that is past Lock has no other one beside it, and no reader, however
\* many call, as long as CheckLocks does not take the lock away.
THEOREM OneHolder == Spec => []MutualExclusion
<1>1. ASSUME IInv, ~swept, NEW g \in Goroutines, Inside(g), NEW h \in Goroutines \ {g}
      PROVE  ~Inside(h) /\ ~Reading(h)
  <2>1. ~Inside(h)
    BY <1>1 DEF IInv, Mutex, Owns, Has, Inside
  <2>2. ~Reading(h)
    BY <1>1 DEF IInv, Types, Mutex, Has, Inside
  <2>3. QED
    BY <2>1, <2>2
<1>2. IInv => MutualExclusion
  BY <1>1 DEF MutualExclusion
<1>3. QED
  BY <1>2, Invariant, PTL

\* IncreaseGetIndex hands out every index once, to any number of callers, as long as
\* CheckLocks does not break in.
THEOREM IndicesAreUnique == Spec => []IndicesUnique
<1>1. IInv => IndicesUnique
  BY DEF IInv, Handed, IndicesUnique
<1>2. QED
  BY <1>1, Invariant, PTL

\* CheckLocks does not touch a lock that goroutines only draw indices from, however
\* many they are: their indices are unique without reservation.
THEOREM SweepIsHarmless == Spec => []SweepSparesIndices
<1>1. IInv => SweepSparesIndices
  BY DEF IInv, Spared, SweepSparesIndices
<1>2. QED
  BY <1>1, Invariant, PTL

\* Where a goroutine answers for the flag.
Flagging(g) == pc[g] \in {"flag", "inside", "unflag"}

LEMMA FlagStep ==
  ASSUME Types, FlagFalls, [Next]_vars
  PROVE  FlagFalls'
<1> USE DEF FlagFalls, Move, Flagging, lock, mutex, sweeper
<1>0. SUFFICES ASSUME isLocked' PROVE \E g \in Goroutines : Flagging(g)'
  OBVIOUS
<1>1. \A g \in Goroutines : ~Unflag(g)
  BY <1>0 DEF Unflag
<1>2. ~SweepUnflag
  BY <1>0 DEF SweepUnflag
<1>3. ASSUME NEW g \in Goroutines, Flag(g) PROVE Flagging(g)'
  BY <1>3 DEF Flag, Types
<1>4. ASSUME isLocked PROVE \E g \in Goroutines : Flagging(g)
  BY <1>4
<1>5. ASSUME NEW g \in Goroutines, Unlock(g) PROVE Flagging(g)'
  BY <1>5 DEF Unlock, Types
<1>6. ASSUME isLocked, NEW h \in Goroutines, pc[h] \notin {"flag", "inside", "unflag"},
             \A g \in Goroutines : g # h => pc'[g] = pc[g]
      PROVE  \E g \in Goroutines : Flagging(g)'
  BY <1>4, <1>6
<1>7. ASSUME NEW h \in Goroutines,
             Acquire(h) \/ Fetch(h) \/ Add(h) \/ Exit(h) \/ Enter(h) \/ \E c \in Calls : Start(h, c)
      PROVE  \E g \in Goroutines : Flagging(g)'
  <2>1. isLocked
    BY <1>0, <1>7 DEF Acquire, Fetch, Add, Exit, Enter, Start
  <2>2. pc[h] \notin {"flag", "inside", "unflag"} /\ \A g \in Goroutines : g # h => pc'[g] = pc[g]
    BY <1>7 DEF Acquire, Fetch, Add, Exit, Enter, Start, Types
  <2> QED
    BY <1>6, <2>1, <2>2
<1>8. CASE CheckFlag \/ SweepUnlock \/ UNCHANGED vars
  <2>1. isLocked /\ UNCHANGED pc
    BY <1>0, <1>8 DEF CheckFlag, CheckFlagOf, SweepUnlock, vars
  <2> QED
    BY <1>4, <2>1
<1> QED
  BY <1>1, <1>2, <1>3, <1>5, <1>7, <1>8 DEF Next, Run, CheckLocks

\* The flag does not outlive the calls that set it: each of them clears it on its way
\* out, so that the last to leave does, in whatever order they and CheckLocks write it.
THEOREM FlagFallsInTheEnd == Spec => []FlagFalls
<1>1. Init => FlagFalls
  BY DEF Init, FlagFalls
<1>2. IInv /\ FlagFalls /\ [Next]_vars => FlagFalls'
  BY FlagStep DEF IInv
<1> QED
  BY <1>1, <1>2, Invariant, PTL DEF Spec
=============================================================================
