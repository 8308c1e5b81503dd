------------------------------- MODULE Locks -------------------------------
(***************************************************************************)
(* lockMap/Lock.go and RWLock.go: a DefaultLock, which adds a flag and a   *)
(* counter to a sync.RWMutex, and the DefaultRWLock built on it.           *)
(*                                                                         *)
(* The mutex is Go's: Lock announces the writer, which keeps further       *)
(* readers and writers out, and waits for the readers that are inside;     *)
(* Unlock works whoever calls it and is fatal when no writer is announced. *)
(*                                                                         *)
(* A goroutine makes one call after the other.  RUnlock is not an action:  *)
(* no RLock ever returns, since it waits as a writer for itself as a       *)
(* reader, and a writer that finds readers inside waits for good.          *)
(* CheckLocks of LockGroup.go unlocks a lock whose flag is set and which   *)
(* was last called over a second ago: time is not modelled, so that may be *)
(* so of any lock.                                                         *)
(***************************************************************************)
EXTENDS Integers, FiniteSets

CONSTANTS
  Goroutines,
  CallsOf,              \* the calls each of them makes: some of "Lock", "Index", "RLock"
  MaxIndex              \* bound on index: calls of IncreaseGetIndex

Calls == {"Lock", "Index", "RLock"}

ASSUME CallsAssumption == CallsOf \in [Goroutines -> SUBSET Calls]
ASSUME MaxIndexAssumption == MaxIndex \in Nat

VARIABLES
  announced,            \* RWMutex: a writer holds it or waits for the readers
  readers,              \* RWMutex: number of readers inside
  isLocked,             \* DefaultLock.isLocked
  index,                \* DefaultLock.index
  readCount,            \* DefaultRWLock.readCount
  call,                 \* the call each goroutine is in
  pc,                   \* where it is
  got,                  \* history: the indices IncreaseGetIndex returned to it
  crashed,              \* fatal error: Unlock of an unlocked mutex
  sweep,                \* where CheckLocks is
  used,                 \* history: somebody has called Lock or RLock
  swept                 \* history: CheckLocks has unlocked the lock

mutex == <<announced, readers>>
lock  == <<isLocked, index, readCount>>
sweeper == <<sweep, swept>>
vars  == <<mutex, lock, call, pc, got, crashed, used, sweeper>>

Points == {"idle", "enter", "announce", "waiting", "flag", "inside", "unflag",
           "fetch", "add", "exit"}

Init ==
  /\ announced = FALSE
  /\ readers = 0
  /\ isLocked = FALSE
  /\ index = 0
  /\ readCount = 0
  /\ call = [g \in Goroutines |-> "none"]
  /\ pc = [g \in Goroutines |-> "idle"]
  /\ got = [g \in Goroutines |-> {}]
  /\ crashed = FALSE
  /\ sweep = "idle"
  /\ used = FALSE
  /\ swept = FALSE

\* A goroutine moves between two points of its call.
Move(g, from, to) ==
  /\ ~crashed
  /\ pc[g] = from
  /\ pc' = [pc EXCEPT ![g] = to]

Start(g, c) ==
  /\ c \in CallsOf[g]
  /\ c = "Index" => index + Cardinality({h \in Goroutines : call[h] = "Index"}) < MaxIndex
  /\ Move(g, "idle", IF c = "RLock" THEN "enter" ELSE "announce")
  /\ call' = [call EXCEPT ![g] = c]
  /\ used' = (used \/ c # "Index")
  /\ UNCHANGED <<mutex, lock, got, crashed, sweeper>>

-----------------------------------------------------------------------------
(* RWMutex.Lock, in DefaultLock.Lock and IncreaseGetIndex.                 *)

WithMutex(g) == IF call[g] = "Index" THEN "fetch" ELSE "flag"

\* Mutant: IncreaseGetIndex only waits until nobody has the mutex.
AcquireUnlessIndex(g) ==
  /\ ~announced
  /\ Move(g, "announce", IF readers = 0 THEN WithMutex(g) ELSE "waiting")
  /\ announced' = (call[g] # "Index")
  /\ UNCHANGED <<readers, lock, call, got, crashed, used, sweeper>>

\* Mutant: the mutex is not locked, only the flag is set.
AcquireFlagOnly(g) ==
  /\ Move(g, "announce", IF readers = 0 THEN WithMutex(g) ELSE "waiting")
  /\ announced' = TRUE
  /\ UNCHANGED <<readers, lock, call, got, crashed, used, sweeper>>

Acquire(g) ==
  /\ ~announced
  /\ Move(g, "announce", IF readers = 0 THEN WithMutex(g) ELSE "waiting")
  /\ announced' = TRUE
  /\ UNCHANGED <<readers, lock, call, got, crashed, used, sweeper>>

\* RWMutex.Unlock.
Release ==
  /\ crashed' = ~announced
  /\ announced' = FALSE
  /\ UNCHANGED readers

-----------------------------------------------------------------------------
(* DefaultLock.                                                            *)

Flag(g) ==
  /\ Move(g, "flag", "inside")
  /\ isLocked' = TRUE
  /\ UNCHANGED <<mutex, index, readCount, call, got, crashed, used, sweeper>>

Unlock(g) ==
  /\ Move(g, "inside", "unflag")
  /\ Release
  /\ UNCHANGED <<lock, call, got, used, sweeper>>

\* Mutant: the flag is cleared for a caller of Lock only when no other waits.
UnflagIfLast(g) ==
  /\ Move(g, "unflag", "idle")
  /\ isLocked' = \E h \in Goroutines : pc[h] = "announce"
  /\ call' = [call EXCEPT ![g] = "none"]
  /\ UNCHANGED <<mutex, index, readCount, got, crashed, used, sweeper>>

\* The flag is cleared when the mutex may already be somebody else's.
Unflag(g) ==
  /\ Move(g, "unflag", "idle")
  /\ isLocked' = FALSE
  /\ call' = [call EXCEPT ![g] = "none"]
  /\ UNCHANGED <<mutex, index, readCount, got, crashed, used, sweeper>>

Fetch(g) ==
  /\ Move(g, "fetch", "add")
  /\ got' = [got EXCEPT ![g] = @ \cup {index}]
  /\ UNCHANGED <<mutex, lock, call, crashed, used, sweeper>>

Add(g) ==
  /\ Move(g, "add", "exit")
  /\ index' = index + 1
  /\ UNCHANGED <<mutex, isLocked, readCount, call, got, crashed, used, sweeper>>

\* Mutant: the mutex is not released on the way out.
ExitHolding(g) ==
  /\ Move(g, "exit", "idle")
  /\ call' = [call EXCEPT ![g] = "none"]
  /\ UNCHANGED <<mutex, lock, got, crashed, used, sweeper>>

Exit(g) ==
  /\ Move(g, "exit", "idle")
  /\ Release
  /\ call' = [call EXCEPT ![g] = "none"]
  /\ UNCHANGED <<lock, got, used, sweeper>>

-----------------------------------------------------------------------------
(* DefaultRWLock.RLock: a reader of the mutex, which then also locks it.   *)

Enter(g) ==
  /\ ~announced
  /\ Move(g, "enter", IF readCount = 0 THEN "announce" ELSE "inside")
  /\ readers' = readers + 1
  /\ readCount' = IF readCount = 0 THEN 0 ELSE readCount + 1
  /\ UNCHANGED <<announced, isLocked, index, call, got, crashed, used, sweeper>>

-----------------------------------------------------------------------------
(* CheckLocks.                                                             *)

CheckFlagOf(canUnlock) ==
  /\ ~crashed
  /\ sweep = "idle"
  /\ canUnlock
  /\ sweep' = "unlock"
  /\ UNCHANGED <<mutex, lock, call, pc, got, crashed, used, swept>>

\* Mutant: the flag is not asked.
CheckTime == CheckFlagOf(TRUE)

CheckFlag == CheckFlagOf(isLocked)

\* The lock may have changed hands, or be free, by now.
SweepUnlock ==
  /\ ~crashed
  /\ sweep = "unlock"
  /\ sweep' = "unflag"
  /\ swept' = TRUE
  /\ Release
  /\ UNCHANGED <<lock, call, pc, got, used>>

SweepUnflag ==
  /\ ~crashed
  /\ sweep = "unflag"
  /\ sweep' = "idle"
  /\ isLocked' = FALSE
  /\ UNCHANGED <<mutex, index, readCount, call, pc, got, crashed, used, swept>>

-----------------------------------------------------------------------------

\* Everything a goroutine does once it has made a call.
Run(g) ==
  \/ Acquire(g) \/ Flag(g) \/ Unlock(g) \/ Unflag(g)
  \/ Fetch(g)   \/ Add(g)  \/ Exit(g)   \/ Enter(g)

CheckLocks == CheckFlag \/ SweepUnlock \/ SweepUnflag

Next ==
  \/ \E g \in Goroutines : Run(g) \/ \E c \in Calls : Start(g, c)
  \/ CheckLocks

\* Go's mutexes do not starve a waiter, and callers unlock what they lock.
Fairness ==
  \A g \in Goroutines : WF_vars(Run(g)) /\ SF_vars(Acquire(g)) /\ SF_vars(Enter(g))

Spec == Init /\ [][Next]_vars /\ Fairness

-----------------------------------------------------------------------------
(* Properties.                                                             *)

Inside(g) == call[g] = "Lock" /\ pc[g] = "inside"

\* A reader that is past the mutex's RLock.
Reading(g) == call[g] = "RLock" /\ pc[g] # "enter"

\* Lock() "acquires an exclusive lock" (lockMap/interfaces.md:104): no other caller of
\* Lock is inside, and no reader, until CheckLocks takes the lock away from somebody.
MutualExclusion ==
  ~swept =>
    \A g \in Goroutines : Inside(g) => \A h \in Goroutines \ {g} : ~Inside(h) /\ ~Reading(h)

\* CanRelease asks the flag: it has fallen when nobody is about to set or clear it,
\* in whatever order the flags of successive holders, and CheckLocks, wrote it.
FlagFalls ==
  (\A g \in Goroutines : pc[g] \notin {"flag", "inside", "unflag"}) => ~isLocked

\* IncreaseGetIndex never gives the same index to two callers, also when
\* other goroutines hold the lock for reasons of their own: the write queues
\* rely on it.  Only CheckLocks can break in.
IndicesUnique ==
  ~swept => \A g, h \in Goroutines : g # h => got[g] \cap got[h] = {}

\* What the gateway relies on, whose connections only draw indices: CheckLocks leaves
\* a lock alone on which nobody has called Lock or RLock, however long an index takes.
SweepSparesIndices == ~used => ~swept /\ ~crashed

\* A goroutine of a proxied connection that asks for an index gets it, as long
\* as those who lock the lock unlock it; the first reader ends that, and so may
\* CheckLocks.
IndexCallReturns ==
  \A g \in Goroutines :
    call[g] = "Index" ~> call[g] = "none" \/ swept \/ \E h \in Goroutines : Reading(h)
=============================================================================
