------------------------- MODULE LockRegistryProofs -------------------------
(* What holds of LockRegistry for any connections and any addresses.       *)
EXTENDS LockRegistry, FiniteSetTheorems, TLAPS

-----------------------------------------------------------------------------
(* Types, and the counter of a lock.                                       *)

\* A connection past GetLock has a lock, and one that serves a resource.
HasLock ==
  \A c \in Conns :
    pc[c] \in {"count", "other", "index", "check", "set", "serving", "failed", "closed"}
      => lock[c] # None

Types ==
  /\ groups \subseteq Keys
  /\ lockMap \in [Keys -> Conns \cup {None}]
  /\ waitingRelease \in [Conns -> Int]
  /\ index \in [Conns -> Nat]
  /\ other \in [Conns -> Conns \cup {None}]
  /\ port \in [Conns -> Keys \cup {None}]
  /\ \A c \in Conns : port[c] = None <=> pc[c] = "new"
  /\ pc \in [Conns -> Points]
  /\ lock \in [Conns -> Conns \cup {None}]
  /\ resource \in [Conns -> Conns \cup {None}]
  /\ snapshot \subseteq Keys \X Conns
  /\ doomed \in Keys \cup {None}
  /\ HasLock

\* The initial state, and every step, gives the variables values of their types
\* (the counter may be any integer), and a lock to who needs one.
LEMMA TypesInit == Init => Types
BY AddressAssumption, NoneAssumption DEF Init, Types, HasLock, Points

LEMMA TypesStep == Types /\ [Next]_vars => Types'
<1> SUFFICES ASSUME Types, [Next]_vars PROVE Types'
  OBVIOUS
<1> USE AddressAssumption, NoneAssumption DEF Types, HasLock, Points
<1>1. ASSUME NEW c \in Conns, Accept(c) PROVE Types'
  BY <1>1 DEF Accept, Move, locks, sweep
<1>2. ASSUME NEW c \in Conns, Lookup(c) PROVE Types'
  BY <1>2 DEF Lookup, FoundUnder, Move, locks, sweep
<1>3. ASSUME NEW c \in Conns, CreateLockGroup(c) PROVE Types'
  BY <1>3 DEF CreateLockGroup, Move, locks, sweep
<1>4. ASSUME NEW c \in Conns, CreateLock(c) PROVE Types'
  BY <1>4 DEF CreateLock, Move, locks, sweep
<1>5. ASSUME NEW c \in Conns, AddRelease(c) PROVE Types'
  BY <1>5 DEF AddRelease, Move, sweep
<1>6. ASSUME NEW c \in Conns, Other(c) PROVE Types'
  BY <1>6 DEF Other, Move, locks, sweep
<1>7. ASSUME NEW c \in Conns, IncreaseGetIndex(c) PROVE Types'
  BY <1>7 DEF IncreaseGetIndex, Move, sweep
<1>8. ASSUME NEW c \in Conns, CheckOther(c) PROVE Types'
  BY <1>8 DEF CheckOther, Move, locks, sweep
<1>9. ASSUME NEW c \in Conns, SetOther(c) PROVE Types'
  BY <1>9 DEF SetOther, Move, sweep
<1>10. ASSUME NEW c \in Conns, Release(c) PROVE Types'
  BY <1>10 DEF Release, Move, sweep
<1>11. ASSUME Snapshot PROVE Types'
  BY <1>11 DEF Snapshot, locks, conn
<1>12. ASSUME NEW e \in Keys \X Conns, CheckEntry(e) PROVE Types'
  BY <1>12 DEF CheckEntry, locks, conn
<1>13. ASSUME Delete PROVE Types'
  BY <1>13 DEF Delete, locks, conn
<1>14. CASE UNCHANGED vars
  BY <1>14 DEF vars, locks, conn, sweep
<1>15. QED
  BY <1>1, <1>2, <1>3, <1>4, <1>5, <1>6, <1>7, <1>8, <1>9, <1>10, <1>11, <1>12, <1>13, <1>14
  DEF Next, GetResource, Sweep

\* The connections that count for a lock.
Holders(l) == {c \in Conns : Holds(c, l)}

\* A step that neither moves a connection in or out of the holders of a lock nor
\* touches a counter leaves the counters right.
LEMMA SameHolders ==
  ASSUME RefsMatch, waitingRelease' = waitingRelease,
         \A c, l \in Conns : Holds(c, l)' <=> Holds(c, l)
  PROVE  RefsMatch'
<1>1. \A l \in Conns : {c \in Conns : Holds(c, l)'} = {c \in Conns : Holds(c, l)}
  OBVIOUS
<1>2. QED
  BY <1>1 DEF RefsMatch

\* Counting and releasing are the steps that do: they move one connection, and
\* change the counter of its lock alone.
LEMMA CountStep ==
  ASSUME IsFiniteSet(Conns), Types, RefsMatch, NEW d \in Conns, AddRelease(d)
  PROVE  RefsMatch'
<1>1. PICK m \in Conns : m = lock[d]
  BY DEF AddRelease, Move, Types, HasLock
<1>2. ~Holds(d, m) /\ Holds(d, m)'
  BY <1>1 DEF AddRelease, Move, Holds, Types
<1>3. \A c, l \in Conns : c # d \/ l # m => (Holds(c, l)' <=> Holds(c, l))
  BY <1>1 DEF AddRelease, Move, Holds, Types
<1>4. Holders(m)' = Holders(m) \cup {d} /\ d \notin Holders(m)
  BY <1>1, <1>2, <1>3 DEF Holders
<1>5. \A l \in Conns : l # m => Holders(l)' = Holders(l)
  BY <1>3 DEF Holders
<1>6. IsFiniteSet(Holders(m))
  BY FS_Subset, <1>1 DEF Holders
<1>7. Cardinality(Holders(m)') = Cardinality(Holders(m)) + 1
  BY <1>4, <1>6, FS_AddElement
<1>8. waitingRelease'[m] = waitingRelease[m] + 1
      /\ \A l \in Conns : l # m => waitingRelease'[l] = waitingRelease[l]
  BY <1>1 DEF AddRelease, Types
<1>9. \A l \in Conns : waitingRelease[l] = Cardinality(Holders(l))
  BY DEF RefsMatch, Holders
<1>10. \A l \in Conns : waitingRelease'[l] = Cardinality(Holders(l)')
  BY <1>5, <1>7, <1>8, <1>9
<1>11. QED
  BY <1>10 DEF RefsMatch, Holders

LEMMA ReleaseStep ==
  ASSUME IsFiniteSet(Conns), Types, RefsMatch, NEW d \in Conns, Release(d)
  PROVE  RefsMatch'
<1>1. PICK m \in Conns : m = lock[d]
  BY DEF Release, Move, Types, HasLock
<1>2. Holds(d, m) /\ ~Holds(d, m)'
  BY <1>1 DEF Release, Move, Holds, Types
<1>3. \A c, l \in Conns : c # d \/ l # m => (Holds(c, l)' <=> Holds(c, l))
  BY <1>1 DEF Release, Move, Holds, Types
<1>4. Holders(m)' = Holders(m) \ {d} /\ d \in Holders(m)
  BY <1>1, <1>2, <1>3 DEF Holders
<1>5. \A l \in Conns : l # m => Holders(l)' = Holders(l)
  BY <1>3 DEF Holders
<1>6. IsFiniteSet(Holders(m))
  BY FS_Subset, <1>1 DEF Holders
<1>7. Cardinality(Holders(m)') = Cardinality(Holders(m)) - 1
  BY <1>4, <1>6, FS_RemoveElement
<1>8. waitingRelease'[m] = waitingRelease[m] - 1
      /\ \A l \in Conns : l # m => waitingRelease'[l] = waitingRelease[l]
  BY <1>1 DEF Release, Types
<1>9. \A l \in Conns : waitingRelease[l] = Cardinality(Holders(l))
  BY DEF RefsMatch, Holders
<1>10. \A l \in Conns : waitingRelease'[l] = Cardinality(Holders(l)')
  BY <1>5, <1>7, <1>8, <1>9
<1>11. QED
  BY <1>10 DEF RefsMatch, Holders

LEMMA RefsStep ==
  ASSUME IsFiniteSet(Conns), Types, RefsMatch, [Next]_vars
  PROVE  RefsMatch'
<1> USE DEF Types, Move, Holds
<1>1. ASSUME NEW d \in Conns, Accept(d) PROVE RefsMatch'
  BY <1>1, SameHolders DEF Accept, locks
<1>2. ASSUME NEW d \in Conns, Lookup(d) PROVE RefsMatch'
  BY <1>2, SameHolders DEF Lookup, FoundUnder, locks
<1>3. ASSUME NEW d \in Conns, CreateLockGroup(d) PROVE RefsMatch'
  BY <1>3, SameHolders DEF CreateLockGroup, locks
<1>4. ASSUME NEW d \in Conns, CreateLock(d) PROVE RefsMatch'
  BY <1>4, SameHolders DEF CreateLock, locks
<1>5. ASSUME NEW d \in Conns, Other(d) PROVE RefsMatch'
  BY <1>5, SameHolders DEF Other, locks
<1>6. ASSUME NEW d \in Conns, IncreaseGetIndex(d) PROVE RefsMatch'
  BY <1>6, SameHolders DEF IncreaseGetIndex
<1>7. ASSUME NEW d \in Conns, CheckOther(d) PROVE RefsMatch'
  BY <1>7, SameHolders DEF CheckOther, locks
<1>8. ASSUME NEW d \in Conns, SetOther(d) PROVE RefsMatch'
  BY <1>8, SameHolders DEF SetOther
<1>9. ASSUME Sweep PROVE RefsMatch'
  BY <1>9, SameHolders DEF Sweep, Snapshot, CheckEntry, Delete, locks, conn
<1>10. CASE UNCHANGED vars
  BY <1>10, SameHolders DEF vars, locks, conn
<1>11. QED
  BY <1>1, <1>2, <1>3, <1>4, <1>5, <1>6, <1>7, <1>8, <1>9, <1>10, CountStep, ReleaseStep
  DEF Next, GetResource

\* The counter of a lock is the number of connections that have it and have not
\* released it, in every state: connections may race with each other and with
\* CheckLocks, and may share locks, as they like.
THEOREM RefsCorrect == ASSUME IsFiniteSet(Conns) PROVE Spec => []RefsMatch
<1>1. Init => RefsMatch
  <2> SUFFICES ASSUME Init PROVE RefsMatch
    OBVIOUS
  <2>1. \A l \in Conns : {c \in Conns : Holds(c, l)} = {}
    BY DEF Init, Holds
  <2>2. QED
    BY <2>1, FS_EmptySet DEF Init, RefsMatch
<1>2. Types /\ RefsMatch /\ [Next]_vars => Types' /\ RefsMatch'
  BY TypesStep, RefsStep
<1>3. QED
  BY <1>1, <1>2, TypesInit, PTL DEF Spec

\* The variables keep their types: the counter, in particular, is never negative,
\* so CanRelease never sees a connection released twice.
THEOREM TypeCorrect == ASSUME IsFiniteSet(Conns) PROVE Spec => []TypeOK
<1>1. Types /\ RefsMatch => TypeOK
  <2> SUFFICES ASSUME Types, RefsMatch PROVE TypeOK
    OBVIOUS
  <2>1. ASSUME NEW l \in Conns PROVE waitingRelease[l] \in Nat
    <3>1. IsFiniteSet({c \in Conns : Holds(c, l)})
      BY FS_Subset
    <3>2. QED
      BY <3>1, FS_CardinalityType DEF RefsMatch
  <2>2. waitingRelease \in [Conns -> Nat]
    BY <2>1 DEF Types
  <2>3. QED
    BY <2>2 DEF Types, TypeOK
<1>2. Types /\ [Next]_vars => Types'
  BY TypesStep
<1>3. QED
  BY <1>1, <1>2, TypesInit, RefsCorrect, PTL DEF Spec

-----------------------------------------------------------------------------
(* One queue per connection, as long as the parts of addresses differ.     *)

\* GetLock never finds a lock: a connection has the lock it has created itself,
\* nobody else writes to it, and it consumes index 0 before it serves.
Private ==
  /\ \A k \in Keys : lockMap[k] # None => \E c \in Conns : k = HostOf[c]
  /\ \A c \in Conns : lock[c] \in {None, c}
  /\ \A c \in Conns : resource[c] \in {None, c}
  /\ \A c \in Conns : pc[c] = "serving" => resource[c] = c
  /\ \A c \in Conns : other[c] # None => pc[c] \in {"serving", "closed"}
  /\ \A c \in Conns :
       index[c] = IF pc[c] \in {"check", "set", "serving", "closed"} THEN 1 ELSE 0
  /\ \A c \in Conns : pc[c] # "failed"

LEMMA PrivateInit == Init => Private
BY AddressAssumption DEF Init, Private

LEMMA PrivateStep ==
  ASSUME KeysDiffer, Types, Private, [Next]_vars, KeysDiffer'
  PROVE  Private'
<1> USE AddressAssumption, NoneAssumption DEF Types, HasLock, Points, Private, KeysDiffer, Move
<1>1. ASSUME NEW d \in Conns, Accept(d) PROVE Private'
  BY <1>1 DEF Accept, locks
<1>2. ASSUME NEW d \in Conns, Lookup(d) PROVE Private'
  BY <1>2 DEF Lookup, FoundUnder, locks
<1>3. ASSUME NEW d \in Conns, CreateLockGroup(d) PROVE Private'
  BY <1>3 DEF CreateLockGroup, locks
<1>4. ASSUME NEW d \in Conns, CreateLock(d) PROVE Private'
  BY <1>4 DEF CreateLock, locks
<1>5. ASSUME NEW d \in Conns, AddRelease(d) PROVE Private'
  BY <1>5 DEF AddRelease
<1>6. ASSUME NEW d \in Conns, Other(d) PROVE Private'
  BY <1>6 DEF Other, locks
<1>7. ASSUME NEW d \in Conns, IncreaseGetIndex(d) PROVE Private'
  BY <1>7 DEF IncreaseGetIndex
<1>8. ASSUME NEW d \in Conns, CheckOther(d) PROVE Private'
  BY <1>8 DEF CheckOther, locks
<1>9. ASSUME NEW d \in Conns, SetOther(d) PROVE Private'
  BY <1>9 DEF SetOther
<1>10. ASSUME NEW d \in Conns, Release(d) PROVE Private'
  BY <1>10 DEF Release
<1>11. ASSUME Sweep PROVE Private'
  BY <1>11 DEF Sweep, Snapshot, CheckEntry, Delete, locks, conn
<1>12. CASE UNCHANGED vars
  BY <1>12 DEF vars, locks, conn
<1>13. QED
  BY <1>1, <1>2, <1>3, <1>4, <1>5, <1>6, <1>7, <1>8, <1>9, <1>10, <1>11, <1>12
  DEF Next, GetResource

\* Once a port is the first number of an address it stays.
LEMMA KeysDifferBefore ==
  ASSUME Types, [Next]_vars, KeysDiffer'
  PROVE  KeysDiffer
<1> USE AddressAssumption DEF Types, KeysDiffer
<1>1. ASSUME NEW d \in Conns, Accept(d) PROVE KeysDiffer
  BY <1>1, NoneAssumption DEF Accept, Move, HasLock
<1>2. CASE UNCHANGED port
  BY <1>2
<1>3. QED
  BY <1>1, <1>2 DEF Next, GetResource, Sweep, Lookup, FoundUnder, CreateLockGroup, CreateLock,
       AddRelease, Other, IncreaseGetIndex, CheckOther, SetOther, Release, Snapshot, CheckEntry,
       Delete, vars

\* The strengthening of OwnQueue, which is inductive.
LEMMA PrivateInvariant == Spec => [](Types /\ (KeysDiffer => Private))
<1>1. Types /\ (KeysDiffer => Private) /\ [Next]_vars => Types' /\ (KeysDiffer => Private)'
  BY TypesStep, PrivateStep, KeysDifferBefore
<1>2. QED
  BY <1>1, TypesInit, PrivateInit, PTL DEF Spec

\* As long as no client port is the first number of a client's address, connections
\* never share a write queue, although two of them may run GetResource at once and
\* the map keeps only one lock for both; and every one starts to serve at index 1.
THEOREM QueuesAreOwn == Spec => []OwnQueue
<1>1. Types /\ (KeysDiffer => Private) => OwnQueue
  BY NoneAssumption DEF Types, HasLock, Private, OwnQueue
<1>2. QED
  BY <1>1, PrivateInvariant, PTL
=============================================================================
