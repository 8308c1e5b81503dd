---------------------------- MODULE LockRegistry ----------------------------
(***************************************************************************)
(* How an accepted connection gets its lock and its resource (the write    *)
(* queue): resourceGroup.go, GetResource, on the root DefaultLockGroup of  *)
(* lockMap/LockGroup.go, next to the sweep that CheckLocks runs every ten  *)
(* minutes.                                                                *)
(*                                                                         *)
(* GetLock looks a lock up by the part of the address behind the colon     *)
(* (port), but CreateLock stores it under the part before the first dot    *)
(* (HostOf).  A lock and a resource are named by the connection that       *)
(* creates them.  Nobody calls Lock on these locks, so CanRelease depends  *)
(* on the counter only, and nobody calls Destroy, so no group can go.      *)
(***************************************************************************)
EXTENDS Integers, FiniteSets

CONSTANTS
  Conns,                \* connections; each is accepted at most once
  Keys,                 \* parts of addresses
  HostOf, PortsOf,      \* the first part of a connection's address; its possible ports
  None

ASSUME AddressAssumption == HostOf \in [Conns -> Keys] /\ PortsOf \in [Conns -> SUBSET Keys]
ASSUME NoneAssumption == None \notin Conns \cup Keys

VARIABLES
  groups,               \* keys of DefaultLockGroup.lockGroupMap
  lockMap,              \* DefaultLockGroup.lockMap
  waitingRelease,       \* DefaultLock.waitingRelease, per lock
  index,                \* DefaultLock.index
  other,                \* DefaultLock.other
  port,                 \* the port a connection came from
  pc,                   \* where a connection is in GetResource
  lock,                 \* the lock it has
  resource,             \* the resource it has
  snapshot,             \* the entries the sweep still has to look at
  doomed                \* the key the sweep is about to delete

conn  == <<pc, lock, resource>>
locks == <<waitingRelease, index, other>>
sweep == <<snapshot, doomed>>
vars  == <<groups, lockMap, locks, port, conn, sweep>>

Points == {"new", "lookup", "group", "create", "count", "other", "index", "check", "set",
           "serving", "failed", "closed"}

TypeOK ==
  /\ groups \subseteq Keys
  /\ lockMap \in [Keys -> Conns \cup {None}]
  /\ waitingRelease \in [Conns -> Nat]
  /\ index \in [Conns -> Nat]
  /\ other \in [Conns -> Conns \cup {None}]
  /\ port \in [Conns -> Keys \cup {None}]
  /\ pc \in [Conns -> Points]
  /\ lock \in [Conns -> Conns \cup {None}]
  /\ resource \in [Conns -> Conns \cup {None}]
  /\ snapshot \subseteq Keys \X Conns
  /\ doomed \in Keys \cup {None}

Init ==
  /\ groups = {}
  /\ lockMap = [k \in Keys |-> None]
  /\ waitingRelease = [l \in Conns |-> 0]
  /\ index = [l \in Conns |-> 0]
  /\ other = [l \in Conns |-> None]
  /\ port = [c \in Conns |-> None]
  /\ pc = [c \in Conns |-> "new"]
  /\ lock = [c \in Conns |-> None]
  /\ resource = [c \in Conns |-> None]
  /\ snapshot = {}
  /\ doomed = None

Move(c, from, to) ==
  /\ pc[c] = from
  /\ pc' = [pc EXCEPT ![c] = to]

Accept(c) ==
  /\ Move(c, "new", "lookup")
  /\ \E p \in PortsOf[c] : port' = [port EXCEPT ![c] = p]
  /\ UNCHANGED <<groups, lockMap, locks, lock, resource, sweep>>

-----------------------------------------------------------------------------
(* GetLock.                                                                *)

FoundUnder(c, key) ==
  /\ pc[c] = "lookup"
  /\ lock' = [lock EXCEPT ![c] = lockMap[key]]
  /\ pc' = [pc EXCEPT ![c] = IF lockMap[key] = None THEN "group" ELSE "count"]
  /\ UNCHANGED <<groups, lockMap, locks, port, resource, sweep>>

\* Mutant: the lock is looked up where CreateLock stores it.
LookupByHost(c) == FoundUnder(c, HostOf[c])

Lookup(c) == FoundUnder(c, port[c])

\* A group of that key is replaced by an empty one: the set stays the same.
CreateLockGroup(c) ==
  /\ Move(c, "group", "create")
  /\ groups' = groups \cup {HostOf[c]}
  /\ UNCHANGED <<lockMap, locks, port, lock, resource, sweep>>

CreateLock(c) ==
  /\ Move(c, "create", "count")
  /\ lockMap' = [lockMap EXCEPT ![HostOf[c]] = c]
  /\ lock' = [lock EXCEPT ![c] = c]
  /\ UNCHANGED <<groups, locks, port, resource, sweep>>

-----------------------------------------------------------------------------
(* The rest of GetResource, and the CloseHook it returns.                  *)

AddRelease(c) ==
  /\ Move(c, "count", "other")
  /\ waitingRelease' = [waitingRelease EXCEPT ![lock[c]] = @ + 1]
  /\ UNCHANGED <<groups, lockMap, index, other, port, lock, resource, sweep>>

Other(c) ==
  /\ Move(c, "other", IF other[lock[c]] = None THEN "index" ELSE "serving")
  /\ resource' = [resource EXCEPT ![c] = other[lock[c]]]
  /\ UNCHANGED <<groups, lockMap, locks, port, lock, sweep>>

IncreaseGetIndex(c) ==
  /\ Move(c, "index", "check")
  /\ index' = [index EXCEPT ![lock[c]] = @ + 1]
  /\ UNCHANGED <<groups, lockMap, waitingRelease, other, port, lock, resource, sweep>>

\* When it fails the counter is not taken back.
CheckOther(c) ==
  /\ Move(c, "check", IF other[lock[c]] = None THEN "set" ELSE "failed")
  /\ UNCHANGED <<groups, lockMap, locks, port, lock, resource, sweep>>

SetOther(c) ==
  /\ Move(c, "set", "serving")
  /\ other' = [other EXCEPT ![lock[c]] = c]
  /\ resource' = [resource EXCEPT ![c] = c]
  /\ UNCHANGED <<groups, lockMap, waitingRelease, index, port, lock, sweep>>

\* Mutant: both directions of the connection release the lock.
ReleaseTwice(c) ==
  /\ Move(c, "serving", "closed")
  /\ waitingRelease' = [waitingRelease EXCEPT ![lock[c]] = @ - 2]
  /\ UNCHANGED <<groups, lockMap, index, other, port, lock, resource, sweep>>

\* Mutant: the lock is not released.
ReleaseNothing(c) ==
  /\ Move(c, "serving", "closed")
  /\ UNCHANGED <<groups, lockMap, locks, port, lock, resource, sweep>>

Release(c) ==
  /\ Move(c, "serving", "closed")
  /\ waitingRelease' = [waitingRelease EXCEPT ![lock[c]] = @ - 1]
  /\ UNCHANGED <<groups, lockMap, index, other, port, lock, resource, sweep>>

-----------------------------------------------------------------------------
(* CheckLocks: the iterator works on a copy of the map.                    *)

\* Mutant: the counter must have gone below zero, as the comment on it says.
CanReleaseBelowZero(l) == waitingRelease[l] < 0

CanRelease(l) == waitingRelease[l] <= 0

Snapshot ==
  /\ snapshot = {}
  /\ doomed = None
  /\ snapshot' = {e \in Keys \X Conns : lockMap[e[1]] = e[2]}
  /\ UNCHANGED <<groups, lockMap, locks, port, conn, doomed>>

CheckEntry(e) ==
  /\ doomed = None
  /\ e \in snapshot
  /\ snapshot' = snapshot \ {e}
  /\ doomed' = IF CanRelease(e[2]) THEN e[1] ELSE None
  /\ UNCHANGED <<groups, lockMap, locks, port, conn>>

\* Whatever the key maps to by now is deleted.
Delete ==
  /\ doomed # None
  /\ lockMap' = [lockMap EXCEPT ![doomed] = None]
  /\ doomed' = None
  /\ UNCHANGED <<groups, locks, port, conn, snapshot>>

-----------------------------------------------------------------------------

GetResource(c) ==
  \/ Lookup(c) \/ CreateLockGroup(c) \/ CreateLock(c)
  \/ AddRelease(c) \/ Other(c) \/ IncreaseGetIndex(c) \/ CheckOther(c) \/ SetOther(c)

Sweep == Snapshot \/ Delete \/ \E e \in Keys \X Conns : CheckEntry(e)

Next ==
  \/ \E c \in Conns : Accept(c) \/ GetResource(c) \/ Release(c)
  \/ Sweep

Spec == Init /\ [][Next]_vars

-----------------------------------------------------------------------------
(* Properties.                                                             *)

\* No client port so far is the first number of a client's address.
KeysDiffer == \A c, d \in Conns : port[c] # HostOf[d]

Holds(c, l) == lock[c] = l /\ pc[c] \in {"other", "index", "check", "set", "serving", "failed"}

\* waitingRelease counts the connections that have a lock and have not released
\* it, whatever they race with; a failed GetResource counts for good.
RefsMatch ==
  \A l \in Conns : waitingRelease[l] = Cardinality({c \in Conns : Holds(c, l)})

\* Connections do not share a write queue, whose indices they would mix up, and the
\* lock of one that starts to serve is at index 1, where its queue starts: as long as
\* no lock can be found by a port.
OwnQueue ==
  KeysDiffer =>
    \A c \in Conns : pc[c] = "serving" =>
      /\ index[lock[c]] = 1
      /\ \A d \in Conns : pc[d] = "serving" /\ resource[c] = resource[d] => c = d
=============================================================================
