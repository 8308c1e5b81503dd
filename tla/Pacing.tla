------------------------------- MODULE Pacing -------------------------------
(***************************************************************************)
(* tcpPlayback/tcpPlayer.go, wait: how long a TcpPlayer that was made with *)
(* replayTime pauses before it sends a packet.  It keeps a record for each *)
(* of its two connections: the time of the last packet there, and the time *)
(* at which it was sent.                                                   *)
(*                                                                         *)
(* The times of packets are UnixNano readings and those of the clock       *)
(* UnixMilli readings, and the pause is converted from milliseconds to a   *)
(* time.Duration, which is a signed integer of nanoseconds.  The code      *)
(* subtracts the ones from the others; only the conversion can overflow.   *)
(***************************************************************************)
EXTENDS Integers

CONSTANTS
  Stamps,               \* the times of packets, in nanoseconds
  Clocks,               \* readings of the clock, in milliseconds
  NanosPerMilli,        \* 10^6 in the code
  Word                  \* 2^64 in the code

\* Any time since 1970 has more nanoseconds than one in this century has milliseconds,
\* so that a packet's time is the greater number.
ASSUME StampsAssumption == Stamps \subseteq Nat
ASSUME ClocksAssumption == Clocks \subseteq Nat
ASSUME UnitsAssumption == \A s \in Stamps : \A m \in Clocks : m < s
ASSUME WordAssumption == Word \in Nat \ {0} /\ NanosPerMilli \in Nat

VARIABLES
  packageTime,          \* other[PackageTime] of clientTimeRecord and targetTimeRecord
  lastCalled,           \* other[LastCalled]
  pause                 \* what time.Sleep was called with last

pacing == <<packageTime, lastCalled, pause>>

Sides == {"client", "target"}

PacingInit ==
  /\ packageTime = [side \in Sides |-> 0]
  /\ lastCalled = [side \in Sides |-> 0]
  /\ pause = 0

\* The signed integer that a number wraps round to.
Signed(n) == IF n % Word < Word \div 2 THEN n % Word ELSE (n % Word) - Word

\* time.Duration(sleepTime) * time.Millisecond
Duration(sleepTime) == Signed(sleepTime * NanosPerMilli)

\* By how much the packet is early: packetCallTime-ptime - (milli-ltime).
SleepTime(side, stamp, milli) == stamp - packageTime[side] - milli + lastCalled[side]

Remember(side, stamp, called, sleepTime) ==
  /\ packageTime' = [packageTime EXCEPT ![side] = stamp]
  /\ lastCalled' = [lastCalled EXCEPT ![side] = called]
  /\ pause' = IF sleepTime <= 0 THEN 0 ELSE Duration(sleepTime)

\* A pause that has overflowed into the negative is none.
Wait(side, stamp, milli) ==
  LET early == SleepTime(side, stamp, milli)
  IN  Remember(side, stamp, IF early <= 0 THEN milli ELSE milli + early, early)

PacingNext == \E side \in Sides, stamp \in Stamps, milli \in Clocks : Wait(side, stamp, milli)

PacingSpec == PacingInit /\ [][PacingNext]_pacing

-----------------------------------------------------------------------------

\* The times of a connection are the same number: the time that has passed since the
\* last packet, which the pause should make up for, has cancelled out.
Forgetful == \A side \in Sides : packageTime[side] = lastCalled[side]

\* How long the player pauses before a packet depends on its time and the clock alone:
\* it is the same whenever the packet before it was recorded and sent.
PauseForgetsThePast ==
  [][\A side \in Sides, stamp \in Stamps, milli \in Clocks :
       Wait(side, stamp, milli) => pause' = Duration(stamp - milli)]_pacing
=============================================================================
