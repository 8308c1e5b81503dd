---------------------------- MODULE ReplayProofs ----------------------------
(***************************************************************************)
(* Theorems about a player: what its pauses depend on, that it tells the   *)
(* records of the file apart, that what was recorded is what it sends, and *)
(* that it has only so many steps to take; and about the format: reading   *)
(* inverts writing.  They hold for any packets, any number of them, any    *)
(* size of a read and of the buffer, and any times.                        *)
(*                                                                         *)
(* What is said of a whole record or file is shown piece by piece, and     *)
(* that it holds of all pieces because there is no least one of which it   *)
(* does not (Least).                                                       *)
(***************************************************************************)
EXTENDS Replay, SequenceTheorems, WellFoundedInduction, TLAPS

-----------------------------------------------------------------------------
(* Pauses.                                                                 *)

\* The two times of a connection, which are numbers, are the same number.
PacingInv ==
  /\ packageTime \in [Sides -> Nat]
  /\ lastCalled \in [Sides -> Int]
  /\ Forgetful

\* Then a packet is as early as its time is greater than the clock.
LEMMA EarlyByTheClock ==
  ASSUME PacingInv, NEW side \in Sides, NEW stamp \in Stamps, NEW milli \in Clocks
  PROVE  /\ SleepTime(side, stamp, milli) = stamp - milli
         /\ stamp - milli \in Nat \ {0}
<1>1. stamp \in Nat /\ milli \in Nat /\ milli < stamp
  BY StampsAssumption, ClocksAssumption, UnitsAssumption
<1>2. packageTime[side] \in Nat /\ packageTime[side] = lastCalled[side]
  BY DEF PacingInv, Forgetful
<1>3. SleepTime(side, stamp, milli) = stamp - milli
  BY <1>1, <1>2 DEF SleepTime
<1> QED
  BY <1>1, <1>3

\* A call of wait keeps the two times equal: it sets both to the packet's.
LEMMA WaitKeeps ==
  ASSUME PacingInv, NEW side \in Sides, NEW stamp \in Stamps, NEW milli \in Clocks,
         Wait(side, stamp, milli)
  PROVE  PacingInv' /\ pause' = Duration(stamp - milli)
<1>1. SleepTime(side, stamp, milli) = stamp - milli /\ stamp - milli \in Nat \ {0}
  BY EarlyByTheClock
<1>2. stamp \in Nat /\ milli \in Nat
  BY StampsAssumption, ClocksAssumption
<1>3. ~(stamp - milli <= 0) /\ milli + (stamp - milli) = stamp
  BY <1>1, <1>2
<1>4. Remember(side, stamp, stamp, stamp - milli)
  BY <1>1, <1>3 DEF Wait
<1>5. /\ packageTime' = [packageTime EXCEPT ![side] = stamp]
      /\ lastCalled' = [lastCalled EXCEPT ![side] = stamp]
      /\ pause' = Duration(stamp - milli)
  BY <1>3, <1>4 DEF Remember
<1>6. packageTime' \in [Sides -> Nat] /\ lastCalled' \in [Sides -> Int]
  BY <1>2, <1>5 DEF PacingInv
<1>7. Forgetful'
  BY <1>5 DEF PacingInv, Forgetful
<1> QED
  BY <1>5, <1>6, <1>7 DEF PacingInv

LEMMA PacingInitially == PacingInit => PacingInv
<1> SUFFICES ASSUME PacingInit PROVE PacingInv
  OBVIOUS
<1>1. packageTime \in [Sides -> Nat] /\ lastCalled \in [Sides -> Int]
  BY DEF PacingInit
<1>2. Forgetful
  BY DEF PacingInit, Forgetful
<1> QED
  BY <1>1, <1>2 DEF PacingInv

LEMMA PacingStep == PacingInv /\ [PacingNext]_pacing => PacingInv'
<1> SUFFICES ASSUME PacingInv, [PacingNext]_pacing PROVE PacingInv'
  OBVIOUS
<1>1. CASE PacingNext
  BY <1>1, WaitKeeps DEF PacingNext
<1>2. CASE UNCHANGED pacing
  BY <1>2 DEF PacingInv, Forgetful, pacing
<1> QED
  BY <1>1, <1>2

\* The time since the last packet on a connection always cancels out.
THEOREM PlayerForgets == PacingSpec => []Forgetful
<1>1. PacingSpec => []PacingInv
  BY PacingInitially, PacingStep, PTL DEF PacingSpec
<1>2. PacingInv => Forgetful
  BY DEF PacingInv
<1> QED
  BY <1>1, <1>2, PTL

\* How long the player pauses before a packet depends on the packet's time and the
\* clock, and on nothing that was recorded or sent before it.
THEOREM PausesForgetThePast == PacingSpec => PauseForgetsThePast
<1> DEFINE ByTheClock ==
      \A side \in Sides, stamp \in Stamps, milli \in Clocks :
        Wait(side, stamp, milli) => pause' = Duration(stamp - milli)
<1>1. PacingSpec => []PacingInv
  BY PacingInitially, PacingStep, PTL DEF PacingSpec
<1>2. PacingInv => ByTheClock
  BY WaitKeeps
<1>3. PacingInv /\ [PacingNext]_pacing => [ByTheClock]_pacing
  BY <1>2
<1> QED
  BY <1>1, <1>3, PTL DEF PacingSpec, PauseForgetsThePast

-----------------------------------------------------------------------------
(* Sequences.                                                              *)

\* The least number of a set: what the inductions over data rest on.
LEMMA Least ==
  ASSUME NEW S, S \subseteq Nat, S # {}
  PROVE  \E m \in S : \A k \in S : m <= k
<1>1. PICK m \in S : \A k \in S : ~(<<k, m>> \in OpToRel(<, Nat))
  BY NatLessThanWellFounded, WFMin
<1>2. \A k \in S : ~(k < m)
  BY <1>1 DEF OpToRel
<1> SUFFICES ASSUME NEW k \in S PROVE m <= k
  OBVIOUS
<1>3. k \in Int /\ m \in Int
  OBVIOUS
<1> QED
  BY <1>2, <1>3

LEMMA MinIs ==
  ASSUME NEW S, S \subseteq Nat, S # {}
  PROVE  Min(S) \in S /\ \A k \in S : Min(S) <= k
BY Least DEF Min

\* The pieces of R put together one by one.
Joins(f, R, n) == f = [i \in 1 .. n |-> IF i = 1 THEN R[i] ELSE f[i - 1] \o R[i]]
Joined(R) == CHOOSE f : Joins(f, R, Len(R))

LEMMA JoinsExist == ASSUME NEW R, NEW n \in Nat PROVE \E f : Joins(f, R, n)
<1> DEFINE Bad == {k \in Nat : ~\E f : Joins(f, R, k)}
<1> SUFFICES ASSUME Bad # {} PROVE FALSE
  OBVIOUS
<1>1. PICK m \in Bad : \A k \in Bad : m <= k
  BY Least
<1>2. CASE m = 0
  <2>1. Joins([i \in 1 .. 0 |-> 0], R, 0)
    BY DEF Joins
  <2> QED
    BY <1>2, <2>1
<1>3. CASE m # 0
  <2>1. m - 1 \in Nat /\ m \in Nat
    BY <1>3
  <2>2. m - 1 \notin Bad
    BY <1>1, <2>1
  <2>3. PICK f : Joins(f, R, m - 1)
    BY <2>1, <2>2
  <2>4. \A i \in 1 .. m - 1 : f[i] = IF i = 1 THEN R[i] ELSE f[i - 1] \o R[i]
    BY <2>3 DEF Joins
  <2> DEFINE g == [i \in 1 .. m |-> IF i = 1 THEN R[i] ELSE f[i - 1] \o R[i]]
  <2>5. \A i \in 1 .. m - 1 : g[i] = f[i]
    BY <2>1, <2>4
  <2>6. \A i \in 2 .. m : f[i - 1] = g[i - 1]
    <3> SUFFICES ASSUME NEW i \in 2 .. m PROVE f[i - 1] = g[i - 1]
      OBVIOUS
    <3>1. i - 1 \in 1 .. m - 1
      BY <2>1
    <3> HIDE DEF g
    <3> QED
      BY <2>5, <3>1
  <2>7. \A i \in 1 .. m : g[i] = IF i = 1 THEN R[i] ELSE g[i - 1] \o R[i]
    <3> SUFFICES ASSUME NEW i \in 1 .. m PROVE g[i] = IF i = 1 THEN R[i] ELSE g[i - 1] \o R[i]
      OBVIOUS
    <3>1. CASE i = 1
      BY <3>1
    <3>2. CASE i # 1
      <4>1. i \in 2 .. m
        BY <2>1, <3>2
      <4>2. g[i] = f[i - 1] \o R[i]
        BY <3>2
      <4> HIDE DEF g
      <4> QED
        BY <2>6, <3>2, <4>1, <4>2
    <3> QED
      BY <3>1, <3>2
  <2>8. g = [i \in 1 .. m |-> g[i]]
    OBVIOUS
  <2> HIDE DEF g
  <2>9. g = [i \in 1 .. m |-> IF i = 1 THEN R[i] ELSE g[i - 1] \o R[i]]
    BY <2>7, <2>8
  <2>10. Joins(g, R, m)
    BY <2>9 DEF Joins
  <2> QED
    BY <2>10
<1> QED
  BY <1>2, <1>3

LEMMA JoinedIs ==
  ASSUME NEW S, NEW R \in Seq(Seq(S)), R # <<>>
  PROVE  /\ FlattenSeq(R) = Joined(R)[Len(R)]
         /\ Len(R) \in Nat \ {0}
         /\ \A i \in 1 .. Len(R) :
              Joined(R)[i] = IF i = 1 THEN R[i] ELSE Joined(R)[i - 1] \o R[i]
<1>1. Len(R) \in Nat \ {0}
  BY EmptySeq, LenProperties
<1>2. Joins(Joined(R), R, Len(R))
  BY <1>1, JoinsExist DEF Joined
<1>3. Joined(R) = [i \in 1 .. Len(R) |-> IF i = 1 THEN R[i] ELSE Joined(R)[i - 1] \o R[i]]
  BY <1>2 DEF Joins
<1>4. FlattenSeq(R) = Joined(R)[Len(R)]
  BY <1>1 DEF FlattenSeq, Joined, Joins
<1> QED
  BY <1>1, <1>3, <1>4

\* Where the first k pieces end.
EndOf(R, k) == IF k = 0 THEN 0 ELSE Len(Joined(R)[k])

LEMMA JoinedTypes ==
  ASSUME NEW S, NEW R \in Seq(Seq(S)), R # <<>>
  PROVE  \A k \in 1 .. Len(R) : Joined(R)[k] \in Seq(S)
<1> DEFINE Bad == {k \in 1 .. Len(R) : Joined(R)[k] \notin Seq(S)}
<1> SUFFICES ASSUME Bad # {} PROVE FALSE
  OBVIOUS
<1>1. /\ Len(R) \in Nat \ {0} /\ \A i \in 1 .. Len(R) : R[i] \in Seq(S)
      /\ \A i \in 1 .. Len(R) :
              Joined(R)[i] = IF i = 1 THEN R[i] ELSE Joined(R)[i - 1] \o R[i]
  BY JoinedIs, ElementOfSeq
<1>2. Bad \subseteq Nat
  BY <1>1
<1>3. PICK m \in Bad : \A k \in Bad : m <= k
  BY <1>2, Least
<1>4. CASE m = 1
  BY <1>1, <1>4
<1>5. CASE m # 1
  <2>1. m \in 1 .. Len(R) /\ m - 1 \in 1 .. Len(R)
    BY <1>1, <1>5
  <2>2. m - 1 \notin Bad
    BY <1>3, <2>1
  <2>3. Joined(R)[m] = Joined(R)[m - 1] \o R[m] /\ Joined(R)[m - 1] \in Seq(S) /\ R[m] \in Seq(S)
    BY <1>1, <1>5, <2>1, <2>2
  <2>4. Joined(R)[m] \in Seq(S)
    BY <2>3, ConcatProperties
  <2> QED
    BY <2>4
<1> QED
  BY <1>4, <1>5

LEMMA ConcatAt ==
  ASSUME NEW S, NEW s \in Seq(S), NEW t \in Seq(S)
  PROVE  /\ Len(s) \in Nat /\ Len(t) \in Nat
         /\ s \o t \in Seq(S) /\ Len(s \o t) = Len(s) + Len(t)
         /\ \A i \in 1 .. Len(s) : (s \o t)[i] = s[i]
         /\ \A i \in 1 .. Len(t) : (s \o t)[Len(s) + i] = t[i]
<1>1. Len(s) \in Nat /\ Len(t) \in Nat
  BY LenProperties
<1>2. s \o t \in Seq(S) /\ Len(s \o t) = Len(s) + Len(t)
  BY ConcatProperties
<1>3. ASSUME NEW i \in 1 .. Len(s) PROVE (s \o t)[i] = s[i]
  BY <1>1, ConcatProperties
<1>4. ASSUME NEW i \in 1 .. Len(t) PROVE (s \o t)[Len(s) + i] = t[i]
  <2>1. Len(s) + i \in 1 .. Len(s) + Len(t) /\ ~(Len(s) + i <= Len(s)) /\ Len(s) + i - Len(s) = i
    BY <1>1
  <2>2. (s \o t)[Len(s) + i] = IF Len(s) + i <= Len(s) THEN s[Len(s) + i] ELSE t[Len(s) + i - Len(s)]
    BY <2>1, ConcatProperties
  <2> QED
    BY <2>1, <2>2
<1> QED
  BY <1>1, <1>2, <1>3, <1>4

\* Piece k is put behind the ones before it.
LEMMA NextPiece ==
  ASSUME NEW S, NEW R \in Seq(Seq(S)), R # <<>>, NEW k \in 1 .. Len(R)
  PROVE  /\ EndOf(R, k) \in Nat /\ EndOf(R, k - 1) \in Nat
         /\ R[k] \in Seq(S) /\ Len(R[k]) \in Nat
         /\ EndOf(R, k) = EndOf(R, k - 1) + Len(R[k])
         /\ \A i \in 1 .. EndOf(R, k - 1) : Joined(R)[k][i] = Joined(R)[k - 1][i]
         /\ \A i \in 1 .. Len(R[k]) : Joined(R)[k][EndOf(R, k - 1) + i] = R[k][i]
<1>1. /\ Len(R) \in Nat \ {0} /\ R[k] \in Seq(S)
      /\ Joined(R)[k] = IF k = 1 THEN R[k] ELSE Joined(R)[k - 1] \o R[k]
  BY JoinedIs, ElementOfSeq
<1>2. Joined(R)[k] \in Seq(S)
  BY JoinedTypes
<1>3. Len(R[k]) \in Nat /\ Len(Joined(R)[k]) \in Nat
  BY <1>1, <1>2, LenProperties
<1>4. CASE k = 1
  <2>1. Joined(R)[k] = R[k] /\ EndOf(R, k) = Len(R[k]) /\ EndOf(R, k - 1) = 0
    BY <1>1, <1>4 DEF EndOf
  <2>2. PICK t \in Seq(S) : t = R[k]
    BY <1>1
  <2> QED
    BY <1>3, <2>1, <2>2
<1>5. CASE k # 1
  <2>1. k - 1 \in 1 .. Len(R) /\ k - 1 # 0 /\ k # 0
    BY <1>1, <1>5
  <2>2. PICK s \in Seq(S) : s = Joined(R)[k - 1]
    BY <2>1, JoinedTypes
  <2>3. PICK t \in Seq(S) : t = R[k]
    BY <1>1
  <2>4. Joined(R)[k] = s \o t
    BY <1>1, <1>5, <2>2, <2>3
  <2>5. EndOf(R, k - 1) = Len(s) /\ EndOf(R, k) = Len(s \o t)
    BY <2>1, <2>2, <2>4 DEF EndOf
  <2>6. /\ Len(s) \in Nat /\ Len(t) \in Nat /\ Len(s \o t) = Len(s) + Len(t)
        /\ \A i \in 1 .. Len(s) : (s \o t)[i] = s[i]
        /\ \A i \in 1 .. Len(t) : (s \o t)[Len(s) + i] = t[i]
    BY ConcatAt
  <2>7. \A i \in 1 .. EndOf(R, k - 1) : Joined(R)[k][i] = Joined(R)[k - 1][i]
    BY <2>2, <2>4, <2>5, <2>6
  <2>8. Len(R[k]) = Len(t) /\ \A i \in 1 .. Len(t) : Joined(R)[k][EndOf(R, k - 1) + i] = R[k][i]
    BY <2>3, <2>4, <2>5, <2>6
  <2>9. EndOf(R, k) \in Nat /\ EndOf(R, k - 1) \in Nat /\ EndOf(R, k) = EndOf(R, k - 1) + Len(R[k])
    BY <2>5, <2>6, <2>8
  <2> QED
    BY <1>1, <1>3, <2>7, <2>8, <2>9
<1> QED
  BY <1>4, <1>5

\* Every piece is where it was put.
Kept(R, k, n) ==
  /\ EndOf(R, k) <= EndOf(R, n)
  /\ \A i \in 1 .. Len(R[k]) : Joined(R)[n][EndOf(R, k - 1) + i] = R[k][i]

LEMMA KeptOn == \A a, b, c, l, i \in Nat : a = b + l /\ a <= c /\ i \in 1 .. l => b + i \in 1 .. c
OBVIOUS

LEMMA PieceStays ==
  ASSUME NEW S, NEW R \in Seq(Seq(S)), R # <<>>, NEW k \in 1 .. Len(R)
  PROVE  \A n \in k .. Len(R) : Kept(R, k, n)
<1> DEFINE Bad == {n \in k .. Len(R) : ~Kept(R, k, n)}
<1> SUFFICES ASSUME Bad # {} PROVE FALSE
  OBVIOUS
<1>1. Len(R) \in Nat
  BY LenProperties
<1>2. Bad \subseteq Nat
  BY <1>1
<1>3. PICK m \in Bad : \A n \in Bad : m <= n
  BY <1>2, Least
<1>4. m \in k .. Len(R) /\ m \in 1 .. Len(R) /\ ~Kept(R, k, m)
  BY <1>1
<1>5. CASE m = k
  <2>1. EndOf(R, k) \in Nat
    BY NextPiece
  <2>2. \A i \in 1 .. Len(R[k]) : Joined(R)[k][EndOf(R, k - 1) + i] = R[k][i]
    BY NextPiece
  <2> QED
    BY <1>4, <1>5, <2>1, <2>2 DEF Kept
<1>6. CASE m # k
  <2>1. m - 1 \in k .. Len(R) /\ m - 1 < m
    BY <1>1, <1>4, <1>6
  <2>2. m - 1 \notin Bad
    BY <1>1, <1>3, <1>4, <2>1
  <2>3. Kept(R, k, m - 1)
    BY <2>1, <2>2
  <2>4. /\ EndOf(R, k) \in Nat /\ EndOf(R, k - 1) \in Nat /\ EndOf(R, k) = EndOf(R, k - 1) + Len(R[k])
        /\ Len(R[k]) \in Nat
    BY NextPiece
  <2>5. /\ EndOf(R, m) \in Nat /\ EndOf(R, m - 1) \in Nat /\ EndOf(R, m) = EndOf(R, m - 1) + Len(R[m])
        /\ Len(R[m]) \in Nat
        /\ \A i \in 1 .. EndOf(R, m - 1) : Joined(R)[m][i] = Joined(R)[m - 1][i]
    BY <1>4, NextPiece
  <2>6. EndOf(R, k) <= EndOf(R, m - 1)
    BY <2>3 DEF Kept
  <2>7. ASSUME NEW i \in 1 .. Len(R[k]) PROVE Joined(R)[m][EndOf(R, k - 1) + i] = R[k][i]
    <3>1. EndOf(R, k - 1) + i \in 1 .. EndOf(R, m - 1)
      <4>1. i \in Nat
        BY <2>4
      <4> QED
        BY <2>4, <2>5, <2>6, <4>1, KeptOn
    <3>2. Joined(R)[m - 1][EndOf(R, k - 1) + i] = R[k][i]
      BY <2>3 DEF Kept
    <3> QED
      BY <2>5, <3>1, <3>2
  <2>8. EndOf(R, k) <= EndOf(R, m)
    BY <2>4, <2>5, <2>6
  <2> QED
    BY <1>4, <2>7, <2>8 DEF Kept
<1> QED
  BY <1>5, <1>6

-----------------------------------------------------------------------------
(* Where a magic header is.                                                *)

LEMMA Distinct ==
  /\ Prefix # NL /\ Prefix # T /\ NL # T
  /\ \A a, b : Fixed(a, b) # Prefix /\ Fixed(a, b) # NL /\ Fixed(a, b) # T
  /\ \A a, b : FromTo(a, b) # Prefix /\ FromTo(a, b) # NL /\ FromTo(a, b) # T
BY DEF Prefix, NL, T, Fixed, FromTo

HeaderAt(s, i) == i >= 1 /\ i + 2 <= Len(s) /\ s[i] = Prefix /\ s[i + 1] = NL /\ s[i + 2] = T

LEMMA OccursIs ==
  ASSUME NEW S, NEW s \in Seq(S), s # <<>>, NEW data \in Seq(S), NEW i \in Int
  PROVE  OccursAt(s, data, i) <=>
           i >= 1 /\ i - 1 + Len(s) <= Len(data) /\ \A k \in 1 .. Len(s) : data[i - 1 + k] = s[k]
<1>1. Len(s) \in Nat \ {0} /\ Len(data) \in Nat
  BY EmptySeq, LenProperties
<1> SUFFICES ASSUME i >= 1
             PROVE  IsPrefix(s, SubSeq(data, i, Len(data))) <=>
                      i - 1 + Len(s) <= Len(data) /\ \A k \in 1 .. Len(s) : data[i - 1 + k] = s[k]
  BY DEF OccursAt
<1> DEFINE d == SubSeq(data, i, Len(data))
<1>2. \A k \in i .. Len(data) : data[k] \in S
  BY ElementOfSeq
<1>3. /\ d \in Seq(S) /\ Len(d) = IF i <= Len(data) THEN Len(data) - i + 1 ELSE 0
      /\ \A k \in 1 .. Len(data) - i + 1 : d[k] = data[i + k - 1]
  BY <1>1, <1>2, SubSeqProperties
<1>4. Len(s) <= Len(d) <=> i - 1 + Len(s) <= Len(data)
  BY <1>1, <1>3
<1> HIDE DEF d
<1>5. ASSUME Len(s) <= Len(d)
      PROVE  SubSeq(s, 1, Len(s)) = SubSeq(d, 1, Len(s)) <=>
               \A k \in 1 .. Len(s) : data[i - 1 + k] = s[k]
  <2>1. SubSeq(s, 1, Len(s)) = s
    BY SubSeqFull
  <2> DEFINE e == SubSeq(d, 1, Len(s))
  <2>2. Len(d) \in Nat
    BY <1>3, LenProperties
  <2>3. \A k \in 1 .. Len(s) : d[k] \in S
    BY <1>1, <1>3, <1>5, <2>2, ElementOfSeq
  <2>4. /\ e \in Seq(S) /\ Len(e) = IF 1 <= Len(s) THEN Len(s) - 1 + 1 ELSE 0
        /\ \A k \in 1 .. Len(s) - 1 + 1 : e[k] = d[1 + k - 1]
    BY <1>1, <2>3, SubSeqProperties
  <2>5. Len(e) = Len(s) /\ \A k \in 1 .. Len(s) : e[k] = d[k]
    BY <1>1, <2>4
  <2>6. \A k \in 1 .. Len(s) : d[k] = data[i - 1 + k]
    <3> SUFFICES ASSUME NEW k \in 1 .. Len(s) PROVE d[k] = data[i - 1 + k]
      OBVIOUS
    <3>1. k \in 1 .. Len(data) - i + 1 /\ i + k - 1 = i - 1 + k
      BY <1>1, <1>4, <1>5
    <3> QED
      BY <1>3, <3>1
  <2> HIDE DEF e
  <2>7. e = s <=> \A k \in 1 .. Len(s) : e[k] = s[k]
    BY <2>4, <2>5, SeqEqual
  <2> QED
    BY <2>1, <2>5, <2>6, <2>7 DEF e
<1> QED
  BY <1>4, <1>5 DEF IsPrefix, d

\* A record that begins like one, and has no magic header but its own.
Proper(r) ==
  /\ r # <<>> => r[1] = Prefix
  /\ \A j \in Int : HeaderAt(r, j) <=> j = 1 /\ Len(r) >= 3

LEMMA HeaderBehind ==
  ASSUME NEW S, NEW s \in Seq(S), NEW t \in Seq(S), Proper(t), NEW j \in Int
  PROVE  HeaderAt(s \o t, j) <=> HeaderAt(s, j) \/ (Len(t) >= 3 /\ j = Len(s) + 1)
<1>1. /\ Len(s) \in Nat /\ Len(t) \in Nat
      /\ Len(s \o t) = Len(s) + Len(t)
      /\ \A i \in 1 .. Len(s) : (s \o t)[i] = s[i]
      /\ \A i \in 1 .. Len(t) : (s \o t)[Len(s) + i] = t[i]
  BY ConcatAt
<1>2. CASE j + 2 <= Len(s)
  <2>1. CASE j >= 1
    <3>1. j \in 1 .. Len(s) /\ j + 1 \in 1 .. Len(s) /\ j + 2 \in 1 .. Len(s)
      BY <1>1, <1>2, <2>1
    <3>2. (s \o t)[j] = s[j] /\ (s \o t)[j + 1] = s[j + 1] /\ (s \o t)[j + 2] = s[j + 2]
      BY <1>1, <3>1
    <3>3. j + 2 <= Len(s \o t) /\ j # Len(s) + 1
      BY <1>1, <1>2
    <3> QED
      BY <1>2, <3>2, <3>3 DEF HeaderAt
  <2>2. CASE ~(j >= 1)
    BY <1>1, <2>2 DEF HeaderAt
  <2> QED
    BY <2>1, <2>2
<1>3. CASE ~(j + 2 <= Len(s)) /\ j <= Len(s)
  <2>1. ~HeaderAt(s, j) /\ j # Len(s) + 1
    BY <1>1, <1>3 DEF HeaderAt
  <2>2. ASSUME HeaderAt(s \o t, j) PROVE FALSE
    <3>1. Len(t) >= 1 /\ 1 \in 1 .. Len(t) /\ t # <<>>
      BY <1>1, <1>3, <2>2 DEF HeaderAt
    <3>2. t[1] = Prefix /\ (s \o t)[Len(s) + 1] = t[1]
      BY <1>1, <3>1 DEF Proper
    <3>3. (s \o t)[j + 1] = NL /\ (s \o t)[j + 2] = T
      BY <2>2 DEF HeaderAt
    <3>4. j + 1 = Len(s) + 1 \/ j + 2 = Len(s) + 1
      BY <1>1, <1>3
    <3> QED
      BY <3>2, <3>3, <3>4, Distinct
  <2> QED
    BY <2>1, <2>2
<1>4. CASE j > Len(s)
  <2> DEFINE i == j - Len(s)
  <2>1. i \in Int /\ i + Len(s) = j
    BY <1>1
  <2>2. i >= 1 /\ j = Len(s) + i /\ ~HeaderAt(s, j) /\ (j = Len(s) + 1 <=> i = 1)
    BY <1>1, <1>4 DEF HeaderAt
  <2> HIDE DEF i
  <2>3. j + 2 <= Len(s \o t) <=> i + 2 <= Len(t)
    BY <1>1, <2>1, <2>2
  <2>4. ASSUME i + 2 <= Len(t)
        PROVE (s \o t)[j] = t[i] /\ (s \o t)[j + 1] = t[i + 1] /\ (s \o t)[j + 2] = t[i + 2]
    <3>1. i \in 1 .. Len(t) /\ i + 1 \in 1 .. Len(t) /\ i + 2 \in 1 .. Len(t)
      BY <1>1, <2>1, <2>2, <2>4
    <3>2. j = Len(s) + i /\ j + 1 = Len(s) + (i + 1) /\ j + 2 = Len(s) + (i + 2)
      BY <1>1, <2>1, <2>2
    <3> QED
      BY <1>1, <3>1, <3>2
  <2>5. HeaderAt(s \o t, j) <=> HeaderAt(t, i)
    BY <1>1, <1>4, <2>1, <2>2, <2>3, <2>4 DEF HeaderAt
  <2>6. HeaderAt(t, i) <=> i = 1 /\ Len(t) >= 3
    BY <2>1 DEF Proper
  <2> QED
    BY <2>2, <2>5, <2>6
<1> QED
  BY <1>1, <1>2, <1>3, <1>4

\* In what is put together from such records a magic header is the beginning of one.
Headed(R, n) ==
  \A j \in Int : HeaderAt(Joined(R)[n], j) <=>
    \E k \in 1 .. n : Len(R[k]) >= 3 /\ j = EndOf(R, k - 1) + 1

LEMMA HeadersAre ==
  ASSUME NEW S, NEW R \in Seq(Seq(S)), R # <<>>, \A k \in 1 .. Len(R) : Proper(R[k])
  PROVE  \A n \in 1 .. Len(R) : Headed(R, n)
<1> DEFINE Bad == {n \in 1 .. Len(R) : ~Headed(R, n)}
<1> SUFFICES ASSUME Bad # {} PROVE FALSE
  OBVIOUS
<1>1. /\ Len(R) \in Nat \ {0}
      /\ \A i \in 1 .. Len(R) :
              Joined(R)[i] = IF i = 1 THEN R[i] ELSE Joined(R)[i - 1] \o R[i]
  BY JoinedIs
<1>2. Bad \subseteq Nat
  BY <1>1
<1>3. PICK m \in Bad : \A n \in Bad : m <= n
  BY <1>2, Least
<1>4. m \in 1 .. Len(R) /\ ~Headed(R, m) /\ m \in Nat
  BY <1>1
<1>5. CASE m = 1
  <2>1. Joined(R)[1] = R[1] /\ EndOf(R, 1 - 1) = 0 /\ 1 \in 1 .. Len(R)
    BY <1>1 DEF EndOf
  <2>2. Proper(R[1])
    BY <2>1
  <2>3. \A k \in 1 .. 1 : k = 1
    OBVIOUS
  <2> QED
    BY <1>4, <1>5, <2>1, <2>2, <2>3 DEF Headed, Proper
<1>6. CASE m # 1
  <2>1. m - 1 \in 1 .. Len(R) /\ m - 1 < m /\ m - 1 # 0
    BY <1>1, <1>4, <1>6
  <2>2. m - 1 \notin Bad
    BY <1>1, <1>3, <1>4, <2>1
  <2>3. Headed(R, m - 1)
    BY <2>1, <2>2
  <2>4. PICK s \in Seq(S) : s = Joined(R)[m - 1]
    BY <2>1, JoinedTypes
  <2>5. PICK t \in Seq(S) : t = R[m]
    BY <1>4, ElementOfSeq
  <2>6. Joined(R)[m] = s \o t /\ EndOf(R, m - 1) = Len(s) /\ Proper(t)
    BY <1>1, <1>4, <1>6, <2>1, <2>4, <2>5 DEF EndOf
  <2>7. ASSUME NEW j \in Int
        PROVE  HeaderAt(Joined(R)[m], j) <=>
                 \E k \in 1 .. m : Len(R[k]) >= 3 /\ j = EndOf(R, k - 1) + 1
    <3>1. HeaderAt(s \o t, j) <=> HeaderAt(s, j) \/ (Len(t) >= 3 /\ j = Len(s) + 1)
      BY <2>6, HeaderBehind
    <3>2. HeaderAt(s, j) <=> \E k \in 1 .. m - 1 : Len(R[k]) >= 3 /\ j = EndOf(R, k - 1) + 1
      BY <2>3, <2>4 DEF Headed
    <3>3. \A k : k \in 1 .. m <=> k \in 1 .. m - 1 \/ k = m
      BY <1>4
    <3> QED
      BY <2>5, <2>6, <3>1, <3>2, <3>3
  <2> QED
    BY <1>4, <2>7 DEF Headed
<1> QED
  BY <1>5, <1>6

-----------------------------------------------------------------------------
(* What is written.                                                        *)

Escape(body, i) == IF OccursAt(<<NL, T>>, body, i) THEN <<NL, NL>> ELSE <<body[i]>>
Pieces(body)    == [i \in 1 .. Len(body) |-> Escape(body, i)]

LEMMA PiecesAre ==
  ASSUME NEW S, NL \in S, NEW body \in Seq(S)
  PROVE  /\ Pieces(body) \in Seq(Seq(S)) /\ Len(Pieces(body)) = Len(body) /\ Len(body) \in Nat
         /\ \A i \in 1 .. Len(body) : Pieces(body)[i] = Escape(body, i) /\ body[i] \in S
<1>1. Len(body) \in Nat /\ \A i \in 1 .. Len(body) : body[i] \in S
  BY LenProperties, ElementOfSeq
<1>2. \A i \in 1 .. Len(body) : Escape(body, i) \in Seq(S)
  BY <1>1 DEF Escape
<1>3. Pieces(body) \in [1 .. Len(body) -> Seq(S)]
  BY <1>2 DEF Pieces
<1>4. Pieces(body) \in Seq(Seq(S))
  BY <1>1, <1>3, SeqDef
<1>5. Len(Pieces(body)) = Len(body)
  BY <1>1, <1>3, <1>4, LenProperties
<1> QED
  BY <1>1, <1>4, <1>5 DEF Pieces

\* The last symbol but one of what was written is no magic prefix if what comes next
\* would complete a header.
LEMMA NoHeaderGrows ==
  ASSUME NEW S, NL \in S, T \in S, NEW body \in Seq(S), NEW k \in 1 .. Len(body),
         k + 1 <= Len(body), body[k + 1] = T,
         NEW s \in Seq(S), NEW e \in Nat, NEW l \in Nat, Len(s) = e + l, l = Len(Escape(body, k)),
         \A i \in 1 .. l : s[e + i] = Escape(body, k)[i],
         s[Len(s)] = NL
  PROVE  Len(s) > 1 /\ s[Len(s) - 1] # Prefix
<1>1. Len(body) \in Nat /\ k \in Nat
  BY LenProperties
<1>2. CASE OccursAt(<<NL, T>>, body, k)
  <2>1. Escape(body, k) = <<NL, NL>> /\ l = 2
    BY <1>2 DEF Escape
  <2>2. s[e + 1] = NL
    BY <2>1
  <2>3. Len(s) = e + 2 /\ Len(s) - 1 = e + 1
    BY <2>1
  <2> QED
    BY <2>2, <2>3, Distinct
<1>3. CASE ~OccursAt(<<NL, T>>, body, k)
  <2>1. Escape(body, k) = <<body[k]>> /\ l = 1
    BY <1>3 DEF Escape
  <2>2. Len(s) = e + 1
    BY <2>1
  <2>3. s[e + 1] = body[k]
    BY <2>1
  <2>4. s[e + 1] = NL
    BY <2>2
  <2>5. body[k] = NL
    BY <2>3, <2>4
  <2>6. <<NL, T>> \in Seq(S)
    OBVIOUS
  <2>7. PICK t \in Seq(S) : t = <<NL, T>>
    BY <2>6
  <2>8. Len(t) = 2 /\ t[1] = NL /\ t[2] = T /\ t # <<>>
    BY <2>7
  <2>9. \A i \in 1 .. Len(t) : body[k - 1 + i] = t[i]
    <3> SUFFICES ASSUME NEW i \in 1 .. 2 PROVE body[k - 1 + i] = t[i]
      BY <2>8
    <3>1. CASE i = 1
      BY <1>1, <2>5, <2>8, <3>1
    <3>2. CASE i = 2
      <4>1. k - 1 + i = k + 1
        BY <1>1, <3>2
      <4> QED
        BY <2>8, <3>2, <4>1
    <3> QED
      BY <3>1, <3>2
  <2>10. k >= 1 /\ k - 1 + Len(t) <= Len(body) /\ k \in Int
    BY <1>1, <2>8
  <2>11. OccursAt(t, body, k)
    BY <2>8, <2>9, <2>10, OccursIs
  <2> QED
    BY <1>3, <2>7, <2>11
<1> QED
  BY <1>2, <1>3

\* Behind a sequence without a header, a header's last symbol is what was added.
LEMMA HeaderGrows ==
  ASSUME NEW S, NEW s \in Seq(S), NEW t \in Seq(S), NEW j \in Int,
         HeaderAt(s \o t, j), ~HeaderAt(s, j),
         \/ Len(t) = 1
         \/ Len(t) = 2 /\ t[1] # T /\ t[2] # T
  PROVE  Len(t) = 1 /\ t[1] = T /\ Len(s) > 1 /\ s[Len(s)] = NL /\ s[Len(s) - 1] = Prefix
<1>1. Len(t) = 1 \/ Len(t) = 2
  OBVIOUS
<1>2. /\ Len(s) \in Nat /\ Len(t) \in Nat
      /\ Len(s \o t) = Len(s) + Len(t)
      /\ \A i \in 1 .. Len(s) : (s \o t)[i] = s[i]
      /\ \A i \in 1 .. Len(t) : (s \o t)[Len(s) + i] = t[i]
  BY ConcatAt
<1>3. /\ j >= 1 /\ j + 2 <= Len(s) + Len(t)
      /\ (s \o t)[j] = Prefix /\ (s \o t)[j + 1] = NL /\ (s \o t)[j + 2] = T
  BY <1>2 DEF HeaderAt
<1>4. CASE j + 2 <= Len(s)
  <2>1. j \in 1 .. Len(s) /\ j + 1 \in 1 .. Len(s) /\ j + 2 \in 1 .. Len(s)
    BY <1>2, <1>3, <1>4
  <2>2. s[j] = Prefix /\ s[j + 1] = NL /\ s[j + 2] = T
    BY <1>2, <1>3, <2>1
  <2> QED
    BY <1>3, <1>4, <2>2 DEF HeaderAt
<1>5. CASE j + 2 = Len(s) + 1
  <2>1. 1 \in 1 .. Len(t)
    BY <1>1
  <2>2. t[1] = T /\ Len(t) = 1
    BY <1>2, <1>3, <1>5, <2>1
  <2>3. j \in 1 .. Len(s) /\ j + 1 \in 1 .. Len(s) /\ j = Len(s) - 1 /\ j + 1 = Len(s)
    BY <1>2, <1>3, <1>5
  <2>4. s[j] = Prefix /\ s[j + 1] = NL
    BY <1>2, <1>3, <2>3
  <2> QED
    BY <1>3, <2>2, <2>3, <2>4
<1>6. CASE j + 2 = Len(s) + 2
  <2>1. Len(t) = 2 /\ 2 \in 1 .. Len(t)
    BY <1>2, <1>3, <1>6
  <2>2. t[2] = T
    BY <1>2, <1>3, <1>6, <2>1
  <2> QED
    BY <2>1, <2>2
<1>7. j + 2 <= Len(s) \/ j + 2 = Len(s) + 1 \/ j + 2 = Len(s) + 2
  BY <1>2, <1>3
<1> QED
  BY <1>4, <1>5, <1>6, <1>7

LEMMA EscapeIs ==
  ASSUME NEW body, NEW i
  PROVE  \/ Len(Escape(body, i)) = 1 /\ Escape(body, i)[1] = body[i]
         \/ Len(Escape(body, i)) = 2 /\ Escape(body, i)[1] = NL /\ Escape(body, i)[2] = NL
BY DEF Escape

Clean(s) == \A j \in Int : ~HeaderAt(s, j)

\* There is no magic header in a body after HandleDataBody.
LEMMA Escaped ==
  ASSUME NEW S, NL \in S, T \in S, NEW body \in Seq(S)
  PROVE  HandleDataBody(body) \in Seq(S) /\ Clean(HandleDataBody(body))
<1> DEFINE R == Pieces(body)
<1>1. HandleDataBody(body) = FlattenSeq(R)
  BY DEF HandleDataBody, Pieces, Escape
<1>2. /\ R \in Seq(Seq(S)) /\ Len(R) = Len(body) /\ Len(R) \in Nat
      /\ \A i \in 1 .. Len(R) : R[i] = Escape(body, i)
  BY PiecesAre
<1> HIDE DEF R
<1>3. CASE R = <<>>
  <2>1. FlattenSeq(R) = <<>>
    BY <1>3 DEF FlattenSeq
  <2>2. Clean(<<>>)
    BY DEF Clean, HeaderAt
  <2> QED
    BY <1>1, <2>1, <2>2
<1>4. CASE R # <<>>
  <2>1. /\ FlattenSeq(R) = Joined(R)[Len(R)] /\ Len(R) \in Nat \ {0}
        /\ \A i \in 1 .. Len(R) :
              Joined(R)[i] = IF i = 1 THEN R[i] ELSE Joined(R)[i - 1] \o R[i]
    BY <1>2, <1>4, JoinedIs
  <2> DEFINE Bad == {n \in 1 .. Len(R) : ~Clean(Joined(R)[n])}
  <2>2. SUFFICES ASSUME Bad # {} PROVE FALSE
    <3>1. Len(R) \in 1 .. Len(R)
      BY <2>1
    <3>2. Joined(R)[Len(R)] \in Seq(S)
      BY <1>2, <1>4, <3>1, JoinedTypes
    <3> QED
      BY <1>1, <2>1, <3>1, <3>2
  <2>3. Bad \subseteq Nat
    BY <2>1
  <2>4. PICK m \in Bad : \A n \in Bad : m <= n
    BY <2>2, <2>3, Least
  <2>5. m \in 1 .. Len(R) /\ m \in Nat
    BY <2>1
  <2>6. PICK j \in Int : HeaderAt(Joined(R)[m], j)
    BY DEF Clean
  <2>7. PICK t \in Seq(S) : t = R[m]
    BY <1>2, <2>5, ElementOfSeq
  <2>8. \/ Len(t) = 1 /\ t[1] = body[m]
        \/ Len(t) = 2 /\ t[1] = NL /\ t[2] = NL
    BY <1>2, <2>5, <2>7, EscapeIs
  <2>9. CASE m = 1
    <3>1. HeaderAt(t, j)
      BY <2>1, <2>5, <2>6, <2>7, <2>9
    <3> QED
      BY <2>8, <3>1 DEF HeaderAt
  <2>10. CASE m # 1
    <3>1. m - 1 \in 1 .. Len(R) /\ m - 1 < m
      BY <2>1, <2>5, <2>10
    <3>2. Clean(Joined(R)[m - 1])
      <4>1. m - 1 \notin Bad
        BY <2>1, <2>4, <2>5, <3>1
      <4> QED
        BY <3>1, <4>1
    <3>3. PICK s \in Seq(S) : s = Joined(R)[m - 1]
      BY <1>2, <1>4, <3>1, JoinedTypes
    <3>4. Joined(R)[m] = s \o t
      BY <2>1, <2>5, <2>7, <2>10, <3>3
    <3>5. ~HeaderAt(s, j)
      BY <3>2, <3>3 DEF Clean
    <3>6. Len(t) = 1 /\ t[1] = T /\ Len(s) > 1 /\ s[Len(s)] = NL /\ s[Len(s) - 1] = Prefix
      <4>1. HeaderAt(s \o t, j)
        BY <2>6, <3>4
      <4>2. Len(t) = 1 \/ (Len(t) = 2 /\ t[1] # T /\ t[2] # T)
        BY <2>8, Distinct
      <4> QED
        BY <3>5, <4>1, <4>2, HeaderGrows
    <3>7. body[m] = T
      BY <2>8, <3>6
    <3>8. PICK k \in 1 .. Len(body) : k = m - 1
      BY <1>2, <3>1
    <3>9. /\ EndOf(R, k) \in Nat /\ EndOf(R, k - 1) \in Nat
          /\ R[k] \in Seq(S) /\ Len(R[k]) \in Nat
          /\ EndOf(R, k) = EndOf(R, k - 1) + Len(R[k])
          /\ \A i \in 1 .. Len(R[k]) : Joined(R)[k][EndOf(R, k - 1) + i] = R[k][i]
      BY <1>2, <1>4, NextPiece
    <3>10. PICK e \in Nat : e = EndOf(R, k - 1)
      BY <3>9
    <3>11. PICK l \in Nat : l = Len(R[k])
      BY <3>9
    <3>12. EndOf(R, k) = Len(s) /\ R[k] = Escape(body, k) /\ s = Joined(R)[k]
      BY <1>2, <3>3, <3>8 DEF EndOf
    <3>13. Len(s) = e + l /\ l = Len(Escape(body, k)) /\ \A i \in 1 .. l : s[e + i] = Escape(body, k)[i]
      BY <3>9, <3>10, <3>11, <3>12
    <3>14. k + 1 = m /\ k + 1 <= Len(body)
      BY <1>2, <2>5, <3>8
    <3>15. s[Len(s) - 1] # Prefix
      BY <3>6, <3>7, <3>13, <3>14, NoHeaderGrows
    <3> QED
      BY <3>6, <3>15
  <2> QED
    BY <2>9, <2>10
<1> QED
  BY <1>3, <1>4

\* What the records may consist of.
Data        == UNION {Range(p.body) : p \in Packets}
FixedFields == {Fixed(time, length) : time \in Stamps, length \in Nat}
Addresses   == {FromTo(p.from, p.to) : p \in Packets}
Symbols     == Data \cup {Prefix, NL, T} \cup FixedFields \cup Addresses

LEMMA SymbolsAre ==
  /\ Prefix \in Symbols /\ NL \in Symbols /\ T \in Symbols
  /\ \A p \in Packets : FromTo(p.from, p.to) \in Symbols /\ p.body \in Seq(Symbols)
  /\ \A time \in Stamps, length \in Nat : Fixed(time, length) \in Symbols
<1>1. ASSUME NEW p \in Packets PROVE p.body \in Seq(Symbols)
  <2>1. p.body \in Seq(Range(p.body))
    BY PacketsAssumption
  <2>2. Range(p.body) \subseteq Symbols
    BY DEF Symbols, Data
  <2>3. Len(p.body) \in Nat /\ p.body \in [1 .. Len(p.body) -> Range(p.body)]
    BY <2>1, LenProperties
  <2>4. p.body \in [1 .. Len(p.body) -> Symbols]
    BY <2>2, <2>3
  <2> QED
    BY <2>3, <2>4, SeqDef
<1>2. ASSUME NEW p \in Packets PROVE FromTo(p.from, p.to) \in Symbols
  <2>1. FromTo(p.from, p.to) \in Addresses
    BY DEF Addresses
  <2> QED
    BY <2>1 DEF Symbols
<1>3. ASSUME NEW time \in Stamps, NEW length \in Nat PROVE Fixed(time, length) \in Symbols
  <2>1. Fixed(time, length) \in FixedFields
    BY DEF FixedFields
  <2> QED
    BY <2>1 DEF Symbols
<1>4. Prefix \in Symbols /\ NL \in Symbols /\ T \in Symbols
  BY DEF Symbols
<1> QED
  BY <1>1, <1>2, <1>3, <1>4

\* The six symbols before the body.
Heading(x, y) == MagicHeader \o <<x, y, NL>>

LEMMA HeadIs ==
  ASSUME NEW S, Prefix \in S, NL \in S, T \in S, NEW x \in S, NEW y \in S,
         NEW h, h = Heading(x, y)
  PROVE  /\ h \in Seq(S) /\ Len(h) = 6
         /\ h[1] = Prefix /\ h[2] = NL /\ h[3] = T /\ h[4] = x /\ h[5] = y /\ h[6] = NL
<1>1. <<Prefix, NL, T>> \in Seq(S) /\ <<x, y, NL>> \in Seq(S)
  OBVIOUS
<1>2. PICK a \in Seq(S) : a = <<Prefix, NL, T>>
  BY <1>1
<1>3. PICK b \in Seq(S) : b = <<x, y, NL>>
  BY <1>1
<1>4. Len(a) = 3 /\ a[1] = Prefix /\ a[2] = NL /\ a[3] = T
  BY <1>2
<1>5. Len(b) = 3 /\ b[1] = x /\ b[2] = y /\ b[3] = NL
  BY <1>3
<1>6. h = a \o b
  BY <1>2, <1>3 DEF MagicHeader, Heading
<1>7. /\ h \in Seq(S) /\ Len(h) = Len(a) + Len(b)
      /\ \A i \in 1 .. Len(a) : h[i] = a[i]
      /\ \A i \in 1 .. Len(b) : h[Len(a) + i] = b[i]
  <2>1. /\ a \o b \in Seq(S) /\ Len(a \o b) = Len(a) + Len(b)
        /\ \A i \in 1 .. Len(a) : (a \o b)[i] = a[i]
        /\ \A i \in 1 .. Len(b) : (a \o b)[Len(a) + i] = b[i]
    BY ConcatAt
  <2> QED
    BY <1>6, <2>1
<1>8. h[1] = a[1] /\ h[2] = a[2] /\ h[3] = a[3]
  BY <1>4, <1>7
<1>9. h[3 + 1] = b[1] /\ h[3 + 2] = b[2] /\ h[3 + 3] = b[3]
  BY <1>4, <1>5, <1>7
<1> QED
  BY <1>4, <1>5, <1>7, <1>8, <1>9

\* A record whose fourth and fifth symbols are x and y, with that body.
Shaped(r, x, y, body) ==
  /\ Len(r) = 6 + Len(body)
  /\ r[1] = Prefix /\ r[2] = NL /\ r[3] = T /\ r[4] = x /\ r[5] = y /\ r[6] = NL
  /\ \A i \in 1 .. Len(body) : r[6 + i] = body[i]

LEMMA ShapeIs ==
  ASSUME NEW p \in Packets, NEW time \in Stamps
  PROVE  \E body \in Seq(Symbols) :
           /\ body = HandleDataBody(p.body) /\ Clean(body)
           /\ Marshal(p, time) \in Seq(Symbols)
           /\ Shaped(Marshal(p, time), Fixed(time, Len(body)), FromTo(p.from, p.to), body)
<1>1. HandleDataBody(p.body) \in Seq(Symbols) /\ Clean(HandleDataBody(p.body))
  <2>1. NL \in Symbols /\ T \in Symbols /\ p.body \in Seq(Symbols)
    BY SymbolsAre
  <2> QED
    BY <2>1, Escaped
<1>2. PICK body \in Seq(Symbols) : body = HandleDataBody(p.body) /\ Clean(body)
  BY <1>1
<1>3. Len(body) \in Nat
  BY <1>2, LenProperties
<1>4. PICK x \in Symbols : x = Fixed(time, Len(body))
  BY <1>3, SymbolsAre
<1>5. PICK y \in Symbols : y = FromTo(p.from, p.to)
  BY SymbolsAre
<1>6. PICK h : h = Heading(x, y)
  OBVIOUS
<1>7. /\ h \in Seq(Symbols) /\ Len(h) = 6
      /\ h[1] = Prefix /\ h[2] = NL /\ h[3] = T /\ h[4] = x /\ h[5] = y /\ h[6] = NL
  <2>1. Prefix \in Symbols /\ NL \in Symbols /\ T \in Symbols
    BY SymbolsAre
  <2> QED
    BY <1>6, <2>1, HeadIs
<1>8. Marshal(p, time) = h \o body
  BY <1>2, <1>4, <1>5, <1>6 DEF Marshal, Heading
<1> DEFINE r == h \o body
<1>9. h \in Seq(Symbols) /\ body \in Seq(Symbols)
  BY <1>7
<1>10. /\ r \in Seq(Symbols) /\ Len(r) = Len(h) + Len(body)
       /\ \A i \in 1 .. Len(h) : r[i] = h[i]
       /\ \A i \in 1 .. Len(body) : r[Len(h) + i] = body[i]
  BY <1>9, ConcatAt
<1> HIDE DEF r
<1>11. \A i \in 1 .. 6 : r[i] = h[i]
  BY <1>7, <1>10
<1>12. r[1] = h[1] /\ r[2] = h[2] /\ r[3] = h[3] /\ r[4] = h[4] /\ r[5] = h[5] /\ r[6] = h[6]
  BY <1>11
<1>13. Shaped(r, x, y, body)
  BY <1>7, <1>10, <1>12 DEF Shaped
<1> QED
  BY <1>2, <1>4, <1>5, <1>8, <1>10, <1>13 DEF r

\* A whole record.
Formed(r, x) ==
  /\ Len(r) >= 6
  /\ r[1] = Prefix /\ r[2] = NL /\ r[3] = T /\ r[4] = x
  /\ \A j \in Int : HeaderAt(r, j) => j = 1

LEMMA MarshalIs ==
  ASSUME NEW p \in Packets, NEW time \in Stamps
  PROVE  /\ Marshal(p, time) \in Seq(Symbols)
         /\ \E length \in Nat : Formed(Marshal(p, time), Fixed(time, length))
<1>1. PICK r \in Seq(Symbols) : r = Marshal(p, time)
  BY ShapeIs
<1>2. PICK body \in Seq(Symbols) :
        Clean(body) /\ Shaped(r, Fixed(time, Len(body)), FromTo(p.from, p.to), body)
  BY <1>1, ShapeIs
<1>3. Len(body) \in Nat /\ Len(r) \in Nat
  BY LenProperties
<1>4. PICK x, y : x = Fixed(time, Len(body)) /\ y = FromTo(p.from, p.to)
  OBVIOUS
<1>5. x # Prefix /\ y # Prefix /\ NL # Prefix /\ T # Prefix
  BY <1>4, Distinct
<1>6. Len(r) >= 6 /\ Len(r) = 6 + Len(body)
  BY <1>2, <1>3 DEF Shaped
<1>7. \A i \in 1 .. Len(body) : r[6 + i] = body[i]
  BY <1>2 DEF Shaped
<1>8. r[1] = Prefix /\ r[2] = NL /\ r[3] = T /\ r[4] = x /\ r[5] = y /\ r[6] = NL
  BY <1>2, <1>4 DEF Shaped
<1>9. ASSUME NEW j \in Int, HeaderAt(r, j) PROVE j = 1
  <2>1. j >= 1 /\ j + 2 <= Len(r) /\ r[j] = Prefix /\ r[j + 1] = NL /\ r[j + 2] = T
    BY <1>9 DEF HeaderAt
  <2>2. CASE j <= 6
    <3>1. j = 1 \/ j = 2 \/ j = 3 \/ j = 4 \/ j = 5 \/ j = 6
      BY <2>1, <2>2
    <3>2. j # 2 /\ j # 3 /\ j # 4 /\ j # 5 /\ j # 6
      BY <1>5, <1>8, <2>1
    <3> QED
      BY <3>1, <3>2
  <2>3. CASE ~(j <= 6)
    <3> DEFINE i == j - 6
    <3>1. i \in Int /\ i >= 1 /\ i + 2 <= Len(body) /\ j = 6 + i /\ j + 1 = 6 + (i + 1) /\ j + 2 = 6 + (i + 2)
      BY <1>3, <1>6, <2>1, <2>3
    <3> HIDE DEF i
    <3>2. i \in 1 .. Len(body) /\ i + 1 \in 1 .. Len(body) /\ i + 2 \in 1 .. Len(body)
      BY <1>3, <3>1
    <3>3. body[i] = Prefix /\ body[i + 1] = NL /\ body[i + 2] = T
      BY <1>7, <2>1, <3>1, <3>2
    <3>4. HeaderAt(body, i)
      BY <3>1, <3>3 DEF HeaderAt
    <3> QED
      BY <1>2, <3>1, <3>4 DEF Clean
  <2> QED
    BY <2>2, <2>3
<1>10. Formed(r, x)
  BY <1>6, <1>8, <1>9 DEF Formed
<1> QED
  BY <1>1, <1>3, <1>4, <1>10

\* The beginning of one.
LEMMA BeginningIs ==
  ASSUME NEW S, NEW r \in Seq(S), NEW x, Formed(r, x), NEW n \in 1 .. Len(r)
  PROVE  LET c == SubSeq(r, 1, n)
         IN  /\ c \in Seq(S) /\ Len(c) = n /\ Proper(c)
             /\ n >= 4 => c[4] = x
<1> DEFINE c == SubSeq(r, 1, n)
<1>1. Len(r) \in Nat /\ n \in Nat /\ n >= 1 /\ n <= Len(r)
  BY LenProperties
<1>2. \A k \in 1 .. n : r[k] \in S
  BY <1>1, ElementOfSeq
<1>3. /\ c \in Seq(S) /\ Len(c) = IF 1 <= n THEN n - 1 + 1 ELSE 0
      /\ \A k \in 1 .. n - 1 + 1 : c[k] = r[1 + k - 1]
  BY <1>1, <1>2, SubSeqProperties
<1> HIDE DEF c
<1>4. Len(c) = n
  BY <1>1, <1>3
<1>5. ASSUME NEW k \in 1 .. n PROVE c[k] = r[k]
  <2>1. 1 + k - 1 = k /\ k \in 1 .. n - 1 + 1
    BY <1>1
  <2> QED
    BY <1>3, <2>1
<1>6. c[1] = Prefix
  BY <1>1, <1>5 DEF Formed
<1>7. ASSUME NEW j \in Int, HeaderAt(c, j) PROVE j = 1 /\ Len(c) >= 3
  <2>1. j >= 1 /\ j + 2 <= n /\ c[j] = Prefix /\ c[j + 1] = NL /\ c[j + 2] = T
    BY <1>4, <1>7 DEF HeaderAt
  <2>2. j \in 1 .. n /\ j + 1 \in 1 .. n /\ j + 2 \in 1 .. n
    BY <1>1, <2>1
  <2>3. r[j] = Prefix /\ r[j + 1] = NL /\ r[j + 2] = T
    BY <1>5, <2>1, <2>2
  <2>4. j + 2 <= Len(r)
    BY <1>1, <2>1
  <2>5. HeaderAt(r, j)
    BY <2>1, <2>3, <2>4 DEF HeaderAt
  <2>6. j = 1
    BY <2>5 DEF Formed
  <2> QED
    BY <1>4, <2>1, <2>6
<1>8. ASSUME Len(c) >= 3 PROVE HeaderAt(c, 1)
  <2>1. 1 \in 1 .. n /\ 2 \in 1 .. n /\ 3 \in 1 .. n
    BY <1>1, <1>4, <1>8
  <2>2. c[1] = Prefix /\ c[2] = NL /\ c[3] = T
    BY <1>5, <2>1 DEF Formed
  <2> QED
    BY <1>8, <2>2 DEF HeaderAt
<1>9. Proper(c)
  BY <1>6, <1>7, <1>8 DEF Proper
<1>10. n >= 4 => c[4] = x
  BY <1>1, <1>5 DEF Formed
<1> QED
  BY <1>3, <1>4, <1>9, <1>10 DEF c

-----------------------------------------------------------------------------
(* What is in the file.                                                    *)

\* A record may be cut short, but not to nothing.
Recorded ==
  /\ packets \in Seq(Packets) /\ Len(packets) <= MaxPackets
  /\ cut \in 0 .. Len(packets)
  /\ cut # 0 => kept \in 1 .. Len(Marshal(packets[cut], TimeOf[cut])) - 1
  /\ file = FlattenSeq(Records)

LEMMA RecordIs ==
  ASSUME Recorded, NEW i \in 1 .. Len(packets)
  PROVE  /\ Record(i) \in Seq(Symbols) /\ Len(Record(i)) \in Nat \ {0} /\ Proper(Record(i))
         /\ TimeOf[i] \in Stamps
         /\ \E length \in Nat : Len(Record(i)) >= 4 => Record(i)[4] = Fixed(TimeOf[i], length)
         /\ IF i = cut THEN Len(Record(i)) = kept ELSE Len(Record(i)) >= 4
<1>1. packets[i] \in Packets /\ i \in 1 .. MaxPackets
  <2>1. Len(packets) \in Nat /\ MaxPackets \in Nat
    BY BoundsAssumption, LenProperties DEF Recorded
  <2> QED
    BY <2>1, ElementOfSeq DEF Recorded
<1>2. PICK p \in Packets : p = packets[i]
  BY <1>1
<1>3. TimeOf[i] \in Stamps
  BY <1>1, TimeAssumption
<1>4. PICK time \in Stamps : time = TimeOf[i]
  BY <1>3
<1>5. PICK r \in Seq(Symbols) : r = Marshal(p, time)
  BY MarshalIs
<1>6. PICK length \in Nat : Formed(r, Fixed(time, length))
  BY <1>5, MarshalIs
<1>7. Len(r) \in Nat
  BY LenProperties
<1>8. Len(r) >= 6 /\ 4 \in 1 .. Len(r) /\ Len(r) \in 1 .. Len(r) /\ r # <<>>
  <2>1. Len(r) >= 6
    BY <1>6 DEF Formed
  <2> QED
    BY <1>7, <2>1, EmptySeq
<1>9. CASE i = cut
  <2>1. kept \in 1 .. Len(r) /\ cut # 0
    BY <1>2, <1>4, <1>5, <1>7, <1>9 DEF Recorded
  <2>2. PICK n \in 1 .. Len(r) : n = kept
    BY <2>1
  <2>3. Record(i) = SubSeq(r, 1, n)
    BY <1>2, <1>4, <1>5, <1>9, <2>2 DEF Record
  <2>4. PICK c : c = SubSeq(r, 1, n)
    OBVIOUS
  <2>5. c \in Seq(Symbols) /\ Len(c) = n /\ Proper(c) /\ (n >= 4 => c[4] = Fixed(time, length))
    BY <1>6, <2>4, BeginningIs
  <2>6. n \in Nat \ {0}
    BY <1>7
  <2> QED
    BY <1>3, <1>4, <1>9, <2>2, <2>3, <2>4, <2>5, <2>6
<1>10. CASE i # cut
  <2>1. Record(i) = r
    BY <1>2, <1>4, <1>5, <1>10 DEF Record
  <2>2. SubSeq(r, 1, Len(r)) = r
    BY SubSeqFull
  <2>3. PICK n \in 1 .. Len(r) : n = Len(r)
    BY <1>8
  <2>4. PICK c : c = SubSeq(r, 1, n)
    OBVIOUS
  <2>5. c \in Seq(Symbols) /\ Len(c) = n /\ Proper(c) /\ (n >= 4 => c[4] = Fixed(time, length))
    BY <1>6, <2>4, BeginningIs
  <2>6. c = r /\ n \in Nat \ {0} /\ n >= 4
    BY <1>7, <1>8, <2>2, <2>3, <2>4
  <2> QED
    BY <1>3, <1>4, <1>10, <2>1, <2>5, <2>6
<1> QED
  BY <1>9, <1>10

\* f consists of the records R, of which record k ends at place e[k]; its magic headers
\* are those of the records.
Laid(f, R, e) ==
  /\ e \in [0 .. Len(R) -> Nat] /\ e[0] = 0 /\ Len(f) = e[Len(R)]
  /\ \A k, n \in 0 .. Len(R) : k <= n => e[k] <= e[n]
  /\ \A k \in 1 .. Len(R) :
       /\ e[k] = e[k - 1] + Len(R[k])
       /\ \A i \in 1 .. Len(R[k]) : f[e[k - 1] + i] = R[k][i]
  /\ \A j \in Int : HeaderAt(f, j) <=>
       \E k \in 1 .. Len(R) : Len(R[k]) >= 3 /\ j = e[k - 1] + 1

Ruler(R) == [k \in 0 .. Len(R) |-> EndOf(R, k)]

LEMMA FlatIsLaid ==
  ASSUME NEW S, NEW R \in Seq(Seq(S)), R # <<>>, \A k \in 1 .. Len(R) : Proper(R[k])
  PROVE  FlattenSeq(R) \in Seq(S) /\ Laid(FlattenSeq(R), R, Ruler(R))
<1>1. FlattenSeq(R) = Joined(R)[Len(R)] /\ Len(R) \in Nat \ {0}
  BY JoinedIs
<1>2. PICK n \in 1 .. Len(R) : n = Len(R)
  BY <1>1
<1>3. Joined(R)[n] \in Seq(S)
  BY JoinedTypes
<1>4. EndOf(R, 0) = 0 /\ EndOf(R, n) = Len(Joined(R)[n])
  BY DEF EndOf
<1>5. \A k \in 1 .. Len(R) :
        /\ EndOf(R, k) \in Nat /\ EndOf(R, k - 1) \in Nat
        /\ EndOf(R, k) = EndOf(R, k - 1) + Len(R[k])
  BY NextPiece
<1>6. \A k \in 1 .. Len(R) : Kept(R, k, n)
  <2> SUFFICES ASSUME NEW k \in 1 .. Len(R) PROVE Kept(R, k, n)
    OBVIOUS
  <2>1. n \in k .. Len(R)
    BY <1>1, <1>2
  <2> QED
    BY <2>1, PieceStays
<1>7. Headed(R, n)
  BY HeadersAre
<1>8. \A k \in 0 .. Len(R) : EndOf(R, k) \in Nat
  <2> SUFFICES ASSUME NEW k \in 0 .. Len(R) PROVE EndOf(R, k) \in Nat
    OBVIOUS
  <2>1. CASE k = 0
    BY <1>4, <2>1
  <2>2. CASE k # 0
    <3>1. k \in 1 .. Len(R)
      BY <1>1, <2>2
    <3> QED
      BY <1>5, <3>1
  <2> QED
    BY <2>1, <2>2
<1>9. PICK e : e = Ruler(R)
  OBVIOUS
<1>10. e \in [0 .. Len(R) -> Nat] /\ \A k \in 0 .. Len(R) : e[k] = EndOf(R, k)
  BY <1>8, <1>9 DEF Ruler
<1>11. \A k \in 1 .. Len(R) : k \in 0 .. Len(R) /\ k - 1 \in 0 .. Len(R)
  BY <1>1
<1>12. e[0] = 0 /\ e[n] = Len(Joined(R)[n])
  <2>1. 0 \in 0 .. Len(R) /\ n \in 0 .. Len(R)
    BY <1>1
  <2> QED
    BY <1>4, <1>10, <2>1
<1>13. \A k \in 1 .. Len(R) :
         /\ e[k] = e[k - 1] + Len(R[k])
         /\ \A i \in 1 .. Len(R[k]) : Joined(R)[n][e[k - 1] + i] = R[k][i]
  <2> SUFFICES ASSUME NEW k \in 1 .. Len(R)
               PROVE  /\ e[k] = e[k - 1] + Len(R[k])
                      /\ \A i \in 1 .. Len(R[k]) : Joined(R)[n][e[k - 1] + i] = R[k][i]
    OBVIOUS
  <2>1. e[k] = EndOf(R, k) /\ e[k - 1] = EndOf(R, k - 1) /\ e[n] = EndOf(R, n)
    BY <1>10, <1>11
  <2> QED
    BY <1>5, <1>6, <2>1 DEF Kept
<1>14. \A j \in Int : HeaderAt(Joined(R)[n], j) <=>
         \E k \in 1 .. Len(R) : Len(R[k]) >= 3 /\ j = e[k - 1] + 1
  <2>1. \A k \in 1 .. Len(R) : e[k - 1] = EndOf(R, k - 1)
    BY <1>10, <1>11
  <2> QED
    BY <1>2, <1>7, <2>1 DEF Headed
<1>15. ASSUME NEW k \in 0 .. Len(R), NEW l \in 0 .. Len(R), k <= l PROVE e[k] <= e[l]
  <2>1. e[k] = EndOf(R, k) /\ e[l] = EndOf(R, l) /\ EndOf(R, l) \in Nat
    BY <1>8, <1>10
  <2>2. CASE k = 0
    BY <1>4, <2>1, <2>2
  <2>3. CASE k # 0
    <3>1. k \in 1 .. Len(R) /\ l \in k .. Len(R)
      BY <1>1, <1>15, <2>3
    <3> QED
      BY <2>1, <3>1, PieceStays DEF Kept
  <2> QED
    BY <2>2, <2>3
<1>16. Laid(Joined(R)[n], R, e)
  BY <1>2, <1>10, <1>12, <1>13, <1>14, <1>15 DEF Laid
<1> QED
  BY <1>1, <1>2, <1>3, <1>9, <1>16

LEMMA FileIsLaid ==
  ASSUME Recorded
  PROVE  /\ Records \in Seq(Seq(Symbols)) /\ Len(Records) = Len(packets) /\ Len(packets) \in Nat
         /\ \A i \in 1 .. Len(packets) : Records[i] = Record(i)
         /\ file \in Seq(Symbols) /\ Laid(file, Records, Ruler(Records))
<1>1. Len(packets) \in Nat
  BY LenProperties DEF Recorded
<1>2. \A i \in 1 .. Len(packets) : Record(i) \in Seq(Symbols) /\ Proper(Record(i))
  BY RecordIs
<1>3. Records \in [1 .. Len(packets) -> Seq(Symbols)]
  BY <1>2 DEF Records
<1>4. Records \in Seq(Seq(Symbols)) /\ Len(Records) = Len(packets)
  <2>1. Records \in Seq(Seq(Symbols))
    BY <1>1, <1>3, SeqDef
  <2> QED
    BY <1>1, <1>3, <2>1, LenProperties
<1>5. \A i \in 1 .. Len(packets) : Records[i] = Record(i)
  BY DEF Records
<1>6. PICK R \in Seq(Seq(Symbols)) : R = Records
  BY <1>4
<1>7. CASE R = <<>>
  <2>1. file = <<>>
    BY <1>6, <1>7 DEF Recorded, FlattenSeq
  <2>2. Len(R) = 0 /\ Ruler(R) = [k \in 0 .. 0 |-> 0]
    <3>1. Len(R) = 0
      BY <1>7
    <3>2. \A k \in 0 .. 0 : EndOf(R, k) = 0
      BY DEF EndOf
    <3> QED
      BY <3>1, <3>2 DEF Ruler
  <2>3. PICK e : e = Ruler(R)
    OBVIOUS
  <2>4. e \in [0 .. 0 -> Nat] /\ e[0] = 0
    BY <2>2, <2>3
  <2>5. ASSUME NEW j \in Int PROVE ~HeaderAt(file, j)
    BY <2>1 DEF HeaderAt
  <2>6. Laid(file, R, e)
    <3>1. Len(file) = 0 /\ 1 .. 0 = {} /\ \A k \in 0 .. 0 : k = 0
      BY <2>1
    <3> QED
      BY <2>2, <2>4, <2>5, <3>1 DEF Laid
  <2>7. file \in Seq(Symbols)
    BY <2>1
  <2> QED
    BY <1>1, <1>4, <1>5, <1>6, <2>3, <2>6, <2>7
<1>8. CASE R # <<>>
  <2>1. \A k \in 1 .. Len(R) : Proper(R[k])
    BY <1>2, <1>4, <1>5, <1>6
  <2>2. FlattenSeq(R) \in Seq(Symbols) /\ Laid(FlattenSeq(R), R, Ruler(R))
    BY <1>8, <2>1, FlatIsLaid
  <2>3. file = FlattenSeq(R)
    BY <1>6 DEF Recorded
  <2> QED
    BY <1>1, <1>4, <1>5, <1>6, <2>2, <2>3
<1> QED
  BY <1>7, <1>8

-----------------------------------------------------------------------------
(* What the scanner hands over.                                            *)

LEMMA DelimsAre ==
  ASSUME NEW b \in Seq(Symbols)
  PROVE  /\ Delims(b) \subseteq Nat
         /\ \A j \in Int : j \in Delims(b) <=> HeaderAt(b, j)
<1>1. Len(b) \in Nat
  BY LenProperties
<1>2. Delims(b) \subseteq Nat
  BY <1>1 DEF Delims
<1>3. ASSUME NEW j \in Int PROVE j \in Delims(b) <=> HeaderAt(b, j)
  <2>1. <<Prefix, NL, T>> \in Seq(Symbols)
    <3>1. Prefix \in Symbols /\ NL \in Symbols /\ T \in Symbols
      BY SymbolsAre
    <3> QED
      BY <3>1
  <2>2. PICK s \in Seq(Symbols) : s = <<Prefix, NL, T>>
    BY <2>1
  <2>3. Len(s) = 3 /\ s # <<>> /\ s[1] = Prefix /\ s[2] = NL /\ s[3] = T
    BY <2>2
  <2>4. OccursAt(s, b, j) <=>
          j >= 1 /\ j - 1 + Len(s) <= Len(b) /\ \A k \in 1 .. Len(s) : b[j - 1 + k] = s[k]
    BY <2>3, OccursIs
  <2>5. (\A k \in 1 .. Len(s) : b[j - 1 + k] = s[k])
          <=> b[j - 1 + 1] = s[1] /\ b[j - 1 + 2] = s[2] /\ b[j - 1 + 3] = s[3]
    <3>1. \A k \in 1 .. Len(s) : k = 1 \/ k = 2 \/ k = 3
      BY <2>3
    <3>2. 1 \in 1 .. Len(s) /\ 2 \in 1 .. Len(s) /\ 3 \in 1 .. Len(s)
      BY <2>3
    <3> QED
      BY <3>1, <3>2
  <2>6. j - 1 + 1 = j /\ j - 1 + 2 = j + 1 /\ j - 1 + 3 = j + 2 /\ j - 1 + 3 <= Len(b) <=> j + 2 <= Len(b)
    BY <1>1
  <2>7. OccursAt(s, b, j) <=> HeaderAt(b, j)
    BY <1>1, <2>3, <2>4, <2>5, <2>6 DEF HeaderAt
  <2>8. HeaderAt(b, j) => j \in 1 .. Len(b)
    BY <1>1 DEF HeaderAt
  <2>9. j \in Delims(b) <=> j \in 1 .. Len(b) /\ OccursAt(s, b, j)
    BY <2>2 DEF Delims, MagicHeader
  <2> QED
    BY <2>7, <2>8, <2>9
<1> QED
  BY <1>2, <1>3

\* It begins at the first header and ends before the next one, or at the end.
Framing(b, eof, first, end) ==
  /\ HeaderAt(b, first) /\ \A j \in Int : HeaderAt(b, j) => first <= j
  /\ first <= end /\ end <= Len(b)
  /\ \A j \in Int : HeaderAt(b, j) /\ j # first => j > end
  /\ (eof /\ end = Len(b)) \/ HeaderAt(b, end + 1)

LEMMA SplitIs ==
  ASSUME NEW b \in Seq(Symbols), NEW eof \in BOOLEAN, Split(b, eof).token # <<>>
  PROVE  \E first, end \in Nat :
           /\ Framing(b, eof, first, end)
           /\ Split(b, eof).advance = end /\ Split(b, eof).token = SubSeq(b, first, end)
<1>1. Len(b) \in Nat
  BY LenProperties
<1>2. PICK starts : starts = Delims(b)
  OBVIOUS
<1>3. starts \subseteq Nat /\ \A j \in Int : j \in starts <=> HeaderAt(b, j)
  BY <1>2, DelimsAre
<1>4. starts # {}
  BY <1>2 DEF Split
<1>5. PICK first \in starts : first = Min(starts) /\ \A j \in starts : first <= j
  BY <1>3, <1>4, MinIs
<1>6. PICK later : later = starts \ {first}
  OBVIOUS
<1>7. later # {} \/ eof
  BY <1>2, <1>5, <1>6 DEF Split
<1>8. PICK end : end = IF later = {} THEN Len(b) ELSE Min(later) - 1
  OBVIOUS
<1>9. Split(b, eof) = [advance |-> end, token |-> SubSeq(b, first, end)]
  BY <1>2, <1>4, <1>5, <1>6, <1>7, <1>8 DEF Split
<1>10. HeaderAt(b, first) /\ \A j \in Int : HeaderAt(b, j) => first <= j
  BY <1>3, <1>5
<1>11. first \in Nat /\ first >= 1 /\ first + 2 <= Len(b)
  BY <1>3, <1>10 DEF HeaderAt
<1>12. CASE later = {}
  <2>1. end = Len(b) /\ eof
    BY <1>7, <1>8, <1>12
  <2>2. \A j \in Int : HeaderAt(b, j) /\ j # first => j > end
    BY <1>3, <1>6, <1>12
  <2>3. first <= end /\ end <= Len(b)
    BY <1>1, <1>11, <2>1
  <2>4. Framing(b, eof, first, end)
    BY <1>10, <2>1, <2>2, <2>3 DEF Framing
  <2>5. end \in Nat
    BY <1>1, <2>1
  <2> QED
    BY <1>9, <1>11, <2>4, <2>5
<1>13. CASE later # {}
  <2>1. later \subseteq Nat
    BY <1>3, <1>6
  <2>2. PICK next \in later : next = Min(later) /\ \A j \in later : next <= j
    BY <1>13, <2>1, MinIs
  <2>3. end = next - 1
    BY <1>8, <1>13, <2>2
  <2>4. next \in Nat /\ next \in starts /\ next # first /\ HeaderAt(b, next) /\ first <= next
    BY <1>3, <1>5, <1>6, <2>1
  <2>5. end \in Nat /\ end + 1 = next
    BY <1>11, <2>3, <2>4
  <2>6. first <= end
    BY <1>11, <2>4, <2>5
  <2>7. next + 2 <= Len(b)
    BY <2>4 DEF HeaderAt
  <2>8. end <= Len(b)
    BY <1>1, <2>4, <2>5, <2>7
  <2>9. ASSUME NEW j \in Int, HeaderAt(b, j), j # first PROVE j > end
    <3>1. j \in later
      BY <1>3, <1>6, <2>9
    <3>2. next <= j
      BY <2>2, <3>1
    <3> QED
      BY <2>4, <2>5, <3>2
  <2>10. Framing(b, eof, first, end)
    BY <1>10, <2>4, <2>5, <2>6, <2>8, <2>9 DEF Framing
  <2> QED
    BY <1>9, <1>11, <2>5, <2>10
<1> QED
  BY <1>12, <1>13

\* b is what has been read of f, from behind place base to place pos.
Part(f, b, base, pos) ==
  /\ base + Len(b) = pos /\ pos <= Len(f)
  /\ \A i \in 1 .. Len(b) : b[i] = f[base + i]

LEMMA HeadersInPart ==
  ASSUME NEW S, NEW f \in Seq(S), NEW b \in Seq(S), NEW base \in Nat, NEW pos \in Nat,
         Part(f, b, base, pos)
  PROVE  \A j \in Int : HeaderAt(b, j) <=> j >= 1 /\ j + 2 <= Len(b) /\ HeaderAt(f, base + j)
<1>1. Len(f) \in Nat /\ Len(b) \in Nat
  BY LenProperties
<1>2. ASSUME NEW j \in Int, j >= 1, j + 2 <= Len(b)
      PROVE  HeaderAt(b, j) <=> HeaderAt(f, base + j)
  <2>1. j \in 1 .. Len(b) /\ j + 1 \in 1 .. Len(b) /\ j + 2 \in 1 .. Len(b)
    BY <1>1, <1>2
  <2>2. b[j] = f[base + j] /\ b[j + 1] = f[base + (j + 1)] /\ b[j + 2] = f[base + (j + 2)]
    BY <2>1 DEF Part
  <2>3. base + (j + 1) = (base + j) + 1 /\ base + (j + 2) = (base + j) + 2
    OBVIOUS
  <2>4. base + j >= 1 /\ (base + j) + 2 <= Len(f)
    BY <1>1, <1>2 DEF Part
  <2> QED
    BY <1>2, <2>2, <2>3, <2>4 DEF HeaderAt
<1> QED
  BY <1>2 DEF HeaderAt

\* Records are longer than nothing, so that one that ends behind another one is a later one.
Long(R) == \A k \in 1 .. Len(R) : Len(R[k]) \in Nat /\ Len(R[k]) >= 3

LEMMA RulerGrows ==
  ASSUME NEW f, NEW R, NEW e, Laid(f, R, e), Len(R) \in Nat, Long(R)
  PROVE  /\ \A k \in 0 .. Len(R) : e[k] \in Nat
         /\ \A k \in 0 .. Len(R), l \in 0 .. Len(R) : k < l => e[k] + 3 <= e[l]
<1>1. \A k \in 0 .. Len(R) : e[k] \in Nat
  BY DEF Laid
<1>2. ASSUME NEW k \in 0 .. Len(R), NEW l \in 0 .. Len(R), k < l PROVE e[k] + 3 <= e[l]
  <2>1. k + 1 \in 1 .. Len(R) /\ k + 1 \in 0 .. Len(R) /\ k + 1 <= l /\ (k + 1) - 1 = k
    BY <1>2
  <2>2. e[k + 1] = e[k] + Len(R[k + 1]) /\ e[k + 1] <= e[l]
    BY <2>1 DEF Laid
  <2>3. Len(R[k + 1]) \in Nat /\ Len(R[k + 1]) >= 3
    BY <2>1 DEF Long
  <2> QED
    BY <1>1, <2>1, <2>2, <2>3
<1> QED
  BY <1>1, <1>2

\* The scanner is behind record d.
Behind(f, R, e, b, base, pos, eof, d) ==
  /\ Laid(f, R, e) /\ Long(R)
  /\ d \in 0 .. Len(R) /\ base = e[d]
  /\ Part(f, b, base, pos)
  /\ eof => pos = Len(f)

\* It hands over record d + 1.
Follows(R, e, b, base, d, first, end) ==
  d + 1 \in 1 .. Len(R) /\ SubSeq(b, first, end) = R[d + 1] /\ base + end = e[d + 1]

\* When it has handed over the first d records, the next thing is record d + 1.
LEMMA NextRecord ==
  ASSUME NEW f \in Seq(Symbols), NEW b \in Seq(Symbols), NEW R \in Seq(Seq(Symbols)), NEW e,
         NEW d \in Nat, NEW base \in Nat, NEW pos \in Nat, NEW eof \in BOOLEAN,
         Behind(f, R, e, b, base, pos, eof, d),
         NEW first \in Nat, NEW end \in Nat, Framing(b, eof, first, end)
  PROVE  Follows(R, e, b, base, d, first, end)
<1>1. Len(f) \in Nat /\ Len(b) \in Nat /\ Len(R) \in Nat /\ d \in 0 .. Len(R)
  BY LenProperties DEF Behind
<1>2. Len(b) \in Nat
  BY LenProperties
<1>3. Laid(f, R, e) /\ Part(f, b, base, pos) /\ base = e[d]
  BY DEF Behind
<1>4. \A k \in 1 .. Len(R) : R[k] \in Seq(Symbols)
  BY ElementOfSeq
<1>5. /\ \A k \in 0 .. Len(R) : e[k] \in Nat
      /\ \A k \in 0 .. Len(R), l \in 0 .. Len(R) : k < l => e[k] + 3 <= e[l]
  BY <1>1, RulerGrows DEF Behind
<1>6. \A j \in Int : HeaderAt(b, j) <=> j >= 1 /\ j + 2 <= Len(b) /\ HeaderAt(f, base + j)
  BY <1>3, HeadersInPart
<1>7. ASSUME NEW j \in Int, HeaderAt(b, j)
      PROVE  \E l \in 0 .. Len(R) - 1 : base + j = e[l] + 1
  <2>1. HeaderAt(f, base + j) /\ base + j \in Int
    BY <1>6, <1>7
  <2>2. PICK k \in 1 .. Len(R) : base + j = e[k - 1] + 1
    BY <1>3, <2>1 DEF Laid
  <2>3. k - 1 \in 0 .. Len(R) - 1
    BY <1>1
  <2> QED
    BY <2>2, <2>3
<1>8. ASSUME NEW l \in 0 .. Len(R) - 1, NEW j \in Int, base + j = e[l] + 1, j >= 1, j + 2 <= Len(b)
      PROVE  HeaderAt(b, j)
  <2>1. l + 1 \in 1 .. Len(R) /\ (l + 1) - 1 = l /\ l \in 0 .. Len(R)
    BY <1>1
  <2>2. e[l] + 1 \in Int
    <3>1. e[l] \in Nat
      BY <1>5, <2>1
    <3> QED
      BY <3>1
  <2>3. Len(R[l + 1]) >= 3
    BY <2>1 DEF Behind, Long
  <2>4. HeaderAt(f, e[l] + 1)
    BY <1>3, <2>1, <2>2, <2>3 DEF Laid
  <2> QED
    BY <1>6, <1>8, <2>4
<1>9. first >= 1
  BY <1>6 DEF Framing
<1>10. HeaderAt(b, first) /\ first + 2 <= Len(b)
  BY <1>6 DEF Framing
<1>11. first <= end /\ end <= Len(b)
  BY DEF Framing
<1>12. end >= 1
  BY <1>9, <1>11
<1>13. PICK k \in 0 .. Len(R) - 1 : base + first = e[k] + 1
  BY <1>7, <1>10
<1>14. k >= d
  <2> SUFFICES ASSUME k < d PROVE FALSE
    BY <1>1
  <2>1. k \in 0 .. Len(R) /\ e[k] + 3 <= base
    BY <1>1, <1>5, <1>3
  <2>2. PICK a \in Nat : a = e[k]
    BY <1>5, <2>1
  <2>3. a + 3 <= base /\ base + first = a + 1
    BY <1>13, <2>1, <2>2
  <2> QED
    BY <1>9, <2>3
<1>15. d \in 0 .. Len(R) - 1
  BY <1>1, <1>14
<1>16. first = 1
  <2>1. 1 + 2 <= Len(b)
    BY <1>1, <1>9, <1>10
  <2>2. base + 1 = e[d] + 1
    BY <1>3
  <2>3. HeaderAt(b, 1)
    BY <1>8, <1>15, <2>1, <2>2
  <2>4. first <= 1
    BY <2>3 DEF Framing
  <2> QED
    BY <1>9, <2>4
<1>17. d + 1 \in 1 .. Len(R) /\ d + 1 \in 0 .. Len(R) /\ (d + 1) - 1 = d
  BY <1>1, <1>15
<1>18. PICK r \in Seq(Symbols) : r = R[d + 1]
  BY <1>4, <1>17
<1>19. Len(r) \in Nat /\ Len(r) >= 3 /\ e[d + 1] = base + Len(r)
  <2>1. Len(r) \in Nat /\ Len(r) >= 3
    BY <1>17, <1>18 DEF Behind, Long
  <2> QED
    BY <1>17, <1>18, <1>3, <2>1 DEF Laid
<1>20. \A i \in 1 .. Len(r) : f[base + i] = r[i]
  BY <1>17, <1>18, <1>3 DEF Laid
<1>21. \A j \in Int : HeaderAt(b, j) /\ j # 1 => j > end
  BY <1>16 DEF Framing
<1>22. PICK n \in Nat : n = Len(r)
  BY <1>19
<1>23. PICK a \in Nat : a = e[d + 1] /\ a = base + n
  BY <1>5, <1>17, <1>19, <1>22
<1>24. ASSUME d + 1 \in 0 .. Len(R) - 1, (n + 1) + 2 <= Len(b) PROVE n + 1 > end
  <2>1. n + 1 \in Int /\ n + 1 >= 1 /\ n + 1 # 1
    BY <1>19, <1>22
  <2>2. base + (n + 1) = a + 1
    BY <1>23
  <2>3. base + (n + 1) = e[d + 1] + 1
    BY <1>23, <2>2
  <2>4. HeaderAt(b, n + 1)
    BY <1>8, <1>24, <2>1, <2>3
  <2> QED
    BY <1>21, <2>1, <2>4
<1>25. end = n
  <2>1. CASE eof /\ end = Len(b)
    <3>1. base + end = e[Len(R)]
      BY <1>3, <2>1 DEF Laid, Behind, Part
    <3>2. ASSUME d + 1 # Len(R) PROVE FALSE
      <4>1. d + 1 \in 0 .. Len(R) - 1 /\ d + 1 < Len(R) /\ Len(R) \in 0 .. Len(R)
        BY <1>1, <1>17, <3>2
      <4>2. a + 3 <= base + end
        BY <1>5, <1>17, <1>23, <3>1, <4>1
      <4>3. n + 3 <= end
        BY <1>23, <4>2
      <4>4. (n + 1) + 2 <= Len(b)
        BY <2>1, <4>3
      <4>5. n + 1 > end
        BY <1>24, <4>1, <4>4
      <4> QED
        BY <4>3, <4>5
    <3>3. base + end = a
      BY <1>23, <3>1, <3>2
    <3> QED
      BY <1>23, <3>3
  <2>2. CASE HeaderAt(b, end + 1)
    <3>1. (end + 1) + 2 <= Len(b)
      BY <1>6, <2>2
    <3>2. PICK l \in 0 .. Len(R) - 1 : base + (end + 1) = e[l] + 1
      BY <1>7, <2>2
    <3>3. l \in 0 .. Len(R) /\ l \in Nat
      BY <1>1
    <3>4. PICK c \in Nat : c = e[l]
      BY <1>5, <3>3
    <3>5. base + (end + 1) = c + 1
      BY <3>2, <3>4
    <3>6. base + end = c
      BY <3>5
    <3>7. ~(l <= d)
      <4>1. ASSUME l <= d PROVE c <= base
        BY <1>1, <1>3, <3>3, <3>4, <4>1 DEF Laid
      <4>2. ~(c <= base)
        BY <1>12, <3>6
      <4> QED
        BY <4>1, <4>2
    <3>8. CASE l = d + 1
      <4>1. c = a
        BY <1>23, <3>4, <3>8, Zenon
      <4>2. base + end = a /\ a = base + n
        BY <1>23, <3>6, <4>1
      <4> QED
        BY <4>2
    <3>9. CASE l # d + 1
      <4>1. d + 1 < l /\ d + 1 \in 0 .. Len(R) - 1
        BY <1>1, <3>3, <3>7, <3>9
      <4>2. a + 3 <= c
        BY <1>5, <1>17, <1>23, <3>3, <3>4, <4>1
      <4>3. n + 3 <= end
        BY <1>23, <3>6, <4>2
      <4>4. (n + 1) + 2 <= Len(b)
        BY <1>2, <3>1, <4>3
      <4>5. n + 1 > end
        BY <1>24, <4>1, <4>4
      <4> QED
        BY <4>3, <4>5
    <3> QED
      BY <3>8, <3>9
  <2> QED
    BY <2>1, <2>2 DEF Framing
<1>26. SubSeq(b, first, end) = r
  <2> DEFINE c == SubSeq(b, 1, end)
  <2>1. \A i \in 1 .. end : b[i] \in Symbols
    BY <1>1, <1>11, ElementOfSeq
  <2>2. /\ c \in Seq(Symbols) /\ Len(c) = IF 1 <= end THEN end - 1 + 1 ELSE 0
        /\ \A i \in 1 .. end - 1 + 1 : c[i] = b[1 + i - 1]
    BY <2>1, SubSeqProperties
  <2> HIDE DEF c
  <2>3. Len(c) = Len(r)
    BY <1>19, <1>25, <1>22, <2>2
  <2>4. ASSUME NEW i \in 1 .. Len(r) PROVE c[i] = r[i]
    <3>1. i \in 1 .. end - 1 + 1 /\ 1 + i - 1 = i /\ i \in 1 .. Len(b)
      BY <1>1, <1>19, <1>25, <1>11, <1>22
    <3>2. c[i] = b[i]
      BY <2>2, <3>1
    <3>3. b[i] = f[base + i]
      BY <1>3, <3>1 DEF Part
    <3> QED
      BY <1>20, <3>2, <3>3
  <2>5. c = r
    BY <2>2, <2>3, <2>4, SeqEqual
  <2> QED
    BY <1>16, <2>5 DEF c
<1> QED
  BY <1>17, <1>18, <1>25, <1>26, <1>23 DEF Follows

LEMMA SubSeqIs ==
  ASSUME NEW S, NEW s \in Seq(S), NEW m \in Nat, NEW n \in Nat, m <= n, n <= Len(s)
  PROVE  /\ SubSeq(s, m + 1, n) \in Seq(S) /\ Len(SubSeq(s, m + 1, n)) = n - m
         /\ \A i \in 1 .. n - m : SubSeq(s, m + 1, n)[i] = s[m + i]
<1>1. Len(s) \in Nat
  BY LenProperties
<1>2. \A k \in m + 1 .. n : s[k] \in S
  BY <1>1, ElementOfSeq
<1>3. m + 1 \in Int /\ n \in Int
  OBVIOUS
<1> DEFINE c == SubSeq(s, m + 1, n)
<1>4. /\ c \in Seq(S) /\ Len(c) = IF m + 1 <= n THEN n - (m + 1) + 1 ELSE 0
      /\ \A i \in 1 .. n - (m + 1) + 1 : c[i] = s[(m + 1) + i - 1]
  BY <1>2, <1>3, SubSeqProperties
<1> HIDE DEF c
<1>5. Len(c) = n - m
  BY <1>4
<1>6. ASSUME NEW i \in 1 .. n - m PROVE c[i] = s[m + i]
  <2>1. i \in 1 .. n - (m + 1) + 1 /\ (m + 1) + i - 1 = m + i
    OBVIOUS
  <2> QED
    BY <1>4, <2>1
<1> QED
  BY <1>4, <1>5, <1>6 DEF c

\* More is read.
LEMMA PartGrows ==
  ASSUME NEW S, NEW f \in Seq(S), NEW b \in Seq(S), NEW base \in Nat, NEW pos \in Nat,
         Part(f, b, base, pos), NEW upTo \in Nat, pos <= upTo, upTo <= Len(f)
  PROVE  /\ b \o SubSeq(f, pos + 1, upTo) \in Seq(S)
         /\ Part(f, b \o SubSeq(f, pos + 1, upTo), base, upTo)
<1>1. Len(f) \in Nat /\ Len(b) \in Nat /\ base + Len(b) = pos /\ \A i \in 1 .. Len(b) : b[i] = f[base + i]
  BY LenProperties DEF Part
<1>2. PICK c : c = SubSeq(f, pos + 1, upTo)
  OBVIOUS
<1>3. c \in Seq(S) /\ Len(c) = upTo - pos /\ \A i \in 1 .. upTo - pos : c[i] = f[pos + i]
  BY <1>2, SubSeqIs
<1>4. /\ Len(c) \in Nat
      /\ b \o c \in Seq(S) /\ Len(b \o c) = Len(b) + Len(c)
      /\ \A i \in 1 .. Len(b) : (b \o c)[i] = b[i]
      /\ \A i \in 1 .. Len(c) : (b \o c)[Len(b) + i] = c[i]
  <2>1. c \in Seq(S)
    BY <1>3
  <2> QED
    BY <2>1, ConcatAt
<1>5. PICK g : g = b \o c
  OBVIOUS
<1>6. PICK lb \in Nat : lb = Len(b)
  BY <1>1
<1>7. PICK lc \in Nat : lc = Len(c)
  BY <1>4
<1>8. base + lb = pos /\ lc = upTo - pos /\ Len(g) = lb + lc
  BY <1>1, <1>3, <1>4, <1>5, <1>6, <1>7
<1>9. ASSUME NEW i \in 1 .. Len(g) PROVE g[i] = f[base + i]
  <2>1. CASE i \in 1 .. Len(b)
    BY <1>1, <1>4, <1>5, <2>1
  <2>2. CASE i \notin 1 .. Len(b)
    <3> DEFINE k == i - lb
    <3>1. i \in 1 .. lb + lc /\ i \notin 1 .. lb
      BY <1>6, <1>8, <2>2
    <3>2. k \in 1 .. lc /\ i = lb + k
      BY <3>1
    <3>3. base + i = pos + k
      BY <1>8, <3>2
    <3> HIDE DEF k
    <3>4. g[i] = c[k]
      BY <1>4, <1>5, <1>6, <1>7, <3>2
    <3>5. c[k] = f[pos + k]
      BY <1>3, <1>8, <3>2
    <3> QED
      BY <3>4, <3>5, <3>3
  <2> QED
    BY <2>1, <2>2
<1>10. base + Len(g) = upTo
  BY <1>8
<1>11. Part(f, g, base, upTo)
  BY <1>9, <1>10 DEF Part
<1> QED
  BY <1>2, <1>4, <1>5, <1>11

\* Something is taken off.
LEMMA PartShrinks ==
  ASSUME NEW S, NEW f \in Seq(S), NEW b \in Seq(S), NEW base \in Nat, NEW pos \in Nat,
         Part(f, b, base, pos), NEW n \in Nat, n <= Len(b)
  PROVE  /\ SubSeq(b, n + 1, Len(b)) \in Seq(S)
         /\ Part(f, SubSeq(b, n + 1, Len(b)), base + n, pos)
<1>1. Len(b) \in Nat /\ base + Len(b) = pos /\ pos <= Len(f) /\ \A i \in 1 .. Len(b) : b[i] = f[base + i]
  BY LenProperties DEF Part
<1>2. PICK l \in Nat : l = Len(b)
  BY <1>1
<1>3. PICK c : c = SubSeq(b, n + 1, l)
  OBVIOUS
<1>4. c \in Seq(S) /\ Len(c) = l - n /\ \A i \in 1 .. l - n : c[i] = b[n + i]
  BY <1>2, <1>3, SubSeqIs
<1>5. ASSUME NEW i \in 1 .. Len(c) PROVE c[i] = f[(base + n) + i]
  <2>1. i \in 1 .. l - n /\ n + i \in 1 .. Len(b) /\ base + (n + i) = (base + n) + i
    BY <1>2, <1>4
  <2>2. c[i] = b[n + i] /\ b[n + i] = f[base + (n + i)]
    BY <1>1, <1>4, <2>1
  <2> QED
    BY <2>1, <2>2
<1>6. (base + n) + Len(c) = pos
  <2>1. base + l = pos /\ Len(c) = l - n
    BY <1>1, <1>2, <1>4
  <2> QED
    BY <2>1
<1>7. Part(f, c, base + n, pos)
  BY <1>1, <1>5, <1>6 DEF Part
<1> QED
  BY <1>2, <1>3, <1>4, <1>7

-----------------------------------------------------------------------------
(* The steps.                                                              *)

\* The buffer holds what has been read and not handed over.
Window ==
  /\ position \in Nat /\ buffer \in Seq(Symbols) /\ atEOF \in BOOLEAN
  /\ position - Len(buffer) \in Nat
  /\ Part(file, buffer, position - Len(buffer), position)
  /\ atEOF => position = Len(file)

\* The records that were handed over are the first ones of the file.
Framed ==
  /\ tokens \in Seq(Seq(Symbols))
  /\ ~CutInMagic =>
       /\ Len(tokens) <= Len(Records)
       /\ \A k \in 1 .. Len(tokens) : tokens[k] = Records[k]
       /\ position - Len(buffer) = Ruler(Records)[Len(tokens)]

Timed == packet.kind = "packet" => packet.time \in Stamps

LEMMA ReadKeeps ==
  ASSUME Recorded, Window, Read
  PROVE  Window' /\ position' - Len(buffer') = position - Len(buffer) /\ position <= position'
<1>1. PICK l \in Nat : l = Len(buffer)
  BY LenProperties DEF Window
<1>2. PICK base \in Nat : base = position - Len(buffer)
  BY DEF Window
<1>3. file \in Seq(Symbols) /\ Len(file) \in Nat
  BY FileIsLaid, LenProperties
<1>4. PICK n \in ReadSizes :
        LET upTo == Min({position + n, Len(file), position + MaxTokenSize - Len(buffer)})
        IN  /\ buffer' = buffer \o SubSeq(file, position + 1, upTo)
            /\ position' = upTo
            /\ atEOF' = (upTo = position)
  BY DEF Read
<1>5. l < MaxTokenSize /\ MaxTokenSize \in Nat /\ n \in Nat \ {0} /\ position \in Nat
  BY <1>1, BoundsAssumption, ReadAssumption DEF Read, Window
<1>6. position = base + l /\ position <= Len(file)
  BY <1>1, <1>2, <1>5 DEF Window, Part
<1>7. PICK a \in Nat : a = position + n
  BY <1>5
<1>8. PICK c \in Nat : c = position + MaxTokenSize - Len(buffer)
  BY <1>1, <1>5
<1>9. position < a /\ position < c
  BY <1>1, <1>5, <1>7, <1>8
<1>10. PICK ends : ends = {a, Len(file), c}
  OBVIOUS
<1>11. ends \subseteq Nat /\ ends # {}
  BY <1>3, <1>10
<1>12. PICK upTo \in ends : upTo = Min(ends) /\ \A k \in ends : upTo <= k
  BY <1>11, MinIs
<1>13. upTo \in Nat /\ position <= upTo /\ upTo <= Len(file) /\ (upTo = position => position = Len(file))
  <2>1. upTo = a \/ upTo = Len(file) \/ upTo = c
    BY <1>10
  <2>2. upTo <= Len(file)
    BY <1>10, <1>12
  <2> QED
    BY <1>3, <1>5, <1>6, <1>9, <2>1, <2>2
<1>14. /\ buffer' = buffer \o SubSeq(file, position + 1, upTo)
       /\ position' = upTo
       /\ atEOF' = (upTo = position)
       /\ file' = file
  BY <1>4, <1>7, <1>8, <1>10, <1>12 DEF Read, input
<1>15. Part(file, buffer, base, position) /\ buffer \in Seq(Symbols)
  BY <1>2 DEF Window
<1>16. PICK b : b = buffer \o SubSeq(file, position + 1, upTo)
  OBVIOUS
<1>17. b \in Seq(Symbols) /\ Part(file, b, base, upTo)
  BY <1>3, <1>5, <1>13, <1>15, <1>16, PartGrows
<1>18. Len(b) \in Nat /\ base + Len(b) = upTo
  BY <1>17, LenProperties DEF Part
<1>19. upTo - Len(b) = base
  BY <1>13, <1>18
<1>20. position' = upTo /\ buffer' = b /\ position' - Len(buffer') = base /\ atEOF' \in BOOLEAN
  BY <1>14, <1>16, <1>19
<1>21. atEOF' => position' = Len(file')
  BY <1>13, <1>14
<1>22. Part(file', buffer', position' - Len(buffer'), position')
  BY <1>14, <1>17, <1>20
<1>23. position' \in Nat /\ buffer' \in Seq(Symbols) /\ position' - Len(buffer') \in Nat
  BY <1>13, <1>17, <1>20
<1> QED
  BY <1>2, <1>13, <1>20, <1>21, <1>22, <1>23 DEF Window

\* Where a record that Scan hands over was in the file.
LEMMA ScanTakes ==
  ASSUME Recorded, Window, Scan
  PROVE  \E base, first, end \in Nat :
           /\ base = position - Len(buffer)
           /\ Framing(buffer, atEOF, first, end)
           /\ tokens' = Append(tokens, SubSeq(buffer, first, end))
           /\ packet' = UnMarshal(SubSeq(buffer, first, end))
           /\ Window' /\ position' - Len(buffer') = base + end
<1>1. PICK l \in Nat : l = Len(buffer)
  BY LenProperties DEF Window
<1>2. PICK base \in Nat : base = position - Len(buffer)
  BY DEF Window
<1>3. file \in Seq(Symbols) /\ Len(file) \in Nat /\ buffer \in Seq(Symbols) /\ atEOF \in BOOLEAN /\ position \in Nat
  BY FileIsLaid, LenProperties DEF Window
<1>4. PICK found : found = Split(buffer, atEOF)
  OBVIOUS
<1>5. /\ found.token # <<>>
      /\ buffer' = SubSeq(buffer, found.advance + 1, Len(buffer))
      /\ tokens' = Append(tokens, found.token)
      /\ packet' = UnMarshal(found.token)
  BY <1>4 DEF Scan
<1>6. PICK first, end \in Nat :
        /\ Framing(buffer, atEOF, first, end)
        /\ found.advance = end /\ found.token = SubSeq(buffer, first, end)
  BY <1>3, <1>4, <1>5, SplitIs
<1>7. end <= Len(buffer)
  BY <1>6 DEF Framing
<1>8. position' = position /\ atEOF' = atEOF /\ file' = file
  BY DEF Scan, input
<1>9. Part(file, buffer, base, position)
  BY <1>2 DEF Window
<1>10. PICK b : b = SubSeq(buffer, end + 1, Len(buffer))
  OBVIOUS
<1>11. b \in Seq(Symbols) /\ Part(file, b, base + end, position)
  BY <1>3, <1>7, <1>9, <1>10, PartShrinks
<1>12. Len(b) \in Nat /\ (base + end) + Len(b) = position
  BY <1>11, LenProperties DEF Part
<1>13. position - Len(b) = base + end
  BY <1>3, <1>12
<1>14. buffer' = b /\ position' - Len(buffer') = base + end
  BY <1>5, <1>6, <1>8, <1>10, <1>13
<1>15. Part(file', buffer', position' - Len(buffer'), position')
  BY <1>8, <1>11, <1>14
<1>16. position' \in Nat /\ buffer' \in Seq(Symbols) /\ position' - Len(buffer') \in Nat /\ atEOF' \in BOOLEAN
  BY <1>3, <1>8, <1>11, <1>14
<1>17. atEOF' => position' = Len(file')
  BY <1>8 DEF Window
<1>18. Window'
  BY <1>15, <1>16, <1>17 DEF Window
<1> QED
  BY <1>2, <1>5, <1>6, <1>14, <1>18

\* A packet's time is in the fourth symbol of its record.
LEMMA TimeIs ==
  ASSUME NEW data \in Seq(Symbols), UnMarshal(data).kind = "packet"
  PROVE  Len(data) >= 5 /\ UnMarshal(data).time = data[4][2]
<1>1. Len(MagicHeader) = 3 /\ Len(data) \in Nat
  BY LenProperties DEF MagicHeader
<1>2. PICK fromTo : fromTo = Len(MagicHeader) + 2
  OBVIOUS
<1>3. PICK newlines : newlines = {i \in fromTo .. Len(data) : data[i] = NL}
  OBVIOUS
<1>4. PICK at : at = CHOOSE i \in newlines : \A j \in newlines : i <= j
  OBVIOUS
<1>5. PICK after : after = RemoveNewlineAfter(SubSeq(data, at + 1, Len(data)))
  OBVIOUS
<1> DEFINE Parsed ==
      IF data[fromTo - 1][3] # Len(after) THEN Error
      ELSE [kind |-> "packet", body |-> after, time |-> data[fromTo - 1][2],
            from |-> data[fromTo][2], to |-> data[fromTo][3]]
<1>6. UnMarshal(data) =
        CASE ~IsPrefix(MagicHeader, data) \/ Len(data) < fromTo -> Error
          [] IsPrefix(MagicHeader, data) /\ Len(data) >= fromTo /\ newlines = {} -> Panic
          [] OTHER -> Parsed
  BY <1>2, <1>3, <1>4, <1>5 DEF UnMarshal
<1>7. Error.kind = "error" /\ Panic.kind = "panic"
  BY DEF Error, Panic
<1>8. fromTo = 5
  BY <1>1, <1>2
<1> HIDE DEF Parsed
<1>9. ~(Len(data) < 5) /\ UnMarshal(data) = Parsed
  BY <1>6, <1>7, <1>8
<1>10. Parsed.time = data[4][2]
  <2>1. Parsed # Error
    BY <1>7, <1>9
  <2> QED
    BY <1>8, <2>1 DEF Parsed
<1> QED
  BY <1>1, <1>9, <1>10

\* What is handed over consists of symbols, of which the first is where the header was.
LEMMA TokenIs ==
  ASSUME NEW S, NEW b \in Seq(S), NEW eof, NEW first \in Nat, NEW end \in Nat,
         Framing(b, eof, first, end)
  PROVE  /\ SubSeq(b, first, end) \in Seq(S)
         /\ \A i \in 1 .. Len(SubSeq(b, first, end)) :
              first - 1 + i \in 1 .. Len(b) /\ SubSeq(b, first, end)[i] = b[first - 1 + i]
<1>1. Len(b) \in Nat
  BY LenProperties
<1>2. first >= 1 /\ first <= end /\ end <= Len(b)
  BY DEF Framing, HeaderAt
<1>3. PICK m \in Nat : m = first - 1
  BY <1>2
<1>4. first = m + 1 /\ m <= end
  BY <1>2, <1>3
<1>5. PICK c : c = SubSeq(b, m + 1, end)
  OBVIOUS
<1>6. c \in Seq(S) /\ Len(c) = end - m /\ \A i \in 1 .. end - m : c[i] = b[m + i]
  BY <1>2, <1>4, <1>5, SubSeqIs
<1>7. \A i \in 1 .. end - m : m + i \in 1 .. Len(b)
  BY <1>1, <1>2
<1> QED
  BY <1>3, <1>4, <1>5, <1>6, <1>7

LEMMA RecordsAreLong == ASSUME Recorded, ~CutInMagic PROVE Long(Records)
<1> SUFFICES ASSUME NEW k \in 1 .. Len(Records)
             PROVE  Len(Records[k]) \in Nat /\ Len(Records[k]) >= 3
  BY DEF Long
<1>1. Len(MagicHeader) = 3
  BY DEF MagicHeader
<1>2. k \in 1 .. Len(packets) /\ Records[k] = Record(k)
  BY FileIsLaid
<1>3. /\ Len(Record(k)) \in Nat \ {0}
      /\ IF k = cut THEN Len(Record(k)) = kept ELSE Len(Record(k)) >= 4
  BY <1>2, RecordIs
<1>4. CASE k = cut
  <2>1. Len(packets) \in Nat
    BY FileIsLaid
  <2>2. cut # 0 /\ kept \in Nat \ {0}
    BY <1>2, <1>3, <1>4, <2>1
  <2>3. ~(kept \in 1 .. 2)
    BY <1>1, <2>2 DEF CutInMagic
  <2> QED
    BY <1>2, <1>3, <1>4, <2>2, <2>3
<1>5. CASE k # cut
  BY <1>2, <1>3, <1>5
<1> QED
  BY <1>4, <1>5

LEMMA ScanFrames ==
  ASSUME Recorded, Window, Framed, Scan
  PROVE  Framed'
<1>1. PICK base, first, end \in Nat :
           /\ base = position - Len(buffer)
           /\ Framing(buffer, atEOF, first, end)
           /\ tokens' = Append(tokens, SubSeq(buffer, first, end))
           /\ position' - Len(buffer') = base + end
  BY ScanTakes
<1>2. PICK token \in Seq(Symbols) : token = SubSeq(buffer, first, end)
  BY <1>1, TokenIs DEF Window
<1>3. PICK d \in Nat : d = Len(tokens)
  BY LenProperties DEF Framed
<1>4. /\ tokens' \in Seq(Seq(Symbols)) /\ Len(tokens') = d + 1
      /\ \A i \in 1 .. d : tokens'[i] = tokens[i]
      /\ tokens'[d + 1] = token
  BY <1>1, <1>2, <1>3, AppendProperties DEF Framed
<1>5. Records' = Records /\ CutInMagic' = CutInMagic
  BY DEF Scan, input, Records, Record, CutInMagic
<1>6. ASSUME ~CutInMagic
      PROVE  /\ d + 1 \in 1 .. Len(Records) /\ token = Records[d + 1]
             /\ base + end = Ruler(Records)[d + 1]
  <2>1. Records \in Seq(Seq(Symbols)) /\ file \in Seq(Symbols) /\ Laid(file, Records, Ruler(Records))
    BY FileIsLaid
  <2>2. Long(Records)
    BY <1>6, RecordsAreLong
  <2>3. /\ position \in Nat /\ atEOF \in BOOLEAN /\ buffer \in Seq(Symbols)
        /\ Part(file, buffer, base, position) /\ (atEOF => position = Len(file))
    BY <1>1 DEF Window
  <2>4. d \in 0 .. Len(Records) /\ base = Ruler(Records)[d]
    <3>1. d <= Len(Records)
      BY <1>3, <1>6 DEF Framed
    <3>2. Len(Records) \in Nat
      BY <2>1, LenProperties
    <3>3. base = Ruler(Records)[d]
      BY <1>1, <1>3, <1>6 DEF Framed
    <3> QED
      BY <3>1, <3>2, <3>3
  <2>5. PICK e : e = Ruler(Records)
    OBVIOUS
  <2>6. PICK R \in Seq(Seq(Symbols)), f \in Seq(Symbols), b \in Seq(Symbols), pos \in Nat, eof \in BOOLEAN :
          R = Records /\ f = file /\ b = buffer /\ pos = position /\ eof = atEOF
    BY <2>1, <2>3
  <2>7. Behind(f, R, e, b, base, pos, eof, d)
    BY <2>1, <2>2, <2>3, <2>4, <2>5, <2>6 DEF Behind
  <2>8. Framing(b, eof, first, end)
    BY <1>1, <2>6
  <2>9. Follows(R, e, b, base, d, first, end)
    BY <2>7, <2>8, NextRecord
  <2> QED
    BY <1>2, <2>5, <2>6, <2>9 DEF Follows
<1>7. ASSUME ~CutInMagic, NEW k \in 1 .. d + 1 PROVE tokens'[k] = Records[k]
  <2>1. CASE k = d + 1
    BY <1>4, <1>6, <1>7, <2>1
  <2>2. CASE k # d + 1
    <3>1. k \in 1 .. d
      BY <2>2
    <3>2. tokens[k] = Records[k]
      BY <1>3, <1>7, <3>1 DEF Framed
    <3> QED
      BY <1>4, <3>1, <3>2
  <2> QED
    BY <2>1, <2>2
<1>8. ASSUME ~CutInMagic'
      PROVE  /\ Len(tokens') <= Len(Records')
             /\ \A k \in 1 .. Len(tokens') : tokens'[k] = Records'[k]
             /\ position' - Len(buffer') = Ruler(Records')[Len(tokens')]
  <2>1. ~CutInMagic
    BY <1>5, <1>8
  <2>2. Len(tokens') <= Len(Records')
    <3>1. Len(Records) \in Nat
      BY FileIsLaid
    <3> QED
      BY <1>4, <1>5, <1>6, <2>1, <3>1
  <2>3. \A k \in 1 .. Len(tokens') : tokens'[k] = Records'[k]
    BY <1>4, <1>5, <1>7, <2>1
  <2>4. position' - Len(buffer') = Ruler(Records')[Len(tokens')]
    BY <1>1, <1>4, <1>5, <1>6, <2>1
  <2> QED
    BY <2>2, <2>3, <2>4
<1> QED
  BY <1>4, <1>8 DEF Framed

\* A packet that could be read has the time with which it was written.
LEMMA ScanTimes ==
  ASSUME Recorded, Window, Framed, Scan
  PROVE  Timed'
<1> SUFFICES ASSUME packet'.kind = "packet" PROVE packet'.time \in Stamps
  BY DEF Timed
<1>1. PICK base, first, end \in Nat :
           /\ base = position - Len(buffer)
           /\ Framing(buffer, atEOF, first, end)
           /\ tokens' = Append(tokens, SubSeq(buffer, first, end))
           /\ packet' = UnMarshal(SubSeq(buffer, first, end))
  BY ScanTakes
<1>2. PICK token \in Seq(Symbols) :
        /\ token = SubSeq(buffer, first, end)
        /\ \A i \in 1 .. Len(token) : first - 1 + i \in 1 .. Len(buffer) /\ token[i] = buffer[first - 1 + i]
  <2>1. PICK b \in Seq(Symbols), eof \in BOOLEAN : b = buffer /\ eof = atEOF
    BY DEF Window
  <2>2. Framing(b, eof, first, end)
    BY <1>1, <2>1
  <2>3. PICK token : token = SubSeq(b, first, end)
    OBVIOUS
  <2>4. /\ token \in Seq(Symbols)
        /\ \A i \in 1 .. Len(token) : first - 1 + i \in 1 .. Len(b) /\ token[i] = b[first - 1 + i]
    BY <2>2, <2>3, TokenIs, ZenonT(20)
  <2> QED
    BY <2>1, <2>3, <2>4
<1>3. Len(token) >= 5 /\ packet'.time = token[4][2] /\ Len(token) \in Nat
  BY <1>1, <1>2, TimeIs, LenProperties
<1>4. 4 \in 1 .. Len(token)
  BY <1>3
<1>5. SUFFICES \E k \in 1 .. Len(packets) : Len(Record(k)) >= 4 /\ token[4] = Record(k)[4]
  <2>1. PICK k \in 1 .. Len(packets) : Len(Record(k)) >= 4 /\ token[4] = Record(k)[4]
    BY <1>5
  <2>2. PICK length \in Nat : token[4] = Fixed(TimeOf[k], length)
    BY <2>1, RecordIs
  <2>3. TimeOf[k] \in Stamps
    BY RecordIs
  <2>4. packet'.time = TimeOf[k]
    BY <1>3, <2>2 DEF Fixed
  <2> QED
    BY <2>3, <2>4
<1>6. /\ Records \in Seq(Seq(Symbols)) /\ Len(Records) = Len(packets) /\ Len(packets) \in Nat
      /\ \A i \in 1 .. Len(packets) : Records[i] = Record(i)
      /\ file \in Seq(Symbols) /\ Laid(file, Records, Ruler(Records))
  BY FileIsLaid
<1>7. CASE ~CutInMagic
  <2>1. Framed'
    BY ScanFrames
  <2>2. Records' = Records /\ CutInMagic' = CutInMagic
    BY DEF Scan, input, Records, Record, CutInMagic
  <2>3. tokens \in Seq(Seq(Symbols))
    BY DEF Framed
  <2>4. PICK d \in Nat : d = Len(tokens)
    BY <2>3, LenProperties
  <2>5. Len(tokens') = d + 1 /\ tokens'[d + 1] = token
    BY <1>1, <1>2, <2>3, <2>4, AppendProperties
  <2>6. d + 1 <= Len(Records) /\ token = Records[d + 1]
    <3>1. Len(tokens') <= Len(Records') /\ \A k \in 1 .. Len(tokens') : tokens'[k] = Records'[k]
      BY <1>7, <2>1, <2>2 DEF Framed
    <3>2. d + 1 \in 1 .. d + 1
      OBVIOUS
    <3> QED
      BY <2>2, <2>5, <3>1, <3>2
  <2>7. d + 1 \in 1 .. Len(packets) /\ token = Record(d + 1)
    BY <1>6, <2>6
  <2> QED
    BY <1>3, <2>7
<1>8. CASE CutInMagic
  <2>1. HeaderAt(buffer, first) /\ first \in Int /\ first >= 1
    BY <1>1 DEF Framing, HeaderAt
  <2>2. Part(file, buffer, base, position) /\ buffer \in Seq(Symbols) /\ position \in Nat
    BY <1>1 DEF Window
  <2>3. HeaderAt(file, base + first)
    BY <1>6, <2>1, <2>2, HeadersInPart
  <2>4. PICK k \in 1 .. Len(Records) : Len(Records[k]) >= 3 /\ base + first = Ruler(Records)[k - 1] + 1
    <3>1. base + first \in Int
      OBVIOUS
    <3> QED
      BY <1>6, <2>3, <3>1 DEF Laid
  <2>5. k \in 1 .. Len(packets) /\ Records[k] = Record(k)
    BY <1>6
  <2>6. k # cut
    <3> SUFFICES ASSUME k = cut PROVE FALSE
      OBVIOUS
    <3>1. Len(Record(k)) = kept
      BY <2>5, RecordIs
    <3>2. Len(MagicHeader) = 3
      BY DEF MagicHeader
    <3> QED
      BY <1>8, <2>4, <2>5, <3>1, <3>2 DEF CutInMagic
  <2>7. Len(Record(k)) >= 4 /\ Len(Record(k)) \in Nat /\ 4 \in 1 .. Len(Record(k))
    <3>1. Len(Record(k)) >= 4 /\ Len(Record(k)) \in Nat
      BY <2>5, <2>6, RecordIs
    <3> QED
      BY <3>1
  <2>8. PICK q \in Nat : q = Ruler(Records)[k - 1]
    <3>1. k - 1 \in 0 .. Len(Records)
      BY <1>6
    <3> QED
      BY <1>6, <3>1 DEF Laid
  <2>9. file[q + 4] = Record(k)[4]
    BY <1>6, <2>5, <2>7, <2>8 DEF Laid
  <2>10. base + (first - 1 + 4) = q + 4
    <3>1. base + first = q + 1
      BY <2>4, <2>8
    <3> QED
      BY <3>1
  <2>11. token[4] = file[base + (first - 1 + 4)]
    BY <1>2, <1>4, <2>2 DEF Part
  <2> QED
    BY <2>5, <2>7, <2>9, <2>10, <2>11
<1> QED
  BY <1>7, <1>8

\* The invariant of a player.
IInv == Recorded /\ Window /\ Framed /\ Timed /\ PacingInv

Fresh == position = 0 /\ buffer = <<>> /\ atEOF = FALSE /\ tokens = <<>>

LEMMA FreshIs == Recorded /\ Fresh => Window /\ Framed
<1> SUFFICES ASSUME Recorded, Fresh PROVE Window /\ Framed
  OBVIOUS
<1>1. position = 0 /\ Len(buffer) = 0 /\ position - Len(buffer) = 0 /\ buffer = <<>> /\ tokens = <<>>
  <2>1. Len(<<>>) = 0 /\ 0 - 0 = 0
    OBVIOUS
  <2> QED
    BY <2>1 DEF Fresh
<1>2. file \in Seq(Symbols) /\ Len(file) \in Nat /\ Len(Records) \in Nat /\ Ruler(Records)[0] = 0
  BY FileIsLaid, LenProperties DEF Laid
<1>3. Part(file, buffer, 0, 0)
  <2>1. \A i \in 1 .. 0 : FALSE
    OBVIOUS
  <2> QED
    BY <1>1, <1>2, <2>1 DEF Part
<1>4. Window
  BY <1>1, <1>3 DEF Window, Fresh
<1>5. Framed
  <2>1. tokens \in Seq(Seq(Symbols)) /\ Len(tokens) = 0 /\ \A k \in 1 .. 0 : FALSE
    BY <1>1
  <2> QED
    BY <1>1, <1>2, <2>1 DEF Framed
<1> QED
  BY <1>4, <1>5

LEMMA ReplayInitially == Init => IInv
<1> SUFFICES ASSUME Init PROVE IInv
  OBVIOUS
<1>1. Recorded
  <2>1. PICK n \in 0 .. MaxPackets : packets \in [1 .. n -> Packets]
    BY DEF Init
  <2>2. n \in Nat /\ n <= MaxPackets
    BY BoundsAssumption
  <2>3. packets \in Seq(Packets)
    BY <2>1, <2>2, SeqDef
  <2>4. Len(packets) = n
    BY <2>1, <2>2, <2>3, LenProperties
  <2> QED
    BY <2>2, <2>3, <2>4 DEF Init, Recorded
<1>2. Window /\ Framed
  BY <1>1, FreshIs DEF Init, Fresh
<1>3. Timed
  BY DEF Init, Timed, Nothing
<1>4. PacingInv
  BY PacingInitially DEF Init
<1> QED
  BY <1>1, <1>2, <1>3, <1>4 DEF IInv

\* The file does not change.
LEMMA InputStays ==
  ASSUME Recorded, UNCHANGED input
  PROVE  Recorded' /\ Records' = Records /\ CutInMagic' = CutInMagic /\ file' = file
<1>1. packets' = packets /\ cut' = cut /\ kept' = kept /\ file' = file
  BY DEF input
<1>2. Records' = Records /\ CutInMagic' = CutInMagic
  BY <1>1 DEF Records, Record, CutInMagic
<1> QED
  BY <1>1, <1>2 DEF Recorded

\* Steps that leave the scanner alone.
Dealt == UNCHANGED <<input, position, buffer, atEOF, tokens>> /\ packet' \in {packet, Nothing}

LEMMA DealtKeeps ==
  ASSUME Recorded, Window, Framed, Timed, Dealt
  PROVE  Recorded' /\ Window' /\ Framed' /\ Timed'
<1>1. Recorded' /\ Records' = Records /\ CutInMagic' = CutInMagic /\ file' = file
  BY InputStays DEF Dealt
<1>2. position' = position /\ buffer' = buffer /\ atEOF' = atEOF /\ tokens' = tokens
  BY DEF Dealt
<1>3. Window'
  BY <1>1, <1>2 DEF Window
<1>4. Framed'
  BY <1>1, <1>2 DEF Framed
<1>5. Timed'
  BY DEF Dealt, Timed, Nothing
<1> QED
  BY <1>1, <1>3, <1>4, <1>5

LEMMA PaceKeeps ==
  ASSUME PacingInv, Timed, packet.kind = "packet", NEW side \in Sides, Pace(side)
  PROVE  PacingInv'
<1>1. CASE replayTime
  <2>1. PICK stamp \in Stamps : stamp = packet.time
    BY DEF Timed
  <2>2. PICK milli \in Clocks : Wait(side, stamp, milli)
    BY <1>1, <2>1 DEF Pace
  <2> QED
    BY <2>2, WaitKeeps
<1>2. CASE ~replayTime
  BY <1>2 DEF Pace, PacingInv, Forgetful, pacing
<1> QED
  BY <1>1, <1>2

LEMMA PacingRests == ASSUME PacingInv, UNCHANGED pacing PROVE PacingInv'
BY DEF PacingInv, Forgetful, pacing

LEMMA ReplayStep == IInv /\ [Next]_vars => IInv'
<1> SUFFICES ASSUME IInv, [Next]_vars PROVE IInv'
  OBVIOUS
<1> USE DEF IInv
<1>1. ASSUME Dealt, PacingInv' PROVE IInv'
  BY <1>1, DealtKeeps
<1>2. CASE Read
  <2>1. Window' /\ position' - Len(buffer') = position - Len(buffer)
    BY <1>2, ReadKeeps
  <2>2. Recorded' /\ Records' = Records /\ CutInMagic' = CutInMagic /\ file' = file
    BY <1>2, InputStays DEF Read
  <2>3. tokens' = tokens /\ packet' = packet /\ UNCHANGED pacing
    BY <1>2 DEF Read, player
  <2>4. Framed'
    BY <2>1, <2>2, <2>3 DEF Framed
  <2>5. Timed'
    BY <2>3 DEF Timed
  <2> QED
    BY <2>1, <2>2, <2>3, <2>4, <2>5, PacingRests
<1>3. CASE Scan
  <2>1. Recorded' /\ UNCHANGED pacing
    BY <1>3, InputStays DEF Scan, player
  <2> QED
    BY <1>3, <2>1, ScanTakes, ScanFrames, ScanTimes, PacingRests
<1>4. CASE Detect
  <2>1. Recorded'
    BY <1>4, InputStays DEF Detect, StartReplay
  <2>2. Fresh'
    BY <1>4 DEF Detect, StartReplay, Fresh
  <2>3. Window' /\ Framed'
    BY <2>1, <2>2, FreshIs, PTL
  <2>4. packet' = packet /\ UNCHANGED pacing
    BY <1>4 DEF Detect, StartReplay
  <2>5. Timed'
    BY <2>4 DEF Timed
  <2> QED
    BY <2>1, <2>3, <2>4, <2>5, PacingRests
<1>5. CASE TooLong \/ NotDetected \/ Finish \/ FinishSingle
  BY <1>1, <1>5, PacingRests DEF TooLong, NotDetected, Finish, FinishSingle, Dealt, scanner, player
<1>6. CASE Crash \/ Skip \/ Count
  BY <1>1, <1>6, PacingRests DEF Crash, Skip, Count, Dealt, player
<1>7. CASE Send
  <2>1. Dealt /\ packet.kind = "packet"
    BY <1>7 DEF Send, NextPacket, Dealt
  <2>2. PacingInv'
    BY <1>7, <2>1, PaceKeeps, PacingRests DEF Send, Sides
  <2> QED
    BY <1>1, <2>1, <2>2
<1>8. CASE WriteFails
  <2>1. Dealt /\ packet.kind = "packet"
    BY <1>8 DEF WriteFails, NextPacket, Dealt
  <2>2. PacingInv'
    BY <1>8, <2>1, PaceKeeps DEF WriteFails, Sides
  <2> QED
    BY <1>1, <2>1, <2>2
<1>9. CASE NotForUs
  BY <1>1, <1>9, PacingRests DEF NotForUs, NextPacket, Dealt
<1>10. ASSUME NEW side \in Sides, SendPacket(side) PROVE IInv'
  <2>1. Dealt /\ packet.kind = "packet"
    BY <1>10 DEF SendPacket, NextPacket, Dealt
  <2>2. PacingInv'
    BY <1>10, <2>1, PaceKeeps DEF SendPacket
  <2> QED
    BY <1>1, <2>1, <2>2
<1>11. CASE UNCHANGED vars
  BY <1>1, <1>11, PacingRests DEF vars, scanner, player, Dealt
<1> QED
  BY <1>2, <1>3, <1>4, <1>5, <1>6, <1>7, <1>8, <1>9, <1>10, <1>11 DEF Next

LEMMA ReplayInvariant == Spec => []IInv
  BY ReplayInitially, ReplayStep, PTL DEF Spec

\* s is how t begins.
LEMMA PrefixIs ==
  ASSUME NEW S, NEW s \in Seq(S), NEW t \in Seq(S), Len(s) <= Len(t),
         \A k \in 1 .. Len(s) : s[k] = t[k]
  PROVE  IsPrefix(s, t)
<1>1. Len(s) \in Nat /\ Len(t) \in Nat
  BY LenProperties
<1>2. PICK n \in Nat : n = Len(s)
  BY <1>1
<1>3. \A k \in 1 .. n : s[k] \in S /\ t[k] \in S
  BY <1>1, <1>2, ElementOfSeq
<1>4. PICK a, b : a = SubSeq(s, 0 + 1, n) /\ b = SubSeq(t, 0 + 1, n)
  OBVIOUS
<1>5. a \in Seq(S) /\ Len(a) = n - 0 /\ \A i \in 1 .. n - 0 : a[i] = s[0 + i]
  BY <1>1, <1>2, <1>4, SubSeqIs
<1>6. b \in Seq(S) /\ Len(b) = n - 0 /\ \A i \in 1 .. n - 0 : b[i] = t[0 + i]
  BY <1>1, <1>2, <1>4, SubSeqIs
<1>7. \A i \in 1 .. n : a[i] = b[i]
  BY <1>2, <1>5, <1>6
<1>8. a = b
  BY <1>5, <1>6, <1>7, SeqEqual
<1> QED
  BY <1>2, <1>4, <1>8 DEF IsPrefix

\* FramingHolds, whatever is in the packets and however the file is read.
THEOREM RecordsAreToldApart == Spec => []FramingHolds
<1>1. IInv => FramingHolds
  <2> SUFFICES ASSUME IInv, ~CutInMagic PROVE IsPrefix(tokens, Records)
    BY DEF FramingHolds
  <2>1. Records \in Seq(Seq(Symbols))
    BY FileIsLaid DEF IInv
  <2>2. /\ tokens \in Seq(Seq(Symbols)) /\ Len(tokens) <= Len(Records)
        /\ \A k \in 1 .. Len(tokens) : tokens[k] = Records[k]
    BY DEF IInv, Framed
  <2> QED
    BY <2>1, <2>2, PrefixIs
<1> QED
  BY <1>1, ReplayInvariant, PTL

\* PauseForgetsThePast of Pacing, in what a player does.
PacedByTheClock ==
  [][\A side \in Sides, stamp \in Stamps, milli \in Clocks :
       Wait(side, stamp, milli) => pause' = Duration(stamp - milli)]_vars

\* In every step of every replay: why the pauses do not follow the gaps between packets.
THEOREM PlayerIsPacedByTheClock == Spec => PacedByTheClock
<1> DEFINE ByTheClock ==
      \A side \in Sides, stamp \in Stamps, milli \in Clocks :
        Wait(side, stamp, milli) => pause' = Duration(stamp - milli)
<1>1. IInv => ByTheClock
  BY WaitKeeps DEF IInv
<1>2. IInv /\ [Next]_vars => [ByTheClock]_vars
  BY <1>1
<1> QED
  BY <1>2, ReplayInvariant, PTL DEF Spec, PacedByTheClock

-----------------------------------------------------------------------------
(* The end of a replay.                                                    *)

\* What a replay has still to do: with a symbol that was not read three steps at most, with
\* one in the buffer two, with a record that was handed over one; and after the pass that
\* looks for the destination all of it once more.
Passes ==
  CASE pass = "detect" -> 3 * Len(file) + 3
    [] pass \in {"replay", "single"} -> 1
    [] OTHER -> 0

Left ==
  3 * (Len(file) - position) + 2 * Len(buffer)
    + (IF atEOF THEN 0 ELSE 1) + (IF packet = Nothing THEN 0 ELSE 1) + Passes

\* What it is made of.
LEMMA LeftIs ==
  ASSUME Recorded, Window
  PROVE  /\ Len(file) \in Nat /\ position \in Nat /\ Len(buffer) \in Nat
         /\ position <= Len(file) /\ Passes \in Nat /\ Left \in Nat
<1>1. Len(file) \in Nat /\ Len(buffer) \in Nat /\ position \in Nat
  BY FileIsLaid, LenProperties DEF Window
<1>2. position <= Len(file)
  BY <1>1 DEF Window, Part
<1>3. Passes \in Nat
  BY <1>1 DEF Passes
<1> QED
  BY <1>1, <1>2, <1>3 DEF Left

\* A read moves symbols into the buffer, or finds the end of the file.
LEMMA ReadSinks ==
  ASSUME Recorded, Window, Read
  PROVE  Left' < Left
<1>1. Window' /\ position' - Len(buffer') = position - Len(buffer) /\ position <= position'
  BY ReadKeeps
<1>2. UNCHANGED <<file, pass, packet>> /\ ~atEOF
  BY DEF Read, input, NeedsMore
<1>3. atEOF' <=> position' = position
  BY DEF Read
<1>4. position' \in Nat /\ Len(buffer') \in Nat
  BY <1>1, LenProperties DEF Window
<1>5. /\ Len(file) \in Nat /\ position \in Nat /\ Len(buffer) \in Nat /\ Passes \in Nat
      /\ Passes' = Passes
  BY <1>2, LeftIs DEF Passes
<1>6. PICK k \in Nat : k = (IF packet = Nothing THEN 0 ELSE 1) + Passes
  BY <1>5
<1>7. Left = 3 * (Len(file) - position) + 2 * Len(buffer) + 1 + k
  BY <1>2, <1>5, <1>6 DEF Left
<1>8. Left' = 3 * (Len(file) - position') + 2 * Len(buffer') + (IF atEOF' THEN 0 ELSE 1) + k
  <2>1. /\ file' = file /\ (IF packet' = Nothing THEN 0 ELSE 1) + Passes' = k
        /\ (IF packet' = Nothing THEN 0 ELSE 1) \in Nat /\ Passes' \in Nat
    BY <1>2, <1>5, <1>6
  <2>2. PICK e \in Nat : e = IF atEOF' THEN 0 ELSE 1
    OBVIOUS
  <2>3. PICK c \in Nat : c = IF packet' = Nothing THEN 0 ELSE 1
    OBVIOUS
  <2>4. PICK h \in Nat : h = Passes'
    BY <2>1
  <2>5. PICK x \in Int : x = 3 * (Len(file) - position') + 2 * Len(buffer')
    BY <1>4, <1>5
  <2>6. Left' = x + e + c + h
    BY <2>1, <2>2, <2>3, <2>4, <2>5 DEF Left
  <2>7. c + h = k
    BY <2>1, <2>3, <2>4
  <2>8. x + e + c + h = x + e + k
    BY <2>7
  <2> QED
    BY <2>2, <2>5, <2>6, <2>8
<1>9. Len(buffer') = Len(buffer) + (position' - position)
  BY <1>1, <1>4, <1>5
<1>10. CASE position' = position
  <2>1. Left' = 3 * (Len(file) - position') + 2 * Len(buffer') + k
    BY <1>3, <1>4, <1>5, <1>8, <1>10
  <2> QED
    BY <1>5, <1>7, <1>9, <1>10, <2>1
<1>11. CASE position' # position
  <2>1. Left' = 3 * (Len(file) - position') + 2 * Len(buffer') + 1 + k
    BY <1>3, <1>8, <1>11
  <2>2. position < position'
    BY <1>1, <1>4, <1>5, <1>11
  <2>3. Left' = 3 * (Len(file) - position') + 2 * (Len(buffer) + (position' - position)) + 1 + k
    BY <1>9, <2>1
  <2>4. PICK n \in Nat, b \in Nat, p \in Nat, q \in Nat :
          n = Len(file) /\ b = Len(buffer) /\ p = position /\ q = position'
    BY <1>4, <1>5
  <2>5. Left = 3 * (n - p) + 2 * b + 1 + k /\ Left' = 3 * (n - q) + 2 * (b + (q - p)) + 1 + k /\ p < q
    BY <1>7, <2>2, <2>3, <2>4
  <2>6. 3 * (n - q) + 2 * (b + (q - p)) + 1 + k < 3 * (n - p) + 2 * b + 1 + k
    BY <2>5
  <2> QED
    BY <2>5, <2>6
<1> QED
  BY <1>10, <1>11

LEMMA LeftSinks ==
  ASSUME IInv, Next, IInv'
  PROVE  Left' < Left
<1>1. /\ Len(file) \in Nat /\ position \in Nat /\ Len(buffer) \in Nat /\ Left \in Nat
      /\ position <= Len(file) /\ Passes \in Nat /\ Recorded /\ Window /\ Recorded' /\ Window'
  BY LeftIs DEF IInv
<1>2. CASE Read
  BY <1>1, <1>2, ReadSinks
<1>3. CASE Scan
  <2>1. PICK base, first, end \in Nat :
          /\ base = position - Len(buffer)
          /\ Framing(buffer, atEOF, first, end)
          /\ position' - Len(buffer') = base + end
    BY <1>1, <1>3, ScanTakes
  <2>2. end >= 1
    BY <2>1 DEF Framing, HeaderAt
  <2>3. UNCHANGED <<file, pass, position, atEOF>> /\ packet = Nothing
    BY <1>3 DEF Scan, Scanning, input
  <2>4. Len(buffer') \in Nat
    BY <1>1, LenProperties DEF Window
  <2>5. Len(buffer') = Len(buffer) - end
    BY <1>1, <2>1, <2>3, <2>4
  <2> QED
    <3>1. Passes' = Passes
      BY <2>3 DEF Passes
    <3>2. PICK k \in Nat : k = 3 * (Len(file) - position) + (IF atEOF THEN 0 ELSE 1) + Passes
      BY <1>1
    <3>3. Left = k + 2 * Len(buffer)
      BY <1>1, <2>3, <3>2 DEF Left
    <3>4. Left' = k + 2 * (Len(buffer) - end) + (IF packet' = Nothing THEN 0 ELSE 1)
      BY <1>1, <2>3, <2>5, <3>1, <3>2 DEF Left
    <3> QED
      BY <1>1, <2>2, <3>3, <3>4
<1>4. CASE Detect
  <2>1. /\ pass = "detect" /\ pass' = "replay" /\ packet = Nothing
        /\ position' = 0 /\ buffer' = <<>> /\ ~atEOF' /\ UNCHANGED <<file, packet>>
    BY <1>4 DEF Detect, StartReplay, Ended, Scanning, input
  <2>2. Left' = 3 * Len(file) + 2
    BY <1>1, <2>1 DEF Left, Passes
  <2>3. Left >= 3 * Len(file) + 3
    BY <1>1, <2>1 DEF Left, Passes
  <2> QED
    BY <1>1, <2>2, <2>3
<1>5. CASE TooLong \/ NotDetected \/ Finish \/ FinishSingle
  <2>1. pass \in {"detect", "replay", "single"} /\ pass' = "done" /\ UNCHANGED <<file, scanner>>
    BY <1>5 DEF TooLong, NeedsMore, Scanning, NotDetected, Finish, FinishSingle, input
  <2> QED
    BY <1>1, <2>1 DEF Left, Passes, scanner
<1>6. CASE /\ packet.kind \in {"panic", "error", "packet"} /\ packet' = Nothing
           /\ UNCHANGED <<file, position, buffer, atEOF>> /\ pass' \in {pass, "panic", "done"}
  <2>1. packet # Nothing
    BY <1>6 DEF Nothing
  <2> QED
    BY <1>1, <1>6, <2>1 DEF Left, Passes
<1>7. CASE Crash \/ Skip \/ Count
  BY <1>6, <1>7 DEF Crash, Skip, Count, input
<1>8. CASE Send \/ WriteFails \/ NotForUs
  BY <1>6, <1>8 DEF Send, WriteFails, NotForUs, NextPacket, input
<1>9. ASSUME NEW side \in Sides, SendPacket(side) PROVE Left' < Left
  BY <1>6, <1>9 DEF SendPacket, NextPacket, input
<1> QED
  BY <1>2, <1>3, <1>4, <1>5, <1>7, <1>8, <1>9 DEF Next

\* Whatever is in the file and however it is read, a replay takes a bounded number of steps,
\* also over records that cannot be read: none is handed over twice.
THEOREM ReplayIsFinite == Spec => [](Left \in Nat) /\ [][Left' < Left]_vars
<1>1. IInv => Left \in Nat
  BY LeftIs DEF IInv
<1>2. IInv /\ [Next]_vars /\ IInv' => [Left' < Left]_vars
  BY LeftSinks
<1>3. Spec => [](Left \in Nat)
  BY <1>1, ReplayInvariant, PTL
<1>4. Spec => [][Left' < Left]_vars
  BY <1>2, ReplayInvariant, PTL DEF Spec
<1> QED
  BY <1>3, <1>4

-----------------------------------------------------------------------------
(* What reading a record returns.                                          *)

\* s, of which the first n symbols are pieces of their own.
Singles(R, s, n) == \A i \in 1 .. n : Len(R[i]) = 1 /\ R[i][1] = s[i]

LEMMA SinglesEnd ==
  ASSUME NEW S, NEW R \in Seq(Seq(S)), R # <<>>, NEW n \in 0 .. Len(R), NEW s, Singles(R, s, n)
  PROVE  \A k \in 0 .. n : EndOf(R, k) = k
<1> DEFINE Bad == {k \in 0 .. n : EndOf(R, k) # k}
<1> SUFFICES ASSUME Bad # {} PROVE FALSE
  OBVIOUS
<1>1. Len(R) \in Nat /\ n \in Nat
  BY LenProperties
<1>2. PICK m \in Bad : \A k \in Bad : m <= k
  <2>1. Bad \subseteq Nat
    BY <1>1
  <2> QED
    BY <2>1, Least
<1>3. m # 0 /\ m \in 0 .. n
  BY DEF EndOf
<1>4. m \in 1 .. Len(R) /\ m \in 1 .. n /\ m - 1 \in 0 .. n /\ m \in Nat
  BY <1>1, <1>3
<1>5. m - 1 \notin Bad
  BY <1>2, <1>4
<1>6. EndOf(R, m - 1) = m - 1
  BY <1>4, <1>5
<1>7. EndOf(R, m) = EndOf(R, m - 1) + Len(R[m])
  BY <1>4, NextPiece
<1>8. Len(R[m]) = 1
  BY <1>4 DEF Singles
<1>9. EndOf(R, m) = m
  BY <1>4, <1>6, <1>7, <1>8
<1> QED
  BY <1>9

\* A sequence taken to pieces and put together.
LEMMA SinglesAre ==
  ASSUME NEW S, NEW s \in Seq(S), NEW R \in Seq(Seq(S)), Len(R) = Len(s), Singles(R, s, Len(s))
  PROVE  FlattenSeq(R) = s
<1>1. Len(s) \in Nat
  BY LenProperties
<1>2. CASE R = <<>>
  <2>1. FlattenSeq(R) = <<>> /\ Len(s) = 0
    BY <1>2 DEF FlattenSeq
  <2>2. s = <<>>
    BY <2>1, EmptySeq
  <2> QED
    BY <2>1, <2>2
<1>3. CASE R # <<>>
  <2>1. FlattenSeq(R) = Joined(R)[Len(R)] /\ Len(R) \in Nat \ {0}
    BY <1>3, JoinedIs
  <2>2. PICK n \in 1 .. Len(R) : n = Len(R)
    BY <2>1
  <2>3. PICK f \in Seq(S) : f = Joined(R)[n]
    BY <1>3, JoinedTypes
  <2>4. \A k \in 0 .. Len(R) : EndOf(R, k) = k
    <3>1. Len(R) \in 0 .. Len(R) /\ Singles(R, s, Len(R))
      BY <2>1
    <3> QED
      BY <1>3, <3>1, SinglesEnd
  <2>5. Len(f) = Len(s)
    BY <2>1, <2>2, <2>3, <2>4 DEF EndOf
  <2>6. ASSUME NEW i \in 1 .. Len(s) PROVE f[i] = s[i]
    <3>1. i \in 1 .. Len(R) /\ n \in i .. Len(R) /\ i - 1 \in 0 .. Len(R)
      BY <1>1, <2>2
    <3>2. Kept(R, i, n)
      BY <1>3, <3>1, PieceStays
    <3>3. EndOf(R, i - 1) = i - 1 /\ Len(R[i]) = 1 /\ R[i][1] = s[i]
      BY <2>4, <3>1 DEF Singles
    <3>4. Joined(R)[n][(i - 1) + 1] = R[i][1]
      BY <3>2, <3>3 DEF Kept
    <3>5. (i - 1) + 1 = i
      OBVIOUS
    <3> QED
      BY <2>3, <3>3, <3>4, <3>5
  <2> QED
    BY <2>1, <2>2, <2>3, <2>5, <2>6, SeqEqual
<1> QED
  BY <1>2, <1>3

Breaks(s, i) == i >= 1 /\ i + 1 <= Len(s) /\ s[i] = NL /\ s[i + 1] = T

LEMMA BreaksIs ==
  ASSUME NEW S, NL \in S, T \in S, NEW s \in Seq(S), NEW i \in Int
  PROVE  OccursAt(<<NL, T>>, s, i) <=> Breaks(s, i)
<1>1. <<NL, T>> \in Seq(S)
  OBVIOUS
<1>2. PICK t \in Seq(S) : t = <<NL, T>>
  BY <1>1
<1>3. Len(t) = 2 /\ t[1] = NL /\ t[2] = T /\ t # <<>>
  BY <1>2
<1>4. OccursAt(t, s, i) <=>
        i >= 1 /\ i - 1 + Len(t) <= Len(s) /\ \A k \in 1 .. Len(t) : s[i - 1 + k] = t[k]
  BY <1>3, OccursIs
<1>5. (\A k \in 1 .. Len(t) : s[i - 1 + k] = t[k]) <=> s[i - 1 + 1] = t[1] /\ s[i - 1 + 2] = t[2]
  <2>1. \A k \in 1 .. Len(t) : k = 1 \/ k = 2
    BY <1>3
  <2>2. 1 \in 1 .. Len(t) /\ 2 \in 1 .. Len(t)
    BY <1>3
  <2> QED
    BY <2>1, <2>2
<1>6. Len(s) \in Nat
  BY LenProperties
<1>7. i - 1 + 1 = i /\ i - 1 + 2 = i + 1
  OBVIOUS
<1> QED
  BY <1>2, <1>3, <1>4, <1>5, <1>6, <1>7 DEF Breaks

\* No line begins with "t".
Unbroken(s) == \A i \in Int : ~Breaks(s, i)

\* HandleDataBody leaves nothing alone but that: the first line break that it doubles
\* is followed by another one instead of by the "t".
LEMMA PlainIsUnbroken ==
  ASSUME NEW S, NL \in S, T \in S, NEW body \in Seq(S), body = HandleDataBody(body)
  PROVE  Unbroken(body)
<1> SUFFICES ASSUME NEW j \in Int, Breaks(body, j) PROVE FALSE
  BY DEF Unbroken
<1> DEFINE R == Pieces(body)
<1>1. body = FlattenSeq(R)
  BY DEF HandleDataBody, Pieces, Escape
<1>2. /\ R \in Seq(Seq(S)) /\ Len(R) = Len(body) /\ Len(R) \in Nat
      /\ \A i \in 1 .. Len(R) : R[i] = Escape(body, i)
  BY PiecesAre
<1> HIDE DEF R
<1> DEFINE Bad == {i \in 1 .. Len(R) : Breaks(body, i)}
<1>3. Bad # {} /\ Bad \subseteq Nat
  <2>1. j \in 1 .. Len(R)
    BY <1>2 DEF Breaks
  <2>2. Bad # {}
    BY <2>1
  <2>3. Bad \subseteq Nat
    BY <1>2
  <2> QED
    BY <2>2, <2>3
<1>4. PICK m \in Bad : \A i \in Bad : m <= i
  BY <1>3, Least
<1>5. m \in 1 .. Len(R) /\ m \in Nat /\ m + 1 <= Len(R) /\ body[m] = NL /\ body[m + 1] = T
  BY <1>2, <1>4 DEF Breaks
<1>6. R # <<>>
  BY <1>5
<1>7. PICK n \in 0 .. Len(R) : n = m - 1
  BY <1>2, <1>5
<1>8. Singles(R, body, n)
  <2> SUFFICES ASSUME NEW i \in 1 .. n PROVE Len(R[i]) = 1 /\ R[i][1] = body[i]
    BY DEF Singles
  <2>1. i \in 1 .. Len(R) /\ i < m /\ i \in Int
    BY <1>2, <1>5, <1>7
  <2>2. ~Breaks(body, i)
    BY <1>4, <1>5, <2>1
  <2>3. R[i] = <<body[i]>>
    BY <1>2, <2>1, <2>2, BreaksIs DEF Escape
  <2> QED
    BY <2>3
<1>9. EndOf(R, m - 1) = m - 1
  <2>1. \A k \in 0 .. n : EndOf(R, k) = k
    BY <1>2, <1>6, <1>8, SinglesEnd
  <2>2. n \in 0 .. n
    BY <1>2, <1>7
  <2> QED
    BY <1>7, <2>1, <2>2
<1>10. R[m] = <<NL, NL>>
  <2>1. OccursAt(<<NL, T>>, body, m)
    BY <1>4, <1>5, BreaksIs
  <2> QED
    BY <1>2, <1>5, <2>1 DEF Escape
<1>11. Kept(R, m, Len(R))
  <2>1. Len(R) \in m .. Len(R)
    BY <1>2, <1>5
  <2> QED
    BY <1>2, <1>5, <1>6, <2>1, PieceStays
<1>12. Joined(R)[Len(R)][m - 1 + 2] = NL
  <2>1. Len(R[m]) = 2 /\ R[m][2] = NL /\ 2 \in 1 .. 2
    BY <1>10
  <2> QED
    BY <1>9, <1>11, <2>1 DEF Kept
<1>13. m - 1 + 2 = m + 1
  BY <1>5
<1>14. body = Joined(R)[Len(R)]
  BY <1>1, <1>2, <1>6, JoinedIs
<1> QED
  BY <1>5, <1>12, <1>13, <1>14, Distinct

\* Reading leaves such a body alone.
LEMMA NothingToRemove ==
  ASSUME NEW S, Prefix \in S, NL \in S, T \in S, NEW body \in Seq(S), Unbroken(body)
  PROVE  RemoveNewlineAfter(body) = body
<1>1. Len(body) \in Nat /\ \A i \in 1 .. Len(body) : body[i] \in S
  BY LenProperties, ElementOfSeq
<1>2. ASSUME NEW i \in 1 .. Len(body) PROVE ~OccursAt(<<Prefix, NL, NL, T>>, body, i - 1)
  <2> SUFFICES ASSUME OccursAt(<<Prefix, NL, NL, T>>, body, i - 1) PROVE FALSE
    OBVIOUS
  <2>1. <<Prefix, NL, NL, T>> \in Seq(S)
    OBVIOUS
  <2>2. PICK t \in Seq(S) : t = <<Prefix, NL, NL, T>>
    BY <2>1
  <2>3. Len(t) = 4 /\ t[3] = NL /\ t[4] = T /\ t # <<>> /\ 3 \in 1 .. 4 /\ 4 \in 1 .. 4
    BY <2>2
  <2>4. i - 1 \in Int
    BY <1>1
  <2>5. PICK q \in Int : q = i - 1
    BY <2>4
  <2>6. q >= 1 /\ q - 1 + Len(t) <= Len(body) /\ \A k \in 1 .. Len(t) : body[q - 1 + k] = t[k]
    <3>1. OccursAt(t, body, q)
      BY <2>2, <2>5
    <3> QED
      BY <2>3, <3>1, OccursIs
  <2>7. body[q - 1 + 3] = NL /\ body[q - 1 + 4] = T
    BY <2>3, <2>6
  <2>8. q - 1 + 3 = q + 2 /\ q - 1 + 4 = (q + 2) + 1 /\ q + 2 \in Int /\ q + 2 >= 1 /\ (q + 2) + 1 <= Len(body)
    BY <1>1, <2>3, <2>6
  <2>9. Breaks(body, q + 2)
    BY <2>7, <2>8 DEF Breaks
  <2> QED
    BY <2>8, <2>9 DEF Unbroken
<1> DEFINE R == [i \in 1 .. Len(body) |->
                  IF OccursAt(<<Prefix, NL, NL, T>>, body, i - 1) THEN <<>> ELSE <<body[i]>>]
<1>3. RemoveNewlineAfter(body) = FlattenSeq(R)
  BY DEF RemoveNewlineAfter
<1>4. \A i \in 1 .. Len(body) : R[i] = <<body[i]>>
  BY <1>2
<1>5. R \in [1 .. Len(body) -> Seq(S)]
  BY <1>1
<1> HIDE DEF R
<1>6. R \in Seq(Seq(S))
  BY <1>1, <1>5, SeqDef
<1>7. Len(R) = Len(body)
  BY <1>1, <1>5, <1>6, LenProperties
<1>8. Singles(R, body, Len(body))
  <2> SUFFICES ASSUME NEW i \in 1 .. Len(body) PROVE Len(R[i]) = 1 /\ R[i][1] = body[i]
    BY DEF Singles
  <2>1. R[i] = <<body[i]>>
    BY <1>4
  <2> QED
    BY <2>1
<1> QED
  BY <1>3, <1>6, <1>7, <1>8, SinglesAre

\* What reading such a record returns.
ReadAs(data, x, y, body) ==
  UnMarshal(data) =
    IF x[3] # Len(body) THEN Error
    ELSE [kind |-> "packet", body |-> body, time |-> x[2], from |-> y[2], to |-> y[3]]

LEMMA UnMarshalIs ==
  ASSUME NEW data \in Seq(Symbols), NEW x, NEW y, y # NL, NEW body \in Seq(Symbols),
         Shaped(data, x, y, body), Unbroken(body)
  PROVE  ReadAs(data, x, y, body)
<1>1. Len(MagicHeader) = 3 /\ Len(data) \in Nat /\ Len(body) \in Nat /\ Len(data) = 6 + Len(body)
  BY LenProperties DEF MagicHeader, Shaped
<1>2. PICK fromTo : fromTo = Len(MagicHeader) + 2
  OBVIOUS
<1>3. fromTo = 5
  BY <1>1, <1>2
<1>4. PICK newlines : newlines = {i \in fromTo .. Len(data) : data[i] = NL}
  OBVIOUS
<1>5. PICK at : at = CHOOSE i \in newlines : \A j \in newlines : i <= j
  OBVIOUS
<1>6. at = 6 /\ newlines # {}
  <2>1. newlines \subseteq Nat /\ 6 \in newlines
    BY <1>1, <1>3, <1>4 DEF Shaped
  <2>2. \E m \in newlines : \A j \in newlines : m <= j
    BY <2>1, Least
  <2>3. at \in newlines /\ \A j \in newlines : at <= j
    BY <1>5, <2>2
  <2>4. at \in Nat /\ 5 <= at /\ at <= 6 /\ data[at] = NL
    BY <1>3, <1>4, <2>1, <2>3
  <2>5. at # 5
    BY <2>4 DEF Shaped
  <2> QED
    BY <2>1, <2>4, <2>5
<1>7. SubSeq(data, at + 1, Len(data)) = body
  <2>1. PICK n \in Nat : n = Len(data)
    BY <1>1
  <2>2. PICK c : c = SubSeq(data, 6 + 1, n)
    OBVIOUS
  <2>3. c \in Seq(Symbols) /\ Len(c) = n - 6 /\ \A i \in 1 .. n - 6 : c[i] = data[6 + i]
    BY <1>1, <2>1, <2>2, SubSeqIs
  <2>4. n - 6 = Len(body)
    BY <1>1, <2>1
  <2>5. \A i \in 1 .. Len(body) : c[i] = body[i]
    BY <2>3, <2>4 DEF Shaped
  <2>6. c = body
    BY <2>3, <2>4, <2>5, SeqEqual
  <2> QED
    BY <1>6, <2>1, <2>2, <2>6
<1>8. PICK after : after = RemoveNewlineAfter(SubSeq(data, at + 1, Len(data)))
  OBVIOUS
<1>9. after = body
  <2>1. Prefix \in Symbols /\ NL \in Symbols /\ T \in Symbols
    BY SymbolsAre
  <2>2. RemoveNewlineAfter(body) = body
    BY <2>1, NothingToRemove
  <2> QED
    BY <1>7, <1>8, <2>2
<1> DEFINE Parsed ==
      IF data[fromTo - 1][3] # Len(after) THEN Error
      ELSE [kind |-> "packet", body |-> after, time |-> data[fromTo - 1][2],
            from |-> data[fromTo][2], to |-> data[fromTo][3]]
<1>10. UnMarshal(data) =
        CASE ~IsPrefix(MagicHeader, data) \/ Len(data) < fromTo -> Error
          [] IsPrefix(MagicHeader, data) /\ Len(data) >= fromTo /\ newlines = {} -> Panic
          [] OTHER -> Parsed
  BY <1>2, <1>4, <1>5, <1>8 DEF UnMarshal
<1>11. IsPrefix(MagicHeader, data)
  <2>1. Prefix \in Symbols /\ NL \in Symbols /\ T \in Symbols
    BY SymbolsAre
  <2>2. <<Prefix, NL, T>> \in Seq(Symbols)
    BY <2>1
  <2>3. PICK s \in Seq(Symbols) : s = MagicHeader
    BY <2>2 DEF MagicHeader
  <2>4. Len(s) = 3 /\ s[1] = Prefix /\ s[2] = NL /\ s[3] = T
    BY <2>3 DEF MagicHeader
  <2>5. Len(s) <= Len(data)
    BY <1>1, <2>4
  <2>6. \A k \in 1 .. Len(s) : s[k] = data[k]
    <3>1. \A k \in 1 .. 3 : k = 1 \/ k = 2 \/ k = 3
      OBVIOUS
    <3> QED
      BY <2>4, <3>1 DEF Shaped
  <2> QED
    BY <2>3, <2>5, <2>6, PrefixIs
<1>12. ~(Len(data) < fromTo)
  BY <1>1, <1>3
<1>13. Parsed = IF x[3] # Len(body) THEN Error
           ELSE [kind |-> "packet", body |-> body, time |-> x[2], from |-> y[2], to |-> y[3]]
  <2>1. data[fromTo - 1] = x /\ data[fromTo] = y
    BY <1>3 DEF Shaped
  <2> QED
    BY <1>9, <2>1
<1> HIDE DEF Parsed
<1>14. UnMarshal(data) = Parsed
  BY <1>6, <1>10, <1>11, <1>12
<1> QED
  BY <1>13, <1>14 DEF ReadAs

\* What it returns, and what there must be for a packet.
LEMMA KindIs ==
  ASSUME NEW data \in Seq(Symbols)
  PROVE  /\ UnMarshal(data).kind \in {"error", "panic", "packet"}
         /\ UnMarshal(data).kind = "packet" => \E i \in 5 .. Len(data) : data[i] = NL
<1>1. Len(MagicHeader) = 3
  BY DEF MagicHeader
<1>2. PICK fromTo : fromTo = Len(MagicHeader) + 2
  OBVIOUS
<1>3. PICK newlines : newlines = {i \in fromTo .. Len(data) : data[i] = NL}
  OBVIOUS
<1>4. PICK at : at = CHOOSE i \in newlines : \A j \in newlines : i <= j
  OBVIOUS
<1>5. PICK after : after = RemoveNewlineAfter(SubSeq(data, at + 1, Len(data)))
  OBVIOUS
<1> DEFINE Parsed ==
      IF data[fromTo - 1][3] # Len(after) THEN Error
      ELSE [kind |-> "packet", body |-> after, time |-> data[fromTo - 1][2],
            from |-> data[fromTo][2], to |-> data[fromTo][3]]
<1>6. UnMarshal(data) =
        CASE ~IsPrefix(MagicHeader, data) \/ Len(data) < fromTo -> Error
          [] IsPrefix(MagicHeader, data) /\ Len(data) >= fromTo /\ newlines = {} -> Panic
          [] OTHER -> Parsed
  BY <1>2, <1>3, <1>4, <1>5 DEF UnMarshal
<1>7. Error.kind = "error" /\ Panic.kind = "panic"
  BY DEF Error, Panic
<1>8. Parsed.kind \in {"error", "packet"}
  BY <1>7
<1>9. newlines # {} => \E i \in 5 .. Len(data) : data[i] = NL
  BY <1>1, <1>2, <1>3
<1> HIDE DEF Parsed
<1>10. Len(data) < fromTo \/ Len(data) >= fromTo
  BY <1>1, <1>2, LenProperties
<1>11. UnMarshal(data) = Error \/ UnMarshal(data) = Panic \/ (UnMarshal(data) = Parsed /\ newlines # {})
  BY <1>6, <1>10
<1> QED
  BY <1>7, <1>8, <1>9, <1>11

\* A record that was cut short cannot be read: it ends before the body, or the body has
\* not the length that was written.
LEMMA CutIsNoPacket ==
  ASSUME NEW r \in Seq(Symbols), NEW x, NEW y, y # NL, NEW body \in Seq(Symbols),
         Shaped(r, x, y, body), Unbroken(body), x[3] = Len(body),
         NEW n \in Nat, n < Len(r)
  PROVE  UnMarshal(SubSeq(r, 1, n)).kind # "packet"
<1>1. Len(r) \in Nat /\ Len(body) \in Nat /\ Len(r) = 6 + Len(body)
  BY LenProperties DEF Shaped
<1>2. PICK data \in Seq(Symbols) :
        data = SubSeq(r, 1, n) /\ Len(data) = n - 0 /\ \A i \in 1 .. n - 0 : data[i] = r[0 + i]
  <2>1. 0 \in Nat /\ 0 <= n /\ n <= Len(r) /\ 0 + 1 = 1
    BY <1>1
  <2>2. PICK d : d = SubSeq(r, 0 + 1, n)
    OBVIOUS
  <2>3. d \in Seq(Symbols) /\ Len(d) = n - 0 /\ \A i \in 1 .. n - 0 : d[i] = r[0 + i]
    BY <2>1, <2>2, SubSeqIs
  <2> QED
    BY <2>1, <2>2, <2>3
<1>3. Len(data) = n /\ \A i \in 1 .. n : data[i] = r[i]
  BY <1>2
<1>4. CASE n < 6
  <2>1. \A i \in 5 .. Len(data) : data[i] # NL
    <3> SUFFICES ASSUME NEW i \in 5 .. n PROVE data[i] # NL
      BY <1>3
    <3>1. i = 5 /\ i \in 1 .. n
      BY <1>4
    <3> QED
      BY <1>3, <3>1 DEF Shaped
  <2> QED
    BY <1>2, <2>1, KindIs
<1>5. CASE n >= 6
  <2>1. PICK m \in Nat : m = n - 6
    BY <1>5
  <2>2. m < Len(body) /\ n = 6 + m
    BY <1>1, <2>1
  <2>3. PICK c \in Seq(Symbols) : Len(c) = m - 0 /\ \A i \in 1 .. m - 0 : c[i] = body[0 + i]
    <3>1. 0 \in Nat /\ 0 <= m /\ m <= Len(body)
      BY <1>1, <2>2
    <3>2. PICK c : c = SubSeq(body, 0 + 1, m)
      OBVIOUS
    <3>3. c \in Seq(Symbols) /\ Len(c) = m - 0 /\ \A i \in 1 .. m - 0 : c[i] = body[0 + i]
      BY <3>1, <3>2, SubSeqIs
    <3> QED
      BY <3>3
  <2>4. Len(c) = m /\ \A i \in 1 .. m : c[i] = body[i]
    BY <2>3
  <2>5. Unbroken(c)
    <3> SUFFICES ASSUME NEW i \in Int, Breaks(c, i) PROVE FALSE
      BY DEF Unbroken
    <3>1. i >= 1 /\ i + 1 <= m /\ c[i] = NL /\ c[i + 1] = T
      BY <2>4 DEF Breaks
    <3>2. i \in 1 .. m /\ i + 1 \in 1 .. m /\ i + 1 <= Len(body)
      BY <1>1, <2>2, <3>1
    <3>3. body[i] = NL /\ body[i + 1] = T
      BY <2>4, <3>1, <3>2
    <3> QED
      BY <3>1, <3>2, <3>3 DEF Breaks, Unbroken
  <2>6. Shaped(data, x, y, c)
    <3>1. \A i \in 1 .. m : data[6 + i] = c[i]
      <4> SUFFICES ASSUME NEW i \in 1 .. m PROVE data[6 + i] = c[i]
        OBVIOUS
      <4>1. 6 + i \in 1 .. n /\ i \in 1 .. Len(body)
        BY <1>1, <2>2
      <4>2. r[6 + i] = body[i]
        BY <4>1 DEF Shaped
      <4> QED
        BY <1>3, <2>4, <4>1, <4>2
    <3>2. data[1] = r[1] /\ data[2] = r[2] /\ data[3] = r[3] /\ data[4] = r[4] /\ data[5] = r[5] /\ data[6] = r[6]
      BY <1>3, <1>5
    <3> QED
      BY <1>3, <2>2, <2>4, <3>1, <3>2 DEF Shaped
  <2>7. ReadAs(data, x, y, c)
    BY <2>5, <2>6, UnMarshalIs
  <2>8. UnMarshal(data) = Error
    BY <2>2, <2>4, <2>7 DEF ReadAs
  <2> QED
    BY <1>2, <2>8 DEF Error
<1> QED
  BY <1>1, <1>4, <1>5

\* A packet without "\nt" in its body is read back as it was written, time and addresses
\* and all; and no proper beginning of its record is read as a packet, however little of
\* it is missing.
THEOREM ReadingInvertsWriting ==
  ASSUME NEW p \in Packets, NEW time \in Stamps, Plain(p)
  PROVE  /\ UnMarshal(Marshal(p, time)) =
              [kind |-> "packet", body |-> p.body, time |-> time, from |-> p.from, to |-> p.to]
         /\ \A n \in Nat : n < Len(Marshal(p, time)) =>
              UnMarshal(SubSeq(Marshal(p, time), 1, n)).kind # "packet"
<1>1. PICK r \in Seq(Symbols) : r = Marshal(p, time)
  BY ShapeIs
<1>2. PICK body \in Seq(Symbols) :
        body = HandleDataBody(p.body) /\ Shaped(r, Fixed(time, Len(body)), FromTo(p.from, p.to), body)
  BY <1>1, ShapeIs
<1>3. p.body = body
  BY <1>2 DEF Plain
<1>4. Unbroken(body)
  <2>1. NL \in Symbols /\ T \in Symbols /\ body = HandleDataBody(body)
    BY <1>2, <1>3, SymbolsAre
  <2> QED
    BY <2>1, PlainIsUnbroken
<1>5. PICK x, y : x = Fixed(time, Len(body)) /\ y = FromTo(p.from, p.to)
  OBVIOUS
<1>6. y # NL /\ x[2] = time /\ x[3] = Len(body) /\ y[2] = p.from /\ y[3] = p.to
  <2>1. y # NL
    BY <1>5, Distinct
  <2> QED
    BY <1>5, <2>1 DEF Fixed, FromTo
<1>7. Shaped(r, x, y, body)
  BY <1>2, <1>5
<1>8. ReadAs(r, x, y, body)
  BY <1>4, <1>6, <1>7, UnMarshalIs
<1>9. UnMarshal(r) = [kind |-> "packet", body |-> body, time |-> x[2], from |-> y[2], to |-> y[3]]
  BY <1>6, <1>8 DEF ReadAs
<1>10. ASSUME NEW n \in Nat, n < Len(r) PROVE UnMarshal(SubSeq(r, 1, n)).kind # "packet"
  BY <1>4, <1>6, <1>7, <1>10, CutIsNoPacket
<1> QED
  BY <1>1, <1>3, <1>6, <1>9, <1>10

\* What a record that is handed over means.
Means(packet_, k) ==
  /\ packet_.kind = "packet" <=> Whole(k)
  /\ Whole(k) => /\ packet_.body = packets[k].body
                 /\ packet_.from = packets[k].from /\ packet_.to = packets[k].to

LEMMA RecordMeans ==
  ASSUME Recorded, AllPlain, NEW k \in 1 .. Len(packets)
  PROVE  Means(UnMarshal(Record(k)), k)
<1>1. packets[k] \in Packets /\ TimeOf[k] \in Stamps /\ Plain(packets[k])
  BY RecordIs, ElementOfSeq DEF Recorded, AllPlain
<1>2. PICK p \in Packets : p = packets[k]
  BY <1>1
<1>3. PICK time \in Stamps : time = TimeOf[k]
  BY <1>1
<1>4. PICK r \in Seq(Symbols) : r = Marshal(p, time)
  BY ShapeIs
<1>5. Plain(p)
  BY <1>1, <1>2
<1>6. CASE Whole(k)
  <2>1. Record(k) = r
    BY <1>2, <1>3, <1>4, <1>6 DEF Record, Whole
  <2>2. UnMarshal(r) = [kind |-> "packet", body |-> p.body, time |-> time, from |-> p.from, to |-> p.to]
    BY <1>4, <1>5, ReadingInvertsWriting
  <2> QED
    BY <1>2, <1>6, <2>1, <2>2 DEF Means
<1>7. CASE ~Whole(k)
  <2>1. k = cut /\ cut # 0
    BY <1>7 DEF Whole
  <2>2. kept \in 1 .. Len(r) - 1
    BY <1>2, <1>3, <1>4, <2>1 DEF Recorded
  <2>3. Len(r) \in Nat
    BY LenProperties
  <2>4. PICK n \in Nat : n = kept /\ n < Len(r)
    BY <2>2, <2>3
  <2>5. Record(k) = SubSeq(r, 1, n)
    BY <1>2, <1>3, <1>4, <2>1, <2>4 DEF Record
  <2>6. UnMarshal(SubSeq(r, 1, n)).kind # "packet"
    BY <1>4, <1>5, <2>4, ReadingInvertsWriting
  <2> QED
    BY <1>7, <2>5, <2>6 DEF Means
<1> QED
  BY <1>6, <1>7

-----------------------------------------------------------------------------
(* What went to a destination.                                             *)

\* The bodies of those packets of P that are in I, as far as the first d packets.
Picks(P, I)   == [i \in 1 .. Len(P) |-> IF i \in I THEN <<P[i].body>> ELSE <<>>]
UpTo(P, I, d) == IF d = 0 THEN <<>> ELSE Joined(Picks(P, I))[d]

LEMMA PicksAre ==
  ASSUME NEW P \in Seq(Packets), NEW I
  PROVE  /\ Len(P) \in Nat /\ Picks(P, I) \in Seq(Seq(Seq(Symbols))) /\ Len(Picks(P, I)) = Len(P)
         /\ \A d \in 1 .. Len(P) :
              /\ P[d].body \in Seq(Symbols)
              /\ Picks(P, I)[d] = IF d \in I THEN <<P[d].body>> ELSE <<>>
<1>1. Len(P) \in Nat /\ \A d \in 1 .. Len(P) : P[d] \in Packets
  BY LenProperties, ElementOfSeq
<1>2. \A d \in 1 .. Len(P) : P[d].body \in Seq(Symbols)
  BY <1>1, SymbolsAre
<1>3. \A d \in 1 .. Len(P) : Picks(P, I)[d] = IF d \in I THEN <<P[d].body>> ELSE <<>>
  BY DEF Picks
<1>4. Picks(P, I) \in [1 .. Len(P) -> Seq(Seq(Symbols))]
  <2>1. PICK B : B = Seq(Symbols)
    OBVIOUS
  <2>2. \A d \in 1 .. Len(P) : (IF d \in I THEN <<P[d].body>> ELSE <<>>) \in Seq(B)
    BY <1>2, <2>1
  <2>3. Picks(P, I) \in [1 .. Len(P) -> Seq(B)]
    BY <2>2 DEF Picks
  <2> QED
    BY <2>1, <2>3
<1>5. Picks(P, I) \in Seq(Seq(Seq(Symbols)))
  BY <1>1, <1>4, SeqDef
<1>6. Len(Picks(P, I)) = Len(P)
  BY <1>1, <1>4, <1>5, LenProperties
<1> QED
  BY <1>1, <1>2, <1>3, <1>5, <1>6

\* The next packet is put behind the others, or left out.
LEMMA UpToIs ==
  ASSUME NEW P \in Seq(Packets), NEW I, NEW d \in 1 .. Len(P)
  PROVE  /\ UpTo(P, I, d - 1) \in Seq(Seq(Symbols)) /\ P[d].body \in Seq(Symbols)
         /\ d \in I => UpTo(P, I, d) = Append(UpTo(P, I, d - 1), P[d].body)
         /\ d \notin I => UpTo(P, I, d) = UpTo(P, I, d - 1)
<1>1. PICK S : S = Seq(Symbols)
  OBVIOUS
<1>2. PICK R : R = Picks(P, I)
  OBVIOUS
<1>3. /\ R \in Seq(Seq(S)) /\ Len(R) = Len(P) /\ Len(R) \in Nat /\ P[d].body \in S
      /\ R[d] = IF d \in I THEN <<P[d].body>> ELSE <<>>
  BY <1>1, <1>2, PicksAre
<1>4. R # <<>> /\ d \in 1 .. Len(R) /\ d # 0
  BY <1>3
<1>5. UpTo(P, I, d) = Joined(R)[d]
  BY <1>2, <1>4 DEF UpTo
<1>6. Joined(R)[d] = IF d = 1 THEN R[d] ELSE Joined(R)[d - 1] \o R[d]
  BY <1>3, <1>4, JoinedIs
<1>7. PICK u \in Seq(S) : u = UpTo(P, I, d - 1) /\ Joined(R)[d] = u \o R[d]
  <2>1. CASE d = 1
    <3>1. R[d] \in Seq(S)
      BY <1>3, <1>4, ElementOfSeq
    <3>2. <<>> \o R[d] = R[d] /\ <<>> \in Seq(S)
      BY <3>1, ConcatEmptySeq
    <3>3. UpTo(P, I, d - 1) = <<>>
      BY <2>1 DEF UpTo
    <3> QED
      BY <1>6, <2>1, <3>2, <3>3
  <2>2. CASE d # 1
    <3>1. d - 1 \in 1 .. Len(R) /\ d - 1 # 0
      BY <1>3, <1>4, <2>2
    <3>2. UpTo(P, I, d - 1) = Joined(R)[d - 1]
      BY <1>2, <3>1 DEF UpTo
    <3>3. Joined(R)[d - 1] \in Seq(S)
      BY <1>3, <1>4, <3>1, JoinedTypes
    <3> QED
      BY <1>6, <2>2, <3>2, <3>3
  <2> QED
    BY <2>1, <2>2
<1>8. PICK x \in S : x = P[d].body
  BY <1>3
<1>9. d \in I => UpTo(P, I, d) = Append(u, x)
  BY <1>3, <1>5, <1>7, <1>8, AppendIsConcat
<1>10. d \notin I => UpTo(P, I, d) = u
  BY <1>3, <1>5, <1>7, ConcatEmptySeq
<1> QED
  BY <1>1, <1>7, <1>8, <1>9, <1>10

LEMMA UpToAll ==
  ASSUME NEW P \in Seq(Packets), NEW I
  PROVE  UpTo(P, I, Len(P)) = FlattenSeq(Picks(P, I))
<1>1. PICK S : S = Seq(Symbols)
  OBVIOUS
<1>2. PICK R : R = Picks(P, I)
  OBVIOUS
<1>3. R \in Seq(Seq(S)) /\ Len(R) = Len(P) /\ Len(R) \in Nat
  BY <1>1, <1>2, PicksAre
<1>4. CASE R = <<>>
  <2>1. Len(P) = 0
    BY <1>3, <1>4
  <2>2. FlattenSeq(R) = <<>>
    BY <1>4 DEF FlattenSeq
  <2> QED
    BY <1>2, <2>1, <2>2 DEF UpTo
<1>5. CASE R # <<>>
  <2>1. FlattenSeq(R) = Joined(R)[Len(R)] /\ Len(R) # 0
    BY <1>3, <1>5, JoinedIs
  <2> QED
    BY <1>2, <1>3, <2>1 DEF UpTo
<1> QED
  BY <1>4, <1>5

LEMMA UpToTypes ==
  ASSUME NEW P \in Seq(Packets), NEW I, NEW d \in 0 .. Len(P)
  PROVE  UpTo(P, I, d) \in Seq(Seq(Symbols))
<1>1. CASE d = 0
  BY <1>1 DEF UpTo
<1>2. CASE d # 0
  <2>1. d \in 1 .. Len(P)
    BY <1>2
  <2>2. PICK S : S = Seq(Symbols)
    OBVIOUS
  <2>3. PICK u \in Seq(S), x \in S : u = UpTo(P, I, d - 1) /\ x = P[d].body
    BY <2>1, <2>2, UpToIs
  <2>4. Append(u, x) \in Seq(S)
    BY AppendProperties
  <2>5. UpTo(P, I, d) = Append(u, x) \/ UpTo(P, I, d) = u
    BY <2>1, <2>3, UpToIs
  <2> QED
    BY <2>2, <2>4, <2>5
<1> QED
  BY <1>1, <1>2

\* t goes on where s ends.
Continues(s, t) == Len(s) <= Len(t) /\ \A i \in 1 .. Len(s) : t[i] = s[i]

LEMMA UpToContinues ==
  ASSUME NEW P \in Seq(Packets), NEW I, NEW d \in 0 .. Len(P)
  PROVE  \A n \in d .. Len(P) : Continues(UpTo(P, I, d), UpTo(P, I, n))
<1> DEFINE Bad == {n \in d .. Len(P) : ~Continues(UpTo(P, I, d), UpTo(P, I, n))}
<1> SUFFICES ASSUME Bad # {} PROVE FALSE
  OBVIOUS
<1>1. Len(P) \in Nat /\ d \in Nat
  BY LenProperties
<1>2. PICK m \in Bad : \A n \in Bad : m <= n
  <2>1. Bad \subseteq Nat
    BY <1>1
  <2> QED
    BY <2>1, Least
<1>3. m \in d .. Len(P) /\ m \in Nat /\ ~Continues(UpTo(P, I, d), UpTo(P, I, m))
  BY <1>1
<1>4. PICK S : S = Seq(Symbols)
  OBVIOUS
<1>5. PICK s \in Seq(S) : s = UpTo(P, I, d)
  BY <1>4, UpToTypes
<1>6. Len(s) \in Nat
  BY LenProperties
<1>7. m # d
  <2>1. Continues(s, s)
    BY <1>6 DEF Continues
  <2> QED
    BY <1>3, <1>5, <2>1
<1>8. m \in 1 .. Len(P) /\ m - 1 \in d .. Len(P) /\ m - 1 < m
  BY <1>1, <1>3, <1>7
<1>9. m - 1 \notin Bad
  BY <1>2, <1>3, <1>8
<1>10. PICK u \in Seq(S), x \in S : u = UpTo(P, I, m - 1) /\ x = P[m].body
  BY <1>4, <1>8, UpToIs
<1>11. Continues(s, u)
  BY <1>5, <1>8, <1>9, <1>10
<1>12. Continues(s, Append(u, x))
  <2>1. Len(u) \in Nat /\ Len(Append(u, x)) = Len(u) + 1 /\ \A i \in 1 .. Len(u) : Append(u, x)[i] = u[i]
    BY LenProperties, AppendProperties
  <2>2. \A i \in 1 .. Len(s) : i \in 1 .. Len(u)
    BY <1>6, <1>11, <2>1 DEF Continues
  <2> QED
    BY <1>6, <1>11, <2>1, <2>2 DEF Continues
<1>13. UpTo(P, I, m) = Append(u, x) \/ UpTo(P, I, m) = u
  BY <1>8, <1>10, UpToIs
<1> QED
  BY <1>3, <1>5, <1>11, <1>12, <1>13

\* A selection of t is one of what continues t, and stays one when both get the same.
Selects(f, s, t) ==
  /\ f \in [1 .. Len(s) -> 1 .. Len(t)]
  /\ \A i \in 1 .. Len(s) : s[i] = t[f[i]]
  /\ \A i, j \in 1 .. Len(s) : i < j => f[i] < f[j]

LEMMA PartOfIs == \A s, t : PartOf(s, t) <=> \E f : Selects(f, s, t)
BY DEF PartOf, Selects

LEMMA PartOfContinues ==
  ASSUME NEW S, NEW s \in Seq(S), NEW t \in Seq(S), NEW u \in Seq(S), PartOf(s, t), Continues(t, u)
  PROVE  PartOf(s, u)
<1>1. PICK f : Selects(f, s, t)
  BY PartOfIs
<1>2. Len(t) \in Nat /\ Len(u) \in Nat /\ Len(s) \in Nat
  BY LenProperties
<1>3. \A i \in 1 .. Len(s) : f[i] \in 1 .. Len(t)
  BY <1>1 DEF Selects
<1>4. 1 .. Len(t) \subseteq 1 .. Len(u)
  BY <1>2 DEF Continues
<1>5. f \in [1 .. Len(s) -> 1 .. Len(u)]
  BY <1>1, <1>4 DEF Selects
<1>6. \A i \in 1 .. Len(s) : s[i] = u[f[i]]
  BY <1>1, <1>3 DEF Selects, Continues
<1>7. Selects(f, s, u)
  BY <1>1, <1>5, <1>6 DEF Selects
<1> QED
  BY <1>7, PartOfIs

LEMMA PartOfNext ==
  ASSUME NEW S, NEW s \in Seq(S), NEW t \in Seq(S), NEW x \in S, PartOf(s, t)
  PROVE  PartOf(Append(s, x), Append(t, x))
<1>1. PICK f : Selects(f, s, t)
  BY PartOfIs
<1>2. PICK l \in Nat, m \in Nat : l = Len(s) /\ m = Len(t)
  BY LenProperties
<1>3. PICK a, b : a = Append(s, x) /\ b = Append(t, x)
  OBVIOUS
<1>4. Len(a) = l + 1 /\ a[l + 1] = x /\ \A i \in 1 .. l : a[i] = s[i]
  BY <1>2, <1>3, AppendProperties
<1>5. Len(b) = m + 1 /\ b[m + 1] = x /\ \A i \in 1 .. m : b[i] = t[i]
  BY <1>2, <1>3, AppendProperties
<1>6. /\ \A i \in 1 .. l : f[i] \in 1 .. m /\ s[i] = t[f[i]]
      /\ \A i, j \in 1 .. l : i < j => f[i] < f[j]
  BY <1>1, <1>2 DEF Selects
<1> DEFINE g == [i \in 1 .. l + 1 |-> IF i = l + 1 THEN m + 1 ELSE f[i]]
<1>7. \A i \in 1 .. l + 1 : i # l + 1 => i \in 1 .. l
  BY <1>2
<1>8. g \in [1 .. l + 1 -> 1 .. m + 1]
  <2> SUFFICES ASSUME NEW i \in 1 .. l + 1 PROVE (IF i = l + 1 THEN m + 1 ELSE f[i]) \in 1 .. m + 1
    OBVIOUS
  <2>1. 1 .. m \subseteq 1 .. m + 1 /\ m + 1 \in 1 .. m + 1
    BY <1>2
  <2> QED
    BY <1>6, <1>7, <2>1
<1>9. \A i \in 1 .. l + 1 : g[i] = IF i = l + 1 THEN m + 1 ELSE f[i]
  OBVIOUS
<1> HIDE DEF g
<1>10. l + 1 \in 1 .. l + 1 /\ g[l + 1] = m + 1
  <2>1. l + 1 \in 1 .. l + 1
    BY <1>2
  <2> QED
    BY <1>9, <2>1
<1>11. ASSUME NEW i \in 1 .. l PROVE g[i] = f[i]
  <2>1. i \in 1 .. l + 1 /\ i # l + 1
    BY <1>2
  <2> QED
    BY <1>9, <2>1
<1>12. ASSUME NEW i \in 1 .. l + 1 PROVE a[i] = b[g[i]]
  <2>1. CASE i = l + 1
    BY <1>4, <1>5, <1>10, <2>1
  <2>2. CASE i # l + 1
    <3>1. i \in 1 .. l
      BY <1>7, <2>2
    <3>2. g[i] = f[i] /\ f[i] \in 1 .. m /\ s[i] = t[f[i]]
      BY <1>6, <1>11, <3>1
    <3> QED
      BY <1>4, <1>5, <3>1, <3>2
  <2> QED
    BY <2>1, <2>2
<1>13. ASSUME NEW i \in 1 .. l + 1, NEW j \in 1 .. l + 1, i < j PROVE g[i] < g[j]
  <2>1. i \in 1 .. l
    BY <1>2, <1>13
  <2>2. g[i] = f[i] /\ f[i] \in 1 .. m
    BY <1>6, <1>11, <2>1
  <2>3. CASE j = l + 1
    BY <1>2, <1>10, <2>2, <2>3
  <2>4. CASE j # l + 1
    <3>1. j \in 1 .. l
      BY <1>7, <2>4
    <3> QED
      BY <1>6, <1>11, <1>13, <2>1, <2>2, <3>1
  <2> QED
    BY <2>3, <2>4
<1>14. Selects(g, a, b)
  BY <1>4, <1>5, <1>8, <1>12, <1>13 DEF Selects
<1> QED
  BY <1>3, <1>14, PartOfIs

\* What a connection got, one packet later.
LEMMA PartOfUpTo ==
  ASSUME NEW P \in Seq(Packets), NEW I, NEW d \in 1 .. Len(P), NEW s \in Seq(Seq(Symbols)),
         PartOf(s, UpTo(P, I, d - 1))
  PROVE  /\ PartOf(s, UpTo(P, I, d))
         /\ d \in I => PartOf(Append(s, P[d].body), UpTo(P, I, d))
<1>1. PICK S : S = Seq(Symbols)
  OBVIOUS
<1>2. PICK u \in Seq(S), x \in S : u = UpTo(P, I, d - 1) /\ x = P[d].body
  BY <1>1, UpToIs
<1>3. PICK q \in Seq(S) : q = s
  BY <1>1
<1>4. Len(P) \in Nat /\ d - 1 \in 0 .. Len(P) /\ d \in d - 1 .. Len(P) /\ d \in 0 .. Len(P)
  BY LenProperties
<1>5. PICK v \in Seq(S) : v = UpTo(P, I, d)
  BY <1>1, <1>4, UpToTypes
<1>6. Continues(u, v)
  BY <1>2, <1>4, <1>5, UpToContinues
<1>7. PartOf(q, v)
  BY <1>2, <1>3, <1>6, PartOfContinues
<1>8. ASSUME d \in I PROVE PartOf(Append(q, x), v)
  <2>1. v = Append(u, x)
    BY <1>2, <1>5, <1>8, UpToIs
  <2>2. PartOf(Append(q, x), Append(u, x))
    BY <1>2, <1>3, PartOfNext
  <2> QED
    BY <2>1, <2>2
<1> QED
  BY <1>2, <1>3, <1>5, <1>7, <1>8

\* To and From, and what went to a destination, as far as the first d packets.
ToOf(P, c, t)       == {i \in 1 .. Len(P) : i # c /\ P[i].to = t}
FromOf(P, f)        == {i \in 1 .. Len(P) : P[i].from = f}
Got(P, c, t, d)        == UpTo(P, ToOf(P, c, t), d)
GotFrom(P, c, f, t, d) == UpTo(P, FromOf(P, f) \cap ToOf(P, c, t), d)

LEMMA GotIs ==
  ASSUME NEW P \in Seq(Packets), NEW c, NEW t, NEW k \in 1 .. Len(P)
  PROVE  /\ Len(Got(P, c, t, k - 1)) \in Nat
         /\ k # c /\ P[k].to = t => /\ Got(P, c, t, k) = Append(Got(P, c, t, k - 1), P[k].body)
                                    /\ Len(Got(P, c, t, k)) = Len(Got(P, c, t, k - 1)) + 1
         /\ k = c \/ P[k].to # t => Got(P, c, t, k) = Got(P, c, t, k - 1)
<1>1. PICK I : I = ToOf(P, c, t)
  OBVIOUS
<1>2. k \in I <=> k # c /\ P[k].to = t
  BY <1>1 DEF ToOf
<1>3. PICK S : S = Seq(Symbols)
  OBVIOUS
<1>4. PICK u \in Seq(S), x \in S : u = UpTo(P, I, k - 1) /\ x = P[k].body
  BY <1>3, UpToIs
<1>5. Len(u) \in Nat /\ Len(Append(u, x)) = Len(u) + 1
  BY LenProperties, AppendProperties
<1>6. /\ k \in I => UpTo(P, I, k) = Append(u, x)
      /\ k \notin I => UpTo(P, I, k) = u
  BY <1>4, UpToIs
<1>7. Got(P, c, t, k) = UpTo(P, I, k) /\ Got(P, c, t, k - 1) = u
  BY <1>1, <1>4 DEF Got
<1> QED
  BY <1>2, <1>4, <1>5, <1>6, <1>7

LEMMA BodiesAre ==
  ASSUME Recorded
  PROVE  /\ \A t : BodiesTo(t) = Got(packets, cut, t, Len(packets))
         /\ \A f, t : BodiesFromTo(f, t) = GotFrom(packets, cut, f, t, Len(packets))
<1>1. packets \in Seq(Packets)
  BY DEF Recorded
<1>2. \A I : UpTo(packets, I, Len(packets)) = FlattenSeq(Chosen(I))
  <2> SUFFICES ASSUME NEW I PROVE UpTo(packets, I, Len(packets)) = FlattenSeq(Chosen(I))
    OBVIOUS
  <2>1. Chosen(I) = Picks(packets, I)
    BY DEF Chosen, Picks
  <2> QED
    BY <1>1, <2>1, UpToAll
<1>3. \A t : To(t) = ToOf(packets, cut, t)
  BY DEF To, ToOf, Whole
<1>4. \A f : From(f) = FromOf(packets, f)
  BY DEF From, FromOf
<1> QED
  BY <1>2, <1>3, <1>4 DEF BodiesTo, BodiesFromTo, Got, GotFrom

LEMMA GotIsPrefix ==
  ASSUME NEW P \in Seq(Packets), NEW c, NEW t, NEW d \in 0 .. Len(P)
  PROVE  IsPrefix(Got(P, c, t, d), Got(P, c, t, Len(P)))
<1>1. PICK I : I = ToOf(P, c, t)
  OBVIOUS
<1>2. Len(P) \in Nat /\ Len(P) \in d .. Len(P) /\ Len(P) \in 0 .. Len(P)
  BY LenProperties
<1>3. PICK S : S = Seq(Symbols)
  OBVIOUS
<1>4. PICK s \in Seq(S), u \in Seq(S) : s = UpTo(P, I, d) /\ u = UpTo(P, I, Len(P))
  BY <1>2, <1>3, UpToTypes
<1>5. Continues(s, u)
  BY <1>2, <1>4, UpToContinues
<1>6. IsPrefix(s, u)
  BY <1>5, PrefixIs DEF Continues
<1> QED
  BY <1>1, <1>4, <1>6 DEF Got

\* At the end of the file, what begins with a header is a record.
LEMMA SplitFinds ==
  ASSUME NEW b \in Seq(Symbols), NEW j \in Int, HeaderAt(b, j)
  PROVE  Split(b, TRUE).token # <<>>
<1>1. Len(b) \in Nat
  BY LenProperties
<1>2. PICK starts : starts = Delims(b)
  OBVIOUS
<1>3. starts \subseteq Nat /\ j \in starts /\ \A i \in starts : i >= 1 /\ i + 2 <= Len(b)
  BY <1>2, DelimsAre DEF HeaderAt
<1>4. PICK first \in starts : first = Min(starts) /\ \A i \in starts : first <= i
  BY <1>3, MinIs
<1>5. PICK later : later = starts \ {first}
  OBVIOUS
<1>6. PICK end : end = IF later = {} THEN Len(b) ELSE Min(later) - 1
  OBVIOUS
<1>7. end \in Nat /\ first <= end /\ end <= Len(b) /\ first \in Nat /\ first >= 1
  <2>1. CASE later = {}
    BY <1>1, <1>3, <1>4, <1>6, <2>1
  <2>2. CASE later # {}
    <3>1. PICK l \in later : l = Min(later)
      BY <1>3, <1>5, <2>2, MinIs
    <3>2. l \in Nat /\ first \in Nat /\ first <= l /\ l # first /\ l + 2 <= Len(b) /\ first >= 1
      BY <1>3, <1>4, <1>5
    <3>3. end = l - 1
      BY <1>6, <2>2, <3>1
    <3> QED
      BY <1>1, <3>2, <3>3
  <2> QED
    BY <2>1, <2>2
<1>8. Split(b, TRUE).token = SubSeq(b, first, end)
  <2>1. starts # {}
    BY <1>3
  <2> QED
    BY <1>2, <1>4, <1>5, <1>6, <2>1 DEF Split
<1>9. PICK m \in Nat : m = first - 1
  BY <1>7
<1>10. first = m + 1 /\ m <= end
  BY <1>7, <1>9
<1>11. PICK c : c = SubSeq(b, m + 1, end)
  OBVIOUS
<1>12. c \in Seq(Symbols) /\ Len(c) = end - m
  BY <1>7, <1>10, <1>11, SubSeqIs
<1>13. Len(c) # 0
  BY <1>7, <1>9, <1>12
<1> QED
  BY <1>8, <1>10, <1>11, <1>12, <1>13, EmptySeq

\* When there is nothing more, all records have been handed over.
LEMMA AllHandedOver ==
  ASSUME Recorded, Window, Framed, ~CutInMagic, Ended
  PROVE  Len(tokens) = Len(packets)
<1>1. /\ Records \in Seq(Seq(Symbols)) /\ Len(Records) = Len(packets) /\ Len(packets) \in Nat
      /\ file \in Seq(Symbols) /\ Laid(file, Records, Ruler(Records))
  BY FileIsLaid
<1>2. PICK d \in Nat : d = Len(tokens)
  BY LenProperties DEF Framed
<1>3. d <= Len(packets) /\ position - Len(buffer) = Ruler(Records)[d]
  BY <1>1, <1>2 DEF Framed
<1> SUFFICES ASSUME d < Len(packets) PROVE FALSE
  BY <1>1, <1>2, <1>3
<1>4. PICK e : e = Ruler(Records)
  OBVIOUS
<1>5. PICK base \in Nat : e = Ruler(Records) /\ base = position - Len(buffer) /\ base = e[d]
  BY <1>3, <1>4 DEF Window
<1>6. atEOF = TRUE /\ Split(buffer, atEOF).token = <<>>
  BY DEF Ended, Window
<1>7. /\ buffer \in Seq(Symbols) /\ position \in Nat /\ Part(file, buffer, base, position)
      /\ position = Len(file)
  BY <1>5, <1>6 DEF Window
<1>8. Long(Records)
  BY RecordsAreLong
<1>9. d \in 0 .. Len(Records) /\ Len(Records) \in 0 .. Len(Records) /\ d < Len(Records) /\ d + 1 \in 1 .. Len(Records)
  BY <1>1
<1>10. e[d] + 3 <= e[Len(Records)] /\ e[Len(Records)] \in Nat
  BY <1>1, <1>5, <1>8, <1>9, RulerGrows
<1>11. e[Len(Records)] = Len(file)
  BY <1>1, <1>5 DEF Laid
<1>12. Len(buffer) \in Nat /\ base + Len(buffer) = position
  BY <1>7, LenProperties DEF Part
<1>13. 1 + 2 <= Len(buffer)
  BY <1>5, <1>7, <1>10, <1>11, <1>12
<1>14. HeaderAt(file, base + 1)
  <2>1. Len(Records[d + 1]) >= 3 /\ (d + 1) - 1 = d
    BY <1>8, <1>9 DEF Long
  <2>2. base + 1 = e[(d + 1) - 1] + 1 /\ base + 1 \in Int
    BY <1>5, <2>1
  <2> QED
    BY <1>1, <1>5, <1>9, <2>1, <2>2 DEF Laid
<1>15. HeaderAt(buffer, 1)
  BY <1>1, <1>7, <1>13, <1>14, HeadersInPart
<1>16. PICK b \in Seq(Symbols) : b = buffer
  BY <1>7
<1>17. Split(b, TRUE).token # <<>>
  <2>1. 1 \in Int
    OBVIOUS
  <2> QED
    BY <1>15, <1>16, <2>1, SplitFinds
<1> QED
  BY <1>6, <1>16, <1>17

-----------------------------------------------------------------------------
(* What is sent.                                                           *)

\* How many of the records handed over have been dealt with.
dealt == IF packet = Nothing THEN Len(tokens) ELSE Len(tokens) - 1

\* What is being dealt with is the last of them.
Met ==
  \/ packet = Nothing
  \/ Len(tokens) >= 1 /\ packet = UnMarshal(tokens[Len(tokens)])

Passing ==
  /\ pass \in {"detect", "replay", "single", "done", "panic"}
  /\ pass # "done" => result = "none"
  /\ pass \in {"done", "panic"} => packet = Nothing
  /\ counts \in [Targets -> Nat] /\ sent \in [Sides -> Seq(Seq(Symbols))]

Popular ==
  \A t \in Targets :
    Len(Got(packets, cut, t, Len(packets))) <= Len(Got(packets, cut, recordedTo, Len(packets)))

Detecting ==
  pass = "detect" =>
    /\ recordedTo = NoTarget /\ sent["target"] = <<>>
    /\ \A t \in Targets : counts[t] = Len(Got(packets, cut, t, dealt))

Replaying ==
  pass = "replay" => Popular /\ sent["target"] = Got(packets, cut, recordedTo, dealt)

Singly ==
  pass = "single" =>
    /\ recordedTo \in Targets /\ counts[recordedTo] = 0
    /\ \A side \in Sides : PartOf(sent[side], GotFrom(packets, cut, Origin(side), recordedTo, dealt))

Over ==
  pass \in {"done", "panic"} /\ recordedTo # NoTarget /\ counts[recordedTo] > 0 =>
    /\ Popular
    /\ IsPrefix(sent["target"], Got(packets, cut, recordedTo, Len(packets)))
    /\ result = "replayed" => sent["target"] = Got(packets, cut, recordedTo, Len(packets))

Clear   == AllPlain /\ ~CutInMagic
SentInv == Met /\ (Clear => Passing /\ Detecting /\ Replaying /\ Singly /\ Over)

LEMMA DealtIs ==
  ASSUME Recorded, Framed, Met, ~CutInMagic
  PROVE  dealt \in 0 .. Len(packets) /\ Len(packets) \in Nat /\ Len(tokens) \in Nat
<1>1. /\ Len(Records) = Len(packets) /\ Len(packets) \in Nat
  BY FileIsLaid
<1>2. Len(tokens) \in Nat
  BY LenProperties DEF Framed
<1>3. Len(tokens) <= Len(packets)
  BY <1>1 DEF Framed
<1>4. packet = Nothing \/ Len(tokens) >= 1
  BY DEF Met
<1> QED
  BY <1>1, <1>2, <1>3, <1>4 DEF dealt

\* What there is to be known of a packet.
Meant(m, P, c, k) ==
  /\ m.kind = "packet" <=> k # c
  /\ k # c => m.body = P[k].body /\ m.from = P[k].from /\ m.to = P[k].to

LEMMA NextIs ==
  ASSUME Recorded, Framed, Met, Clear, packet.kind # "none"
  PROVE  \E k \in 1 .. Len(packets) :
           /\ Len(tokens) = k /\ dealt = k - 1 /\ k \in 0 .. Len(packets)
           /\ packets[k] \in Packets /\ Meant(packet, packets, cut, k)
<1>1. /\ Records \in Seq(Seq(Symbols)) /\ Len(Records) = Len(packets) /\ Len(packets) \in Nat
      /\ \A i \in 1 .. Len(packets) : Records[i] = Record(i)
  BY FileIsLaid
<1>2. Len(tokens) \in Nat
  BY LenProperties DEF Framed
<1>3. packet # Nothing
  BY DEF Nothing
<1>4. Len(tokens) >= 1 /\ packet = UnMarshal(tokens[Len(tokens)]) /\ dealt = Len(tokens) - 1
  BY <1>3 DEF Met, dealt
<1>5. Len(tokens) <= Len(packets) /\ \A k \in 1 .. Len(tokens) : tokens[k] = Records[k]
  BY <1>1 DEF Framed, Clear
<1>6. PICK k \in 1 .. Len(packets) : k = Len(tokens)
  BY <1>1, <1>2, <1>4, <1>5
<1>7. tokens[k] = Record(k)
  <2>1. k \in 1 .. Len(tokens)
    BY <1>2, <1>6
  <2> QED
    BY <1>1, <1>5, <2>1
<1>8. Means(packet, k)
  BY <1>4, <1>6, <1>7, RecordMeans DEF Clear
<1>9. packets[k] \in Packets /\ k \in 0 .. Len(packets)
  BY <1>1, ElementOfSeq DEF Recorded
<1>10. Meant(packet, packets, cut, k)
  BY <1>8 DEF Means, Meant, Whole
<1> QED
  BY <1>4, <1>6, <1>9, <1>10

LEMMA ClearStays == ASSUME UNCHANGED input PROVE packets' = packets /\ cut' = cut /\ Clear' = Clear
BY DEF input, Clear, AllPlain, Plain, CutInMagic

Quiet == UNCHANGED <<packets, cut, pass, counts, recordedTo, sent>> /\ dealt' = dealt

LEMMA QuietKeeps ==
  ASSUME Quiet, Detecting, Replaying, Singly
  PROVE  Detecting' /\ Replaying' /\ Singly'
<1>1. Detecting'
  BY DEF Quiet, Detecting
<1>2. Replaying'
  BY DEF Quiet, Replaying, Popular
<1>3. Singly'
  BY DEF Quiet, Singly
<1> QED
  BY <1>1, <1>2, <1>3

\* The program comes to an end.
Stops ==
  /\ UNCHANGED <<packets, cut, counts, recordedTo, sent>>
  /\ pass \in {"detect", "replay", "single"} /\ pass' \in {"done", "panic"} /\ packet' = Nothing
  /\ pass' = "panic" => result' = "none"
  /\ result' = "replayed" => sent["target"] = Got(packets, cut, recordedTo, Len(packets))

LEMMA StopsWell ==
  ASSUME Recorded, Framed, Met, Clear, Passing, Detecting, Replaying, Singly, Stops
  PROVE  Met' /\ Passing' /\ Detecting' /\ Replaying' /\ Singly' /\ Over'
<1>1. Met'
  BY DEF Met, Stops, Nothing
<1>2. Passing'
  BY DEF Passing, Stops
<1>3. Detecting' /\ Replaying' /\ Singly'
  BY DEF Detecting, Replaying, Singly, Stops
<1>4. Over'
  <2> SUFFICES ASSUME recordedTo # NoTarget, counts[recordedTo] > 0
               PROVE  /\ Popular'
                      /\ IsPrefix(sent'["target"], Got(packets', cut', recordedTo', Len(packets')))
                      /\ result' = "replayed" => sent'["target"] = Got(packets', cut', recordedTo', Len(packets'))
    BY DEF Over, Stops
  <2>1. pass = "replay"
    BY DEF Stops, Detecting, Singly
  <2>2. Popular /\ sent["target"] = Got(packets, cut, recordedTo, dealt)
    BY <2>1 DEF Replaying
  <2>3. packets \in Seq(Packets) /\ dealt \in 0 .. Len(packets)
    BY DealtIs DEF Recorded, Clear
  <2>4. IsPrefix(sent["target"], Got(packets, cut, recordedTo, Len(packets)))
    BY <2>2, <2>3, GotIsPrefix
  <2>5. Popular'
    BY <2>2 DEF Stops, Popular
  <2> QED
    BY <2>4, <2>5 DEF Stops
<1> QED
  BY <1>1, <1>2, <1>3, <1>4

\* A packet is dealt with.
Deals == UNCHANGED <<packets, cut, tokens>> /\ packet.kind # "none" /\ packet' = Nothing

LEMMA DealsIs ==
  ASSUME Recorded, Framed, Met, Clear, Deals
  PROVE  /\ Met'
         /\ \E k \in 1 .. Len(packets) :
              /\ dealt = k - 1 /\ dealt' = k
              /\ packets[k] \in Packets /\ packets \in Seq(Packets) /\ Meant(packet, packets, cut, k)
<1>1. PICK k \in 1 .. Len(packets) :
           /\ Len(tokens) = k /\ dealt = k - 1
           /\ packets[k] \in Packets /\ Meant(packet, packets, cut, k)
  BY NextIs DEF Deals
<1>2. dealt' = k
  BY <1>1 DEF Deals, dealt, Nothing
<1>3. Met'
  BY DEF Met, Deals, Nothing
<1> QED
  BY <1>1, <1>2, <1>3 DEF Recorded

\* What the connections have, when the packet is not for them.
LEMMA GotFromStays ==
  ASSUME NEW P \in Seq(Packets), NEW c, NEW f, NEW t, NEW k \in 1 .. Len(P),
         NEW s \in Seq(Seq(Symbols)), PartOf(s, GotFrom(P, c, f, t, k - 1))
  PROVE  /\ PartOf(s, GotFrom(P, c, f, t, k))
         /\ k # c /\ P[k].from = f /\ P[k].to = t => PartOf(Append(s, P[k].body), GotFrom(P, c, f, t, k))
<1>1. PICK I : I = FromOf(P, f) \cap ToOf(P, c, t)
  OBVIOUS
<1>2. k # c /\ P[k].from = f /\ P[k].to = t => k \in I
  BY <1>1 DEF FromOf, ToOf
<1>3. PartOf(s, UpTo(P, I, k - 1))
  BY <1>1 DEF GotFrom
<1>4. PartOf(s, UpTo(P, I, k)) /\ (k \in I => PartOf(Append(s, P[k].body), UpTo(P, I, k)))
  BY <1>3, PartOfUpTo
<1> QED
  BY <1>1, <1>2, <1>4 DEF GotFrom

LEMMA SkipKeeps ==
  ASSUME Recorded, Framed, Met, Clear, Passing, Detecting, Replaying, Singly, Over, Skip
  PROVE  Met' /\ Passing' /\ Detecting' /\ Replaying' /\ Singly' /\ Over'
<1>1. Deals /\ packet.kind # "packet" /\ UNCHANGED <<pass, counts, recordedTo, sent, result>>
  BY DEF Skip, Deals, input, player
<1>2. Met'
  BY <1>1, DealsIs
<1>3. PICK k \in 1 .. Len(packets) :
        /\ dealt = k - 1 /\ dealt' = k
        /\ packets[k] \in Packets /\ packets \in Seq(Packets) /\ Meant(packet, packets, cut, k)
  BY <1>1, DealsIs
<1>4. k = cut
  BY <1>1, <1>3 DEF Meant
<1>5. packets' = packets /\ cut' = cut /\ packet' = Nothing
  BY <1>1 DEF Deals
<1>6. \A t : Got(packets, cut, t, k) = Got(packets, cut, t, k - 1)
  BY <1>3, <1>4, GotIs
<1>7. Passing'
  BY <1>1, <1>5 DEF Passing
<1>8. Detecting'
  BY <1>1, <1>3, <1>5, <1>6 DEF Detecting
<1>9. Replaying'
  BY <1>1, <1>3, <1>5, <1>6 DEF Replaying, Popular
<1>10. Singly'
  <2> SUFFICES ASSUME pass = "single", NEW side \in Sides
               PROVE  PartOf(sent[side], GotFrom(packets, cut, Origin(side), recordedTo, k))
    BY <1>1, <1>3, <1>5 DEF Singly
  <2>1. PartOf(sent[side], GotFrom(packets, cut, Origin(side), recordedTo, k - 1))
    BY <1>3 DEF Singly
  <2>2. sent[side] \in Seq(Seq(Symbols))
    BY DEF Passing
  <2> QED
    BY <1>3, <2>1, <2>2, GotFromStays
<1>11. Over'
  BY <1>1, <1>5 DEF Over, Popular
<1> QED
  BY <1>2, <1>7, <1>8, <1>9, <1>10, <1>11

LEMMA CountKeeps ==
  ASSUME Recorded, Framed, Met, Clear, Passing, Detecting, Count
  PROVE  Met' /\ Passing' /\ Detecting' /\ Replaying' /\ Singly' /\ Over'
<1>1. /\ Deals /\ packet.kind = "packet" /\ UNCHANGED <<pass, recordedTo, sent, result>> /\ pass = "detect"
      /\ counts' = [counts EXCEPT ![packet.to] = @ + 1]
  BY DEF Count, Deals, input, player
<1>2. Met'
  BY <1>1, DealsIs
<1>3. PICK k \in 1 .. Len(packets) :
        /\ dealt = k - 1 /\ dealt' = k
        /\ packets[k] \in Packets /\ packets \in Seq(Packets) /\ Meant(packet, packets, cut, k)
  BY <1>1, DealsIs
<1>4. k # cut /\ packet.to = packets[k].to
  BY <1>1, <1>3 DEF Meant
<1>5. packets' = packets /\ cut' = cut /\ packet' = Nothing
  BY <1>1 DEF Deals
<1>6. PICK to \in Targets : to = packet.to
  BY <1>3, <1>4 DEF Targets
<1>7. counts \in [Targets -> Nat]
  BY DEF Passing
<1>8. \A t \in Targets : counts'[t] = IF t = to THEN counts[t] + 1 ELSE counts[t]
  BY <1>1, <1>6, <1>7
<1>9. counts' \in [Targets -> Nat]
  <2>1. counts' = [counts EXCEPT ![to] = counts[to] + 1] /\ counts[to] + 1 \in Nat
    BY <1>1, <1>6, <1>7
  <2> QED
    BY <1>7, <2>1
<1>10. Passing'
  BY <1>1, <1>5, <1>9 DEF Passing
<1>11. Detecting'
  <2>1. ASSUME NEW t \in Targets PROVE counts'[t] = Len(Got(packets, cut, t, k))
    <3>1. counts[t] = Len(Got(packets, cut, t, k - 1))
      BY <1>1, <1>3 DEF Detecting
    <3>2. CASE t = to
      <4>1. Len(Got(packets, cut, t, k)) = Len(Got(packets, cut, t, k - 1)) + 1
        BY <1>3, <1>4, <1>6, <3>2, GotIs
      <4> QED
        BY <1>8, <3>1, <3>2, <4>1
    <3>3. CASE t # to
      <4>1. Got(packets, cut, t, k) = Got(packets, cut, t, k - 1)
        BY <1>3, <1>4, <1>6, <3>3, GotIs
      <4> QED
        BY <1>8, <3>1, <3>3, <4>1
    <3> QED
      BY <3>2, <3>3
  <2> QED
    BY <1>1, <1>3, <1>5, <2>1 DEF Detecting
<1>12. Replaying' /\ Singly' /\ Over'
  BY <1>1 DEF Replaying, Singly, Over
<1> QED
  BY <1>2, <1>10, <1>11, <1>12

LEMMA SendKeeps ==
  ASSUME Recorded, Framed, Met, Clear, Passing, Replaying, Send
  PROVE  Met' /\ Passing' /\ Detecting' /\ Replaying' /\ Singly' /\ Over'
<1>1. /\ Deals /\ packet.kind = "packet" /\ UNCHANGED <<pass, counts, recordedTo, result>> /\ pass = "replay"
      /\ IF packet.to = recordedTo THEN sent' = [sent EXCEPT !["target"] = Append(@, packet.body)]
         ELSE sent' = sent
  BY DEF Send, NextPacket, Deals, input, Written
<1>2. Met'
  BY <1>1, DealsIs
<1>3. PICK k \in 1 .. Len(packets) :
        /\ dealt = k - 1 /\ dealt' = k
        /\ packets[k] \in Packets /\ packets \in Seq(Packets) /\ Meant(packet, packets, cut, k)
  BY <1>1, DealsIs
<1>4. k # cut /\ packet.to = packets[k].to /\ packet.body = packets[k].body
  BY <1>1, <1>3 DEF Meant
<1>5. packets' = packets /\ cut' = cut /\ packet' = Nothing
  BY <1>1 DEF Deals
<1>6. PICK S : S = Seq(Symbols)
  OBVIOUS
<1>7. sent \in [Sides -> Seq(S)] /\ "target" \in Sides /\ packet.body \in S
  BY <1>3, <1>4, <1>6, SymbolsAre DEF Passing, Sides
<1>8. sent["target"] = Got(packets, cut, recordedTo, k - 1) /\ Popular
  BY <1>1, <1>3 DEF Replaying
<1>9. sent' \in [Sides -> Seq(S)] /\ sent'["target"] = Got(packets, cut, recordedTo, k)
  <2>1. CASE packet.to = recordedTo
    <3>1. Got(packets, cut, recordedTo, k) = Append(sent["target"], packet.body)
      BY <1>3, <1>4, <1>8, <2>1, GotIs
    <3>2. PICK s \in Seq(S) : s = sent["target"]
      BY <1>7
    <3>3. Append(s, packet.body) \in Seq(S)
      BY <1>7, AppendProperties
    <3>4. sent' = [sent EXCEPT !["target"] = Append(s, packet.body)]
      BY <1>1, <2>1, <3>2
    <3> QED
      BY <1>7, <3>1, <3>2, <3>3, <3>4
  <2>2. CASE packet.to # recordedTo
    <3>1. Got(packets, cut, recordedTo, k) = sent["target"]
      BY <1>3, <1>4, <1>8, <2>2, GotIs
    <3> QED
      BY <1>1, <1>7, <2>2, <3>1
  <2> QED
    BY <2>1, <2>2
<1>10. Passing'
  BY <1>1, <1>5, <1>6, <1>9 DEF Passing
<1>11. Replaying'
  BY <1>1, <1>3, <1>5, <1>8, <1>9 DEF Replaying, Popular
<1>12. Detecting' /\ Singly' /\ Over'
  BY <1>1 DEF Detecting, Singly, Over
<1> QED
  BY <1>2, <1>10, <1>11, <1>12

\* SendPacket, or a packet that is left out.
LEMMA SingleKeeps ==
  ASSUME Recorded, Framed, Met, Clear, Passing, Singly,
         NotForUs \/ \E side \in Sides : SendPacket(side)
  PROVE  Met' /\ Passing' /\ Detecting' /\ Replaying' /\ Singly' /\ Over'
<1>1. /\ Deals /\ packet.kind = "packet" /\ UNCHANGED <<pass, counts, recordedTo, result>> /\ pass = "single"
      /\ \/ sent' = sent
         \/ \E side \in Sides :
              /\ packet.to = recordedTo /\ packet.from = Origin(side)
              /\ sent' = [sent EXCEPT ![side] = Append(@, packet.body)]
  BY DEF NotForUs, SendPacket, NextPacket, Deals, input, Written
<1>2. Met'
  BY <1>1, DealsIs
<1>3. PICK k \in 1 .. Len(packets) :
        /\ dealt = k - 1 /\ dealt' = k
        /\ packets[k] \in Packets /\ packets \in Seq(Packets) /\ Meant(packet, packets, cut, k)
  BY <1>1, DealsIs
<1>4. k # cut /\ packet.to = packets[k].to /\ packet.body = packets[k].body /\ packet.from = packets[k].from
  BY <1>1, <1>3 DEF Meant
<1>5. packets' = packets /\ cut' = cut /\ packet' = Nothing
  BY <1>1 DEF Deals
<1>6. PICK S : S = Seq(Symbols)
  OBVIOUS
<1>7. sent \in [Sides -> Seq(S)] /\ packet.body \in S
  BY <1>3, <1>4, <1>6, SymbolsAre DEF Passing
<1>8. ASSUME NEW side \in Sides
      PROVE  /\ PartOf(sent[side], GotFrom(packets, cut, Origin(side), recordedTo, k))
             /\ packet.to = recordedTo /\ packet.from = Origin(side) =>
                  PartOf(Append(sent[side], packet.body), GotFrom(packets, cut, Origin(side), recordedTo, k))
  <2>1. PartOf(sent[side], GotFrom(packets, cut, Origin(side), recordedTo, k - 1))
    BY <1>1, <1>3 DEF Singly
  <2>2. PICK s \in Seq(Seq(Symbols)) : s = sent[side]
    BY <1>6, <1>7
  <2>3. /\ PartOf(s, GotFrom(packets, cut, Origin(side), recordedTo, k))
        /\ k # cut /\ packets[k].from = Origin(side) /\ packets[k].to = recordedTo =>
             PartOf(Append(s, packets[k].body), GotFrom(packets, cut, Origin(side), recordedTo, k))
    BY <1>3, <2>1, <2>2, GotFromStays
  <2> QED
    BY <1>4, <2>2, <2>3
<1>9. /\ sent' \in [Sides -> Seq(S)]
      /\ \A side \in Sides : PartOf(sent'[side], GotFrom(packets, cut, Origin(side), recordedTo, k))
  <2>1. CASE sent' = sent
    BY <1>7, <1>8, <2>1
  <2>2. ASSUME NEW side \in Sides, packet.to = recordedTo, packet.from = Origin(side),
               sent' = [sent EXCEPT ![side] = Append(@, packet.body)]
        PROVE  /\ sent' \in [Sides -> Seq(S)]
               /\ \A other \in Sides :
                    PartOf(sent'[other], GotFrom(packets, cut, Origin(other), recordedTo, k))
    <3>1. PICK s \in Seq(S) : s = sent[side]
      BY <1>7
    <3>2. Append(s, packet.body) \in Seq(S)
      BY <1>7, AppendProperties
    <3>3. sent' = [sent EXCEPT ![side] = Append(s, packet.body)]
      BY <2>2, <3>1
    <3>4. sent' \in [Sides -> Seq(S)] /\ sent'[side] = Append(s, packet.body)
      BY <1>7, <3>2, <3>3
    <3>5. \A other \in Sides : other # side => sent'[other] = sent[other]
      BY <1>7, <3>3
    <3>6. ASSUME NEW other \in Sides
          PROVE  PartOf(sent'[other], GotFrom(packets, cut, Origin(other), recordedTo, k))
      BY <1>8, <2>2, <3>1, <3>4, <3>5
    <3> QED
      BY <3>4, <3>6
  <2> QED
    BY <1>1, <2>1, <2>2
<1>10. Passing'
  BY <1>1, <1>5, <1>6, <1>9 DEF Passing
<1>11. Singly'
  BY <1>1, <1>3, <1>5, <1>9 DEF Singly
<1>12. Detecting' /\ Replaying' /\ Over'
  BY <1>1 DEF Detecting, Replaying, Over
<1> QED
  BY <1>2, <1>10, <1>11, <1>12

LEMMA StopKeeps ==
  ASSUME Recorded, Window, Framed, Met, Clear, Passing, Detecting, Replaying, Singly, Over,
         TooLong \/ Crash \/ NotDetected \/ WriteFails \/ Finish \/ FinishSingle
  PROVE  Met' /\ Passing' /\ Detecting' /\ Replaying' /\ Singly' /\ Over'
<1>1. Stops
  <2>1. CASE TooLong \/ NotDetected
    <3>1. pass' = "done" /\ result' # "replayed"
      BY <2>1 DEF TooLong, NotDetected
    <3> QED
      BY <2>1, <3>1 DEF TooLong, NotDetected, NeedsMore, Ended, Scanning, Stops, input, scanner, player
  <2>2. CASE Crash
    <3>1. packet # Nothing /\ pass' = "panic" /\ packet' = Nothing
      BY <2>2 DEF Crash, Nothing
    <3>2. pass \in {"detect", "replay", "single"} /\ result' = "none"
      BY <2>2, <3>1 DEF Crash, Passing
    <3> QED
      BY <2>2, <3>1, <3>2 DEF Crash, Stops, input, player
  <2>3. CASE WriteFails
    <3>1. pass = "replay" /\ pass' = "done" /\ result' = "failed" /\ packet' = Nothing
      BY <2>3 DEF WriteFails, NextPacket
    <3> QED
      BY <2>3, <3>1 DEF WriteFails, NextPacket, Stops, input
  <2>4. CASE Finish
    <3>1. Ended /\ pass = "replay" /\ pass' = "done" /\ packet = Nothing /\ packet' = Nothing
      BY <2>4 DEF Finish, Ended, Scanning, scanner
    <3>2. dealt = Len(packets)
      BY <3>1, AllHandedOver DEF dealt, Clear
    <3>3. sent["target"] = Got(packets, cut, recordedTo, Len(packets))
      BY <3>1, <3>2 DEF Replaying
    <3> QED
      BY <2>4, <3>1, <3>3 DEF Finish, Stops, input, player
  <2>5. CASE FinishSingle
    <3>1. pass = "single" /\ pass' = "done" /\ packet = Nothing /\ packet' = Nothing /\ result' = result
      BY <2>5 DEF FinishSingle, Ended, Scanning, scanner
    <3>2. result = "none"
      BY <3>1 DEF Passing
    <3> QED
      BY <2>5, <3>1, <3>2 DEF FinishSingle, Stops, input, player
  <2> QED
    BY <2>1, <2>2, <2>3, <2>4, <2>5
<1> QED
  BY <1>1, StopsWell

\* The second pass begins.
LEMMA DetectKeeps ==
  ASSUME Recorded, Window, Framed, Clear, Passing, Detecting, Detect
  PROVE  Met' /\ Passing' /\ Detecting' /\ Replaying' /\ Singly' /\ Over'
<1>1. /\ pass = "detect" /\ Ended /\ packet = Nothing /\ packet' = Nothing /\ pass' = "replay"
      /\ tokens' = <<>> /\ UNCHANGED <<packets, cut, counts, sent, result>>
  BY DEF Detect, StartReplay, Ended, Scanning, input
<1>2. PICK t \in Targets : \A u \in Targets : counts[u] <= counts[t] /\ recordedTo' = t
  BY DEF Detect
<1>3. dealt = Len(packets)
  BY <1>1, AllHandedOver DEF dealt, Clear
<1>4. \A u \in Targets : counts[u] = Len(Got(packets, cut, u, Len(packets)))
  BY <1>1, <1>3 DEF Detecting
<1>5. recordedTo' = t /\ \A u \in Targets : counts[u] <= counts[t]
  BY <1>2
<1>6. Popular'
  BY <1>1, <1>4, <1>5 DEF Popular
<1>7. dealt' = 0
  <2>1. Len(<<>>) = 0
    OBVIOUS
  <2> QED
    BY <1>1, <2>1 DEF dealt
<1>8. \A c : Got(packets, cut, c, 0) = <<>>
  BY DEF Got, UpTo
<1>9. Replaying'
  BY <1>1, <1>6, <1>7, <1>8 DEF Replaying, Detecting
<1>10. Met' /\ Passing'
  BY <1>1 DEF Met, Passing
<1>11. Detecting' /\ Singly' /\ Over'
  BY <1>1 DEF Detecting, Singly, Over
<1> QED
  BY <1>9, <1>10, <1>11

LEMMA ScanMeets ==
  ASSUME Recorded, Window, Framed, Scan
  PROVE  Met' /\ dealt' = dealt
<1>1. PICK base, first, end \in Nat :
           /\ base = position - Len(buffer)
           /\ Framing(buffer, atEOF, first, end)
           /\ tokens' = Append(tokens, SubSeq(buffer, first, end))
           /\ packet' = UnMarshal(SubSeq(buffer, first, end))
  BY ScanTakes
<1>2. PICK token \in Seq(Symbols) : token = SubSeq(buffer, first, end)
  BY <1>1, TokenIs DEF Window
<1>3. PICK d \in Nat : d = Len(tokens)
  BY LenProperties DEF Framed
<1>4. Len(tokens') = d + 1 /\ tokens'[d + 1] = token
  BY <1>1, <1>2, <1>3, AppendProperties DEF Framed
<1>5. packet' = UnMarshal(token) /\ packet' # Nothing
  <2>1. packet' = UnMarshal(token)
    BY <1>1, <1>2
  <2>2. UnMarshal(token).kind # "none"
    BY KindIs
  <2> QED
    BY <2>1, <2>2 DEF Nothing
<1>6. Met'
  BY <1>4, <1>5 DEF Met
<1>7. packet = Nothing
  BY DEF Scan, Scanning
<1>8. dealt' = dealt
  BY <1>3, <1>4, <1>5, <1>7 DEF dealt
<1> QED
  BY <1>6, <1>8

LEMMA SentStep == IInv /\ SentInv /\ [Next]_vars => SentInv'
<1> SUFFICES ASSUME IInv, SentInv, [Next]_vars PROVE SentInv'
  OBVIOUS
<1>1. Recorded /\ Window /\ Framed /\ Met
  BY DEF IInv, SentInv
<1>2. Met'
  <2>1. CASE Scan
    BY <1>1, <2>1, ScanMeets
  <2>2. ASSUME UNCHANGED tokens, packet' = packet \/ packet' = Nothing PROVE Met'
    BY <1>1, <2>2 DEF Met
  <2>3. CASE Detect
    BY <2>3 DEF Detect, StartReplay, Ended, Scanning, Met
  <2>4. CASE Read \/ TooLong \/ NotDetected \/ Finish \/ FinishSingle \/ UNCHANGED vars
    BY <2>2, <2>4 DEF Read, TooLong, NotDetected, Finish, FinishSingle, vars, scanner
  <2>5. CASE Crash \/ Skip \/ Count
    BY <2>2, <2>5 DEF Crash, Skip, Count
  <2>6. CASE Send \/ WriteFails \/ NotForUs \/ \E side \in Sides : SendPacket(side)
    BY <2>2, <2>6 DEF Send, WriteFails, NotForUs, SendPacket, NextPacket
  <2> QED
    BY <2>1, <2>3, <2>4, <2>5, <2>6 DEF Next
<1>3. packets' = packets /\ cut' = cut /\ Clear' = Clear
  <2>1. UNCHANGED input
    BY DEF Next, Read, TooLong, Scan, Crash, Skip, Count, Detect, StartReplay, NotDetected, Send,
           WriteFails, Finish, NotForUs, FinishSingle, SendPacket, NextPacket, vars
  <2> QED
    BY <2>1, ClearStays
<1>4. SUFFICES ASSUME Clear
               PROVE  Passing' /\ Detecting' /\ Replaying' /\ Singly' /\ Over'
  BY <1>2, <1>3 DEF SentInv
<1>5. Passing /\ Detecting /\ Replaying /\ Singly /\ Over
  BY <1>4 DEF SentInv
<1>6. ASSUME Quiet, Passing', UNCHANGED result PROVE Detecting' /\ Replaying' /\ Singly' /\ Over'
  <2>1. Over'
    BY <1>5, <1>6 DEF Quiet, Over, Popular
  <2> QED
    BY <1>5, <1>6, <2>1, QuietKeeps
<1>7. CASE Read
  <2>1. UNCHANGED <<pass, counts, recordedTo, sent, result, tokens, packet>>
    BY <1>7 DEF Read, player
  <2>2. Passing'
    BY <1>5, <2>1 DEF Passing
  <2>3. Quiet
    BY <1>3, <2>1 DEF Quiet, dealt
  <2> QED
    BY <1>6, <2>1, <2>2, <2>3
<1>8. CASE Scan
  <2>1. /\ UNCHANGED <<pass, counts, recordedTo, sent, result>>
        /\ pass \in {"detect", "replay", "single"}
    BY <1>8 DEF Scan, Scanning, player
  <2>2. Passing'
    BY <1>5, <2>1 DEF Passing
  <2>3. dealt' = dealt
    BY <1>1, <1>8, ScanMeets
  <2>4. Quiet
    BY <1>3, <2>1, <2>3 DEF Quiet
  <2> QED
    BY <1>6, <2>1, <2>2, <2>4
<1>9. CASE UNCHANGED vars
  <2>1. UNCHANGED <<pass, counts, recordedTo, sent, result, tokens, packet>>
    BY <1>9 DEF vars, scanner, player
  <2>2. Passing'
    BY <1>5, <2>1 DEF Passing
  <2>3. Quiet
    BY <1>3, <2>1 DEF Quiet, dealt
  <2> QED
    BY <1>6, <2>1, <2>2, <2>3
<1>10. CASE TooLong \/ Crash \/ NotDetected \/ WriteFails \/ Finish \/ FinishSingle
  BY <1>1, <1>4, <1>5, <1>10, StopKeeps
<1>11. CASE Detect
  BY <1>1, <1>4, <1>5, <1>11, DetectKeeps
<1>12. CASE Skip
  BY <1>1, <1>4, <1>5, <1>12, SkipKeeps
<1>13. CASE Count
  BY <1>1, <1>4, <1>5, <1>13, CountKeeps
<1>14. CASE Send
  BY <1>1, <1>4, <1>5, <1>14, SendKeeps
<1>15. CASE NotForUs \/ \E side \in Sides : SendPacket(side)
  BY <1>1, <1>4, <1>5, <1>15, SingleKeeps
<1> QED
  BY <1>7, <1>8, <1>9, <1>10, <1>11, <1>12, <1>13, <1>14, <1>15 DEF Next

LEMMA SentInitially == Init => SentInv
<1> SUFFICES ASSUME Init PROVE SentInv
  OBVIOUS
<1>1. packet = Nothing /\ tokens = <<>> /\ result = "none"
  BY DEF Init
<1>2. dealt = 0
  <2>1. Len(<<>>) = 0
    OBVIOUS
  <2> QED
    BY <1>1, <2>1 DEF dealt
<1>3. /\ counts = [t \in Targets |-> 0] /\ sent = [side \in Sides |-> <<>>]
      /\ \/ pass = "detect" /\ recordedTo = NoTarget
         \/ pass = "single" /\ recordedTo \in Targets
  BY DEF Init
<1>4. \A P, c, t : Got(P, c, t, 0) = <<>>
  BY DEF Got, UpTo
<1>5. \A P, c, f, t : GotFrom(P, c, f, t, 0) = <<>>
  BY DEF GotFrom, UpTo
<1>6. PartOf(<<>>, <<>>)
  <2>1. [i \in 1 .. 0 |-> 0] \in [1 .. 0 -> 1 .. 0]
    OBVIOUS
  <2>2. Len(<<>>) = 0 /\ \A i \in 1 .. 0 : FALSE
    OBVIOUS
  <2> QED
    BY <2>1, <2>2 DEF PartOf
<1>7. Passing
  <2>1. <<>> \in Seq(Seq(Symbols))
    OBVIOUS
  <2>2. sent \in [Sides -> Seq(Seq(Symbols))]
    BY <1>3, <2>1
  <2>3. counts \in [Targets -> Nat]
    BY <1>3
  <2>4. pass \in {"detect", "single"}
    BY <1>3
  <2> QED
    BY <1>1, <2>2, <2>3, <2>4 DEF Passing
<1>8. "target" \in Sides
  BY DEF Sides
<1>9. Detecting
  <2>1. Len(<<>>) = 0
    OBVIOUS
  <2>2. \A t \in Targets : counts[t] = Len(Got(packets, cut, t, dealt))
    BY <1>2, <1>3, <1>4, <2>1
  <2>3. pass = "detect" => recordedTo = NoTarget
    BY <1>3
  <2> QED
    BY <1>3, <1>8, <2>2, <2>3 DEF Detecting
<1>10. Singly
  <2>1. \A side \in Sides : PartOf(sent[side], GotFrom(packets, cut, Origin(side), recordedTo, dealt))
    BY <1>2, <1>3, <1>5, <1>6
  <2>2. pass = "single" => recordedTo \in Targets /\ counts[recordedTo] = 0
    BY <1>3
  <2> QED
    BY <2>1, <2>2 DEF Singly
<1>11. Replaying /\ Over
  <2>1. pass = "detect" \/ pass = "single"
    BY <1>3
  <2> QED
    BY <2>1 DEF Replaying, Over
<1> QED
  BY <1>1, <1>7, <1>9, <1>10, <1>11 DEF SentInv, Met

\* What a connection has is some of what came from its address.
LEMMA PartOfAll ==
  ASSUME NEW P \in Seq(Packets), NEW c, NEW f, NEW t, NEW d \in 0 .. Len(P),
         NEW s \in Seq(Seq(Symbols)), PartOf(s, GotFrom(P, c, f, t, d))
  PROVE  PartOf(s, GotFrom(P, c, f, t, Len(P)))
<1>1. PICK I : I = FromOf(P, f) \cap ToOf(P, c, t)
  OBVIOUS
<1>2. Len(P) \in Nat /\ Len(P) \in d .. Len(P) /\ Len(P) \in 0 .. Len(P)
  BY LenProperties
<1>3. PICK S : S = Seq(Symbols)
  OBVIOUS
<1>4. PICK q \in Seq(S), u \in Seq(S), v \in Seq(S) : q = s /\ u = UpTo(P, I, d) /\ v = UpTo(P, I, Len(P))
  BY <1>2, <1>3, UpToTypes
<1>5. Continues(u, v)
  BY <1>2, <1>4, UpToContinues
<1>6. PartOf(q, u)
  BY <1>1, <1>4 DEF GotFrom
<1>7. PartOf(q, v)
  BY <1>5, <1>6, PartOfContinues
<1> QED
  BY <1>1, <1>4, <1>7 DEF GotFrom

\* SentAsRecorded, whatever is in the packets and however the file is read.
THEOREM WhatWasRecordedIsSent == Spec => []SentAsRecorded
<1>1. Spec => []SentInv
  BY SentInitially, SentStep, ReplayInvariant, PTL DEF Spec
<1>2. IInv /\ SentInv => SentAsRecorded
  <2> SUFFICES ASSUME IInv, SentInv, AllPlain, ~CutInMagic
               PROVE  /\ recordedTo # NoTarget /\ counts[recordedTo] > 0 =>
                           /\ \A t \in Targets : Len(BodiesTo(t)) <= Len(BodiesTo(recordedTo))
                           /\ IsPrefix(sent["target"], BodiesTo(recordedTo))
                           /\ result = "replayed" => sent["target"] = BodiesTo(recordedTo)
                      /\ pass = "single" =>
                           \A side \in Sides : PartOf(sent[side], BodiesFromTo(Origin(side), recordedTo))
    BY DEF SentAsRecorded
  <2>1. Recorded /\ Framed /\ Met /\ Passing /\ Detecting /\ Replaying /\ Singly /\ Over
    BY DEF IInv, SentInv, Clear
  <2>2. packets \in Seq(Packets) /\ dealt \in 0 .. Len(packets)
    BY <2>1, DealtIs DEF Recorded
  <2>3. /\ \A t : BodiesTo(t) = Got(packets, cut, t, Len(packets))
        /\ \A f, t : BodiesFromTo(f, t) = GotFrom(packets, cut, f, t, Len(packets))
    BY <2>1, BodiesAre
  <2>4. ASSUME recordedTo # NoTarget, counts[recordedTo] > 0
        PROVE  /\ Popular
               /\ IsPrefix(sent["target"], Got(packets, cut, recordedTo, Len(packets)))
               /\ result = "replayed" => sent["target"] = Got(packets, cut, recordedTo, Len(packets))
    <3>1. pass = "replay" \/ pass \in {"done", "panic"}
      BY <2>1, <2>4 DEF Passing, Detecting, Singly
    <3>2. CASE pass = "replay"
      <4>1. Popular /\ sent["target"] = Got(packets, cut, recordedTo, dealt) /\ result = "none"
        BY <2>1, <3>2 DEF Replaying, Passing
      <4>2. IsPrefix(Got(packets, cut, recordedTo, dealt), Got(packets, cut, recordedTo, Len(packets)))
        BY <2>2, GotIsPrefix
      <4> QED
        BY <4>1, <4>2
    <3>3. CASE pass \in {"done", "panic"}
      BY <2>1, <2>4, <3>3 DEF Over
    <3> QED
      BY <3>1, <3>2, <3>3
  <2>5. ASSUME recordedTo # NoTarget, counts[recordedTo] > 0
        PROVE  /\ \A t \in Targets : Len(BodiesTo(t)) <= Len(BodiesTo(recordedTo))
               /\ IsPrefix(sent["target"], BodiesTo(recordedTo))
               /\ result = "replayed" => sent["target"] = BodiesTo(recordedTo)
    BY <2>3, <2>4, <2>5 DEF Popular
  <2>6. ASSUME pass = "single", NEW side \in Sides
        PROVE  PartOf(sent[side], BodiesFromTo(Origin(side), recordedTo))
    <3>1. PartOf(sent[side], GotFrom(packets, cut, Origin(side), recordedTo, dealt))
      BY <2>1, <2>6 DEF Singly
    <3>2. sent[side] \in Seq(Seq(Symbols))
      BY <2>1 DEF Passing
    <3>3. PartOf(sent[side], GotFrom(packets, cut, Origin(side), recordedTo, Len(packets)))
      BY <2>2, <3>1, <3>2, PartOfAll
    <3> QED
      BY <2>3, <3>3
  <2> QED
    BY <2>5, <2>6
<1> QED
  BY <1>1, <1>2, ReplayInvariant, PTL
=============================================================================
