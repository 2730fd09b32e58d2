--------------------------- MODULE RaceLaps_proofs ---------------------------
(***************************************************************************)
(* What is proved of the laps of a running race for any number of pilots,  *)
(* passes and edits: the types; that the active laps are numbered without  *)
(* a gap and timed from the lap before, also after one edit; that no lap   *)
(* after the time counts once it is noted that the pilot is done; and that *)
(* every pilot who is done has RACE_PILOT_DONE once, and is counted until  *)
(* then.                                                                   *)
(***************************************************************************)
EXTENDS RaceLaps, SequenceFacts, TLAPS

PeakSet == Peaks \cup {Max(Peaks)}

LapSet ==
  [at : 0..MaxTime, time : Int, num : Int, peak : PeakSet,
   invalid : BOOLEAN, late : BOOLEAN, deleted : BOOLEAN]

JobSet == [kind : {"pass", "finish"}, node : Nodes, at : 0..MaxTime, done : BOOLEAN]

LEMMA BoundsTyped == MaxTime \in Nat /\ None = -1 /\ Nodes \subseteq Nat /\ IsFiniteSet(Nodes)
BY LapsAssumption DEF None

-----------------------------------------------------------------------------
(* Laps: numbers and times.                                                *)

Increasing(s) == \A i, j \in 1..Len(s) : i < j => s[i].at < s[j].at

Measured(s) ==
  \A i \in 1..Len(s) : s[i].time \in 0..s[i].at /\ s[i].num \in {None} \cup 0..i-1

Numbered(s) ==
  \A i \in 1..Len(s) : ~s[i].deleted => s[i].num = Cardinality(ActiveBefore(s, i))

\* The time of a lap since the last one of these places.
Since(s, i, places) == s[i].at - LastAt(s, places)

TimedWell(s) ==
  \A i \in 1..Len(s) : ~s[i].deleted =>
    s[i].time \in {Since(s, i, ActiveBefore(s, i)), Since(s, i, ShownBefore(s, i))}

\* No active lap is late or after a late one.
LateLast(s) == \A i, j \in 1..Len(s) : s[i].late /\ i <= j => s[j].deleted

LEMMA PlacesBefore ==
  ASSUME NEW s \in Seq(LapSet), NEW i \in Nat \ {0}
  PROVE  /\ ActiveBefore(s, i) \subseteq 1..i-1 /\ ShownBefore(s, i) \subseteq 1..i-1
         /\ IsFiniteSet(ActiveBefore(s, i))
         /\ Cardinality(ActiveBefore(s, i)) \in 0..i-1
<1>1. ActiveBefore(s, i) \subseteq 1..i-1 /\ ShownBefore(s, i) \subseteq 1..i-1
  BY DEF ActiveBefore, ShownBefore
<1>2. i - 1 \in Nat
  OBVIOUS
<1>3. /\ IsFiniteSet(ActiveBefore(s, i)) /\ Cardinality(ActiveBefore(s, i)) \in Nat
      /\ Cardinality(ActiveBefore(s, i)) <= i - 1
  BY <1>1, <1>2, PartFinite
<1> QED
  BY <1>1, <1>2, <1>3

\* LastAt is the time of the last of the places, or the start.
LEMMA LastAtIs ==
  ASSUME NEW s \in Seq(LapSet), NEW m \in 0..Len(s), NEW P \in SUBSET (1..m)
  PROVE  /\ LastAt(s, P) \in 0..MaxTime
         /\ P = {} => LastAt(s, P) = 0
         /\ P # {} => /\ Max(P) \in P /\ \A k \in P : k <= Max(P)
                      /\ LastAt(s, P) = s[Max(P)].at
<1>1. CASE P = {}
  BY <1>1, BoundsTyped DEF LastAt
<1>2. CASE P # {}
  <2>1. m \in Nat /\ P \in SUBSET Int /\ P \subseteq 1..Len(s)
    OBVIOUS
  <2>2. IsFiniteSet(P)
    BY <2>1, PartFinite
  <2>3. Max(P) \in P /\ \A k \in P : k <= Max(P)
    BY <1>2, <2>1, <2>2, MaxOfSome
  <2>4. s[Max(P)] \in LapSet
    <3>1. Max(P) \in 1..Len(s)
      BY <2>1, <2>3
    <3> QED
      BY <3>1
  <2>5. LastAt(s, P) = s[Max(P)].at
    BY <1>2 DEF LastAt
  <2> QED
    BY <1>2, <2>3, <2>4, <2>5 DEF LapSet
<1> QED
  BY <1>1, <1>2

LEMMA LastAtSame ==
  ASSUME NEW s \in Seq(LapSet), NEW r \in Seq(LapSet), NEW m \in Nat,
         m <= Len(s), m <= Len(r), \A k \in 1..m : r[k].at = s[k].at,
         NEW P \in SUBSET (1..m)
  PROVE  LastAt(r, P) = LastAt(s, P)
<1>1. m \in 0..Len(s) /\ m \in 0..Len(r)
  OBVIOUS
<1>2. CASE P = {}
  BY <1>2 DEF LastAt
<1>3. CASE P # {}
  BY <1>1, <1>3, LastAtIs
<1> QED
  BY <1>2, <1>3

\* What comes before an index depends on the laps before it only.
LEMMA BeforeSame ==
  ASSUME NEW s \in Seq(LapSet), NEW r \in Seq(LapSet), NEW i \in Nat \ {0},
         i - 1 <= Len(s), i - 1 <= Len(r),
         \A k \in 1..i-1 : /\ r[k].at = s[k].at /\ r[k].deleted = s[k].deleted
                           /\ r[k].late = s[k].late
  PROVE  /\ ActiveBefore(r, i) = ActiveBefore(s, i)
         /\ ShownBefore(r, i) = ShownBefore(s, i)
         /\ LastAt(r, ActiveBefore(r, i)) = LastAt(s, ActiveBefore(s, i))
         /\ LastAt(r, ShownBefore(r, i)) = LastAt(s, ShownBefore(s, i))
<1>1. /\ ActiveBefore(r, i) = ActiveBefore(s, i)
      /\ ShownBefore(r, i) = ShownBefore(s, i)
  BY DEF ActiveBefore, ShownBefore
<1>2. /\ ActiveBefore(s, i) \in SUBSET (1..i-1) /\ ShownBefore(s, i) \in SUBSET (1..i-1)
      /\ i - 1 \in Nat
  BY PlacesBefore
<1>3. \A k \in 1..i-1 : r[k].at = s[k].at
  OBVIOUS
<1>4. /\ LastAt(r, ActiveBefore(s, i)) = LastAt(s, ActiveBefore(s, i))
      /\ LastAt(r, ShownBefore(s, i)) = LastAt(s, ShownBefore(s, i))
  BY ZenonT(40), <1>2, <1>3, LastAtSame
<1> QED
  BY <1>1, <1>4

\* The time since a lap before, or the start, is not above the time of the lap.
LEMMA SinceBounds ==
  ASSUME NEW s \in Seq(LapSet), Increasing(s), NEW i \in 1..Len(s),
         NEW P \in SUBSET (1..i-1)
  PROVE  Since(s, i, P) \in 0..s[i].at
<1>1. i - 1 \in 0..Len(s) /\ s[i] \in LapSet
  OBVIOUS
<1>2. s[i].at \in 0..MaxTime
  BY <1>1 DEF LapSet
<1>3. LastAt(s, P) \in 0..s[i].at
  <2>1. CASE P = {}
    BY <1>1, <1>2, <2>1, LastAtIs
  <2>2. CASE P # {}
    <3>1. LastAt(s, P) \in 0..MaxTime /\ Max(P) \in 1..i-1 /\ LastAt(s, P) = s[Max(P)].at
      BY <1>1, <2>2, LastAtIs
    <3>2. Max(P) \in 1..Len(s) /\ Max(P) < i
      BY <3>1
    <3>3. s[Max(P)].at < s[i].at
      BY <3>2 DEF Increasing
    <3> QED
      BY <1>2, <3>1, <3>3, BoundsTyped
  <2> QED
    BY <2>1, <2>2
<1> QED
  BY <1>2, <1>3, BoundsTyped DEF Since

-----------------------------------------------------------------------------
(* Recalculation from an index on.                                         *)

\* r is s with the active laps from there on numbered and timed anew.
Recalculated(r, s, from) ==
  /\ r \in Seq(LapSet) /\ Len(r) = Len(s)
  /\ \A i \in 1..Len(s) :
       /\ r[i].at = s[i].at
       /\ i < from => r[i] = s[i]
       /\ r[i].deleted => r[i].num = s[i].num /\ r[i].time = s[i].time
       /\ i >= from /\ ~r[i].deleted =>
            /\ r[i].num = Cardinality(ActiveBefore(r, i))
            /\ r[i].time = Since(r, i, ActiveBefore(r, i))

LEMMA RecalculatedKeeps ==
  ASSUME NEW s \in Seq(LapSet), NEW from \in Nat, NEW r, Recalculated(r, s, from),
         Increasing(s), Measured(s), Numbered(s)
  PROVE  /\ Increasing(r) /\ Measured(r) /\ Numbered(r)
         /\ TimedWell(s) => TimedWell(r)
<1>1. /\ r \in Seq(LapSet) /\ Len(r) = Len(s) /\ Len(s) \in Nat
      /\ \A i \in 1..Len(s) : r[i].at = s[i].at
  BY DEF Recalculated
<1>2. Increasing(r)
  BY <1>1 DEF Increasing
<1>3. ASSUME NEW i \in 1..Len(s), i < from
      PROVE  /\ r[i] = s[i]
             /\ ActiveBefore(r, i) = ActiveBefore(s, i)
             /\ Since(r, i, ActiveBefore(r, i)) = Since(s, i, ActiveBefore(s, i))
             /\ Since(r, i, ShownBefore(r, i)) = Since(s, i, ShownBefore(s, i))
  <2>1. \A k \in 1..i : r[k] = s[k]
    BY <1>1, <1>3 DEF Recalculated
  <2>2. i \in Nat \ {0} /\ i - 1 <= Len(s) /\ i - 1 <= Len(r) /\ i \in 1..i
    BY <1>1
  <2>3. \A k \in 1..i-1 : /\ r[k].at = s[k].at /\ r[k].deleted = s[k].deleted
                          /\ r[k].late = s[k].late
    BY <2>1
  <2>4. /\ ActiveBefore(r, i) = ActiveBefore(s, i)
        /\ LastAt(r, ActiveBefore(r, i)) = LastAt(s, ActiveBefore(s, i))
        /\ LastAt(r, ShownBefore(r, i)) = LastAt(s, ShownBefore(s, i))
    BY <1>1, <2>2, <2>3, BeforeSame
  <2> QED
    BY <2>1, <2>2, <2>4 DEF Since
<1>4. ASSUME NEW i \in 1..Len(s), ~(i < from), ~r[i].deleted
      PROVE  /\ r[i].num = Cardinality(ActiveBefore(r, i)) /\ r[i].num \in 0..i-1
             /\ r[i].time = Since(r, i, ActiveBefore(r, i)) /\ r[i].time \in 0..r[i].at
  <2>1. i >= from
    BY <1>4
  <2>2. /\ r[i].num = Cardinality(ActiveBefore(r, i))
        /\ r[i].time = Since(r, i, ActiveBefore(r, i))
    BY <1>4, <2>1 DEF Recalculated
  <2>3. /\ Cardinality(ActiveBefore(r, i)) \in 0..i-1
        /\ ActiveBefore(r, i) \in SUBSET (1..i-1)
    BY <1>1, PlacesBefore
  <2>4. Since(r, i, ActiveBefore(r, i)) \in 0..r[i].at
    BY <1>1, <1>2, <2>3, SinceBounds
  <2> QED
    BY <2>2, <2>3, <2>4
<1>5. Measured(r)
  <2> SUFFICES ASSUME NEW i \in 1..Len(s)
               PROVE  r[i].time \in 0..r[i].at /\ r[i].num \in {None} \cup 0..i-1
    BY <1>1 DEF Measured
  <2>1. s[i].time \in 0..s[i].at /\ s[i].num \in {None} \cup 0..i-1
    BY DEF Measured
  <2>2. r[i].deleted => r[i].num = s[i].num /\ r[i].time = s[i].time
    BY DEF Recalculated
  <2> QED
    BY <1>1, <1>3, <1>4, <2>1, <2>2
<1>6. Numbered(r)
  <2> SUFFICES ASSUME NEW i \in 1..Len(s), ~r[i].deleted
               PROVE  r[i].num = Cardinality(ActiveBefore(r, i))
    BY <1>1 DEF Numbered
  <2> QED
    BY <1>3, <1>4 DEF Numbered
<1>7. ASSUME TimedWell(s) PROVE TimedWell(r)
  <2> SUFFICES ASSUME NEW i \in 1..Len(s), ~r[i].deleted
               PROVE  r[i].time \in {Since(r, i, ActiveBefore(r, i)),
                                     Since(r, i, ShownBefore(r, i))}
    BY <1>1 DEF TimedWell
  <2>1. CASE i < from
    BY <1>3, <1>7, <2>1 DEF TimedWell
  <2>2. CASE ~(i < from)
    BY <1>4, <2>2
  <2> QED
    BY <2>1, <2>2
<1> QED
  BY <1>2, <1>5, <1>6, <1>7

-----------------------------------------------------------------------------
(* What the operators on laps compute.                                     *)

LEMMA CalcTimesIs ==
  ASSUME NEW s \in Seq(LapSet), NEW from \in Nat, NEW r, r = CalcTimes(s, from)
  PROVE  /\ Recalculated(r, s, from)
         /\ \A i \in 1..Len(s) : /\ r[i].deleted = s[i].deleted /\ r[i].late = s[i].late
                                 /\ r[i].invalid = s[i].invalid
<1>1. r = [i \in 1..Len(s) |->
             IF s[i].deleted \/ i < from THEN s[i]
             ELSE [s[i] EXCEPT !.num = Cardinality(ActiveBefore(s, i)),
                               !.time = s[i].at - LastAt(s, ActiveBefore(s, i))]]
  <2>1. DOMAIN s = 1..Len(s)
    OBVIOUS
  <2> QED
    BY <2>1, Zenon DEF CalcTimes
<1>2. ASSUME NEW i \in 1..Len(s)
      PROVE  /\ s[i] \in LapSet /\ Cardinality(ActiveBefore(s, i)) \in Int
             /\ s[i].at - LastAt(s, ActiveBefore(s, i)) \in Int
  <2>1. ActiveBefore(s, i) \in SUBSET (1..i-1) /\ Cardinality(ActiveBefore(s, i)) \in 0..i-1
    BY PlacesBefore
  <2>2. i - 1 \in 0..Len(s) /\ s[i] \in LapSet
    OBVIOUS
  <2>3. LastAt(s, ActiveBefore(s, i)) \in 0..MaxTime /\ s[i].at \in 0..MaxTime
    BY <2>1, <2>2, LastAtIs DEF LapSet
  <2> QED
    BY <2>1, <2>2, <2>3
<1>3. ASSUME NEW i \in 1..Len(s)
      PROVE  /\ r[i] \in LapSet /\ r[i].at = s[i].at /\ r[i].deleted = s[i].deleted
             /\ r[i].late = s[i].late /\ r[i].invalid = s[i].invalid
             /\ (s[i].deleted \/ i < from) => r[i] = s[i]
             /\ ~(s[i].deleted \/ i < from) =>
                  /\ r[i].num = Cardinality(ActiveBefore(s, i))
                  /\ r[i].time = s[i].at - LastAt(s, ActiveBefore(s, i))
  <2>1. CASE s[i].deleted \/ i < from
    BY <1>1, <1>2, <2>1
  <2>2. CASE ~(s[i].deleted \/ i < from)
    <3> DEFINE c == Cardinality(ActiveBefore(s, i))
               d == s[i].at - LastAt(s, ActiveBefore(s, i))
    <3>1. r[i] = [s[i] EXCEPT !.num = c, !.time = d] /\ c \in Int /\ d \in Int
      BY <1>1, <1>2, <2>2
    <3> HIDE DEF c, d
    <3>2. /\ r[i] \in LapSet /\ r[i].at = s[i].at /\ r[i].deleted = s[i].deleted
          /\ r[i].late = s[i].late /\ r[i].invalid = s[i].invalid
          /\ r[i].num = c /\ r[i].time = d
      BY <1>2, <3>1 DEF LapSet
    <3> QED
      BY <2>2, <3>2 DEF c, d
  <2> QED
    BY <2>1, <2>2
<1>4. r \in Seq(LapSet) /\ Len(r) = Len(s)
  <2>1. r = [i \in 1..Len(s) |-> r[i]]
    BY <1>1, Zenon
  <2>2. r \in [1..Len(s) -> LapSet] /\ Len(s) \in Nat
    BY <1>3, <2>1
  <2> QED
    BY <2>2
<1>5. ASSUME NEW i \in 1..Len(s)
      PROVE  /\ ActiveBefore(r, i) = ActiveBefore(s, i)
             /\ LastAt(r, ActiveBefore(r, i)) = LastAt(s, ActiveBefore(s, i))
  <2>1. /\ i \in Nat \ {0} /\ i - 1 <= Len(s) /\ i - 1 <= Len(r)
        /\ \A k \in 1..i-1 : k \in 1..Len(s)
    BY <1>4
  <2>2. \A k \in 1..i-1 : /\ r[k].at = s[k].at /\ r[k].deleted = s[k].deleted
                          /\ r[k].late = s[k].late
    BY <1>3, <2>1
  <2> QED
    BY <1>4, <2>1, <2>2, BeforeSame
<1>6. \A i \in 1..Len(s) : i >= from <=> ~(i < from)
  OBVIOUS
<1> QED
  BY <1>3, <1>4, <1>5, <1>6 DEF Recalculated, Since

\* The filter deletes some laps, and recalculates the others.
LEMMA FilterByPeakIs ==
  ASSUME NEW s \in Seq(LapSet), s # <<>>, NEW minLap, NEW r, r = FilterByPeak(s, minLap)
  PROVE  /\ \/ r = s
            \/ \E from \in Nat : Recalculated(r, s, from)
         /\ \A i \in 1..Len(s) : /\ s[i].deleted => r[i].deleted
                                 /\ r[i].late = s[i].late
<1> DEFINE far == {i \in DOMAIN s : Last(s).at >= s[i].at + minLap}
           from == IF far = {} THEN 1 ELSE Max(far) + 1
           near == {i \in from..Len(s) : ~s[i].deleted}
           best == Min({i \in near : s[i].peak = Max({s[k].peak : k \in near} \cup {0})})
           kept == [i \in DOMAIN s |-> IF i \in near THEN [s[i] EXCEPT !.deleted = i # best]
                                       ELSE s[i]]
<1>1. r = IF ~\E i \in from..Len(s)-1 : ~s[i].deleted THEN s ELSE CalcTimes(kept, from)
  BY DEF FilterByPeak
<1>2. far \in SUBSET (1..Len(s)) /\ Len(s) \in Nat /\ far \in SUBSET Int
  OBVIOUS
<1> HIDE DEF far
<1>3. IsFiniteSet(far)
  BY <1>2, PartFinite
<1>4. from \in Nat /\ 1 <= from
  <2>1. CASE far = {}
    BY <2>1
  <2>2. CASE far # {}
    <3>1. Max(far) \in far
      BY <1>2, <1>3, <2>2, MaxOfSome
    <3>2. \A i \in far : i \in Nat
      BY <1>2
    <3>3. Max(far) \in Nat
      BY <3>1, <3>2, Zenon
    <3> QED
      BY <2>2, <3>3
  <2> QED
    BY <2>1, <2>2
<1> HIDE DEF from
<1>5. ASSUME NEW i \in 1..Len(s)
      PROVE  /\ kept[i] \in LapSet /\ kept[i].at = s[i].at
             /\ kept[i].num = s[i].num /\ kept[i].time = s[i].time
             /\ s[i].deleted => kept[i].deleted
             /\ kept[i].late = s[i].late
             /\ i < from => kept[i] = s[i]
  <2> DEFINE b == i # best
  <2>1. b \in BOOLEAN /\ s[i] \in LapSet /\ (i \in near => ~s[i].deleted /\ ~(i < from))
    BY <1>4
  <2>2. kept[i] = IF i \in near THEN [s[i] EXCEPT !.deleted = b] ELSE s[i]
    OBVIOUS
  <2> HIDE DEF b, near, kept
  <2>3. CASE i \in near
    BY <2>1, <2>2, <2>3 DEF LapSet
  <2>4. CASE i \notin near
    BY <2>1, <2>2, <2>4
  <2> QED
    BY <2>3, <2>4
<1>6. kept \in [1..Len(s) -> LapSet]
  <2>1. kept = [i \in 1..Len(s) |-> kept[i]]
    OBVIOUS
  <2> HIDE DEF kept
  <2> QED
    BY <1>5, <2>1
<1> HIDE DEF kept
<1>7. kept \in Seq(LapSet) /\ Len(kept) = Len(s)
  BY <1>2, <1>6
<1>8. CASE r = s
  BY <1>8
<1>9. CASE r = CalcTimes(kept, from)
  <2>1. /\ Recalculated(r, kept, from)
        /\ \A i \in 1..Len(kept) : r[i].deleted = kept[i].deleted /\ r[i].late = kept[i].late
    BY <1>4, <1>7, <1>9, CalcTimesIs
  <2>2. Recalculated(r, s, from)
    BY <1>5, <1>7, <2>1 DEF Recalculated
  <2> QED
    BY <1>4, <1>5, <1>7, <2>1, <2>2
<1> QED
  BY <1>1, <1>8, <1>9

\* A new lap: its number and its time are those after these laps.
Follows(l, s) ==
  /\ \A i \in 1..Len(s) : s[i].at < l.at
  /\ l.num = Cardinality(ActiveBefore(s, Len(s) + 1))
  /\ l.time = l.at - IF l.num = 0 THEN 0 ELSE LastAt(s, ShownBefore(s, Len(s) + 1))

Appended(r, s, l) ==
  /\ r \in Seq(LapSet) /\ Len(r) = Len(s) + 1 /\ r[Len(s) + 1] = l
  /\ \A i \in 1..Len(s) : r[i] = s[i]

LEMMA AppendKeeps ==
  ASSUME NEW s \in Seq(LapSet), NEW l \in LapSet,
         Increasing(s), Measured(s), Numbered(s), Follows(l, s), NEW r, Appended(r, s, l)
  PROVE  /\ Increasing(r) /\ Measured(r) /\ Numbered(r)
         /\ TimedWell(s) => TimedWell(r)
<1> /\ \A i \in 1..Len(s) : s[i].at < l.at
    /\ l.num = Cardinality(ActiveBefore(s, Len(s) + 1))
    /\ l.time = l.at - IF l.num = 0 THEN 0 ELSE LastAt(s, ShownBefore(s, Len(s) + 1))
  BY DEF Follows
<1> DEFINE m == Len(s)
           k == m + 1
<1>1. /\ r \in Seq(LapSet) /\ Len(r) = m + 1 /\ r[k] = l /\ m \in Nat
      /\ \A i \in 1..m : r[i] = s[i]
  BY DEF Appended
<1>2. k \in Nat \ {0} /\ k - 1 = m /\ m \in 0..Len(s)
  BY <1>1
<1> HIDE DEF m, k
<1>3. Increasing(r)
  <2> SUFFICES ASSUME NEW i \in 1..Len(r), NEW j \in 1..Len(r), i < j
               PROVE  r[i].at < r[j].at
    BY DEF Increasing
  <2>1. i \in 1..m /\ r[i] = s[i]
    BY <1>1
  <2>2. CASE j = k
    BY <1>1, <2>1, <2>2 DEF m
  <2>3. CASE j # k
    <3>1. j \in 1..m /\ r[j] = s[j]
      BY <1>1, <1>2, <2>3
    <3> QED
      BY <2>1, <3>1 DEF Increasing, m
  <2> QED
    BY <2>2, <2>3
<1>4. ASSUME NEW i \in 1..k
      PROVE  /\ ActiveBefore(r, i) = ActiveBefore(s, i)
             /\ ShownBefore(r, i) = ShownBefore(s, i)
             /\ LastAt(r, ActiveBefore(r, i)) = LastAt(s, ActiveBefore(s, i))
             /\ LastAt(r, ShownBefore(r, i)) = LastAt(s, ShownBefore(s, i))
  <2>1. i \in Nat \ {0} /\ i - 1 <= Len(s) /\ i - 1 <= Len(r)
    BY <1>1, <1>2 DEF m
  <2>2. \A h \in 1..i-1 : r[h] = s[h]
    BY <1>1, <1>2
  <2>3. \A h \in 1..i-1 : /\ r[h].at = s[h].at /\ r[h].deleted = s[h].deleted
                          /\ r[h].late = s[h].late
    BY <2>2
  <2> QED
    BY <1>1, <2>1, <2>3, BeforeSame
<1>5. \A i \in 1..Len(r) : i \in 1..k /\ (i = k \/ i \in 1..m)
  BY <1>1, <1>2
<1>6. /\ l.num = Cardinality(ActiveBefore(r, k)) /\ l.num \in 0..k-1
      /\ l.num = 0 => l.time = Since(r, k, ActiveBefore(r, k)) /\ l.time = l.at
      /\ l.num # 0 => l.time = Since(r, k, ShownBefore(r, k))
  <2>1. k \in 1..k
    BY <1>2
  <2>2. /\ ActiveBefore(s, k) \subseteq 1..k-1 /\ IsFiniteSet(ActiveBefore(s, k))
        /\ Cardinality(ActiveBefore(s, k)) \in 0..k-1
    BY <1>2, PlacesBefore
  <2>3. l.num = Cardinality(ActiveBefore(s, k)) /\ l.at \in 0..MaxTime
    BY DEF k, m, LapSet
  <2>4. ASSUME l.num = 0
        PROVE  l.time = Since(r, k, ActiveBefore(r, k)) /\ l.time = l.at
    <3>1. ActiveBefore(s, k) = {}
      BY <2>2, <2>3, <2>4, FS_EmptySet
    <3>2. LastAt(s, ActiveBefore(s, k)) = 0 /\ l.time = l.at - 0
      BY <2>4, <3>1 DEF LastAt
    <3> QED
      BY <1>1, <1>4, <2>1, <2>3, <3>2 DEF Since
  <2>5. ASSUME l.num # 0
        PROVE  l.time = Since(r, k, ShownBefore(r, k))
    BY <1>1, <1>4, <2>1, <2>5 DEF Since, k, m
  <2> QED
    BY <1>4, <2>1, <2>2, <2>3, <2>4, <2>5
<1>7. l.time \in 0..l.at
  <2>1. CASE l.num = 0
    BY <1>6, <2>1 DEF LapSet
  <2>2. CASE l.num # 0
    <3>1. k \in 1..Len(r)
      BY <1>1, <1>2
    <3>4. ShownBefore(r, k) \in SUBSET (1..k-1)
      BY <1>1, <1>2, PlacesBefore, Zenon
    <3>2. Since(r, k, ShownBefore(r, k)) \in 0..r[k].at
      BY <1>1, <1>3, <3>1, <3>4, SinceBounds
    <3> QED
      BY <1>1, <1>6, <2>2, <3>2
  <2> QED
    BY <2>1, <2>2
<1>8. Measured(r)
  <2> SUFFICES ASSUME NEW i \in 1..Len(r)
               PROVE  r[i].time \in 0..r[i].at /\ r[i].num \in {None} \cup 0..i-1
    BY DEF Measured
  <2>1. CASE i = k
    BY <1>1, <1>6, <1>7, <2>1
  <2>2. CASE i \in 1..m
    BY <1>1, <2>2 DEF Measured, m
  <2> QED
    BY <1>5, <2>1, <2>2
<1>9. Numbered(r)
  <2> SUFFICES ASSUME NEW i \in 1..Len(r), ~r[i].deleted
               PROVE  r[i].num = Cardinality(ActiveBefore(r, i))
    BY DEF Numbered
  <2>1. CASE i = k
    BY <1>1, <1>6, <2>1
  <2>2. CASE i \in 1..m
    BY <1>1, <1>4, <1>5, <2>2 DEF Numbered, m
  <2> QED
    BY <1>5, <2>1, <2>2
<1>10. ASSUME TimedWell(s) PROVE TimedWell(r)
  <2> SUFFICES ASSUME NEW i \in 1..Len(r), ~r[i].deleted
               PROVE  r[i].time \in {Since(r, i, ActiveBefore(r, i)),
                                     Since(r, i, ShownBefore(r, i))}
    BY DEF TimedWell
  <2>1. CASE i = k
    BY <1>1, <1>6, <2>1
  <2>2. CASE i \in 1..m
    <3>1. s[i].time \in {Since(s, i, ActiveBefore(s, i)), Since(s, i, ShownBefore(s, i))}
      BY <1>1, <1>10, <2>2 DEF TimedWell, m
    <3> QED
      BY <1>1, <1>4, <1>5, <2>2, <3>1 DEF Since
  <2> QED
    BY <1>5, <2>1, <2>2
<1> QED
  BY <1>3, <1>8, <1>9, <1>10

\* Restoring a lap: it and the laps after it are recalculated.
LEMMA RestoreKeeps ==
  ASSUME NEW s \in Seq(LapSet), NEW i \in 1..Len(s), s[i].deleted, NEW r,
         r = CalcTimes([s EXCEPT ![i].deleted = FALSE, ![i].late = FALSE], i)
  PROVE  Recalculated(r, s, i)
<1> DEFINE back == [s EXCEPT ![i].deleted = FALSE, ![i].late = FALSE]
<1>1. Len(s) \in Nat /\ s \in [1..Len(s) -> LapSet] /\ s[i] \in LapSet
  OBVIOUS
<1>2. back = [s EXCEPT ![i] = [s[i] EXCEPT !.deleted = FALSE, !.late = FALSE]]
  BY <1>1
<1>3. [s[i] EXCEPT !.deleted = FALSE, !.late = FALSE] \in LapSet
  BY <1>1 DEF LapSet
<1> DEFINE l == [s[i] EXCEPT !.deleted = FALSE, !.late = FALSE]
<1>4. /\ l \in LapSet /\ l.at = s[i].at /\ l.num = s[i].num /\ l.time = s[i].time
      /\ l.deleted = FALSE
  BY <1>1 DEF LapSet
<1>5. back = [s EXCEPT ![i] = l]
  BY <1>2
<1> HIDE DEF back, l
<1>6. /\ back \in Seq(LapSet) /\ Len(back) = Len(s) /\ back[i] = l
      /\ \A j \in 1..Len(s) : j # i => back[j] = s[j]
  BY <1>1, <1>4, <1>5
<1>7. /\ Recalculated(r, back, i)
      /\ \A j \in 1..Len(s) : r[j].deleted = back[j].deleted
  <2>1. r = CalcTimes(back, i) /\ i \in Nat
    BY DEF back
  <2>2. PICK b : b = back
    OBVIOUS
  <2>3. b \in Seq(LapSet) /\ r = CalcTimes(b, i) /\ Len(b) = Len(s)
    BY <1>6, <2>1, <2>2
  <2>4. /\ Recalculated(r, b, i)
        /\ \A j \in 1..Len(b) : r[j].deleted = b[j].deleted
    BY ZenonT(40), <2>1, <2>3, CalcTimesIs
  <2> QED
    BY <2>2, <2>3, <2>4
<1>8. ASSUME NEW j \in 1..Len(s)
      PROVE  /\ back[j].at = s[j].at /\ back[j].num = s[j].num /\ back[j].time = s[j].time
             /\ j < i => back[j] = s[j]
  BY <1>4, <1>6
<1> QED
  BY ZenonT(40), <1>6, <1>7, <1>8 DEF Recalculated

\* Deleting a lap leaves the others, with other numbers.
LEMMA RenumberedIs ==
  ASSUME NEW s \in Seq(LapSet), NEW i \in 1..Len(s), NEW r, r = Renumbered(s, i)
  PROVE  /\ r \in Seq(LapSet) /\ Len(r) = Len(s) /\ Numbered(r)
         /\ \A j \in 1..Len(s) : /\ r[j].at = s[j].at /\ r[j].time = s[j].time
                                 /\ r[j].deleted = (s[j].deleted \/ j = i)
                                 /\ s[j].deleted \/ j = i => r[j].late = s[j].late
                                 /\ r[j].num \in {None} \cup 0..j-1
<1> DEFINE gone == [s EXCEPT ![i].deleted = TRUE]
           num(j) == Cardinality(ActiveBefore(gone, j))
           done(j) == ~gone[j].deleted /\ RecheckDone(num(j), gone[j].at)
           late(j) == \E k \in 1..j-1 : done(k)
<1>1. Len(s) \in Nat /\ s \in [1..Len(s) -> LapSet] /\ DOMAIN s = 1..Len(s)
  OBVIOUS
<1>2. r = [j \in 1..Len(s) |-> IF gone[j].deleted THEN [gone[j] EXCEPT !.num = None]
                               ELSE [gone[j] EXCEPT !.num = num(j), !.late = late(j)]]
  BY <1>1, Zenon DEF Renumbered
<1>3. /\ gone \in Seq(LapSet) /\ Len(gone) = Len(s)
      /\ \A j \in 1..Len(s) : /\ gone[j].at = s[j].at /\ gone[j].time = s[j].time
                              /\ gone[j].late = s[j].late
                              /\ gone[j].deleted = (s[j].deleted \/ j = i)
  <2> DEFINE l == [s[i] EXCEPT !.deleted = TRUE]
  <2>1. /\ l \in LapSet /\ l.at = s[i].at /\ l.time = s[i].time /\ l.late = s[i].late
        /\ l.deleted = TRUE
    BY <1>1 DEF LapSet
  <2>2. gone = [s EXCEPT ![i] = l]
    OBVIOUS
  <2> HIDE DEF gone, l
  <2>3. /\ gone \in Seq(LapSet) /\ Len(gone) = Len(s) /\ gone[i] = l
        /\ \A j \in 1..Len(s) : j # i => gone[j] = s[j]
    BY <1>1, <2>1, <2>2
  <2>4. \A j \in 1..Len(s) : s[j].deleted \in BOOLEAN
    BY <1>1 DEF LapSet
  <2> QED
    BY <2>1, <2>3, <2>4
<1> HIDE DEF gone
<1>4. ASSUME NEW j \in 1..Len(s)
      PROVE  num(j) \in 0..j-1 /\ late(j) \in BOOLEAN /\ gone[j] \in LapSet
  <2>1. j \in Nat \ {0}
    OBVIOUS
  <2>2. Cardinality(ActiveBefore(gone, j)) \in 0..j-1
    BY <1>3, <2>1, PlacesBefore, Zenon
  <2> QED
    BY <1>3, <2>2
<1> HIDE DEF num, late
<1>5. ASSUME NEW j \in 1..Len(s)
      PROVE  /\ r[j] \in LapSet /\ r[j].at = gone[j].at /\ r[j].time = gone[j].time
             /\ r[j].deleted = gone[j].deleted
             /\ gone[j].deleted => r[j].num = None /\ r[j].late = gone[j].late
             /\ ~gone[j].deleted => r[j].num = num(j)
  <2> DEFINE b == late(j)
             c == num(j)
  <2>1. b \in BOOLEAN /\ c \in Int /\ gone[j] \in LapSet /\ None \in Int
    BY <1>4, BoundsTyped
  <2>2. r[j] = IF gone[j].deleted THEN [gone[j] EXCEPT !.num = None]
               ELSE [gone[j] EXCEPT !.num = c, !.late = b]
    BY <1>2
  <2>3. c = num(j)
    OBVIOUS
  <2> HIDE DEF b, c
  <2>4. CASE gone[j].deleted
    BY ZenonT(40), <2>1, <2>2, <2>4 DEF LapSet
  <2>5. CASE ~gone[j].deleted
    BY <2>1, <2>2, <2>3, <2>5 DEF LapSet
  <2> QED
    BY <2>4, <2>5
<1>6. r \in Seq(LapSet) /\ Len(r) = Len(s)
  <2>1. r = [j \in 1..Len(s) |-> r[j]]
    BY <1>2, Zenon
  <2>2. r \in [1..Len(s) -> LapSet]
    BY <1>5, <2>1
  <2> QED
    BY <1>1, <2>2
<1>7. ASSUME NEW j \in 1..Len(s) PROVE ActiveBefore(r, j) = ActiveBefore(gone, j)
  <2>1. \A k \in 1..j-1 : k \in 1..Len(s)
    BY <1>1
  <2>2. \A k \in 1..j-1 : r[k].deleted = gone[k].deleted
    BY <1>5, <2>1
  <2> QED
    BY <2>2 DEF ActiveBefore
<1>8. Numbered(r)
  <2> SUFFICES ASSUME NEW j \in 1..Len(s), ~r[j].deleted
               PROVE  r[j].num = Cardinality(ActiveBefore(r, j))
    BY <1>6 DEF Numbered
  <2>1. r[j].num = num(j)
    BY <1>5
  <2> QED
    BY <1>7, <2>1 DEF num
<1> QED
  BY ZenonT(90), <1>3, <1>4, <1>5, <1>6, <1>8

\* rest is s without lap i, apart from numbers and late laps.
Without(rest, s, i) ==
  /\ rest \in Seq(LapSet) /\ Len(rest) = Len(s)
  /\ \A j \in 1..Len(s) : /\ rest[j].at = s[j].at /\ rest[j].time = s[j].time
                          /\ rest[j].deleted = (s[j].deleted \/ j = i)
                          /\ s[j].deleted \/ j = i => rest[j].late = s[j].late
                          /\ rest[j].num \in {None} \cup 0..j-1

\* r is rest with time d at place m (nowhere if m is 0).
WithTime(r, rest, m, d) ==
  /\ r \in Seq(LapSet) /\ Len(r) = Len(rest)
  /\ \A j \in 1..Len(rest) :
       /\ r[j].at = rest[j].at /\ r[j].deleted = rest[j].deleted
       /\ r[j].late = rest[j].late /\ r[j].num = rest[j].num
       /\ j # m => r[j].time = rest[j].time
       /\ j = m => r[j].time = d

LEMMA WithTimeKeeps ==
  ASSUME NEW s \in Seq(LapSet), Increasing(s), Measured(s), NEW i,
         NEW rest, Without(rest, s, i), Numbered(rest),
         NEW r, NEW m, NEW d, WithTime(r, rest, m, d),
         m \in 1..Len(s) => d \in 0..s[m].at
  PROVE  Increasing(r) /\ Measured(r) /\ Numbered(r)
<1>1. /\ rest \in Seq(LapSet) /\ r \in Seq(LapSet) /\ Len(rest) = Len(s) /\ Len(r) = Len(s)
      /\ Len(s) \in Nat
  BY DEF Without, WithTime
<1>2. ASSUME NEW j \in 1..Len(s)
      PROVE  /\ r[j].at = s[j].at /\ r[j].deleted = rest[j].deleted
             /\ r[j].num = rest[j].num /\ r[j].num \in {None} \cup 0..j-1
             /\ j # m => r[j].time = s[j].time
             /\ j = m => r[j].time = d
  BY <1>1 DEF Without, WithTime
<1>3. Increasing(r)
  <2> SUFFICES ASSUME NEW h \in 1..Len(s), NEW j \in 1..Len(s), h < j
               PROVE  r[h].at < r[j].at
    BY <1>1 DEF Increasing
  <2> QED
    BY <1>2 DEF Increasing
<1>4. Measured(r)
  <2> SUFFICES ASSUME NEW j \in 1..Len(s)
               PROVE  r[j].time \in 0..r[j].at /\ r[j].num \in {None} \cup 0..j-1
    BY <1>1 DEF Measured
  <2>1. s[j].time \in 0..s[j].at
    BY DEF Measured
  <2> QED
    BY <1>2, <2>1
<1>5. Numbered(r)
  <2> SUFFICES ASSUME NEW j \in 1..Len(s), ~r[j].deleted
               PROVE  r[j].num = Cardinality(ActiveBefore(r, j))
    BY <1>1 DEF Numbered
  <2>1. rest[j].num = Cardinality(ActiveBefore(rest, j))
    BY <1>1, <1>2 DEF Numbered
  <2>2. \A k \in 1..j-1 : k \in 1..Len(s)
    BY <1>1
  <2>3. ActiveBefore(r, j) = ActiveBefore(rest, j)
    BY <1>2, <2>2 DEF ActiveBefore
  <2> QED
    BY <1>2, <2>1, <2>3
<1> QED
  BY <1>3, <1>4, <1>5

\* The laps shown without lap i, those of them after it and those before it.
ShownLaps(rest) == {j \in 1..Len(rest) : ~rest[j].deleted \/ rest[j].late}
ShownAfter(rest, i) == {j \in ShownLaps(rest) : j > i}
ShownUpTo(rest, i) == {j \in ShownLaps(rest) : j < i}
\* The place of the lap that takes over the time, or 0.
Heir(rest, i) == IF ShownAfter(rest, i) = {} THEN 0 ELSE Min(ShownAfter(rest, i))
Inherited(s, rest, i) == s[Heir(rest, i)].at - LastAt(s, ShownUpTo(rest, i))

\* The lap after the deleted one takes over its time.
LEMMA DeletedIs ==
  ASSUME NEW s \in Seq(LapSet), NEW i \in 1..Len(s), Increasing(s), Measured(s),
         NEW rest, rest = Renumbered(s, i), NEW r, r = Deleted(s, i)
  PROVE  /\ Without(rest, s, i) /\ Numbered(rest)
         /\ WithTime(r, rest, Heir(rest, i), Inherited(s, rest, i))
         /\ Heir(rest, i) # 0 => /\ Heir(rest, i) \in ShownAfter(rest, i)
                                 /\ \A j \in ShownAfter(rest, i) : Heir(rest, i) <= j
                                 /\ Inherited(s, rest, i) \in 0..s[Heir(rest, i)].at
         /\ Heir(rest, i) = 0 => ShownAfter(rest, i) = {}
<1>1. Len(s) \in Nat /\ s \in [1..Len(s) -> LapSet] /\ DOMAIN s = 1..Len(s)
  OBVIOUS
<1>2. Without(rest, s, i) /\ Numbered(rest)
  BY RenumberedIs DEF Without
<1>3. rest \in Seq(LapSet) /\ Len(rest) = Len(s)
  BY <1>2 DEF Without
<1> DEFINE next == ShownAfter(rest, i)
           prev == ShownUpTo(rest, i)
           m == Heir(rest, i)
           d == Inherited(s, rest, i)
<1>4. ASSUME NEW j \in 1..Len(s)
      PROVE  /\ s[j].at \in 0..MaxTime
             /\ (s[j].at > s[i].at <=> j > i) /\ (s[j].at < s[i].at <=> j < i)
  <2>1. s[j] \in LapSet /\ s[i] \in LapSet
    BY <1>1
  <2>2. s[j].at \in 0..MaxTime /\ s[i].at \in 0..MaxTime
    BY <2>1 DEF LapSet
  <2>3. (j < i => s[j].at < s[i].at) /\ (i < j => s[i].at < s[j].at)
    BY DEF Increasing
  <2> QED
    BY <2>2, <2>3, BoundsTyped
<1>5. /\ next = {j \in ShownLaps(rest) : s[j].at > s[i].at}
      /\ prev = {j \in ShownLaps(rest) : s[j].at < s[i].at}
  BY <1>3, <1>4 DEF ShownAfter, ShownUpTo, ShownLaps
<1>6. /\ ShownLaps(rest) = {j \in DOMAIN s : ~rest[j].deleted \/ rest[j].late}
      /\ next \in SUBSET Nat /\ prev \in SUBSET (1..i-1) /\ next \subseteq 1..Len(s)
      /\ \A j \in next : j > i
  BY <1>1, <1>3 DEF ShownAfter, ShownUpTo, ShownLaps
<1> HIDE DEF next, prev
<1>7. r = IF next = {} THEN rest
          ELSE [rest EXCEPT ![Min(next)].time = s[Min(next)].at - LastAt(s, prev)]
  BY <1>5, <1>6, Zenon DEF Deleted
<1>8. next # {} => Min(next) \in next /\ \A j \in next : Min(next) <= j
  BY <1>6, MinOfSome
<1>9. /\ next = {} => m = 0
      /\ next # {} => m = Min(next)
      /\ d = s[m].at - LastAt(s, prev)
  BY DEF Heir, Inherited, next, prev
<1> HIDE DEF m, d
<1>10. next # {} => m \in next /\ m \in 1..Len(s) /\ m > i /\ m # 0
  <2> SUFFICES ASSUME next # {} PROVE m \in next /\ m \in 1..Len(s) /\ m > i /\ m # 0
    OBVIOUS
  <2>1. m \in next /\ m \in 1..Len(s)
    BY <1>6, <1>8, <1>9, Zenon
  <2>2. m > i
    BY <1>6, <2>1
  <2> QED
    BY <2>1, <2>2
<1>11. LastAt(s, prev) \in 0..s[i].at
  <2>1. Since(s, i, prev) \in 0..s[i].at
    BY <1>6, SinceBounds
  <2>2. i - 1 \in 0..Len(s) /\ s[i].at \in 0..MaxTime
    BY <1>1, <1>4
  <2>3. LastAt(s, prev) \in 0..MaxTime
    BY <1>6, <2>2, LastAtIs
  <2> QED
    BY <2>1, <2>2, <2>3, BoundsTyped DEF Since
<1>12. next # {} => d \in 0..s[m].at
  <2> SUFFICES ASSUME next # {} PROVE d \in 0..s[m].at
    OBVIOUS
  <2>1. s[m].at \in 0..MaxTime /\ s[i].at \in 0..MaxTime /\ s[m].at > s[i].at
    BY <1>4, <1>10
  <2> QED
    BY <1>9, <1>11, <2>1, BoundsTyped
<1>13. WithTime(r, rest, m, d)
  <2>1. CASE next = {}
    <3>1. r = rest /\ m = 0
      BY <1>7, <1>9, <2>1
    <3> QED
      BY <1>3, <3>1 DEF WithTime
  <2>2. CASE next # {}
    <3>1. d \in Int /\ rest[m] \in LapSet /\ m \in 1..Len(s)
      <4>1. s[m].at \in 0..MaxTime
        BY <1>4, <1>10, <2>2
      <4> QED
        BY <1>3, <1>10, <1>12, <2>2, <4>1, BoundsTyped
    <3>2. PICK l : l = [rest[m] EXCEPT !.time = d]
      OBVIOUS
    <3>3. r = [rest EXCEPT ![m] = l]
      BY <1>7, <1>9, <2>2, <3>2, Zenon
    <3>4. /\ l \in LapSet /\ l.at = rest[m].at /\ l.deleted = rest[m].deleted
          /\ l.late = rest[m].late /\ l.num = rest[m].num /\ l.time = d
      BY <3>1, <3>2 DEF LapSet
    <3>5. /\ r \in Seq(LapSet) /\ Len(r) = Len(rest) /\ r[m] = l
          /\ \A j \in 1..Len(s) : j # m => r[j] = rest[j]
      BY <1>1, <1>3, <3>1, <3>3, <3>4
    <3> QED
      BY <1>3, <3>4, <3>5 DEF WithTime
  <2> QED
    BY <2>1, <2>2
<1>14. m = 0 => next = {}
  BY <1>10
<1>15. m # 0 => m \in next /\ (\A j \in next : m <= j) /\ d \in 0..s[m].at
  BY <1>8, <1>9, <1>10, <1>12
<1>16. WithTime(r, rest, Heir(rest, i), Inherited(s, rest, i))
  BY <1>13 DEF m, d
<1>17. Heir(rest, i) # 0 => /\ Heir(rest, i) \in ShownAfter(rest, i)
                           /\ \A j \in ShownAfter(rest, i) : Heir(rest, i) <= j
                           /\ Inherited(s, rest, i) \in 0..s[Heir(rest, i)].at
  BY <1>15 DEF m, d, next
<1>18. Heir(rest, i) = 0 => ShownAfter(rest, i) = {}
  BY <1>14 DEF m, next
<1> QED
  BY <1>2, <1>16, <1>17, <1>18

\* If no active lap is late or after a late one, the times remain right.
LEMMA DeletedTimes ==
  ASSUME NEW s \in Seq(LapSet), NEW i \in 1..Len(s), ~s[i].deleted,
         NEW r, r = Deleted(s, i),
         Increasing(s), Measured(s), TimedWell(s), LateLast(s)
  PROVE  TimedWell(r)
<1>1. PICK rest : rest = Renumbered(s, i)
  OBVIOUS
<1>2. PICK m : m = Heir(rest, i)
  OBVIOUS
<1>3. PICK d : d = Inherited(s, rest, i)
  OBVIOUS
<1>4. PICK shown : shown = ShownLaps(rest)
  OBVIOUS
<1>5. /\ Without(rest, s, i) /\ WithTime(r, rest, m, d)
      /\ m # 0 => /\ m \in ShownAfter(rest, i)
                  /\ \A j \in ShownAfter(rest, i) : m <= j
      /\ m = 0 => ShownAfter(rest, i) = {}
  BY <1>1, <1>2, <1>3, DeletedIs
<1>6. /\ Len(s) \in Nat /\ r \in Seq(LapSet) /\ Len(r) = Len(s) /\ Len(rest) = Len(s)
      /\ \A j \in 1..Len(s) :
           /\ r[j].at = s[j].at /\ r[j].deleted = (s[j].deleted \/ j = i)
           /\ j # m => r[j].time = s[j].time
           /\ j = m => r[j].time = d
  BY <1>5 DEF Without, WithTime
\* Before an active lap, the laps shown are active.
<1>7. ASSUME NEW j \in 1..Len(s), ~s[j].deleted, NEW k \in 1..Len(s), k < j
      PROVE  ~s[k].late
  BY <1>7 DEF LateLast
<1>8. ~s[i].late
  BY DEF LateLast
<1>9. \A k \in 1..Len(s) : k \in shown => k # i /\ (s[k].deleted => s[k].late)
  BY <1>4, <1>5, <1>6, <1>8 DEF ShownLaps, Without
<1>10. \A k \in 1..Len(s) : ~s[k].deleted /\ k # i => k \in shown
  BY <1>4, <1>5, <1>6 DEF ShownLaps, Without
<1>11. ASSUME NEW j \in 1..Len(s), ~r[j].deleted
       PROVE  r[j].time = Since(r, j, ActiveBefore(r, j))
  <2>1. ~s[j].deleted /\ j # i /\ r[j].at = s[j].at
    BY <1>6, <1>11
  <2>2. \A k \in 1..j-1 : k \in 1..Len(s) /\ k < j
    BY <1>6
  <2>3. ActiveBefore(r, j) = ActiveBefore(s, j) \ {i}
    BY <1>6, <2>2 DEF ActiveBefore
  <2>4. ShownBefore(s, j) = ActiveBefore(s, j)
    <3>1. \A k \in 1..j-1 : ~s[k].late
      BY <1>7, <2>1, <2>2
    <3> QED
      BY <3>1 DEF ShownBefore, ActiveBefore
  <2>5. s[j].time = s[j].at - LastAt(s, ActiveBefore(s, j))
    BY <2>1, <2>4 DEF TimedWell, Since
  <2>6. /\ j - 1 \in Nat /\ j - 1 <= Len(s) /\ j - 1 <= Len(r) /\ j \in Nat \ {0}
        /\ j - 1 \in 0..Len(s)
    BY <1>6
  <2>7. ActiveBefore(s, j) \in SUBSET (1..j-1) /\ ActiveBefore(r, j) \in SUBSET (1..j-1)
    BY <1>6, <2>6, PlacesBefore
  <2>8. LastAt(r, ActiveBefore(r, j)) = LastAt(s, ActiveBefore(r, j))
    <3>1. \A k \in 1..j-1 : r[k].at = s[k].at
      BY <1>6, <2>2
    <3> QED
      BY <1>6, <2>6, <2>7, <3>1, LastAtSame
  <2>9. CASE j = m
    <3> DEFINE prev == ShownUpTo(rest, i)
    <3>1. j > i /\ \A k \in ShownAfter(rest, i) : j <= k
      BY <1>5, <2>9 DEF ShownAfter
    <3>2. ActiveBefore(r, j) = prev
      <4>1. ASSUME NEW k \in 1..j-1, ~s[k].deleted, k # i
            PROVE  k \in prev
        <5>1. k \in 1..Len(s) /\ k < j /\ k \in shown
          BY <1>10, <2>2, <4>1
        <5>2. ~(k > i)
          BY <1>4, <3>1, <5>1 DEF ShownAfter
        <5> QED
          BY <1>4, <4>1, <5>1, <5>2 DEF ShownUpTo
      <4>2. ASSUME NEW k \in prev
            PROVE  k \in 1..j-1 /\ ~s[k].deleted /\ k # i
        <5>1. k \in shown /\ k < i /\ k \in 1..Len(s)
          BY <1>4, <1>6 DEF ShownUpTo, ShownLaps
        <5>2. ~s[k].late
          BY <1>7, <5>1
        <5> QED
          BY <1>9, <3>1, <5>1, <5>2
      <4>3. \A k : k \in ActiveBefore(r, j) <=> k \in 1..j-1 /\ ~s[k].deleted /\ k # i
        BY <2>3 DEF ActiveBefore
      <4> QED
        BY <4>1, <4>2, <4>3
    <3>3. r[j].time = s[j].at - LastAt(s, prev)
      BY <1>2, <1>3, <1>6, <2>9 DEF Inherited
    <3> QED
      BY <2>1, <2>8, <3>2, <3>3 DEF Since
  <2>10. CASE j # m
    <3>1. r[j].time = s[j].time
      BY <1>6, <2>10
    <3>2. CASE j < i
      <4>1. i \notin ActiveBefore(s, j)
        BY <3>2, <2>7
      <4> QED
        BY <2>1, <2>3, <2>5, <2>8, <3>1, <4>1 DEF Since
    <3>3. CASE j > i
      <4>1. j \in ShownAfter(rest, i)
        BY <1>4, <1>10, <2>1, <3>3 DEF ShownAfter
      <4>2. m \in 1..Len(s) /\ m \in shown /\ m > i /\ m < j
        <5>1. m # 0
          BY <1>5, <4>1
        <5>2. m \in ShownAfter(rest, i) /\ m <= j
          BY <1>5, <4>1, <5>1
        <5> QED
          BY <1>4, <1>6, <2>10, <5>2 DEF ShownAfter, ShownLaps
      <4>3. m \in 1..j-1 /\ m > i /\ ~s[m].late /\ ~s[m].deleted
        <5>1. ~s[m].late
          BY <1>7, <2>1, <4>2
        <5> QED
          BY <1>9, <4>2, <5>1
      <4>4. m \in ActiveBefore(s, j) /\ m \in ActiveBefore(r, j)
        BY <2>3, <4>3 DEF ActiveBefore
      <4>5. LastAt(s, ActiveBefore(r, j)) = LastAt(s, ActiveBefore(s, j))
        <5>1. PICK a : a = Max(ActiveBefore(s, j))
          OBVIOUS
        <5>2. PICK b : b = Max(ActiveBefore(r, j))
          OBVIOUS
        <5>3. /\ a \in ActiveBefore(s, j) /\ \A k \in ActiveBefore(s, j) : k <= a
              /\ LastAt(s, ActiveBefore(s, j)) = s[a].at
          BY <2>6, <2>7, <4>4, <5>1, LastAtIs
        <5>4. /\ b \in ActiveBefore(r, j) /\ \A k \in ActiveBefore(r, j) : k <= b
              /\ LastAt(s, ActiveBefore(r, j)) = s[b].at
          BY <2>6, <2>7, <4>4, <5>2, LastAtIs
        <5>5. a \in Nat /\ b \in Nat /\ m <= a
          BY <2>7, <4>4, <5>3, <5>4
        <5>6. a # i /\ a \in ActiveBefore(r, j) /\ b \in ActiveBefore(s, j)
          BY <2>3, <4>3, <5>3, <5>4, <5>5
        <5>7. a = b
          BY <5>3, <5>4, <5>5, <5>6
        <5> QED
          BY <5>3, <5>4, <5>7
      <4> QED
        BY <2>1, <2>5, <2>8, <3>1, <4>5 DEF Since
    <3> QED
      BY <2>1, <3>2, <3>3
  <2> QED
    BY <2>9, <2>10
<1> QED
  BY <1>6, <1>11 DEF TimedWell

-----------------------------------------------------------------------------
(* A lap is added.                                                         *)

\* r is s with lap l added, and some laps deleted.
Adds(r, s, l) ==
  /\ r \in Seq(LapSet) /\ Len(r) = Len(s) + 1
  /\ \A i \in 1..Len(s) : /\ r[i].at = s[i].at /\ r[i].late = s[i].late
                          /\ s[i].deleted => r[i].deleted
                          /\ ~r[i].deleted => r[i].num <= s[i].num
  /\ LET k == Len(s) + 1 IN
     /\ r[k].at = l.at /\ r[k].late = l.late
     /\ l.deleted => r[k].deleted
     /\ ~r[k].deleted => r[k].num <= l.num

LEMMA FewerBefore ==
  ASSUME NEW s \in Seq(LapSet), NEW r \in Seq(LapSet), NEW i \in Nat \ {0},
         \A k \in 1..i-1 : s[k].deleted => r[k].deleted
  PROVE  Cardinality(ActiveBefore(r, i)) <= Cardinality(ActiveBefore(s, i))
<1>1. ActiveBefore(r, i) \subseteq ActiveBefore(s, i)
  BY DEF ActiveBefore
<1>2. IsFiniteSet(ActiveBefore(s, i))
  BY PlacesBefore
<1> QED
  BY <1>1, <1>2, FS_Subset

LEMMA WithLapKeeps ==
  ASSUME NEW s \in Seq(LapSet), NEW l \in LapSet, NEW r, r = WithLap(s, l),
         Increasing(s), Measured(s), Numbered(s), Follows(l, s)
  PROVE  /\ Adds(r, s, l)
         /\ Increasing(r) /\ Measured(r) /\ Numbered(r)
         /\ TimedWell(s) => TimedWell(r)
<1>1. PICK a : a = Append(s, l)
  OBVIOUS
<1>9. Appended(a, s, l)
  BY <1>1 DEF Appended
<1>2. /\ a \in Seq(LapSet) /\ Len(a) = Len(s) + 1 /\ a[Len(s) + 1] = l
      /\ \A i \in 1..Len(s) : a[i] = s[i]
      /\ Increasing(a) /\ Measured(a) /\ Numbered(a)
      /\ TimedWell(s) => TimedWell(a)
  <2>1. /\ Increasing(a) /\ Measured(a) /\ Numbered(a)
        /\ TimedWell(s) => TimedWell(a)
    BY <1>9, AppendKeeps
  <2> QED
    BY <1>9, <2>1 DEF Appended
<1>3. Len(s) \in Nat /\ a # <<>> /\ \A i \in 1..Len(a) : i \in 1..Len(s) \/ i = Len(s) + 1
  BY <1>2
<1>4. ASSUME NEW i \in 1..Len(a) PROVE a[i] \in LapSet /\ a[i].num \in Int
  <2>1. a[i] \in LapSet
    BY <1>2
  <2> QED
    BY <2>1 DEF LapSet
<1>5. \/ r = a
      \/ r = FilterByPeak(a, format.minLap)
  BY <1>1 DEF WithLap
<1>6. /\ r \in Seq(LapSet) /\ Len(r) = Len(a)
      /\ \A i \in 1..Len(a) : /\ r[i].at = a[i].at /\ r[i].late = a[i].late
                              /\ a[i].deleted => r[i].deleted
      /\ Increasing(r) /\ Measured(r) /\ Numbered(r)
      /\ TimedWell(s) => TimedWell(r)
  <2>1. CASE r = a
    BY <1>2, <2>1
  <2>2. CASE r = FilterByPeak(a, format.minLap)
    <3>1. /\ r = a \/ \E from \in Nat : Recalculated(r, a, from)
          /\ \A i \in 1..Len(a) : /\ a[i].deleted => r[i].deleted
                                  /\ r[i].late = a[i].late
      BY <1>2, <1>3, <2>2, FilterByPeakIs
    <3>2. CASE r = a
      BY <1>2, <3>2
    <3>3. ASSUME NEW from \in Nat, Recalculated(r, a, from)
          PROVE  /\ r \in Seq(LapSet) /\ Len(r) = Len(a)
                 /\ \A i \in 1..Len(a) : r[i].at = a[i].at
                 /\ Increasing(r) /\ Measured(r) /\ Numbered(r)
                 /\ TimedWell(s) => TimedWell(r)
      <4>1. /\ r \in Seq(LapSet) /\ Len(r) = Len(a)
            /\ \A i \in 1..Len(a) : r[i].at = a[i].at
        BY <3>3 DEF Recalculated
      <4>2. /\ Increasing(r) /\ Measured(r) /\ Numbered(r)
            /\ TimedWell(a) => TimedWell(r)
        BY <1>2, <3>3, RecalculatedKeeps
      <4> QED
        BY <1>2, <4>1, <4>2
    <3> QED
      BY <3>1, <3>2, <3>3
  <2> QED
    BY <1>5, <2>1, <2>2
<1>7. ASSUME NEW i \in 1..Len(a), ~r[i].deleted PROVE r[i].num <= a[i].num
  <2>1. ~a[i].deleted
    BY <1>6, <1>7
  <2>2. r[i].num = Cardinality(ActiveBefore(r, i)) /\ a[i].num = Cardinality(ActiveBefore(a, i))
    BY <1>2, <1>6, <1>7, <2>1 DEF Numbered
  <2>3. \A k \in 1..i-1 : k \in 1..Len(a)
    BY <1>2, <1>3
  <2>4. \A k \in 1..i-1 : a[k].deleted => r[k].deleted
    BY <1>6, <2>3
  <2>5. i \in Nat \ {0}
    OBVIOUS
  <2>6. Cardinality(ActiveBefore(r, i)) <= Cardinality(ActiveBefore(a, i))
    BY <1>2, <1>6, <2>4, <2>5, FewerBefore
  <2> QED
    BY <2>2, <2>6
<1>8. Adds(r, s, l)
  <2>1. ASSUME NEW i \in 1..Len(s)
        PROVE  /\ r[i].at = s[i].at /\ r[i].late = s[i].late
               /\ s[i].deleted => r[i].deleted
               /\ ~r[i].deleted => r[i].num <= s[i].num
    <3>1. i \in 1..Len(a) /\ a[i] = s[i]
      BY <1>2, <1>3
    <3> QED
      BY <1>6, <1>7, <3>1
  <2>2. PICK k : k = Len(s) + 1
    OBVIOUS
  <2>3. k \in 1..Len(a) /\ a[k] = l
    BY <1>2, <1>3, <2>2
  <2>4. /\ r[k].at = l.at /\ r[k].late = l.late
        /\ l.deleted => r[k].deleted
        /\ ~r[k].deleted => r[k].num <= l.num
    BY <1>6, <1>7, <2>3
  <2> QED
    BY <1>2, <1>6, <2>1, <2>2, <2>4 DEF Adds
<1> QED
  BY <1>6, <1>8

\* The lap that add_lap makes of a pass.
LEMMA NewLapIs ==
  ASSUME NEW n \in Nodes, laps[n] \in Seq(LapSet), NEW at \in 0..MaxTime, NEW peak \in PeakSet,
         finished[n] \in BOOLEAN, Increasing(laps[n]),
         \A i \in 1..Len(laps[n]) : laps[n][i].at < at,
         NEW l, l = NewLap(n, at, peak)
  PROVE  /\ l \in LapSet /\ l.at = at /\ l.num \in Nat /\ Follows(l, laps[n])
         /\ l.late => LateLap(n)
         /\ LateLap(n) => l.deleted
         /\ l.invalid => l.deleted
         /\ l.late => l.deleted
<1> DEFINE s == laps[n]
           k == Len(s) + 1
           num == Cardinality(ActiveBefore(s, k))
           last == LastAt(s, ShownBefore(s, k))
           time == at - IF num = 0 THEN 0 ELSE last
           ok == Valid(num, at, time)
<1>1. k \in Nat \ {0} /\ k - 1 = Len(s) /\ Len(s) \in 0..Len(s)
  OBVIOUS
<1>2. num \in Nat /\ ShownBefore(s, k) \in SUBSET (1..Len(s))
  BY <1>1, PlacesBefore
<1>3. last \in Int
  <2>1. last \in 0..MaxTime
    BY <1>1, <1>2, LastAtIs
  <2> QED
    BY <2>1
<1>4. time \in Int
  BY <1>3
<1> HIDE DEF num, last, time
<1>5. ok \in BOOLEAN
  BY DEF Valid, TooLate
<1>9. LateLap(n) \in BOOLEAN
  BY DEF LateLap
<1> HIDE DEF ok
<1>6. l = [at |-> at, time |-> time, num |-> num, peak |-> peak, invalid |-> ~ok,
           late |-> ok /\ LateLap(n), deleted |-> ~ok \/ LateLap(n)]
  BY DEF NewLap, num, last, time, ok, k, s
<1>7. l \in LapSet
  BY <1>2, <1>4, <1>5, <1>6, <1>9 DEF LapSet
<1>8. /\ l.at = at /\ l.num = num /\ l.time = time
      /\ l.invalid = ~ok /\ l.late = (ok /\ LateLap(n)) /\ l.deleted = (~ok \/ LateLap(n))
  BY <1>6
<1> QED
  <2>1. Follows(l, laps[n])
    BY <1>8 DEF Follows, num, last, time, k, s
  <2> QED
    BY <1>2, <1>5, <1>7, <1>8, <1>9, <2>1

-----------------------------------------------------------------------------
(* The verdict.                                                            *)

IsVerdict(v) == v = Verdict(v.status, v.winner, v.wait) /\ v.status \in WinStatus

LEMMA Verdicts ==
  /\ IsVerdict(Open) /\ IsVerdict(Waiting) /\ IsVerdict(Tie)
  /\ \A w : IsVerdict(Declared(w)) /\ IsVerdict(Consider(w))
BY DEF IsVerdict, Open, Waiting, Tie, Declared, Consider, Verdict, WinStatus

LEMMA Calls ==
  ASSUME NEW r
  PROVE  IsVerdict(CallProgress(r)) /\ IsVerdict(CallLaps(r))
BY Verdicts DEF CallProgress, CallLaps, Call

LEMMA EarlyCalls ==
  ASSUME NEW r, NEW forced
  PROVE  IsVerdict(ProgressVerdict(r, forced)) /\ IsVerdict(LapsVerdict(r, forced))
BY Verdicts, Calls DEF ProgressVerdict, LapsVerdict

LEMMA InOvertimeIs ==
  ASSUME NEW r, NEW v, IsVerdict(v)
  PROVE  IsVerdict(InOvertime(r, v))
BY DEF InOvertime, IsVerdict, Verdict, WinStatus

LEMMA PilotVerdicts ==
  ASSUME NEW r, NEW forced, NEW atFinish,
         r.format.win \in {"progress", "laps", "first_to_x", "fastest", "consecutive", "overtime"}
  PROVE  IsVerdict(PilotVerdict(r, forced, atFinish))
<1>1. IsVerdict(FirstToXVerdict(r))
  BY Verdicts, Calls DEF FirstToXVerdict
<1>2. IsVerdict(FastestVerdict(r, forced, atFinish))
  BY Verdicts DEF FastestVerdict
<1>3. IsVerdict(ConsecutiveVerdict(r, forced, atFinish))
  BY Verdicts DEF ConsecutiveVerdict
<1>4. IsVerdict(OvertimeVerdict(r, forced, atFinish))
  BY Verdicts, EarlyCalls, InOvertimeIs DEF OvertimeVerdict
<1> QED
  BY <1>1, <1>2, <1>3, <1>4, EarlyCalls DEF PilotVerdict

LEMMA TeamCalls ==
  ASSUME NEW r, NEW t, NEW forced, NEW overtime
  PROVE  /\ IsVerdict(TeamProgressVerdict(r, t, forced, overtime))
         /\ IsVerdict(TeamLapsVerdict(r, t, forced))
<1>1. IsVerdict(TeamCall(r, t, RaceTimeTies)) /\ IsVerdict(TeamCall(r, t, SameLaps))
  BY Verdicts DEF TeamCall
<1> QED
  BY <1>1, Verdicts DEF TeamProgressVerdict, TeamLapsVerdict

LEMMA TeamVerdicts ==
  ASSUME NEW r, NEW t, NEW forced, NEW atFinish,
         r.format.win \in {"progress", "laps", "first_to_x", "fastest", "consecutive", "overtime"}
  PROVE  IsVerdict(TeamVerdict(r, t, forced, atFinish))
<1>1. IsVerdict(TeamFirstToXVerdict(r, t))
  BY Verdicts DEF TeamFirstToXVerdict
<1>2. IsVerdict(TeamFastestVerdict(r, t, forced, atFinish))
  BY Verdicts DEF TeamFastestVerdict
<1>3. IsVerdict(TeamConsecutiveVerdict(r, t, forced, atFinish))
  BY Verdicts DEF TeamConsecutiveVerdict
<1>4. IsVerdict(TeamOvertimeVerdict(r, t, forced, atFinish))
  BY Verdicts, TeamCalls, InOvertimeIs DEF TeamOvertimeVerdict
<1> QED
  BY <1>1, <1>2, <1>3, <1>4, TeamCalls DEF TeamVerdict

LEMMA JudgedIs ==
  ASSUME NEW r, NEW forced, NEW atFinish,
         r.format.mode # "coop" =>
           r.format.win \in {"progress", "laps", "first_to_x", "fastest", "consecutive", "overtime"}
  PROVE  IsVerdict(Judged(r, forced, atFinish))
<1>1. IsVerdict(CoopVerdict(r, atFinish))
  BY Verdicts DEF CoopVerdict
<1> QED
  BY <1>1, PilotVerdicts, TeamVerdicts DEF Judged

\* A check made without a win is the one there is, or its verdict.
LEMMA CheckIs ==
  ASSUME format \in Formats, win.status \in WinStatus, NEW r, r.format = format,
         NEW forced, NEW atFinish, NEW deleted \in BOOLEAN,
         NEW w, w = Check(r, forced, atFinish, deleted).win
  PROVE  w.status \in WinStatus /\ (win.status = "declared" /\ ~deleted => w = win)
<1> DEFINE v == Judged(r, forced, atFinish)
           may == HasCondition /\ (win.status \in {"none", "pending", "overtime"} \/ deleted)
<1>1. CASE ~may
  <2>1. w = win
    BY <1>1 DEF Check
  <2> QED
    BY <2>1
<1>2. CASE may
  <2>1. r.format.mode # "coop" =>
          r.format.win \in {"progress", "laps", "first_to_x", "fastest", "consecutive",
                            "overtime"}
    BY <1>2, FormatsAssumption DEF HasCondition
  <2>2. IsVerdict(v)
    BY <2>1, JudgedIs
  <2> HIDE DEF v
  <2>3. w = Outcome(v, deleted).win
    BY <1>2 DEF Check, v
  <2>4. w.status \in {"none", v.status}
    BY <2>3 DEF Outcome, NoWin
  <2>5. w.status \in WinStatus
    BY <2>2, <2>4 DEF IsVerdict, WinStatus
  <2>6. win.status = "declared" => deleted
    BY <1>2
  <2> QED
    BY <2>5, <2>6
<1> QED
  BY <1>1, <1>2

LEMMA SeenIs ==
  ASSUME NEW counted, NEW done, NEW isUp, NEW fin, NEW flg, NEW all
  PROVE  Seen(counted, done, isUp, fin, flg, all).format = format
BY DEF Seen

-----------------------------------------------------------------------------
(* The types of the variables.                                             *)

Shapes ==
  /\ format \in Formats /\ now \in 0..MaxTime /\ status \in {"racing", "done"}
  /\ up \in BOOLEAN /\ end \in 0..MaxTime
  /\ crossing \in [Nodes -> 0..MaxTime \cup {None}] /\ flag \in [Nodes -> BOOLEAN]
  /\ queue \in Seq(JobSet) /\ laps \in [Nodes -> Seq(LapSet)]
  /\ finished \in [Nodes -> BOOLEAN] /\ effect \in [Nodes -> BOOLEAN] /\ waiting \in Int
  /\ win.status \in WinStatus
  /\ stopper \in {"no", "asked", "drain", "over"} /\ editing \in BOOLEAN /\ edits \in Nat

\* What the laps of a pilot keep, whatever is edited.
Lawful(s) == Increasing(s) /\ Measured(s) /\ Numbered(s)

LapsHold == \A n \in Nodes : Lawful(laps[n])

\* Passes come in the order of time: nothing is later than now, the passes in the queue are
\* later than the laps of their nodes, and a crossing is later than both.
PassesOf(n) == {i \in 1..Len(queue) : queue[i].kind = "pass" /\ queue[i].node = n}
After(s, at) == \A k \in 1..Len(s) : s[k].at < at
OrderHolds ==
  /\ \A n \in Nodes : \A k \in 1..Len(laps[n]) : laps[n][k].at <= now
  /\ \A i \in 1..Len(queue) : queue[i].at <= now
  /\ \A n \in Nodes : \A i \in PassesOf(n) :
       /\ After(laps[n], queue[i].at)
       /\ \A j \in PassesOf(n) : i < j => queue[i].at < queue[j].at
  /\ \A n \in Nodes : crossing[n] # None =>
       /\ crossing[n] <= now /\ After(laps[n], crossing[n])
       /\ \A i \in PassesOf(n) : queue[i].at < crossing[n]

\* While laps are edited once at most, they are timed well; and until they are, a late lap is
\* one of a pilot whose laps remain late.
TimesHold ==
  /\ editing => edits > 0
  /\ edits <= 1 => \A n \in Nodes : TimedWell(laps[n])
  /\ edits = 0 => \A n \in Nodes :
       LateLast(laps[n]) /\ ((\E i \in 1..Len(laps[n]) : laps[n][i].late) => LateLap(n))

LapsInv == Shapes /\ LapsHold /\ OrderHolds /\ TimesHold

\* The steps that leave the laps, the passes and the pilots alone.
Quiet ==
  Awake \/ Expire \/ FinishCheck \/ ForcedCheck \/ Grace \/ Stop \/ DoStop \/ FinalCheck

LEMMA QuietKeeps ==
  ASSUME Quiet
  PROVE  UNCHANGED <<format, now, crossing, flag, queue, laps, finished, effect, waiting,
                     editing, edits>>
BY DEF Quiet, Awake, Expire, FinishCheck, ForcedCheck, Grace, Stop, DoStop, FinalCheck,
       Stopping, race, flags

\* The head of the queue is a pass of n, which leaves it.
Takes(n) ==
  /\ queue # <<>> /\ queue[1].kind = "pass" /\ queue[1].node = n /\ Head(queue) = queue[1]
  /\ UNCHANGED <<format, now, crossing, finished, effect, waiting, win, editing, edits>>

\* Its lap l is added, and a second job follows a lap that is announced.
Adding(n, l) ==
  /\ l \in LapSet /\ l.at = queue[1].at
  /\ Adds(laps'[n], laps[n], l) /\ laps' = [laps EXCEPT ![n] = laps'[n]]
  /\ Lawful(laps'[n]) /\ (TimedWell(laps[n]) => TimedWell(laps'[n]))
  /\ (l.late => LateLap(n)) /\ (LateLap(n) => l.deleted)
  /\ (l.invalid => l.deleted) /\ (l.late => l.deleted)
  /\ queue' = IF l.invalid \/ Announced(l.num) = 0 THEN Tail(queue)
              ELSE Append(Tail(queue), Job("finish", n, l.at, DoneLap(n, l.num, l.at)))

LEMMA AddLapIs ==
  ASSUME AddLap, Shapes, LapsHold, OrderHolds
  PROVE  \E n \in Nodes : /\ Takes(n)
                          /\ \/ laps' = laps /\ queue' = Tail(queue)
                             \/ \E l : Adding(n, l)
<1> DEFINE job == Head(queue)
<1>1. /\ queue # <<>> /\ queue \in Seq(JobSet) /\ Len(queue) \in Nat /\ 1 \in 1..Len(queue)
      /\ job = queue[1] /\ job \in JobSet
  BY DEF AddLap, Shapes
<1>2. /\ job.kind = "pass"
      /\ UNCHANGED <<format, now, crossing, finished, effect, waiting, win, editing, edits>>
  BY DEF AddLap, flags
<1>3. PICK peak \in IF format.behavior = 2 THEN Peaks ELSE {Max(Peaks)} :
        LET l == NewLap(job.node, job.at, peak)
            all == [laps EXCEPT ![job.node] = WithLap(@, l)]
        IN IF ~Counts(job.at)
           THEN queue' = Tail(queue) /\ UNCHANGED <<laps, seen, final>>
           ELSE /\ laps' = all
                /\ seen' = IF l.invalid THEN seen ELSE ActiveLaps(all)
                /\ queue' = IF l.invalid \/ Announced(l.num) = 0 THEN Tail(queue)
                            ELSE Append(Tail(queue),
                                        Job("finish", job.node, job.at,
                                            DoneLap(job.node, l.num, job.at)))
                /\ final' = IF final = "open" THEN "open" ELSE "overtaken"
  BY DEF AddLap
<1> DEFINE n == job.node
           l == NewLap(n, job.at, peak)
<1>4. n \in Nodes /\ job.at \in 0..MaxTime /\ peak \in PeakSet
  BY <1>1, <1>3 DEF JobSet, PeakSet
<1>5. Takes(n)
  BY <1>1, <1>2 DEF Takes
<1>6. CASE ~Counts(job.at)
  BY <1>3, <1>4, <1>5, <1>6
<1>7. CASE Counts(job.at)
  <2>1. /\ laps' = [laps EXCEPT ![n] = WithLap(laps[n], l)]
        /\ queue' = IF l.invalid \/ Announced(l.num) = 0 THEN Tail(queue)
                    ELSE Append(Tail(queue), Job("finish", n, job.at, DoneLap(n, l.num, job.at)))
    BY <1>3, <1>7
  <2>2. /\ laps[n] \in Seq(LapSet) /\ finished[n] \in BOOLEAN /\ Lawful(laps[n])
        /\ laps \in [Nodes -> Seq(LapSet)]
    BY <1>4 DEF Shapes, LapsHold
  <2>3. \A k \in 1..Len(laps[n]) : laps[n][k].at < job.at
    <3>1. 1 \in PassesOf(n)
      BY <1>1, <1>2 DEF PassesOf
    <3> QED
      BY <1>1, <1>4, <3>1 DEF OrderHolds, After
  <2>4. /\ l \in LapSet /\ l.at = job.at /\ l.num \in Nat /\ Follows(l, laps[n])
        /\ l.late => LateLap(n)
        /\ LateLap(n) => l.deleted
        /\ l.invalid => l.deleted
        /\ l.late => l.deleted
    <3>1. Increasing(laps[n])
      BY <2>2 DEF Lawful
    <3> HIDE DEF n, job
    <3> QED
      BY <1>4, <2>2, <2>3, <3>1, NewLapIs, Zenon
  <2> HIDE DEF l, n, job
  <2>5. laps'[n] = WithLap(laps[n], l) /\ laps' = [laps EXCEPT ![n] = laps'[n]]
    BY <1>4, <2>1, <2>2
  <2> DEFINE r == WithLap(laps[n], l)
  <2>6. /\ Adds(r, laps[n], l) /\ Lawful(r)
        /\ TimedWell(laps[n]) => TimedWell(r)
    <3>1. Increasing(laps[n]) /\ Measured(laps[n]) /\ Numbered(laps[n])
      BY <2>2 DEF Lawful
    <3>2. /\ Adds(r, laps[n], l) /\ Increasing(r) /\ Measured(r) /\ Numbered(r)
          /\ TimedWell(laps[n]) => TimedWell(r)
      BY <2>2, <2>4, <3>1, WithLapKeeps, Zenon
    <3> QED
      BY <3>2 DEF Lawful
  <2>7. Adding(n, l)
    <3> HIDE DEF r
    <3>1. r = laps'[n]
      BY <2>5 DEF r
    <3>2. job = queue[1]
      BY <1>1
    <3> QED
      BY <2>1, <2>4, <2>5, <2>6, <3>1, <3>2, Zenon DEF Adding
  <2> QED
    BY <1>4, <1>5, <2>7
<1> QED
  BY <1>6, <1>7

\* The laps of n are edited.
Edited(n) ==
  /\ laps' = [laps EXCEPT ![n] = laps'[n]]
  /\ laps'[n] \in Seq(LapSet) /\ Len(laps'[n]) = Len(laps[n])
  /\ \A i \in 1..Len(laps[n]) : laps'[n][i].at = laps[n][i].at
  /\ Lawful(laps'[n])
  /\ TimedWell(laps[n]) /\ LateLast(laps[n]) => TimedWell(laps'[n])

LEMMA DeleteKeeps ==
  ASSUME NEW s \in Seq(LapSet), NEW i \in 1..Len(s), ~s[i].deleted, Lawful(s),
         NEW r, r = Deleted(s, i)
  PROVE  /\ r \in Seq(LapSet) /\ Len(r) = Len(s)
         /\ \A j \in 1..Len(s) : r[j].at = s[j].at
         /\ Lawful(r)
         /\ TimedWell(s) /\ LateLast(s) => TimedWell(r)
<1> DEFINE rest == Renumbered(s, i)
           m == Heir(rest, i)
           d == Inherited(s, rest, i)
<1>1. Increasing(s) /\ Measured(s) /\ Numbered(s)
  BY DEF Lawful
<1>2. /\ Without(rest, s, i) /\ Numbered(rest) /\ WithTime(r, rest, m, d)
      /\ m # 0 => m \in ShownAfter(rest, i) /\ d \in 0..s[m].at
  BY <1>1, DeletedIs, Zenon
<1>3. m \in 1..Len(s) => d \in 0..s[m].at
  BY <1>2
<1>4. Increasing(r) /\ Measured(r) /\ Numbered(r)
  <2> HIDE DEF rest, m, d
  <2> QED
    BY <1>1, <1>2, <1>3, WithTimeKeeps, Zenon
<1>5. TimedWell(s) /\ LateLast(s) => TimedWell(r)
  BY <1>1, DeletedTimes
<1>6. /\ r \in Seq(LapSet) /\ Len(r) = Len(s)
      /\ \A j \in 1..Len(s) : r[j].at = s[j].at
  <2> HIDE DEF rest, m, d
  <2> QED
    BY <1>2 DEF Without, WithTime
<1> QED
  BY <1>4, <1>5, <1>6 DEF Lawful

LEMMA RestoreIs ==
  ASSUME NEW s \in Seq(LapSet), NEW i \in 1..Len(s), s[i].deleted, Lawful(s), NEW r,
         r = CalcTimes([s EXCEPT ![i].deleted = FALSE, ![i].late = FALSE], i)
  PROVE  /\ r \in Seq(LapSet) /\ Len(r) = Len(s)
         /\ \A j \in 1..Len(s) : r[j].at = s[j].at
         /\ Lawful(r)
         /\ TimedWell(s) => TimedWell(r)
<1>1. Recalculated(r, s, i)
  BY RestoreKeeps
<1>2. Increasing(s) /\ Measured(s) /\ Numbered(s) /\ i \in Nat
  BY DEF Lawful
<1>3. /\ Increasing(r) /\ Measured(r) /\ Numbered(r)
      /\ TimedWell(s) => TimedWell(r)
  BY <1>1, <1>2, RecalculatedKeeps
<1> QED
  BY <1>1, <1>3 DEF Recalculated, Lawful

LEMMA EditIs ==
  ASSUME Edit, Shapes, LapsHold
  PROVE  /\ \E n \in Nodes : Edited(n)
         /\ editing' = TRUE /\ edits' = edits + 1 /\ finished' \in [Nodes -> BOOLEAN]
         /\ UNCHANGED <<format, now, status, up, end, crossing, flag, queue, effect, waiting,
                        win, stopper>>
<1>1. PICK n \in Nodes : \E i \in DOMAIN laps[n] : DeleteLap(n, i) \/ RestoreLap(n, i)
  BY DEF Edit
<1>11. PICK i \in DOMAIN laps[n] : DeleteLap(n, i) \/ RestoreLap(n, i)
  BY <1>1
<1>2. /\ laps \in [Nodes -> Seq(LapSet)] /\ laps[n] \in Seq(LapSet)
      /\ i \in 1..Len(laps[n]) /\ Lawful(laps[n]) /\ finished \in [Nodes -> BOOLEAN]
  BY <1>11 DEF Shapes, LapsHold
<1>3. CASE DeleteLap(n, i)
  <2>1. /\ ~laps[n][i].deleted /\ laps' = [laps EXCEPT ![n] = Deleted(laps[n], i)]
        /\ finished' = [finished EXCEPT ![n] = IsDone(laps'[n])]
        /\ editing' = TRUE /\ edits' = edits + 1
        /\ UNCHANGED <<format, now, status, up, end, crossing, flag, queue, effect, waiting,
                       win, stopper>>
    BY <1>3 DEF DeleteLap, race
  <2>2. laps'[n] = Deleted(laps[n], i)
    BY <1>2, <2>1
  <2>3. Edited(n)
    <3> DEFINE r == laps'[n]
    <3>1. /\ r \in Seq(LapSet) /\ Len(r) = Len(laps[n])
          /\ \A j \in 1..Len(laps[n]) : r[j].at = laps[n][j].at
          /\ Lawful(r)
          /\ TimedWell(laps[n]) /\ LateLast(laps[n]) => TimedWell(r)
      BY <1>2, <2>1, <2>2, DeleteKeeps, Zenon
    <3> QED
      BY <2>1, <2>2, <3>1, Zenon DEF Edited
  <2>4. finished' \in [Nodes -> BOOLEAN]
    <3>1. IsDone(laps'[n]) \in BOOLEAN
      BY DEF IsDone
    <3> QED
      BY <1>2, <2>1, <3>1
  <2> QED
    BY <2>1, <2>3, <2>4
<1>4. CASE RestoreLap(n, i)
  <2> DEFINE r == CalcTimes([laps[n] EXCEPT ![i].deleted = FALSE, ![i].late = FALSE], i)
  <2>1. /\ laps[n][i].deleted /\ laps' = [laps EXCEPT ![n] = r]
        /\ editing' = TRUE /\ edits' = edits + 1 /\ finished' = finished
        /\ UNCHANGED <<format, now, status, up, end, crossing, flag, queue, effect, waiting,
                       win, stopper>>
    BY <1>4 DEF RestoreLap, race, flags
  <2>2. /\ r \in Seq(LapSet) /\ Len(r) = Len(laps[n])
        /\ \A j \in 1..Len(laps[n]) : r[j].at = laps[n][j].at
        /\ Lawful(r)
        /\ TimedWell(laps[n]) => TimedWell(r)
    BY ZenonT(90), <1>2, <2>1, RestoreIs
  <2> HIDE DEF r
  <2>3. laps'[n] = r
    BY <1>2, <2>1
  <2>4. Edited(n)
    BY <2>1, <2>2, <2>3, Zenon DEF Edited
  <2> QED
    BY <1>2, <2>1, <2>4
<1> QED
  BY <1>11, <1>3, <1>4

-----------------------------------------------------------------------------
(* The steps keep the types.                                               *)

LEMMA QueueMoves ==
  ASSUME NEW q \in Seq(JobSet), NEW j \in JobSet
  PROVE  /\ Append(q, j) \in Seq(JobSet) /\ Len(Append(q, j)) = Len(q) + 1
         /\ Append(q, j)[Len(q) + 1] = j /\ \A i \in 1..Len(q) : Append(q, j)[i] = q[i]
         /\ q # <<>> => /\ Tail(q) \in Seq(JobSet) /\ Len(Tail(q)) = Len(q) - 1
                        /\ Head(q) = q[1] /\ 1 \in 1..Len(q)
                        /\ \A i \in 1..Len(Tail(q)) : /\ Tail(q)[i] = q[i+1]
                                                      /\ i + 1 \in 1..Len(q)
OBVIOUS

LEMMA JobTyped ==
  ASSUME NEW kind \in {"pass", "finish"}, NEW n \in Nodes, NEW at \in 0..MaxTime,
         NEW done \in BOOLEAN
  PROVE  Job(kind, n, at, done) \in JobSet
BY DEF Job, JobSet

LEMMA QuietShapes ==
  ASSUME Shapes, Quiet
  PROVE  Shapes' /\ (win.status = "declared" => win' = win)
<1>1. UNCHANGED <<format, now, crossing, flag, queue, laps, finished, effect, waiting,
                  editing, edits>>
  BY QuietKeeps
<1>2. /\ status' \in {"racing", "done"} /\ up' \in BOOLEAN /\ end' \in 0..MaxTime
      /\ stopper' \in {"no", "asked", "drain", "over"}
  <2>1. CASE UNCHANGED <<status, end, stopper>>
    <3>1. up' \in BOOLEAN
      BY DEF Quiet, Awake, Expire, FinishCheck, ForcedCheck, Grace, Stop, DoStop, FinalCheck,
             race, flags, Shapes
    <3> QED
      BY <2>1, <3>1 DEF Shapes
  <2>2. CASE ~UNCHANGED <<status, end, stopper>>
    BY <2>2 DEF Quiet, Awake, Expire, FinishCheck, ForcedCheck, Grace, Stop, DoStop,
                FinalCheck, Stopping, race, flags, Shapes
  <2> QED
    BY <2>1, <2>2
<1>3. win'.status \in WinStatus /\ (win.status = "declared" => win' = win)
  <2>1. CASE win' = win
    BY <2>1 DEF Shapes
  <2>2. ASSUME NEW r, r.format = format, NEW forced, NEW atFinish,
               win' = Check(r, forced, atFinish, FALSE).win
        PROVE  win'.status \in WinStatus /\ (win.status = "declared" => win' = win)
    BY <2>2, CheckIs DEF Shapes
  <2>3. CASE FinishCheck
    <3> DEFINE r == Seen(seen, status = "done", up, finished, flag, laps)
    <3>1. r.format = format /\ win' = Check(r, FALSE, TRUE, FALSE).win
      BY <2>3, SeenIs DEF FinishCheck
    <3> HIDE DEF r
    <3> QED
      BY <2>2, <3>1
  <2>4. CASE ForcedCheck
    <3> DEFINE r == Seen(seen, status = "done", up, finished, flag, laps)
    <3>1. r.format = format /\ win' = Check(r, TRUE, FALSE, FALSE).win
      BY <2>4, SeenIs DEF ForcedCheck
    <3> HIDE DEF r
    <3> QED
      BY <2>2, <3>1
  <2>5. CASE FinalCheck
    <3> DEFINE r == Seen(seen, TRUE, up, finished, flag, laps)
    <3>1. r.format = format /\ win' = Check(r, FALSE, FALSE, FALSE).win
      BY <2>5, SeenIs DEF FinalCheck
    <3> HIDE DEF r
    <3> QED
      BY <2>2, <3>1
  <2> QED
    BY <2>1, <2>3, <2>4, <2>5 DEF Quiet, Awake, Expire, Grace, Stop, DoStop
<1> QED
  BY <1>1, <1>2, <1>3 DEF Shapes

\* A check by the second job or after an edit.
LEMMA FinishIs ==
  ASSUME Shapes, Finish
  PROVE  /\ UNCHANGED <<format, now, status, up, end, crossing, flag, laps, stopper, editing,
                        edits>>
         /\ queue # <<>> /\ queue[1].kind = "finish" /\ queue' = Tail(queue)
         /\ finished' = [finished EXCEPT ![queue[1].node] = @ \/ JustDone(queue[1])]
         /\ effect' \in [Nodes -> BOOLEAN] /\ waiting' \in Int
         /\ win'.status \in WinStatus /\ (win.status = "declared" => win' = win)
<1> DEFINE job == Head(queue)
           fin == [finished EXCEPT ![job.node] = @ \/ JustDone(job)]
           r == Seen(seen, status = "done", up, fin, flag, laps)
           c == Check(r, FALSE, FALSE, FALSE)
           tell == ToTell(job, fin, c.win.status)
           just == IF JustDone(job) THEN {job.node} ELSE {}
           waited == tell \ just
<1>1. /\ queue # <<>> /\ job = queue[1] /\ job \in JobSet
  BY DEF Finish, Shapes
<1>2. /\ UNCHANGED <<format, now, status, up, end, crossing, flag, laps, stopper, editing,
                     edits>>
      /\ job.kind = "finish" /\ queue' = Tail(queue) /\ finished' = fin
  BY DEF Finish, race
<1>3. /\ win' = c.win
      /\ effect' = [n \in Nodes |-> effect[n] \/ n \in tell]
      /\ waiting' = IF c.win.status = "pending"
                    THEN waiting + IF JustDone(job) THEN 1 ELSE 0
                    ELSE waiting - Cardinality(waited)
  BY Zenon DEF Finish
<1>4. win'.status \in WinStatus /\ (win.status = "declared" => win' = win)
  <2>1. r.format = format
    BY SeenIs
  <2> HIDE DEF r
  <2> QED
    BY <1>3, <2>1, CheckIs DEF Shapes
<1>5. waited \subseteq Nodes
  BY <1>1 DEF ToTell, JobSet
<1> HIDE DEF waited
<1>6. Cardinality(waited) \in Nat
  BY <1>5, BoundsTyped, FS_Subset, FS_CardinalityType
<1>7. waiting' \in Int
  <2> HIDE DEF c, job
  <2> QED
    BY <1>3, <1>6 DEF Shapes
<1>8. effect' \in [Nodes -> BOOLEAN]
  <2>1. \A n \in Nodes : (effect[n] \/ n \in tell) \in BOOLEAN
    <3> HIDE DEF tell
    <3> QED
      OBVIOUS
  <2> HIDE DEF tell
  <2> QED
    BY <1>3, <2>1
<1> QED
  BY <1>1, <1>2, <1>4, <1>7, <1>8, Zenon

LEMMA EditCheckIs ==
  ASSUME Shapes, EditCheck
  PROVE  /\ UNCHANGED <<format, now, status, up, end, crossing, flag, queue, laps, finished,
                        effect, waiting, stopper, edits>>
         /\ editing /\ editing' = FALSE /\ win'.status \in WinStatus
<1> DEFINE r == Seen(seen', status = "done", up, finished, flag, laps)
<1>1. r.format = format /\ win' = Check(r, FALSE, FALSE, TRUE).win
  BY SeenIs DEF EditCheck
<1> HIDE DEF r
<1>2. win'.status \in WinStatus
  BY <1>1, CheckIs DEF Shapes
<1> QED
  BY <1>2 DEF EditCheck, race, flags

LEMMA ShapesStep ==
  ASSUME Shapes, LapsHold, OrderHolds, [Next]_vars
  PROVE  Shapes'
<1>1. CASE Tick
  BY <1>1, BoundsTyped DEF Tick, Shapes, race, flags
<1>2. CASE AddLap
  <2>1. PICK n \in Nodes : /\ Takes(n)
                           /\ \/ laps' = laps /\ queue' = Tail(queue)
                              \/ \E l : Adding(n, l)
    BY <1>2, AddLapIs
  <2>2. /\ UNCHANGED <<format, now, crossing, finished, effect, waiting, win, editing, edits>>
        /\ UNCHANGED <<status, up, end, stopper>> /\ flag' = [flag EXCEPT ![n] = FALSE]
    BY <1>2, <2>1 DEF Takes, AddLap, race
  <2>3. queue # <<>> /\ queue \in Seq(JobSet) /\ Tail(queue) \in Seq(JobSet)
    BY <2>1 DEF Takes, Shapes
  <2>4. queue' \in Seq(JobSet) /\ laps' \in [Nodes -> Seq(LapSet)]
    <3>1. CASE laps' = laps /\ queue' = Tail(queue)
      BY <2>3, <3>1 DEF Shapes
    <3>2. CASE \E l : Adding(n, l)
      <4>1. PICK l : Adding(n, l)
        BY <3>2
      <4>2. /\ laps' = [laps EXCEPT ![n] = laps'[n]] /\ laps'[n] \in Seq(LapSet)
            /\ laps \in [Nodes -> Seq(LapSet)]
        BY <4>1 DEF Adding, Adds, Shapes
      <4>3. laps' \in [Nodes -> Seq(LapSet)]
        <5>1. PICK s : s = laps'[n]
          OBVIOUS
        <5> QED
          BY <4>2, <5>1
      <4>4. l \in LapSet
        BY <4>1 DEF Adding
      <4>5. DoneLap(n, l.num, l.at) \in BOOLEAN
        BY DEF DoneLap, Completes
      <4>6. Job("finish", n, l.at, DoneLap(n, l.num, l.at)) \in JobSet
        <5>1. l.at \in 0..MaxTime
          BY <4>4 DEF LapSet
        <5> QED
          BY <4>5, <5>1, JobTyped
      <4>7. queue' \in Seq(JobSet)
        <5> DEFINE job == Job("finish", n, l.at, DoneLap(n, l.num, l.at))
        <5>1. queue' = Tail(queue) \/ queue' = Append(Tail(queue), job)
          BY <4>1 DEF Adding
        <5> HIDE DEF job
        <5> QED
          BY <2>3, <4>6, <5>1 DEF job
      <4> QED
        BY <4>3, <4>7
    <3> QED
      BY <2>1, <3>1, <3>2
  <2> QED
    BY <2>2, <2>4 DEF Shapes
<1>3. CASE Finish
  <2>1. /\ UNCHANGED <<format, now, status, up, end, crossing, flag, laps, stopper, editing,
                       edits>>
        /\ queue # <<>> /\ queue' = Tail(queue)
        /\ finished' = [finished EXCEPT ![queue[1].node] = @ \/ JustDone(queue[1])]
        /\ effect' \in [Nodes -> BOOLEAN] /\ waiting' \in Int /\ win'.status \in WinStatus
    BY <1>3, FinishIs
  <2>2. queue' \in Seq(JobSet)
    BY <2>1 DEF Shapes
  <2>3. finished' \in [Nodes -> BOOLEAN]
    BY <2>1 DEF Shapes, JustDone
  <2> QED
    BY <2>1, <2>2, <2>3 DEF Shapes
<1>4. ASSUME NEW n \in Nodes, Enter(n)
      PROVE  Shapes'
  BY <1>4 DEF Enter, Shapes, race, flags
<1>5. ASSUME NEW n \in Nodes, Leave(n)
      PROVE  Shapes'
  <2>1. /\ UNCHANGED <<format, now, status, up, end, flag, laps, finished, effect, waiting,
                       win, stopper, editing, edits>>
        /\ crossing' = [crossing EXCEPT ![n] = None] /\ crossing[n] # None
        /\ queue' = Append(queue, Job("pass", n, crossing[n], FALSE))
    BY <1>5 DEF Leave, race, flags
  <2>2. crossing[n] \in 0..MaxTime /\ crossing' \in [Nodes -> 0..MaxTime \cup {None}]
    BY <2>1 DEF Shapes
  <2>3. queue' \in Seq(JobSet)
    <3>1. PICK job : job = Job("pass", n, crossing[n], FALSE)
      OBVIOUS
    <3>2. job \in JobSet /\ queue \in Seq(JobSet)
      BY <2>2, <3>1, JobTyped DEF Shapes
    <3>3. queue' = Append(queue, job)
      BY <2>1, <3>1
    <3>4. Append(queue, job) \in Seq(JobSet)
      BY <3>2, QueueMoves
    <3> QED
      BY <3>3, <3>4, Zenon
  <2> QED
    BY <2>1, <2>2, <2>3 DEF Shapes
<1>6. CASE Edit
  <2>1. /\ \E n \in Nodes : Edited(n)
        /\ editing' = TRUE /\ edits' = edits + 1 /\ finished' \in [Nodes -> BOOLEAN]
        /\ UNCHANGED <<format, now, status, up, end, crossing, flag, queue, effect, waiting,
                       win, stopper>>
    BY <1>6, EditIs
  <2>2. PICK n \in Nodes : laps' = [laps EXCEPT ![n] = laps'[n]] /\ laps'[n] \in Seq(LapSet)
    BY <2>1 DEF Edited
  <2>3. laps' \in [Nodes -> Seq(LapSet)]
    <3>1. PICK s : s = laps'[n]
      OBVIOUS
    <3>2. laps \in [Nodes -> Seq(LapSet)]
      BY DEF Shapes
    <3> QED
      BY <2>2, <3>1, <3>2
  <2> QED
    BY <2>1, <2>3 DEF Shapes
<1>7. CASE EditCheck
  <2>1. /\ UNCHANGED <<format, now, status, up, end, crossing, flag, queue, laps, finished,
                       effect, waiting, stopper, edits>>
        /\ editing' = FALSE /\ win'.status \in WinStatus
    BY <1>7, EditCheckIs
  <2> QED
    BY <2>1 DEF Shapes
<1>8. CASE Quiet
  BY <1>8, QuietShapes
<1>9. CASE UNCHANGED vars
  BY SMTT(30), <1>9 DEF Shapes, vars, race, flags
<1> QED
  BY <1>1, <1>2, <1>3, <1>4, <1>5, <1>6, <1>7, <1>8, <1>9 DEF Next, Quiet

-----------------------------------------------------------------------------
(* The steps keep the laps lawful and timed, and the order of passes.      *)

\* Steps but those of passes and edits leave the laps alone.
LEMMA LapsChange ==
  ASSUME [Next]_vars
  PROVE  AddLap \/ Edit \/ laps' = laps
BY DEF Next, vars, Tick, Finish, Awake, Enter, Leave, Expire, FinishCheck, ForcedCheck, Grace,
       Stop, DoStop, FinalCheck, EditCheck

LEMMA LapsStep ==
  ASSUME Shapes, LapsHold, OrderHolds, [Next]_vars
  PROVE  LapsHold'
<1>1. ASSUME NEW n \in Nodes, laps' = [laps EXCEPT ![n] = laps'[n]], Lawful(laps'[n])
      PROVE  LapsHold'
  <2>1. \A m \in Nodes : Lawful(laps'[m])
    BY <1>1 DEF Shapes, LapsHold
  <2> QED
    BY <2>1 DEF LapsHold, Lawful, Increasing, Measured, Numbered, ActiveBefore
<1>2. CASE laps' = laps
  BY <1>2 DEF LapsHold, Lawful, Increasing, Measured, Numbered, ActiveBefore
<1>3. CASE AddLap
  BY <1>1, <1>2, <1>3, AddLapIs DEF Adding
<1>4. CASE Edit
  BY <1>1, <1>4, EditIs DEF Edited
<1> QED
  BY <1>2, <1>3, <1>4, LapsChange

\* The head leaves the queue, and a second job may come in.
Shifts ==
  \A i \in 1..Len(queue') :
    /\ queue'[i].at <= now
    /\ queue'[i].kind = "pass" => i + 1 \in 1..Len(queue) /\ queue'[i] = queue[i+1]

LEMMA ShiftsIs ==
  ASSUME Shapes, OrderHolds, queue # <<>>, NEW job \in JobSet, job.kind = "finish",
         job.at <= now, queue' = Tail(queue) \/ queue' = Append(Tail(queue), job)
  PROVE  Shifts
<1>1. PICK q \in Seq(JobSet) : q = Tail(queue)
  <2>1. queue \in Seq(JobSet) /\ job \in JobSet
    BY DEF Shapes
  <2>2. Tail(queue) \in Seq(JobSet)
    BY <2>1, QueueMoves
  <2> QED
    BY <2>2
<1>2. /\ Len(q) = Len(queue) - 1 /\ Len(queue) \in Nat
      /\ \A i \in 1..Len(q) : q[i] = queue[i+1] /\ i + 1 \in 1..Len(queue)
  BY <1>1, QueueMoves DEF Shapes
<1>3. \A i \in 1..Len(q) : q[i].at <= now
  BY <1>2 DEF OrderHolds
<1>4. CASE queue' = q
  BY <1>2, <1>3, <1>4 DEF Shifts
<1>5. CASE queue' = Append(q, job)
  <2>1. /\ Len(queue') = Len(q) + 1 /\ Len(q) \in Nat /\ queue'[Len(q) + 1] = job
        /\ \A i \in 1..Len(q) : queue'[i] = q[i]
    BY <1>5, QueueMoves
  <2>2. ASSUME NEW i \in 1..Len(queue')
        PROVE  /\ queue'[i].at <= now
               /\ queue'[i].kind = "pass" => i + 1 \in 1..Len(queue) /\ queue'[i] = queue[i+1]
    <3>1. CASE i \in 1..Len(q)
      BY <1>2, <1>3, <2>1, <3>1
    <3>2. CASE i = Len(q) + 1
      BY <2>1, <3>2
    <3> QED
      BY <2>1, <3>1, <3>2
  <2> QED
    BY <2>2 DEF Shifts
<1> QED
  BY <1>1, <1>4, <1>5

LEMMA AddLapOrder ==
  ASSUME Shapes, OrderHolds, NEW n \in Nodes, Takes(n), Shifts,
         \/ laps' = laps
         \/ \E l : Adding(n, l)
  PROVE  OrderHolds'
<1>1. /\ queue \in Seq(JobSet) /\ 1 \in 1..Len(queue) /\ Len(queue) \in Nat
      /\ queue[1].kind = "pass" /\ queue[1].node = n /\ queue[1] \in JobSet
      /\ now' = now /\ crossing' = crossing
  BY DEF Takes, Shapes
<1>2. 1 \in PassesOf(n)
  BY <1>1 DEF PassesOf
<1>3. ASSUME NEW m \in Nodes
      PROVE  \/ m # n /\ laps'[m] = laps[m]
             \/ laps'[m] = laps[m]
             \/ /\ m = n /\ Len(laps'[m]) = Len(laps[m]) + 1
                /\ \A k \in 1..Len(laps[m]) : laps'[m][k].at = laps[m][k].at
                /\ laps'[m][Len(laps[m]) + 1].at = queue[1].at
  BY DEF Adding, Adds, Shapes
<1>4. ASSUME NEW m \in Nodes, NEW k \in 1..Len(laps'[m])
      PROVE  \/ k \in 1..Len(laps[m]) /\ laps'[m][k].at = laps[m][k].at
             \/ m = n /\ laps'[m][k].at = queue[1].at
  <2>1. laps[m] \in Seq(LapSet) /\ Len(laps[m]) \in Nat
    BY DEF Shapes
  <2> QED
    BY SMTT(30), <1>3, <1>4, <2>1
<1>5. \A m \in Nodes : \A k \in 1..Len(laps'[m]) : laps'[m][k].at <= now
  BY <1>1, <1>4 DEF OrderHolds
<1>6. \A i \in 1..Len(queue') : queue'[i].at <= now
  BY DEF Shifts
<1>7. ASSUME NEW m \in Nodes, NEW i \in PassesOf(m)'
      PROVE  /\ i + 1 \in PassesOf(m) /\ queue'[i] = queue[i+1] /\ i \in Nat \ {0}
  BY <1>7 DEF PassesOf, Shifts
<1>8. ASSUME NEW m \in Nodes, NEW i \in PassesOf(m)'
      PROVE  /\ After(laps'[m], queue'[i].at)
             /\ \A j \in PassesOf(m)' : i < j => queue'[i].at < queue'[j].at
  <2>1. i + 1 \in PassesOf(m) /\ queue'[i] = queue[i+1] /\ i \in Nat \ {0}
    BY <1>7
  <2>2. \A k \in 1..Len(laps[m]) : laps[m][k].at < queue'[i].at
    BY <2>1 DEF OrderHolds, After
  <2>3. m = n => queue[1].at < queue'[i].at
    BY <1>2, <2>1 DEF OrderHolds
  <2>4. After(laps'[m], queue'[i].at)
    BY <1>4, <2>2, <2>3 DEF After
  <2>5. ASSUME NEW j \in PassesOf(m)', i < j
        PROVE  queue'[i].at < queue'[j].at
    <3>1. j + 1 \in PassesOf(m) /\ queue'[j] = queue[j+1] /\ j \in Nat \ {0}
      BY <1>7
    <3>2. i + 1 < j + 1
      BY <2>1, <2>5, <3>1
    <3> QED
      BY <2>1, <3>1, <3>2 DEF OrderHolds
  <2> QED
    BY <2>4, <2>5
<1>9. ASSUME NEW m \in Nodes, crossing[m] # None
      PROVE  /\ crossing[m] <= now /\ After(laps'[m], crossing[m])
             /\ \A i \in PassesOf(m)' : queue'[i].at < crossing[m]
  <2>1. crossing[m] <= now /\ \A k \in 1..Len(laps[m]) : laps[m][k].at < crossing[m]
    BY <1>9 DEF OrderHolds, After
  <2>2. \A i \in PassesOf(m) : queue[i].at < crossing[m]
    BY <1>9 DEF OrderHolds
  <2>3. m = n => queue[1].at < crossing[m]
    BY <1>2, <2>2
  <2>4. After(laps'[m], crossing[m])
    BY <1>1, <1>4, <2>1, <2>3 DEF After
  <2> QED
    BY <1>7, <2>1, <2>2, <2>4
<1> QED
  BY <1>1, <1>5, <1>6, <1>8, <1>9 DEF OrderHolds

LEMMA OrderStep ==
  ASSUME Shapes, LapsHold, OrderHolds, [Next]_vars
  PROVE  OrderHolds'
<1>1. queue \in Seq(JobSet) /\ Len(queue) \in Nat /\ now \in Nat
  BY BoundsTyped DEF Shapes
<1>2. CASE Tick
  <2>1. now' = now + 1 /\ UNCHANGED <<queue, crossing, laps>>
    BY <1>2 DEF Tick
  <2>2. /\ \A n \in Nodes : \A k \in 1..Len(laps[n]) : laps[n][k].at \in Int
        /\ \A i \in 1..Len(queue) : queue[i].at \in Int
        /\ \A n \in Nodes : crossing[n] \in Int
    <3>1. /\ \A n \in Nodes : \A k \in 1..Len(laps[n]) : laps[n][k] \in LapSet
          /\ \A i \in 1..Len(queue) : queue[i] \in JobSet
      BY DEF Shapes
    <3> QED
      BY <3>1, BoundsTyped DEF LapSet, JobSet, Shapes
  <2>3. \A n \in Nodes : \A k \in 1..Len(laps[n]) : laps[n][k].at <= now'
    BY SMT, <1>1, <2>1, <2>2 DEF OrderHolds
  <2>4. \A i \in 1..Len(queue) : queue[i].at <= now'
    BY SMT, <1>1, <2>1, <2>2 DEF OrderHolds
  <2>5. \A n \in Nodes : crossing[n] # None => crossing[n] <= now'
    BY SMT, <1>1, <2>1, <2>2 DEF OrderHolds
  <2>6. \A n \in Nodes : PassesOf(n)' = PassesOf(n)
    BY <2>1 DEF PassesOf
  <2> QED
    BY Zenon, <2>1, <2>3, <2>4, <2>5, <2>6 DEF OrderHolds, After
<1>3. CASE AddLap
  <2>1. PICK n \in Nodes : /\ Takes(n)
                           /\ \/ laps' = laps /\ queue' = Tail(queue)
                              \/ \E l : Adding(n, l)
    BY <1>3, AddLapIs
  <2>2. queue # <<>> /\ queue[1] \in JobSet /\ queue[1].at <= now
    <3>1. queue # <<>>
      BY <2>1 DEF Takes
    <3>2. 1 \in 1..Len(queue)
      BY <1>1, <3>1
    <3> QED
      BY <1>1, <3>1, <3>2 DEF OrderHolds
  <2>3. Shifts
    <3>1. CASE queue' = Tail(queue)
      <4>1. PICK job \in JobSet : job.kind = "finish" /\ job.at <= now
        <5>1. Job("finish", queue[1].node, queue[1].at, FALSE) \in JobSet
          BY <2>2, JobTyped DEF JobSet
        <5> QED
          BY <2>2, <5>1 DEF Job
      <4> QED
        BY <2>2, <3>1, <4>1, ShiftsIs
    <3>2. CASE \E l : Adding(n, l)
      <4>1. PICK l : Adding(n, l)
        BY <3>2
      <4>2. PICK job : job = Job("finish", n, l.at, DoneLap(n, l.num, l.at))
        OBVIOUS
      <4>3. /\ l \in LapSet /\ l.at = queue[1].at
            /\ queue' = Tail(queue) \/ queue' = Append(Tail(queue), job)
        BY <4>1, <4>2 DEF Adding
      <4>4. DoneLap(n, l.num, l.at) \in BOOLEAN
        BY DEF DoneLap, Completes
      <4>5. job \in JobSet /\ job.kind = "finish" /\ job.at <= now
        BY <2>2, <4>2, <4>3, <4>4, JobTyped DEF Job, LapSet
      <4> QED
        BY <2>2, <4>3, <4>5, ShiftsIs
    <3> QED
      BY <2>1, <3>1, <3>2
  <2> QED
    BY <2>1, <2>3, AddLapOrder
<1>4. CASE Finish
  <2>1. /\ UNCHANGED <<now, crossing, laps>> /\ queue # <<>> /\ queue' = Tail(queue)
    BY <1>4, FinishIs
  <2>2. \A i \in 1..Len(queue') : queue'[i] = queue[i+1] /\ i + 1 \in 1..Len(queue)
    BY <1>1, <2>1, QueueMoves
  <2>3. \A n \in Nodes : \A i \in PassesOf(n)' : /\ i + 1 \in PassesOf(n) /\ i \in Nat
                                                /\ queue'[i] = queue[i+1]
    BY <2>2 DEF PassesOf
  <2>4. \A i, j \in Nat : i < j => i + 1 < j + 1
    OBVIOUS
  <2> QED
    BY <2>1, <2>2, <2>3, <2>4 DEF OrderHolds
<1>5. ASSUME NEW n \in Nodes, Enter(n)
      PROVE  OrderHolds'
  <2>1. /\ UNCHANGED <<now, queue, laps>> /\ crossing' = [crossing EXCEPT ![n] = now]
        /\ \A i \in DOMAIN queue : queue[i].at # now
        /\ \A m \in Nodes : now \notin {laps[m][i].at : i \in DOMAIN laps[m]}
    BY <1>5 DEF Enter
  <2>2. \A k \in 1..Len(laps[n]) : laps[n][k].at < now
    <3>1. laps[n] \in Seq(LapSet)
      BY DEF Shapes
    <3>2. \A k \in 1..Len(laps[n]) : laps[n][k].at # now /\ laps[n][k].at <= now
      BY <2>1, <3>1 DEF OrderHolds
    <3>3. \A k \in 1..Len(laps[n]) : laps[n][k].at \in Int
      <4>1. \A k \in 1..Len(laps[n]) : laps[n][k] \in LapSet
        BY <3>1
      <4> QED
        BY <4>1, BoundsTyped DEF LapSet
    <3> QED
      BY <1>1, <3>2, <3>3
  <2>3. \A i \in 1..Len(queue) : queue[i].at < now
    <3>1. \A i \in 1..Len(queue) : queue[i].at # now /\ queue[i].at <= now
      BY <1>1, <2>1 DEF OrderHolds
    <3>2. \A i \in 1..Len(queue) : queue[i].at \in Int
      <4>1. \A i \in 1..Len(queue) : queue[i] \in JobSet
        BY <1>1
      <4> QED
        BY <4>1, BoundsTyped DEF JobSet
    <3> QED
      BY <1>1, <3>1, <3>2
  <2>4. \A m \in Nodes : crossing'[m] = IF m = n THEN now ELSE crossing[m]
    BY <2>1 DEF Shapes
  <2> QED
    BY SMTT(30), <1>1, <2>1, <2>2, <2>3, <2>4 DEF OrderHolds, PassesOf, After
<1>6. ASSUME NEW n \in Nodes, Leave(n)
      PROVE  OrderHolds'
  <2>1. PICK job : job = Job("pass", n, crossing[n], FALSE)
    OBVIOUS
  <2>2. /\ UNCHANGED <<now, laps>> /\ crossing' = [crossing EXCEPT ![n] = None]
        /\ crossing[n] # None /\ queue' = Append(queue, job)
        /\ job \in JobSet /\ job.node = n /\ job.at = crossing[n]
    BY <1>6, <2>1, JobTyped DEF Leave, Job, Shapes
  <2>3. /\ Len(queue') = Len(queue) + 1 /\ queue'[Len(queue) + 1] = job
        /\ \A i \in 1..Len(queue) : queue'[i] = queue[i]
    BY <1>1, <2>2, QueueMoves
  <2>4. \A i \in 1..Len(queue') : i \in 1..Len(queue) \/ i = Len(queue) + 1
    BY <1>1, <2>3
  <2>5. /\ job.at <= now /\ After(laps[n], job.at)
        /\ \A i \in PassesOf(n) : queue[i].at < job.at
    BY <2>2 DEF OrderHolds
  <2>6. ASSUME NEW m \in Nodes, NEW i \in PassesOf(m)'
        PROVE  \/ i \in PassesOf(m) /\ i <= Len(queue) /\ queue'[i] = queue[i]
               \/ i = Len(queue) + 1 /\ m = n /\ queue'[i] = job
    BY <1>1, <2>2, <2>3, <2>4, <2>6 DEF PassesOf
  <2>7. \A m \in Nodes : crossing'[m] # None => crossing'[m] = crossing[m] /\ m # n
    BY <2>2 DEF Shapes
  <2>8. ASSUME NEW m \in Nodes, NEW i \in PassesOf(m)'
        PROVE  /\ After(laps[m], queue'[i].at)
               /\ \A j \in PassesOf(m)' : i < j => queue'[i].at < queue'[j].at
    <3>1. After(laps[m], queue'[i].at)
      BY <2>5, <2>6, <2>8 DEF OrderHolds
    <3>2. ASSUME NEW j \in PassesOf(m)', i < j
          PROVE  queue'[i].at < queue'[j].at
      <4>1. /\ \/ i \in PassesOf(m) /\ i <= Len(queue) /\ queue'[i] = queue[i]
               \/ i = Len(queue) + 1 /\ m = n /\ queue'[i] = job
            /\ \/ j \in PassesOf(m) /\ j <= Len(queue) /\ queue'[j] = queue[j]
               \/ j = Len(queue) + 1 /\ m = n /\ queue'[j] = job
        BY <2>6, <2>8, <3>2
      <4>5. \A k \in PassesOf(m) : k \in Nat
        BY DEF PassesOf
      <4>2. i \in PassesOf(m) /\ queue'[i] = queue[i]
        BY <1>1, <3>2, <4>1, <4>5
      <4>3. CASE j \in PassesOf(m) /\ queue'[j] = queue[j]
        BY <3>2, <4>2, <4>3 DEF OrderHolds
      <4>4. CASE m = n /\ queue'[j] = job
        BY <2>5, <4>2, <4>4
      <4> QED
        BY <4>1, <4>3, <4>4
    <3> QED
      BY <3>1, <3>2
  <2>9. ASSUME NEW m \in Nodes, crossing'[m] # None
        PROVE  /\ crossing'[m] <= now /\ After(laps[m], crossing'[m])
               /\ \A i \in PassesOf(m)' : queue'[i].at < crossing'[m]
    BY <2>6, <2>7, <2>9 DEF OrderHolds
  <2>10. \A i \in 1..Len(queue') : queue'[i].at <= now
    BY <2>3, <2>4, <2>5 DEF OrderHolds
  <2> QED
    BY <2>2, <2>8, <2>9, <2>10 DEF OrderHolds
<1>7. CASE Edit
  <2>1. (\E n \in Nodes : Edited(n)) /\ UNCHANGED <<now, crossing, queue>>
    BY <1>7, EditIs
  <2>2. PICK n \in Nodes : /\ laps' = [laps EXCEPT ![n] = laps'[n]]
                           /\ Len(laps'[n]) = Len(laps[n])
                           /\ \A i \in 1..Len(laps[n]) : laps'[n][i].at = laps[n][i].at
    BY <2>1 DEF Edited
  <2>3. ASSUME NEW m \in Nodes
        PROVE  /\ Len(laps'[m]) = Len(laps[m])
               /\ \A i \in 1..Len(laps[m]) : laps'[m][i].at = laps[m][i].at
    BY <2>2 DEF Shapes
  <2>4. \A m \in Nodes : \A k \in 1..Len(laps'[m]) : laps'[m][k].at <= now
    BY <2>3 DEF OrderHolds
  <2>5. \A m \in Nodes : PassesOf(m)' = PassesOf(m)
    BY <2>1 DEF PassesOf
  <2>6. \A m \in Nodes : \A at : After(laps[m], at) => After(laps'[m], at)
    BY <2>3 DEF After
  <2> QED
    BY <2>1, <2>4, <2>5, <2>6 DEF OrderHolds
<1>8. CASE UNCHANGED <<now, crossing, queue, laps>>
  BY <1>8 DEF OrderHolds, PassesOf, After
<1>9. CASE EditCheck
  BY <1>8, <1>9, EditCheckIs
<1>10. CASE Quiet
  BY <1>8, <1>10, QuietKeeps
<1>11. CASE UNCHANGED vars
  BY <1>8, <1>11 DEF vars
<1> QED
  BY <1>2, <1>3, <1>4, <1>5, <1>6, <1>7, <1>9, <1>10, <1>11 DEF Next, Quiet

LEMMA LateAdded ==
  ASSUME NEW s \in Seq(LapSet), NEW l \in LapSet, NEW r, Adds(r, s, l), LateLast(s),
         NEW is \in BOOLEAN, l.late => is, is => l.deleted,
         (\E i \in 1..Len(s) : s[i].late) => is
  PROVE  LateLast(r) /\ ((\E i \in 1..Len(r) : r[i].late) => is)
<1>1. /\ Len(r) = Len(s) + 1 /\ Len(s) \in Nat
      /\ \A i \in 1..Len(s) : r[i].late = s[i].late /\ (s[i].deleted => r[i].deleted)
      /\ r[Len(s) + 1].late = l.late /\ (l.deleted => r[Len(s) + 1].deleted)
  BY DEF Adds
<1>2. \A i \in 1..Len(r) : i \in 1..Len(s) \/ i = Len(s) + 1
  BY <1>1
<1>3. \A i \in 1..Len(r) : r[i].late => is
  BY <1>1, <1>2
<1>4. ASSUME NEW i \in 1..Len(r), NEW j \in 1..Len(r), r[i].late, i <= j
      PROVE  r[j].deleted
  <2>1. CASE j = Len(s) + 1
    BY <1>1, <1>3, <1>4, <2>1
  <2>2. CASE j \in 1..Len(s)
    <3>1. i \in 1..Len(s) /\ s[i].late
      BY <1>1, <1>4, <2>2
    <3>2. s[j].deleted
      BY <1>4, <2>2, <3>1 DEF LateLast
    <3> QED
      BY <1>1, <2>2, <3>2
  <2> QED
    BY <1>2, <2>1, <2>2
<1> QED
  BY <1>3, <1>4 DEF LateLast

\* A pilot whose laps are late remains so until laps are edited.
LEMMA LateStays ==
  ASSUME Shapes, [Next]_vars, editing => edits > 0, edits = 0, edits' = 0, NEW n \in Nodes,
         LateLap(n)
  PROVE  LateLap(n)'
<1>1. ~Edit /\ ~EditCheck
  <2>1. Edit => edits' = edits + 1
    BY DEF Edit, DeleteLap, RestoreLap
  <2>2. EditCheck => editing
    BY DEF EditCheck
  <2> QED
    BY <2>1, <2>2
<1>2. /\ format' = format /\ (win.status = "declared" => win' = win)
      /\ finished[n] => finished'[n]
  <2>1. CASE Finish
    BY <2>1, FinishIs DEF Shapes
  <2>2. CASE Quiet
    BY <2>2, QuietKeeps, QuietShapes
  <2>3. CASE UNCHANGED <<format, win, finished>>
    BY <2>3
  <2> QED
    BY <1>1, <2>1, <2>2, <2>3 DEF Next, Quiet, vars, Tick, AddLap, Enter, Leave, flags
<1> QED
  BY <1>2 DEF LateLap

LEMMA TimesStep ==
  ASSUME Shapes, LapsHold, OrderHolds, TimesHold, [Next]_vars
  PROVE  TimesHold'
<1>1. edits \in Nat /\ laps \in [Nodes -> Seq(LapSet)]
  BY DEF Shapes
<1>2. CASE AddLap
  <2>1. PICK n \in Nodes : /\ Takes(n)
                           /\ \/ laps' = laps
                              \/ \E l : Adding(n, l)
    BY <1>2, AddLapIs
  <2>2. UNCHANGED <<editing, edits, format, finished, win>>
    BY <2>1 DEF Takes
  <2>3. \A m \in Nodes : LateLap(m)' <=> LateLap(m)
    BY <2>2 DEF LateLap
  <2>4. CASE laps' = laps
    BY <2>2, <2>3, <2>4 DEF TimesHold
  <2>5. CASE \E l : Adding(n, l)
    <3>1. PICK l : Adding(n, l)
      BY <2>5
    <3>2. /\ l \in LapSet /\ Adds(laps'[n], laps[n], l) /\ laps' = [laps EXCEPT ![n] = laps'[n]]
          /\ TimedWell(laps[n]) => TimedWell(laps'[n])
          /\ l.late => LateLap(n)
          /\ LateLap(n) => l.deleted
      BY <3>1 DEF Adding
    <3>3. \A m \in Nodes : m # n => laps'[m] = laps[m]
      BY <1>1, <3>2
    <3>4. ASSUME edits <= 1 PROVE \A m \in Nodes : TimedWell(laps'[m])
      BY <3>2, <3>3, <3>4 DEF TimesHold
    <3>5. ASSUME edits = 0
          PROVE  \A m \in Nodes : /\ LateLast(laps'[m])
                                  /\ (\E i \in 1..Len(laps'[m]) : laps'[m][i].late) => LateLap(m)
      <4>1. /\ LateLast(laps[n]) /\ ((\E i \in 1..Len(laps[n]) : laps[n][i].late) => LateLap(n))
            /\ laps[n] \in Seq(LapSet) /\ LateLap(n) \in BOOLEAN
        BY <1>1, <3>5 DEF TimesHold, LateLap, Shapes
      <4>2. LateLast(laps'[n]) /\ ((\E i \in 1..Len(laps'[n]) : laps'[n][i].late) => LateLap(n))
        <5>1. PICK r : r = laps'[n]
          OBVIOUS
        <5>2. PICK is \in BOOLEAN : is = LateLap(n)
          BY <4>1
        <5>3. LateLast(r) /\ ((\E i \in 1..Len(r) : r[i].late) => is)
          BY <3>2, <4>1, <5>1, <5>2, LateAdded
        <5> QED
          BY <5>1, <5>2, <5>3
      <4> QED
        BY <3>3, <3>5, <4>2 DEF TimesHold
    <3> QED
      BY <2>2, <2>3, <3>4, <3>5 DEF TimesHold
  <2> QED
    BY <2>1, <2>4, <2>5
<1>3. CASE Edit
  <2>1. (\E n \in Nodes : Edited(n)) /\ editing' = TRUE /\ edits' = edits + 1
    BY <1>3, EditIs
  <2>2. PICK n \in Nodes : Edited(n)
    BY <2>1
  <2>3. \A m \in Nodes : m # n => laps'[m] = laps[m]
    BY <1>1, <2>2 DEF Edited
  <2>4. ASSUME edits' <= 1 PROVE \A m \in Nodes : TimedWell(laps'[m])
    <3>1. edits = 0 /\ edits <= 1
      BY <1>1, <2>1, <2>4
    <3>2. \A m \in Nodes : TimedWell(laps[m]) /\ LateLast(laps[m])
      BY <3>1 DEF TimesHold
    <3> QED
      BY <2>2, <2>3, <3>2 DEF Edited
  <2>5. edits' > 0 /\ edits' # 0
    BY <1>1, <2>1
  <2> QED
    BY <2>4, <2>5 DEF TimesHold
<1>4. CASE ~AddLap /\ ~Edit
  <2>1. laps' = laps
    BY <1>4, LapsChange
  <2>2. edits' = edits /\ (editing' => editing)
    <3>1. CASE Quiet
      BY <3>1, QuietKeeps
    <3>2. CASE EditCheck
      BY <3>2, EditCheckIs
    <3>3. CASE Finish
      BY <3>3, FinishIs
    <3>4. CASE UNCHANGED <<edits, editing>>
      BY <3>4
    <3> QED
      BY <1>4, <3>1, <3>2, <3>3, <3>4 DEF Next, Quiet, vars, Tick, Enter, Leave
  <2>3. ASSUME edits = 0 PROVE \A n \in Nodes : LateLap(n) => LateLap(n)'
    BY <2>2, <2>3, LateStays DEF TimesHold
  <2> QED
    BY <2>1, <2>2, <2>3 DEF TimesHold
<1> QED
  BY <1>2, <1>3, <1>4

LEMMA LapsStart ==
  ASSUME Init
  PROVE  LapsInv
<1>1. Shapes
  <2>1. /\ format \in Formats /\ now \in 0..MaxTime /\ end \in 0..MaxTime
        /\ status \in {"racing", "done"} /\ up \in BOOLEAN
        /\ stopper \in {"no", "asked", "drain", "over"} /\ editing \in BOOLEAN
        /\ edits \in Nat /\ waiting \in Int
    <3>1. /\ format \in Formats /\ now = 0 /\ status = "racing" /\ up = FALSE /\ end = 0
          /\ waiting = 0 /\ stopper = "no" /\ editing = FALSE /\ edits = 0
      BY DEF Init
    <3>2. 0 \in 0..MaxTime
      BY BoundsTyped
    <3>3. now \in 0..MaxTime /\ end \in 0..MaxTime /\ edits \in Nat /\ waiting \in Int
      BY <3>1, <3>2
    <3>4. /\ status \in {"racing", "done"} /\ up \in BOOLEAN
          /\ stopper \in {"no", "asked", "drain", "over"} /\ editing \in BOOLEAN
      BY <3>1, Zenon
    <3> QED
      BY <3>1, <3>3, <3>4
  <2>2. win.status \in WinStatus
    BY DEF Init, NoWin, WinStatus
  <2>3. queue \in Seq(JobSet)
    BY DEF Init
  <2>4. <<>> \in Seq(LapSet)
    OBVIOUS
  <2>5. /\ crossing \in [Nodes -> 0..MaxTime \cup {None}] /\ flag \in [Nodes -> BOOLEAN]
        /\ finished \in [Nodes -> BOOLEAN] /\ effect \in [Nodes -> BOOLEAN]
        /\ laps \in [Nodes -> Seq(LapSet)]
    BY <2>4 DEF Init
  <2> QED
    BY <2>1, <2>2, <2>3, <2>5 DEF Shapes
<1>2. /\ \A n \in Nodes : laps[n] = <<>> /\ crossing[n] = None
      /\ queue = <<>> /\ edits = 0 /\ editing = FALSE
  BY DEF Init
<1>3. LapsHold
  BY <1>2 DEF LapsHold, Lawful, Increasing, Measured, Numbered
<1>4. OrderHolds
  BY <1>2 DEF OrderHolds, PassesOf
<1>5. TimesHold
  BY <1>2 DEF TimesHold, TimedWell, LateLast
<1> QED
  BY <1>1, <1>3, <1>4, <1>5 DEF LapsInv

LEMMA LapsInvStep ==
  ASSUME LapsInv, [Next]_vars
  PROVE  LapsInv'
BY ShapesStep, LapsStep, OrderStep, TimesStep DEF LapsInv

LEMMA LapsInvHolds == Spec => []LapsInv
<1>1. Init => LapsInv
  BY LapsStart
<1>2. LapsInv /\ [Next]_vars => LapsInv'
  BY LapsInvStep
<1> QED
  BY <1>1, <1>2, PTL DEF Spec

\* The types: in particular no lap has a time below zero or a number beyond its place, however
\* laps are added, filtered, deleted and restored (calc_lap_times, delete_lap).
THEOREM TypesKept == Spec => []Typed
<1>1. ASSUME LapsInv PROVE Typed
  <2>1. Shapes /\ LapsHold
    BY <1>1 DEF LapsInv
  <2>2. \A i \in DOMAIN queue : queue[i].kind \in {"pass", "finish"} /\ queue[i].node \in Nodes
    <3>1. \A i \in DOMAIN queue : queue[i] \in JobSet
      BY <2>1 DEF Shapes
    <3> QED
      BY <3>1 DEF JobSet
  <2>3. ASSUME NEW n \in Nodes, NEW i \in DOMAIN laps[n], NEW l, l = laps[n][i]
        PROVE  /\ l.at \in 0..MaxTime /\ l.time \in 0..l.at /\ l.num \in {None} \cup 0..i-1
               /\ l.deleted \in BOOLEAN /\ l.late \in BOOLEAN /\ l.invalid \in BOOLEAN
    <3>1. l \in LapSet /\ i \in 1..Len(laps[n])
      BY <2>1, <2>3 DEF Shapes
    <3>2. l.time \in 0..l.at /\ l.num \in {None} \cup 0..i-1
      BY <2>1, <2>3, <3>1 DEF LapsHold, Lawful, Measured
    <3> QED
      BY <3>1, <3>2 DEF LapSet
  <2> QED
    BY <2>1, <2>2, <2>3 DEF Typed, Shapes
<1> QED
  BY <1>1, LapsInvHolds, PTL

\* Active laps are numbered without a gap, whatever is added, deleted and restored, and timed
\* from the lap before until a second edit.
THEOREM LapsTrueSafe == Spec => []LapsTrue
<1>1. ASSUME LapsInv PROVE LapsTrue
  <2>1. \A n \in Nodes : Numbered(laps[n]) /\ DOMAIN laps[n] = 1..Len(laps[n])
    BY <1>1 DEF LapsInv, Shapes, LapsHold, Lawful
  <2>2. edits <= 1 => \A n \in Nodes : TimedWell(laps[n])
    BY <1>1 DEF LapsInv, TimesHold
  <2> QED
    BY <2>1, <2>2 DEF LapsTrue, Numbered, TimedWell, Since
<1> QED
  BY <1>1, LapsInvHolds, PTL

-----------------------------------------------------------------------------
(* Nobody flies on after the lap during which the time ends.               *)

\* A second job in q will note that the pilot of n is done with the lap flown at that time.
WaitsIn(q, n, at) ==
  \E i \in 1..Len(q) : q[i].kind = "finish" /\ q[i].node = n /\ q[i].at = at /\ q[i].done

\* The pilot is done, or will be with each lap after the time.
Ends == edits = 0 /\ format.mode = "individual" /\ format.limited
DoneOrSoon(n) == finished[n] \/ \A i \in Overtime(n) : WaitsIn(queue, n, laps[n][i].at)
DoneHolds == Ends => \A n \in Nodes : DoneOrSoon(n)

\* A job that is not the head of the queue waits on.
LEMMA StillWaits ==
  ASSUME NEW q \in Seq(JobSet), q # <<>>, NEW job \in JobSet, NEW r,
         r = Tail(q) \/ r = Append(Tail(q), job),
         NEW n, NEW at, WaitsIn(q, n, at), ~(q[1].kind = "finish" /\ q[1].node = n)
  PROVE  WaitsIn(r, n, at)
<1>1. PICK t : t = Tail(q)
  OBVIOUS
<1>2. /\ t \in Seq(JobSet) /\ Len(t) = Len(q) - 1 /\ Len(t) \in Nat /\ Len(q) \in Nat
      /\ \A i \in 1..Len(t) : t[i] = q[i+1]
  BY <1>1, QueueMoves
<1>3. PICK i \in 1..Len(q) :
        q[i].kind = "finish" /\ q[i].node = n /\ q[i].at = at /\ q[i].done
  BY DEF WaitsIn
<1>4. i - 1 \in 1..Len(t) /\ t[i-1] = q[i]
  <2>1. i # 1
    BY <1>3
  <2>2. i - 1 \in 1..Len(t) /\ (i - 1) + 1 = i
    BY <1>2, <2>1
  <2>3. t[i-1] = q[(i-1)+1]
    BY <1>2, <2>2, Zenon
  <2> QED
    BY <2>2, <2>3
<1>5. CASE r = t
  BY <1>3, <1>4, <1>5 DEF WaitsIn
<1>6. CASE r = Append(t, job)
  <2>1. Len(r) = Len(t) + 1 /\ \A k \in 1..Len(t) : r[k] = t[k]
    BY <1>2, <1>6, QueueMoves
  <2>2. i - 1 \in 1..Len(r) /\ r[i-1] = q[i]
    BY <1>2, <1>4, <2>1
  <2> QED
    BY <1>3, <2>2 DEF WaitsIn
<1> QED
  BY <1>1, <1>5, <1>6

\* A lap added after the time counts only if its pilot is not done, and its second job says that
\* the pilot is.
LEMMA LastLap ==
  ASSUME LapsInv, Ends, NEW n \in Nodes, DoneOrSoon(n), Takes(n), NEW l, Adding(n, l)
  PROVE  /\ finished[n] => Overtime(n)' \subseteq Overtime(n)
         /\ DoneOrSoon(n)'
<1>1. /\ queue # <<>> /\ queue \in Seq(JobSet) /\ queue[1].kind = "pass"
      /\ format' = format /\ finished' = finished
      /\ laps[n] \in Seq(LapSet) /\ l \in LapSet /\ LateLap(n) = finished[n]
  <2>1. /\ queue # <<>> /\ queue \in Seq(JobSet) /\ queue[1].kind = "pass"
        /\ format' = format /\ finished' = finished
    BY DEF LapsInv, Shapes, Takes
  <2>2. laps[n] \in Seq(LapSet) /\ l \in LapSet
    BY DEF LapsInv, Shapes, Adding
  <2>3. LateLap(n) = finished[n]
    BY DEF LateLap, Ends
  <2> QED
    BY <2>1, <2>2, <2>3
<1>2. PICK s \in Seq(LapSet) : s = laps[n]
  BY <1>1
<1>3. PICK r : r = laps'[n]
  OBVIOUS
<1>4. PICK k : k = Len(s) + 1
  OBVIOUS
<1>5. /\ r \in Seq(LapSet) /\ Len(r) = k /\ DOMAIN r = 1..k /\ DOMAIN s = 1..Len(s)
      /\ \A i \in 1..Len(s) : /\ r[i].at = s[i].at /\ (s[i].deleted => r[i].deleted)
                              /\ ~r[i].deleted => r[i].num <= s[i].num
      /\ r[k].at = l.at
      /\ (l.deleted => r[k].deleted) /\ (~r[k].deleted => r[k].num <= l.num)
  <2>1. Adds(r, s, l)
    BY <1>2, <1>3 DEF Adding
  <2>2. /\ r \in Seq(LapSet) /\ Len(r) = k
        /\ \A i \in 1..Len(s) : /\ r[i].at = s[i].at /\ (s[i].deleted => r[i].deleted)
                                /\ ~r[i].deleted => r[i].num <= s[i].num
        /\ r[k].at = l.at
        /\ (l.deleted => r[k].deleted) /\ (~r[k].deleted => r[k].num <= l.num)
    BY <1>4, <2>1 DEF Adds
  <2>3. DOMAIN r = 1..Len(r) /\ DOMAIN s = 1..Len(s)
    BY <2>2
  <2> QED
    BY <2>2, <2>3
<1>6. /\ \A i \in 1..Len(s) : s[i].num \in Int
      /\ \A i \in 1..k : r[i].num \in Int
      /\ l.num \in Int /\ k \in 1..k /\ Len(s) \in Nat
      /\ \A i \in 1..k : i \in 1..Len(s) \/ i = k
  <2>1. /\ \A i \in 1..Len(s) : s[i] \in LapSet
        /\ \A i \in 1..k : r[i] \in LapSet
    BY <1>5
  <2>2. Len(s) \in Nat /\ k \in 1..k /\ \A i \in 1..k : i \in 1..Len(s) \/ i = k
    BY <1>4
  <2> QED
    BY <1>1, <2>1, <2>2 DEF LapSet
<1>7. \A a, b \in Int : a <= b /\ Announced(a) > 0 => Announced(b) > 0
  BY DEF Announced
<1>8. ASSUME NEW i \in Overtime(n)'
      PROVE  \/ i \in Overtime(n) /\ r[i].at = s[i].at
             \/ i = k /\ ~l.deleted /\ l.at > format.time /\ Announced(l.num) > 0
  <2>1. i \in 1..k /\ ~r[i].deleted /\ r[i].at > format.time /\ Announced(r[i].num) > 0
    BY <1>1, <1>3, <1>5, <1>8 DEF Overtime, Announced
  <2>2. CASE i = k
    BY <1>5, <1>6, <1>7, <2>1, <2>2
  <2>3. CASE i \in 1..Len(s)
    <3>1. ~s[i].deleted /\ s[i].at > format.time /\ Announced(s[i].num) > 0
      BY <1>5, <1>6, <1>7, <2>1, <2>3
    <3> QED
      BY <1>2, <1>5, <2>3, <3>1 DEF Overtime
  <2> QED
    BY <1>6, <2>1, <2>2, <2>3
<1>9. finished[n] => l.deleted
  BY <1>1 DEF Adding
<1>10. PICK job : job = Job("finish", n, l.at, DoneLap(n, l.num, l.at))
  OBVIOUS
<1>11. job \in JobSet /\ (queue' = Tail(queue) \/ queue' = Append(Tail(queue), job))
  <2>1. DoneLap(n, l.num, l.at) \in BOOLEAN
    BY DEF DoneLap, Completes
  <2> QED
    BY <1>1, <1>10, <2>1, JobTyped DEF Adding, LapSet
<1>12. ASSUME ~finished[n], NEW i \in Overtime(n)'
       PROVE  WaitsIn(queue', n, r[i].at)
  <2>1. CASE i \in Overtime(n) /\ r[i].at = s[i].at
    <3>1. WaitsIn(queue, n, s[i].at)
      BY <1>2, <1>12, <2>1 DEF DoneOrSoon
    <3> QED
      BY <1>1, <1>11, <2>1, <3>1, StillWaits
  <2>2. CASE i = k /\ ~l.deleted /\ l.at > format.time /\ Announced(l.num) > 0
    <3>1. job.kind = "finish" /\ job.node = n /\ job.at = l.at /\ job.done
      BY <1>10, <1>12, <2>2 DEF Job, DoneLap, Completes, Ends
    <3>2. queue' = Append(Tail(queue), job)
      BY <1>10, <2>2 DEF Adding
    <3>3. PICK q : q = Tail(queue)
      OBVIOUS
    <3>4. q \in Seq(JobSet) /\ Len(q) \in Nat
      BY <1>1, <3>3, QueueMoves
    <3>5. Len(queue') = Len(q) + 1 /\ queue'[Len(q) + 1] = job
      BY <1>11, <3>2, <3>3, <3>4, QueueMoves
    <3>6. Len(q) + 1 \in 1..Len(queue')
      BY <3>4, <3>5
    <3> QED
      BY <1>5, <2>2, <3>1, <3>5, <3>6 DEF WaitsIn
  <2> QED
    BY <1>8, <1>12, <2>1, <2>2
<1> QED
  BY <1>1, <1>3, <1>8, <1>9, <1>12 DEF DoneOrSoon

LEMMA DoneStep ==
  ASSUME LapsInv, DoneHolds, [Next]_vars
  PROVE  DoneHolds'
<1>1. SUFFICES ASSUME Ends' PROVE \A n \in Nodes : DoneOrSoon(n)'
  BY DEF DoneHolds
<1>2. /\ queue \in Seq(JobSet) /\ laps \in [Nodes -> Seq(LapSet)] /\ edits \in Nat
      /\ Shapes /\ LapsHold /\ OrderHolds /\ finished \in [Nodes -> BOOLEAN]
  BY DEF LapsInv, Shapes
<1>3. ~Edit
  <2>1. Edit => edits' = edits + 1
    BY <1>2, EditIs
  <2> QED
    BY <1>1, <1>2, <2>1 DEF Ends
<1>4. ASSUME UNCHANGED <<format, finished, edits>>, queue # <<>>, NEW m \in Nodes,
             Ends, laps'[m] = laps[m], ~(queue[1].kind = "finish" /\ queue[1].node = m),
             NEW job \in JobSet, queue' = Tail(queue) \/ queue' = Append(Tail(queue), job)
      PROVE  DoneOrSoon(m)'
  <2>1. Overtime(m)' = Overtime(m)
    BY <1>4 DEF Overtime, Announced
  <2>2. DoneOrSoon(m)
    BY <1>4 DEF DoneHolds
  <2>3. \A i \in Overtime(m) :
          WaitsIn(queue, m, laps[m][i].at) => WaitsIn(queue', m, laps[m][i].at)
    BY <1>2, <1>4, StillWaits
  <2> QED
    BY <1>4, <2>1, <2>2, <2>3 DEF DoneOrSoon
<1>5. CASE AddLap
  <2>1. PICK n \in Nodes : /\ Takes(n)
                           /\ \/ laps' = laps /\ queue' = Tail(queue)
                              \/ \E l : Adding(n, l)
    BY <1>2, <1>5, AddLapIs
  <2>2. /\ UNCHANGED <<format, finished, edits>> /\ Ends /\ queue # <<>>
        /\ queue[1].kind = "pass"
    BY <1>1, <2>1 DEF Takes, Ends
  <2>3. CASE laps' = laps /\ queue' = Tail(queue)
    <3>1. queue[1] \in JobSet
      BY <1>2, <2>2, QueueMoves
    <3> QED
      BY <1>4, <2>2, <2>3, <3>1
  <2>4. CASE \E l : Adding(n, l)
    <3>1. PICK l : Adding(n, l)
      BY <2>4
    <3>2. PICK job : job = Job("finish", n, l.at, DoneLap(n, l.num, l.at))
      OBVIOUS
    <3>3. l \in LapSet /\ (queue' = Tail(queue) \/ queue' = Append(Tail(queue), job))
      BY <3>1, <3>2 DEF Adding
    <3>4. DoneLap(n, l.num, l.at) \in BOOLEAN
      BY DEF DoneLap, Completes
    <3>5. job \in JobSet
      BY <3>2, <3>3, <3>4, JobTyped DEF LapSet
    <3>6. DoneOrSoon(n)'
      BY <2>1, <2>2, <3>1, LastLap DEF DoneHolds
    <3>7. \A m \in Nodes : m # n => laps'[m] = laps[m]
      BY <1>2, <3>1 DEF Adding
    <3>8. ASSUME NEW m \in Nodes, m # n PROVE DoneOrSoon(m)'
      <4>1. laps'[m] = laps[m]
        BY <3>7, <3>8
      <4> QED
        BY <1>4, <2>2, <3>3, <3>5, <4>1
    <3> QED
      BY <3>6, <3>8
  <2> QED
    BY <2>1, <2>3, <2>4
<1>6. CASE Finish
  <2>1. /\ UNCHANGED <<format, laps, edits>> /\ queue # <<>> /\ queue' = Tail(queue)
        /\ queue[1].kind = "finish"
        /\ finished' = [finished EXCEPT ![queue[1].node] = @ \/ JustDone(queue[1])]
    BY <1>2, <1>6, FinishIs
  <2>2. queue[1] \in JobSet /\ Ends
    BY <1>1, <1>2, <2>1, QueueMoves DEF Ends
  <2>3. ASSUME NEW m \in Nodes PROVE DoneOrSoon(m)'
    <3>1. DoneOrSoon(m) /\ Overtime(m)' = Overtime(m)
      BY <2>1, <2>2, <2>3 DEF DoneHolds, Overtime, Announced
    <3>2. CASE finished[m]
      BY <1>2, <2>1, <3>2 DEF DoneOrSoon
    <3>3. CASE ~finished[m] /\ queue[1].node # m
      <4>1. \A i \in Overtime(m) :
              WaitsIn(queue, m, laps[m][i].at) => WaitsIn(queue', m, laps[m][i].at)
        BY <1>2, <2>1, <2>2, <3>3, StillWaits
      <4> QED
        BY <2>1, <3>1, <3>3, <4>1 DEF DoneOrSoon
    <3>4. CASE ~finished[m] /\ queue[1].node = m
      <4>1. CASE queue[1].done
        BY <1>2, <2>1, <3>4, <4>1 DEF DoneOrSoon, JustDone
      <4>2. CASE ~queue[1].done
        <5>1. ASSUME NEW at, WaitsIn(queue, m, at) PROVE WaitsIn(queue', m, at)
          <6>1. PICK i \in 1..Len(queue) :
                  queue[i].kind = "finish" /\ queue[i].node = m /\ queue[i].at = at
                  /\ queue[i].done
            BY <5>1 DEF WaitsIn
          <6>2. i # 1
            BY <4>2, <6>1
          <6>3. PICK q : q = Tail(queue)
            OBVIOUS
          <6>4. /\ Len(q) = Len(queue) - 1 /\ Len(queue) \in Nat
                /\ \A k \in 1..Len(q) : q[k] = queue[k+1]
            BY <1>2, <2>1, <2>2, <6>3, QueueMoves
          <6>5. i - 1 \in 1..Len(q) /\ (i - 1) + 1 = i
            BY <6>2, <6>4
          <6>6. q[i-1] = queue[(i-1)+1]
            BY <6>4, <6>5, Zenon
          <6> QED
            BY <2>1, <6>1, <6>3, <6>5, <6>6 DEF WaitsIn
        <5> QED
          BY <2>1, <3>1, <3>4, <5>1 DEF DoneOrSoon
      <4> QED
        BY <4>1, <4>2
    <3> QED
      BY <3>2, <3>3, <3>4
  <2> QED
    BY <2>3
<1>7. ASSUME UNCHANGED <<format, laps, edits, finished>>,
             \A i \in 1..Len(queue) : i \in 1..Len(queue') /\ queue'[i] = queue[i]
      PROVE  \A n \in Nodes : DoneOrSoon(n)'
  <2>1. \A n \in Nodes : Overtime(n)' = Overtime(n)
    BY <1>7 DEF Overtime, Announced
  <2>2. \A n \in Nodes : \A at : WaitsIn(queue, n, at) => WaitsIn(queue', n, at)
    BY <1>7 DEF WaitsIn
  <2>3. \A n \in Nodes : DoneOrSoon(n)
    BY <1>1, <1>7 DEF DoneHolds, Ends
  <2> QED
    BY <1>7, <2>1, <2>2, <2>3 DEF DoneOrSoon
<1>8. ASSUME NEW n \in Nodes, Leave(n)
      PROVE  \A m \in Nodes : DoneOrSoon(m)'
  <2>1. PICK job : job = Job("pass", n, crossing[n], FALSE)
    OBVIOUS
  <2>2. /\ UNCHANGED <<format, laps, edits, finished>> /\ queue' = Append(queue, job)
        /\ job \in JobSet
    BY <1>2, <1>8, <2>1, JobTyped DEF Leave, Shapes, flags
  <2>3. \A i \in 1..Len(queue) : i \in 1..Len(queue') /\ queue'[i] = queue[i]
    <3>1. /\ Len(queue') = Len(queue) + 1 /\ Len(queue) \in Nat
          /\ \A i \in 1..Len(queue) : queue'[i] = queue[i]
      BY <1>2, <2>2, QueueMoves
    <3> QED
      BY <3>1
  <2> QED
    BY <1>7, <2>2, <2>3
<1>9. CASE UNCHANGED <<format, laps, edits, finished, queue>>
  BY <1>7, <1>9
<1>10. CASE EditCheck
  BY <1>2, <1>9, <1>10, EditCheckIs
<1>11. CASE Quiet
  BY <1>9, <1>11, QuietKeeps
<1>12. CASE Tick \/ UNCHANGED vars \/ \E n \in Nodes : Enter(n)
  BY <1>9, <1>12 DEF Tick, vars, Enter, flags
<1> QED
  BY <1>3, <1>5, <1>6, <1>8, <1>10, <1>11, <1>12 DEF Next, Quiet

LEMMA OneLapHolds ==
  ASSUME LapsInv, DoneHolds, [Next]_vars
  PROVE  LapEndsRace
<1>1. SUFFICES ASSUME edits' = 0, format.mode = "individual", format.limited, NEW n \in Nodes
               PROVE  \/ Overtime(n)' \subseteq Overtime(n)
                      \/ \A i \in Overtime(n) : DoneWaits(n, laps[n][i].at)
  BY DEF LapEndsRace
<1>2. /\ Shapes /\ LapsHold /\ OrderHolds /\ edits \in Nat /\ laps \in [Nodes -> Seq(LapSet)]
      /\ queue \in Seq(JobSet)
  BY DEF LapsInv, Shapes
<1>3. CASE AddLap
  <2>1. PICK m \in Nodes : /\ Takes(m)
                           /\ \/ laps' = laps
                              \/ \E l : Adding(m, l)
    BY <1>2, <1>3, AddLapIs
  <2>2. UNCHANGED <<format, edits>> /\ Ends
    BY <1>1, <2>1 DEF Takes, Ends
  <2>3. CASE laps'[n] = laps[n]
    BY <2>2, <2>3 DEF Overtime, Announced
  <2>4. CASE laps'[n] # laps[n]
    <3>1. PICK l : Adding(m, l) /\ m = n
      BY <1>2, <2>1, <2>4 DEF Adding
    <3>2. DoneOrSoon(n) /\ Adding(n, l) /\ Takes(n)
      BY <2>1, <2>2, <3>1 DEF DoneHolds
    <3>3. finished[n] => Overtime(n)' \subseteq Overtime(n)
      BY <2>2, <3>2, LastLap
    <3>4. \A at : WaitsIn(queue, n, at) => DoneWaits(n, at)
      BY <1>2 DEF WaitsIn, DoneWaits
    <3> QED
      BY <3>2, <3>3, <3>4 DEF DoneOrSoon
  <2> QED
    BY <2>3, <2>4
<1>4. CASE Edit
  <2>1. edits' = edits + 1
    BY <1>2, <1>4, EditIs
  <2> QED
    BY <1>1, <1>2, <2>1
<1>5. CASE ~AddLap /\ ~Edit
  <2>1. laps' = laps
    BY <1>5, LapsChange
  <2>2. format' = format
    <3>1. CASE Quiet
      BY <3>1, QuietKeeps
    <3>2. CASE EditCheck
      BY <1>2, <3>2, EditCheckIs
    <3>3. CASE Finish
      BY <1>2, <3>3, FinishIs
    <3>4. CASE format' = format
      BY <3>4
    <3> QED
      BY <1>5, <3>1, <3>2, <3>3, <3>4 DEF Next, Quiet, vars, Tick, Enter, Leave
  <2> QED
    BY <2>1, <2>2 DEF Overtime, Announced
<1> QED
  BY <1>3, <1>4, <1>5

\* After the race time a pilot's further lap counts only while the second jobs of the earlier
\* ones, which note that the pilot is done, wait behind it in the queue (add_lap).
THEOREM OneLapSafe == Spec => OneLapAfterTime
<1>1. ASSUME Init PROVE LapsInv /\ DoneHolds
  <2>1. \A n \in Nodes : Overtime(n) = {}
    BY <1>1 DEF Init, Overtime
  <2> QED
    BY <1>1, <2>1, LapsStart DEF DoneHolds, DoneOrSoon
<1>2. ASSUME LapsInv, DoneHolds, [Next]_vars
      PROVE  LapsInv' /\ DoneHolds' /\ [LapEndsRace]_vars
  BY <1>2, LapsInvStep, DoneStep, OneLapHolds
<1> QED
  BY <1>1, <1>2, PTL DEF Spec, OneLapAfterTime

-----------------------------------------------------------------------------
(* Who waits for RACE_PILOT_DONE.                                          *)

WaitingFor == {n \in Nodes : finished[n] /\ ~effect[n]}

\* A second job tells its own pilot, or all who wait, or adds its own pilot to them.
LEMMA FinishTells ==
  ASSUME Shapes, WaitCounted, Finish, edits = 0
  PROVE  /\ WaitCounted'
         /\ win'.status = "declared" => waiting' = 0
<1> DEFINE job == queue[1]
           m == job.node
           just == JustDone(job)
           fin == [finished EXCEPT ![m] = @ \/ just]
           v == win'.status
           W == WaitingFor
           F == {n \in Nodes : fin[n] /\ ~effect[n]}
           one == IF just THEN {m} ELSE {}
           tell == ToTell(job, fin, v)
           waited == tell \ one
<1>1. job \in JobSet /\ Head(queue) = job
  BY DEF Finish, Shapes
<1>2. m \in Nodes /\ job.done \in BOOLEAN /\ finished \in [Nodes -> BOOLEAN]
      /\ effect \in [Nodes -> BOOLEAN] /\ waiting \in Int
  BY <1>1 DEF JobSet, Shapes
<1>3. /\ finished' = fin
      /\ told' = [n \in Nodes |-> told[n] + IF n \in tell THEN 1 ELSE 0]
      /\ effect' = [n \in Nodes |-> effect[n] \/ n \in tell]
      /\ waiting' = IF v = "pending" THEN waiting + IF just THEN 1 ELSE 0
                    ELSE waiting - Cardinality(waited)
  <2> HIDE DEF JustDone
  <2> QED
    BY <1>1, Zenon DEF Finish
<1>4. /\ \A n \in Nodes : told[n] = (IF effect[n] THEN 1 ELSE 0) /\ (effect[n] => finished[n])
      /\ waiting = Cardinality(W)
  BY DEF WaitCounted, WaitingFor
<1>5. just \in BOOLEAN /\ (just => ~finished[m] /\ ~effect[m] /\ m \notin W)
  BY <1>2, <1>4 DEF JustDone, WaitingFor
<1>6. F = W \cup one
  BY <1>2, <1>5 DEF WaitingFor, JustDone
<1>7. IsFiniteSet(W) /\ Cardinality(W) \in Nat
  BY BoundsTyped, FS_Subset, FS_CardinalityType DEF WaitingFor
<1>8. edits' = 0
  BY DEF Finish
<1>9. tell = IF v = "pending" THEN {} ELSE IF v = "declared" /\ waiting > 0 THEN F ELSE one
  <2>1. tell = IF v = "pending" THEN {}
               ELSE IF v = "declared" /\ waiting > 0
               THEN one \cup {n \in Nodes : fin[n] /\ ~effect[n]} ELSE one
    BY Zenon DEF ToTell
  <2> QED
    BY <2>1, <1>6
<1> HIDE DEF tell
<1>10. tell \subseteq F
  BY <1>6, <1>9
<1>11. tell \subseteq Nodes /\ \A n \in tell : ~effect[n] /\ fin[n]
  BY <1>10
<1>12. \A n \in Nodes : /\ told'[n] = (IF effect'[n] THEN 1 ELSE 0)
                        /\ effect'[n] => finished'[n]
  <2> SUFFICES ASSUME NEW n \in Nodes
               PROVE  told'[n] = (IF effect'[n] THEN 1 ELSE 0) /\ (effect'[n] => finished'[n])
    OBVIOUS
  <2>1. finished[n] => fin[n]
    BY <1>2
  <2>2. told'[n] = told[n] + (IF n \in tell THEN 1 ELSE 0)
    BY <1>3
  <2>3. effect'[n] <=> (effect[n] \/ n \in tell)
    BY <1>3
  <2>4. CASE n \in tell
    <3>1. told[n] = 0 /\ effect'[n] /\ fin[n]
      BY <1>4, <1>11, <2>3, <2>4
    <3> QED
      BY <1>3, <2>2, <2>4, <3>1
  <2>5. CASE n \notin tell
    <3>1. effect'[n] <=> effect[n]
      BY <2>3, <2>5
    <3>2. told'[n] = told[n]
      BY <1>4, <2>2, <2>5
    <3> QED
      BY <1>3, <1>4, <2>1, <3>1, <3>2
  <2> QED
    BY <2>4, <2>5
<1>13. WaitingFor' = F \ tell
  <2>1. \A n : n \in WaitingFor' <=> n \in Nodes /\ fin[n] /\ ~(effect[n] \/ n \in tell)
    BY <1>3 DEF WaitingFor
  <2> HIDE DEF fin
  <2> QED
    BY <2>1
<1>14. waiting' = Cardinality(WaitingFor') /\ (v = "declared" => waiting' = 0)
  <2>1. CASE v = "pending"
    <3>1. waiting' = waiting + IF just THEN 1 ELSE 0
      BY <1>3, <2>1
    <3>2. WaitingFor' = W \cup one
      BY <1>6, <1>9, <1>13, <2>1
    <3>3. CASE just
      <4>1. Cardinality(W \cup {m}) = Cardinality(W) + 1
        BY <1>5, <1>7, <3>3, FS_AddElement
      <4> QED
        BY <1>4, <2>1, <3>1, <3>2, <3>3, <4>1
    <3>4. CASE ~just
      BY <1>4, <1>7, <2>1, <3>1, <3>2, <3>4
    <3> QED
      BY <1>5, <3>3, <3>4
  <2>2. CASE v # "pending" /\ v = "declared" /\ waiting > 0
    <3>1. tell = W \cup one /\ WaitingFor' = {}
      BY <1>6, <1>9, <1>13, <2>2
    <3>2. W \cap one = {}
      BY <1>5
    <3>3. waited = W
      BY <3>1, <3>2
    <3>4. waiting' = waiting - Cardinality(W)
      BY <1>3, <2>2, <3>3
    <3> QED
      BY <1>4, <1>7, <3>1, <3>4, FS_EmptySet
  <2>3. CASE v # "pending" /\ ~(v = "declared" /\ waiting > 0)
    <3>1. tell = one
      BY <1>9, <2>3
    <3>2. W \cap one = {}
      BY <1>5
    <3>3. waited = {} /\ WaitingFor' = W
      BY <1>6, <1>13, <3>1, <3>2
    <3>4. Cardinality(waited) = 0
      BY <3>3, FS_EmptySet
    <3>5. waiting' = waiting - Cardinality(waited)
      BY <1>3, <2>3
    <3>6. waiting' = waiting
      BY <1>2, <3>4, <3>5
    <3> QED
      BY <1>4, <1>7, <2>3, <3>3, <3>6
  <2> QED
    BY <2>1, <2>2, <2>3
<1> QED
  BY <1>3, <1>12, <1>14 DEF WaitCounted, WaitingFor

LEMMA WaitStep ==
  ASSUME LapsInv, WaitCounted, [Next]_vars
  PROVE  WaitCounted'
<1>1. Shapes /\ LapsHold
  BY DEF LapsInv
<1>2. CASE UNCHANGED <<flags, edits>>
  BY <1>2 DEF WaitCounted, flags
<1>3. CASE Finish /\ edits = 0
  BY <1>1, <1>3, FinishTells
<1>4. CASE Finish /\ edits # 0
  <2>1. edits' # 0
    BY <1>4 DEF Finish
  <2> QED
    BY <2>1 DEF WaitCounted
<1>5. CASE Edit
  <2>1. edits' = edits + 1
    BY <1>1, <1>5, EditIs
  <2>2. edits' # 0
    BY <1>1, <2>1 DEF Shapes
  <2> QED
    BY <2>2 DEF WaitCounted
<1>6. CASE ~Finish /\ ~Edit
  <2>1. UNCHANGED <<flags, edits>>
    <3>1. CASE AddLap
      BY <3>1 DEF AddLap
    <3>2. CASE EditCheck
      BY <3>2 DEF EditCheck
    <3>3. CASE Quiet
      BY <3>3, Zenon DEF Quiet, Tick, Awake, Enter, Leave, Expire, FinishCheck, ForcedCheck, Grace,
                  Stop, DoStop, FinalCheck
    <3>4. CASE UNCHANGED vars
      BY <3>4 DEF vars
    <3> QED
      BY <1>6, <3>1, <3>2, <3>3, <3>4 DEF Next, Quiet, Tick, Enter, Leave
  <2> QED
    BY <1>2, <2>1
<1> QED
  BY <1>2, <1>3, <1>4, <1>5, <1>6

LEMMA WaitHolds == Spec => [](LapsInv /\ WaitCounted)
<1>1. ASSUME Init PROVE WaitCounted
  <2>1. {n \in Nodes : finished[n] /\ ~effect[n]} = {}
    BY <1>1 DEF Init
  <2>2. \A n \in Nodes : told[n] = 0 /\ ~effect[n]
    BY <1>1 DEF Init
  <2>3. waiting = 0
    BY <1>1 DEF Init
  <2> QED
    BY <2>1, <2>2, <2>3, FS_EmptySet DEF WaitCounted
<1> QED
  BY <1>1, LapsInvHolds, WaitStep, PTL DEF Spec

\* node_fin_effect_wait_count is the number of pilots who are done and wait for their event, and
\* no pilot has RACE_PILOT_DONE twice, until laps are edited.
THEOREM WaitCountedSafe == Spec => []WaitCounted
BY WaitHolds, PTL

\* When a second job finds or makes the win declared, every pilot who is done by then has had
\* RACE_PILOT_DONE once, its own and those that waited for crossings
\* (finish_add_lap_processing).
AllTold ==
  [][Finish /\ edits = 0 /\ win'.status = "declared" =>
       waiting' = 0 /\ \A n \in Nodes : finished'[n] => told'[n] = 1]_vars

THEOREM AllToldSafe == Spec => AllTold
<1>1. ASSUME LapsInv, WaitCounted, Finish, edits = 0, win'.status = "declared"
      PROVE  waiting' = 0 /\ \A n \in Nodes : finished'[n] => told'[n] = 1
  <2>1. WaitCounted' /\ waiting' = 0 /\ edits' = 0
    BY <1>1, FinishTells DEF LapsInv, Finish
  <2>2. Cardinality({n \in Nodes : finished'[n] /\ ~effect'[n]}) = 0
    BY <2>1 DEF WaitCounted
  <2>3. {n \in Nodes : finished'[n] /\ ~effect'[n]} = {}
    <3> DEFINE W == {n \in Nodes : finished'[n] /\ ~effect'[n]}
    <3>1. IsFiniteSet(W)
      BY BoundsTyped, FS_Subset
    <3> HIDE DEF W
    <3>2. W = {}
      BY <2>2, <3>1, FS_EmptySet DEF W
    <3> QED
      BY <3>2 DEF W
  <2>4. \A n \in Nodes : told'[n] = IF effect'[n] THEN 1 ELSE 0
    BY <2>1 DEF WaitCounted
  <2> QED
    BY <2>1, <2>3, <2>4
<1> QED
  BY <1>1, WaitHolds, PTL DEF AllTold

=============================================================================
