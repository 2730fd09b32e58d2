--------------------------- MODULE RssiNode_proofs ---------------------------
(***************************************************************************)
(* What is proved of the firmware for all values, levels and bounds: each  *)
(* operation keeps the types, and the extremums that wait to be read are   *)
(* times at which the RSSI was measured to have that value, however they   *)
(* were extended, merged, dropped or taken; and only the end of a crossing *)
(* changes the last pass: to the next lap id, and to a time in the past.   *)
(***************************************************************************)
EXTENDS RssiNode, Sequences, TLAPS

-----------------------------------------------------------------------------
(* Types.                                                                  *)

LEMMA TwoBytesFits ==
  /\ \A x \in Int : TwoBytes(x) \in 0..MaxDuration
  /\ \A x \in 0..MaxDuration : TwoBytes(x) = x
BY NodeAssumption DEF TwoBytes

LEMMA ExtremumTypes ==
  ASSUME NEW t \in Nat
  PROVE  /\ \A v \in 0..MaxRssi : Extremum(v, t) \in ExtremumAt(t)
         /\ ExtremumAt(t) \subseteq ExtremumAt(t + 1)
         /\ \A e \in ExtremumAt(t) : Extended(e, t) \in ExtremumAt(t)
         /\ \A e \in ExtremumAt(t) : [e EXCEPT !.rssi = 0] \in ExtremumAt(t)
         /\ \A e \in ExtremumAt(t) : [e EXCEPT !.rssi = MaxRssi] \in ExtremumAt(t)
         /\ \A e, f \in ExtremumAt(t) : Merged(e, f) \in ExtremumAt(t)
<1>1. \A v \in 0..MaxRssi : Extremum(v, t) \in ExtremumAt(t)
  BY NodeAssumption DEF Extremum, ExtremumAt
<1>2. ExtremumAt(t) \subseteq ExtremumAt(t + 1)
  BY DEF ExtremumAt
<1>3. \A e \in ExtremumAt(t) : Extended(e, t) \in ExtremumAt(t)
  BY NodeAssumption DEF Extended, ExtremumAt, Least
<1>4. \A e \in ExtremumAt(t) : [e EXCEPT !.rssi = 0] \in ExtremumAt(t)
  BY NodeAssumption DEF ExtremumAt
<1>5. \A e \in ExtremumAt(t) : [e EXCEPT !.rssi = MaxRssi] \in ExtremumAt(t)
  BY NodeAssumption DEF ExtremumAt
<1>6. ASSUME NEW e \in ExtremumAt(t), NEW f \in ExtremumAt(t)
      PROVE  Merged(e, f) \in ExtremumAt(t)
  <2>1. f.first + f.duration - e.first \in Int
    BY NodeAssumption DEF ExtremumAt
  <2>2. TwoBytes(f.first + f.duration - e.first) \in 0..MaxDuration
    BY <2>1, TwoBytesFits
  <2> QED
    BY <2>2 DEF ExtremumAt, Merged
<1> QED
  BY <1>1, <1>2, <1>3, <1>4, <1>5, <1>6

LEMMA OlderNode ==
  ASSUME NEW t \in Nat
  PROVE  NodeAt(t) \subseteq NodeAt(t + 1)
BY ExtremumTypes DEF NodeAt

\* What the steps of rssiProcess do to a node, field by field.
LEMMA BufferPeakFields ==
  ASSUME NEW t \in Nat, NEW n \in NodeAt(t), NEW force \in BOOLEAN
  PROVE  LET m == BufferPeak(n, force) IN
         /\ m \in NodeAt(t) /\ m.active = n.active /\ m.rssi = n.rssi
         /\ m.peak = n.peak /\ m.nadir = n.nadir /\ m.nadirBuffer = n.nadirBuffer
         /\ m.peakBuffer \in {n.peakBuffer, PeakOffered(n.peakBuffer, n.peak)}
<1> DEFINE b == PeakOffered(n.peakBuffer, n.peak)
<1>1. b \in ExtremumAt(t)
  BY ExtremumTypes DEF PeakOffered, NodeAt
<1>2. BufferPeak(n, force) \in {n, [n EXCEPT !.peakBuffer = b, !.pendingPeak = FALSE]}
  BY DEF BufferPeak, NodeAt
<1> HIDE DEF b
<1>3. CASE BufferPeak(n, force) = n
  BY <1>3
<1>4. CASE BufferPeak(n, force) = [n EXCEPT !.peakBuffer = b, !.pendingPeak = FALSE]
  BY ZenonT(40), <1>1, <1>4 DEF NodeAt, b
<1> QED
  BY <1>2, <1>3, <1>4

LEMMA BufferNadirFields ==
  ASSUME NEW t \in Nat, NEW n \in NodeAt(t), NEW force \in BOOLEAN
  PROVE  LET m == BufferNadir(n, force) IN
         /\ m \in NodeAt(t) /\ m.active = n.active /\ m.rssi = n.rssi
         /\ m.peak = n.peak /\ m.nadir = n.nadir /\ m.peakBuffer = n.peakBuffer
         /\ m.nadirBuffer \in {n.nadirBuffer, NadirOffered(n.nadirBuffer, n.nadir)}
<1> DEFINE b == NadirOffered(n.nadirBuffer, n.nadir)
<1>1. b \in ExtremumAt(t)
  BY ExtremumTypes DEF NadirOffered, NodeAt
<1>2. BufferNadir(n, force) \in {n, [n EXCEPT !.nadirBuffer = b, !.pendingNadir = FALSE]}
  BY DEF BufferNadir, NodeAt
<1> HIDE DEF b
<1>3. CASE BufferNadir(n, force) = n
  BY <1>3
<1>4. CASE BufferNadir(n, force) = [n EXCEPT !.nadirBuffer = b, !.pendingNadir = FALSE]
  BY <1>1, <1>4 DEF NodeAt, b
<1> QED
  BY <1>2, <1>3, <1>4

LEMMA RisingFields ==
  ASSUME NEW t \in Nat, NEW n \in NodeAt(t), NEW v \in 0..MaxRssi
  PROVE  LET m == Rising(n, v, t + 1) IN
         /\ m \in NodeAt(t + 1) /\ m.active = n.active
         /\ m.peak = Extremum(v, t + 1) /\ m.peakBuffer = BufferPeak(n, TRUE).peakBuffer
         /\ m.nadir = n.nadir /\ m.nadirBuffer = n.nadirBuffer
<1> DEFINE b == BufferPeak(n, TRUE)
           p == b.pendingNadir \/ n.change <= 0
<1>1. b \in NodeAt(t) /\ b.active = n.active /\ b.nadir = n.nadir /\ b.nadirBuffer = n.nadirBuffer
  BY BufferPeakFields
<1>2. b \in NodeAt(t + 1) /\ Extremum(v, t + 1) \in ExtremumAt(t + 1) /\ p \in BOOLEAN
  <2>1. b \in NodeAt(t + 1)
    BY <1>1, OlderNode
  <2>2. t + 1 \in Nat
    OBVIOUS
  <2>3. Extremum(v, t + 1) \in ExtremumAt(t + 1)
    BY <2>2, ExtremumTypes
  <2>4. p \in BOOLEAN
    OBVIOUS
  <2> QED
    BY <2>1, <2>3, <2>4
<1>3. Rising(n, v, t + 1) = [b EXCEPT !.peak = Extremum(v, t + 1), !.pendingNadir = p]
  BY DEF Rising
<1> HIDE DEF b, p
<1>4. Rising(n, v, t + 1) \in NodeAt(t + 1)
  BY <1>2, <1>3 DEF NodeAt
<1>5. LET m == Rising(n, v, t + 1) IN
      /\ m.active = b.active /\ m.peak = Extremum(v, t + 1) /\ m.peakBuffer = b.peakBuffer
      /\ m.nadir = b.nadir /\ m.nadirBuffer = b.nadirBuffer
  BY <1>2, <1>3 DEF NodeAt
<1> QED
  BY <1>1, <1>4, <1>5 DEF b

LEMMA FallingFields ==
  ASSUME NEW t \in Nat, NEW n \in NodeAt(t), NEW v \in 0..MaxRssi
  PROVE  LET m == Falling(n, v, t + 1) IN
         /\ m \in NodeAt(t + 1) /\ m.active = n.active
         /\ m.nadir = Extremum(v, t + 1) /\ m.nadirBuffer = BufferNadir(n, TRUE).nadirBuffer
         /\ m.peak = n.peak /\ m.peakBuffer = n.peakBuffer
<1> DEFINE b == BufferNadir(n, TRUE)
           p == b.pendingPeak \/ n.change >= 0
<1>1. b \in NodeAt(t) /\ b.active = n.active /\ b.peak = n.peak /\ b.peakBuffer = n.peakBuffer
  BY BufferNadirFields
<1>2. b \in NodeAt(t + 1) /\ Extremum(v, t + 1) \in ExtremumAt(t + 1) /\ p \in BOOLEAN
  <2>1. b \in NodeAt(t + 1)
    BY <1>1, OlderNode
  <2>2. t + 1 \in Nat
    OBVIOUS
  <2>3. Extremum(v, t + 1) \in ExtremumAt(t + 1)
    BY <2>2, ExtremumTypes
  <2>4. p \in BOOLEAN
    OBVIOUS
  <2> QED
    BY <2>1, <2>3, <2>4
<1>3. Falling(n, v, t + 1) = [b EXCEPT !.nadir = Extremum(v, t + 1), !.pendingPeak = p]
  BY DEF Falling
<1> HIDE DEF b, p
<1>4. Falling(n, v, t + 1) \in NodeAt(t + 1)
  BY <1>2, <1>3 DEF NodeAt
<1>5. LET m == Falling(n, v, t + 1) IN
      /\ m.active = b.active /\ m.nadir = Extremum(v, t + 1) /\ m.nadirBuffer = b.nadirBuffer
      /\ m.peak = b.peak /\ m.peakBuffer = b.peakBuffer
  BY <1>2, <1>3 DEF NodeAt
<1> QED
  BY <1>1, <1>4, <1>5 DEF b

\* A node whose peak or nadir is replaced.
LEMMA WithPeak ==
  ASSUME NEW t \in Nat, NEW n \in NodeAt(t), NEW e \in ExtremumAt(t)
  PROVE  LET m == [n EXCEPT !.peak = e] IN
         /\ m \in NodeAt(t) /\ m.active = n.active /\ m.peak = e
         /\ m.peakBuffer = n.peakBuffer /\ m.nadir = n.nadir /\ m.nadirBuffer = n.nadirBuffer
BY DEF NodeAt

LEMMA WithNadir ==
  ASSUME NEW t \in Nat, NEW n \in NodeAt(t), NEW e \in ExtremumAt(t)
  PROVE  LET m == [n EXCEPT !.nadir = e] IN
         /\ m \in NodeAt(t) /\ m.active = n.active /\ m.nadir = e
         /\ m.nadirBuffer = n.nadirBuffer /\ m.peak = n.peak /\ m.peakBuffer = n.peakBuffer
BY DEF NodeAt

\* Crossings and passes do not touch the history.
SameHistory(m, n) ==
  /\ m.active = n.active /\ m.rssi = n.rssi
  /\ m.peak = n.peak /\ m.peakBuffer = n.peakBuffer
  /\ m.nadir = n.nadir /\ m.nadirBuffer = n.nadirBuffer

LEMMA EndCrossingFields ==
  ASSUME NEW t \in Nat, NEW n \in NodeAt(t)
  PROVE  EndCrossing(n) \in NodeAt(t) /\ SameHistory(EndCrossing(n), n)
<1> DEFINE pass == [rssi |-> n.passPeak.rssi, time |-> MiddleOfPeak(n.passPeak),
                    nadir |-> n.passNadir, lap |-> NextLap(n.lastPass.lap)]
           peak == [n.passPeak EXCEPT !.rssi = 0]
<1>1. n.passPeak \in ExtremumAt(t) /\ n.lastPass \in Pass /\ n.passNadir \in 0..MaxRssi
  BY DEF NodeAt
<1>2. MiddleOfPeak(n.passPeak) \in Nat
  BY <1>1, NodeAssumption DEF MiddleOfPeak, ExtremumAt
<1>3. NextLap(n.lastPass.lap) \in 0..LapIds-1
  BY <1>1, NodeAssumption DEF NextLap, Pass
<1>4. pass \in Pass
  BY <1>1, <1>2, <1>3 DEF Pass, ExtremumAt
<1>5. peak \in ExtremumAt(t)
  BY <1>1, ExtremumTypes
<1>6. EndCrossing(n) = [n EXCEPT !.lastPass = pass, !.crossing = FALSE, !.passPeak = peak,
                                 !.passNadir = MaxRssi]
  BY DEF EndCrossing, NodeAt
<1> HIDE DEF pass, peak
<1>7. EndCrossing(n) \in NodeAt(t)
  <2>1. MaxRssi \in 0..MaxRssi
    BY NodeAssumption
  <2> QED
    BY ZenonT(40), <1>4, <1>5, <1>6, <2>1 DEF NodeAt
<1>8. SameHistory(EndCrossing(n), n)
  BY <1>6 DEF NodeAt, SameHistory
<1> QED
  BY <1>7, <1>8

LEMMA CrossingFields ==
  ASSUME NEW t \in Nat, NEW n \in NodeAt(t)
  PROVE  /\ Crossing(n) \in NodeAt(t) /\ SameHistory(Crossing(n), n)
         /\ PassPeak(n, t) \in NodeAt(t) /\ SameHistory(PassPeak(n, t), n)
<1>1. n \in NodeAt(t) /\ SameHistory(n, n)
  BY DEF SameHistory
<1>2. LET m == [n EXCEPT !.crossing = TRUE] IN m \in NodeAt(t) /\ SameHistory(m, n)
  BY DEF NodeAt, SameHistory
<1>3. ASSUME NEW e \in ExtremumAt(t)
      PROVE  LET m == [n EXCEPT !.passPeak = e] IN m \in NodeAt(t) /\ SameHistory(m, n)
  BY <1>3 DEF NodeAt, SameHistory
<1>4. ASSUME NEW x \in 0..MaxRssi
      PROVE  LET m == [n EXCEPT !.passNadir = x] IN m \in NodeAt(t) /\ SameHistory(m, n)
  BY <1>4 DEF NodeAt, SameHistory
<1>5. Crossing(n) \in {n, EndCrossing(n), [n EXCEPT !.crossing = TRUE]}
  BY DEF Crossing
<1>6. /\ Extremum(n.rssi, t) \in ExtremumAt(t) /\ Extended(n.passPeak, t) \in ExtremumAt(t)
      /\ Least(n.passNadir, n.rssi) \in 0..MaxRssi
  BY ExtremumTypes DEF NodeAt, Least
<1>7. PassPeak(n, t) \in {n, [n EXCEPT !.passNadir = Least(n.passNadir, n.rssi)],
                          [n EXCEPT !.passPeak = Extremum(n.rssi, t)],
                          [n EXCEPT !.passPeak = Extended(n.passPeak, t)]}
  BY DEF PassPeak, NodeAt
<1>8. Crossing(n) \in NodeAt(t) /\ SameHistory(Crossing(n), n)
  BY <1>1, <1>2, <1>5, EndCrossingFields
<1>9. PassPeak(n, t) \in NodeAt(t) /\ SameHistory(PassPeak(n, t), n)
  BY <1>1, <1>3, <1>4, <1>6, <1>7
<1> QED
  BY <1>8, <1>9

-----------------------------------------------------------------------------
(* The history is what was measured.                                       *)

\* tr[k] is the value measured at time k.  An extremum is one that was measured, from its
\* first time to its last; the last one is known only while two bytes hold the time since
\* the first.
Measured(e, tr, t) ==
  0 < e.rssi /\ e.rssi < MaxRssi =>
    /\ e.first >= 1 /\ tr[e.first] = e.rssi
    /\ t - e.first <= MaxDuration =>
         e.first + e.duration <= t /\ tr[e.first + e.duration] = e.rssi

Kept(n, tr, t) ==
  /\ Measured(n.peak, tr, t) /\ Measured(n.peakBuffer, tr, t)
  /\ n.peakBuffer.first <= n.peak.first
  /\ Measured(n.nadir, tr, t) /\ Measured(n.nadirBuffer, tr, t)
  /\ n.nadirBuffer.first <= n.nadir.first

\* A peak lies above the value v to which the RSSI has come, or lasts until now; a nadir
\* below it alike.
UpTo(e, t) == e.first + e.duration = t /\ e.duration < MaxDuration
Edge(p, d, v, t) ==
  /\ p.rssi # 0 => v <= p.rssi
  /\ d.rssi # MaxRssi => d.rssi <= v
  /\ p.rssi # 0 /\ d.rssi # MaxRssi => d.rssi < p.rssi
  /\ 0 < v /\ v < MaxRssi /\ p.rssi = v => UpTo(p, t)
  /\ 0 < v /\ v < MaxRssi /\ d.rssi = v => UpTo(d, t)

Trace(t) == {tr \in Seq(0..MaxRssi) : Len(tr) = t}

HistoryHolds(n, tr, t) ==
  /\ n \in NodeAt(t) /\ n.active /\ tr \in Trace(t)
  /\ Kept(n, tr, t) /\ Edge(n.peak, n.nadir, n.rssi, t)

LEMMA TraceGrows ==
  ASSUME NEW t \in Nat, NEW tr \in Trace(t), NEW v \in 0..MaxRssi
  PROVE  /\ Append(tr, v) \in Trace(t + 1) /\ Append(tr, v)[t + 1] = v
         /\ \A k \in 1..t : Append(tr, v)[k] = tr[k]
BY DEF Trace

LEMMA MeasuredLater ==
  ASSUME NEW t \in Nat, NEW tr \in Trace(t), NEW v \in 0..MaxRssi,
         NEW e \in ExtremumAt(t), Measured(e, tr, t)
  PROVE  Measured(e, Append(tr, v), t + 1)
<1> DEFINE s == Append(tr, v)
<1>s. s = Append(tr, v)
  OBVIOUS
<1>1. \A k \in 1..t : s[k] = tr[k]
  BY TraceGrows
<1> HIDE DEF s
<1>2. /\ MaxDuration \in Nat /\ MaxRssi \in Nat /\ e.rssi \in 0..MaxRssi
      /\ e.first \in 0..t /\ e.duration \in 0..MaxDuration
  BY NodeAssumption DEF ExtremumAt
<1>3. SUFFICES ASSUME 0 < e.rssi, e.rssi < MaxRssi
      PROVE /\ e.first >= 1 /\ s[e.first] = e.rssi
            /\ (t + 1) - e.first <= MaxDuration =>
                 e.first + e.duration <= t + 1 /\ s[e.first + e.duration] = e.rssi
  BY <1>s DEF Measured
<1>4. e.first \in 1..t /\ s[e.first] = e.rssi
  <2>1. e.first >= 1 /\ tr[e.first] = e.rssi
    BY <1>3 DEF Measured
  <2>2. e.first \in 1..t
    BY <1>2, <2>1
  <2> QED
    BY <1>1, <2>1, <2>2
<1>5. ASSUME (t + 1) - e.first <= MaxDuration
      PROVE  e.first + e.duration <= t + 1 /\ s[e.first + e.duration] = e.rssi
  <2>0. t - e.first <= MaxDuration
    BY <1>2, <1>5
  <2>1. e.first + e.duration <= t /\ tr[e.first + e.duration] = e.rssi
    BY <1>3, <2>0 DEF Measured
  <2>2. e.first + e.duration \in 1..t /\ e.first + e.duration <= t + 1
    BY <1>2, <1>4, <2>1
  <2> QED
    BY <1>1, <2>1, <2>2
<1>6. e.first >= 1
  BY <1>4
<1> QED
  BY <1>4, <1>5, <1>6

LEMMA MeasuredNow ==
  ASSUME NEW t \in Nat, NEW tr \in Trace(t), NEW v \in 0..MaxRssi
  PROVE  /\ Measured(Extremum(v, t + 1), Append(tr, v), t + 1)
         /\ UpTo(Extremum(v, t + 1), t + 1)
BY TraceGrows, NodeAssumption DEF Measured, Extremum, UpTo

\* A buffer that is offered what was measured holds what was measured.
LEMMA MeasuredMerged ==
  ASSUME NEW t \in Nat, NEW tr \in Trace(t), NEW b \in ExtremumAt(t), NEW e \in ExtremumAt(t),
         Measured(b, tr, t), Measured(e, tr, t), b.first <= e.first, b.rssi = e.rssi
  PROVE  Measured(Merged(b, e), tr, t) /\ Merged(b, e).first = b.first
<1> DEFINE x == e.first + e.duration - b.first
<1>1. /\ MaxDuration \in Nat /\ MaxRssi \in Nat /\ b.rssi \in 0..MaxRssi
      /\ b.first \in 0..t /\ e.first \in 0..t /\ e.duration \in 0..MaxDuration
  BY NodeAssumption DEF ExtremumAt
<1>2. /\ Merged(b, e).rssi = b.rssi /\ Merged(b, e).first = b.first
      /\ Merged(b, e).duration = TwoBytes(x)
  BY DEF Merged, ExtremumAt
<1>3. SUFFICES ASSUME 0 < b.rssi, b.rssi < MaxRssi, t - b.first <= MaxDuration
      PROVE  b.first + TwoBytes(x) <= t /\ tr[b.first + TwoBytes(x)] = b.rssi
  BY <1>2 DEF Measured
<1>4. e.first + e.duration <= t /\ tr[e.first + e.duration] = e.rssi
  BY <1>1, <1>3 DEF Measured
<1>5. x \in 0..MaxDuration
  BY <1>1, <1>3, <1>4
<1>6. TwoBytes(x) = x
  BY <1>5, TwoBytesFits
<1>7. b.first + x = e.first + e.duration
  BY <1>1
<1> QED
  BY <1>4, <1>6, <1>7

LEMMA MeasuredOffered ==
  ASSUME NEW t \in Nat, NEW tr \in Trace(t), NEW b \in ExtremumAt(t), NEW e \in ExtremumAt(t),
         Measured(b, tr, t), Measured(e, tr, t), b.first <= e.first
  PROVE  /\ Measured(PeakOffered(b, e), tr, t) /\ PeakOffered(b, e).first <= e.first
         /\ Measured(NadirOffered(b, e), tr, t) /\ NadirOffered(b, e).first <= e.first
<1>1. e.first <= e.first
  BY DEF ExtremumAt
<1>2. b.rssi = e.rssi => Measured(Merged(b, e), tr, t) /\ Merged(b, e).first = b.first
  BY MeasuredMerged
<1>3. PeakOffered(b, e) \in {b, e} \/ (b.rssi = e.rssi /\ PeakOffered(b, e) = Merged(b, e))
  BY DEF PeakOffered
<1>4. NadirOffered(b, e) \in {b, e} \/ (b.rssi = e.rssi /\ NadirOffered(b, e) = Merged(b, e))
  BY DEF NadirOffered
<1> QED
  BY <1>1, <1>2, <1>3, <1>4

LEMMA KeptBuffered ==
  ASSUME NEW t \in Nat, NEW tr \in Trace(t), NEW n \in NodeAt(t), NEW force \in BOOLEAN,
         Kept(n, tr, t)
  PROVE  Kept(BufferPeak(n, force), tr, t) /\ Kept(BufferNadir(n, force), tr, t)
<1>1. /\ n.peak \in ExtremumAt(t) /\ n.peakBuffer \in ExtremumAt(t)
      /\ n.nadir \in ExtremumAt(t) /\ n.nadirBuffer \in ExtremumAt(t)
  BY DEF NodeAt
<1>2. LET p == PeakOffered(n.peakBuffer, n.peak) IN Measured(p, tr, t) /\ p.first <= n.peak.first
  BY <1>1, MeasuredOffered DEF Kept
<1>3. LET d == NadirOffered(n.nadirBuffer, n.nadir)
      IN  Measured(d, tr, t) /\ d.first <= n.nadir.first
  BY <1>1, MeasuredOffered DEF Kept
<1>4. Kept(BufferPeak(n, force), tr, t)
  BY <1>2, BufferPeakFields DEF Kept
<1>5. Kept(BufferNadir(n, force), tr, t)
  BY <1>3, BufferNadirFields DEF Kept
<1> QED
  BY <1>4, <1>5

LEMMA KeptLater ==
  ASSUME NEW t \in Nat, NEW tr \in Trace(t), NEW n \in NodeAt(t), NEW v \in 0..MaxRssi,
         Kept(n, tr, t)
  PROVE  n \in NodeAt(t + 1) /\ Kept(n, Append(tr, v), t + 1)
<1>1. /\ n.peak \in ExtremumAt(t) /\ n.peakBuffer \in ExtremumAt(t)
      /\ n.nadir \in ExtremumAt(t) /\ n.nadirBuffer \in ExtremumAt(t)
  BY DEF NodeAt
<1>2. n \in NodeAt(t + 1)
  BY OlderNode
<1>3. ASSUME NEW e \in ExtremumAt(t), Measured(e, tr, t)
      PROVE  Measured(e, Append(tr, v), t + 1)
  BY <1>3, MeasuredLater
<1> QED
  BY <1>1, <1>2, <1>3 DEF Kept

\* A peak, or a nadir, that begins now while the one before went to its buffer.
LEMMA KeptReplaced ==
  ASSUME NEW t \in Nat, NEW tr \in Trace(t), NEW n \in NodeAt(t), NEW e \in ExtremumAt(t),
         Kept(n, tr, t), Measured(e, tr, t), e.first = t
  PROVE  /\ Kept([n EXCEPT !.peak = e], tr, t)
         /\ Kept([n EXCEPT !.nadir = e], tr, t)
<1>1. n.peakBuffer.first <= t /\ n.nadirBuffer.first <= t
  BY DEF NodeAt, ExtremumAt
<1> QED
  BY <1>1, WithPeak, WithNadir DEF Kept

LEMMA MeasuredExtended ==
  ASSUME NEW t \in Nat, NEW tr \in Trace(t), NEW e \in ExtremumAt(t), NEW v \in 0..MaxRssi,
         Measured(e, tr, t), e.rssi = v
  PROVE  LET d == Extended(e, t + 1) IN
         /\ d \in ExtremumAt(t + 1) /\ d.rssi = v /\ d.first = e.first
         /\ Measured(d, Append(tr, v), t + 1)
         /\ d.duration # MaxDuration => UpTo(d, t + 1)
<1> DEFINE d == Extended(e, t + 1)
           s == Append(tr, v)
<1>s. s[t + 1] = v /\ Measured(e, s, t + 1)
  BY TraceGrows, MeasuredLater
<1> HIDE DEF s
<1>1. /\ MaxDuration \in Nat /\ MaxRssi \in Nat /\ e.rssi \in 0..MaxRssi
      /\ e.first \in 0..t /\ e.duration \in 0..MaxDuration
  BY NodeAssumption DEF ExtremumAt
<1>2. /\ d.rssi = e.rssi /\ d.first = e.first
      /\ d.duration = Least((t + 1) - e.first, MaxDuration)
  BY DEF Extended, ExtremumAt
<1>3. d \in ExtremumAt(t + 1)
  <2>1. t + 1 \in Nat
    OBVIOUS
  <2>2. e \in ExtremumAt(t + 1)
    BY ExtremumTypes
  <2> QED
    BY <2>1, <2>2, ExtremumTypes
<1> HIDE DEF d
<1>4. d.duration # MaxDuration => UpTo(d, t + 1)
  BY <1>1, <1>2 DEF Least, UpTo
<1>5. Measured(d, s, t + 1)
  <2>1. SUFFICES ASSUME 0 < d.rssi, d.rssi < MaxRssi
        PROVE  /\ d.first >= 1 /\ s[d.first] = d.rssi
               /\ (t + 1) - d.first <= MaxDuration =>
                    d.first + d.duration <= t + 1 /\ s[d.first + d.duration] = d.rssi
    BY DEF Measured
  <2>2. d.first >= 1 /\ s[d.first] = d.rssi
    BY <1>s, <1>2, <2>1 DEF Measured
  <2>3. ASSUME (t + 1) - d.first <= MaxDuration PROVE d.first + d.duration = t + 1
    BY <1>1, <1>2, <2>3 DEF Least
  <2> QED
    BY <1>s, <1>2, <2>2, <2>3
<1> QED
  BY <1>2, <1>3, <1>4, <1>5 DEF d, s

-----------------------------------------------------------------------------
(* Each way the RSSI goes.                                                 *)

\* What holds once the history has been brought to the value v at time t.
Come(m, tr, v, t) ==
  m \in NodeAt(t) /\ m.active /\ Kept(m, tr, t) /\ Edge(m.peak, m.nadir, v, t)

LEMMA Rises ==
  ASSUME NEW t \in Nat, NEW tr, NEW n, HistoryHolds(n, tr, t), NEW v \in 0..MaxRssi, v > n.rssi
  PROVE  Come(Rising(n, v, t + 1), Append(tr, v), v, t + 1)
<1> DEFINE s == Append(tr, v)
           b == BufferPeak(n, TRUE)
           m == Rising(n, v, t + 1)
           e == Extremum(v, t + 1)
<1>1. n \in NodeAt(t) /\ n.active /\ tr \in Trace(t) /\ Kept(n, tr, t)
  BY DEF HistoryHolds
<1>2. n \in NodeAt(t + 1) /\ Kept(n, s, t + 1) /\ s \in Trace(t + 1)
  BY <1>1, KeptLater, TraceGrows
<1>3. b \in NodeAt(t + 1) /\ Kept(b, s, t + 1)
  <2>1. t + 1 \in Nat
    OBVIOUS
  <2> QED
    BY <1>2, <2>1, BufferPeakFields, KeptBuffered
<1>4. e \in ExtremumAt(t + 1) /\ Measured(e, s, t + 1) /\ UpTo(e, t + 1)
      /\ e.first = t + 1 /\ e.rssi = v
  <2>1. t + 1 \in Nat
    OBVIOUS
  <2> QED
    BY <1>1, <2>1, ExtremumTypes, MeasuredNow DEF Extremum
<1>5. /\ m \in NodeAt(t + 1) /\ m.active = n.active /\ m.peak = e
      /\ m.peakBuffer = b.peakBuffer /\ m.nadir = n.nadir /\ m.nadirBuffer = n.nadirBuffer
  BY <1>1, RisingFields
<1> HIDE DEF s, b, m, e
<1>6. b.peakBuffer.first <= t + 1
  <2>1. b.peakBuffer \in ExtremumAt(t + 1)
    BY <1>3 DEF NodeAt
  <2> QED
    BY <2>1 DEF ExtremumAt
<1>7. Kept(m, s, t + 1)
  BY <1>2, <1>3, <1>4, <1>5, <1>6 DEF Kept
<1>8. Edge(e, n.nadir, v, t + 1)
  <2>1. n.rssi \in 0..MaxRssi /\ n.nadir.rssi \in 0..MaxRssi /\ MaxRssi \in Nat
    BY <1>1, NodeAssumption DEF NodeAt, ExtremumAt
  <2>2. n.nadir.rssi # MaxRssi => n.nadir.rssi <= n.rssi
    BY DEF HistoryHolds, Edge
  <2> QED
    BY <1>4, <2>1, <2>2 DEF Edge
<1> QED
  BY <1>1, <1>5, <1>7, <1>8 DEF Come, m, s

LEMMA Falls ==
  ASSUME NEW t \in Nat, NEW tr, NEW n, HistoryHolds(n, tr, t), NEW v \in 0..MaxRssi, v < n.rssi
  PROVE  Come(Falling(n, v, t + 1), Append(tr, v), v, t + 1)
<1> DEFINE s == Append(tr, v)
           b == BufferNadir(n, TRUE)
           m == Falling(n, v, t + 1)
           e == Extremum(v, t + 1)
<1>1. n \in NodeAt(t) /\ n.active /\ tr \in Trace(t) /\ Kept(n, tr, t)
  BY DEF HistoryHolds
<1>2. n \in NodeAt(t + 1) /\ Kept(n, s, t + 1) /\ s \in Trace(t + 1)
  BY <1>1, KeptLater, TraceGrows
<1>3. b \in NodeAt(t + 1) /\ Kept(b, s, t + 1)
  <2>1. t + 1 \in Nat
    OBVIOUS
  <2> QED
    BY <1>2, <2>1, BufferNadirFields, KeptBuffered
<1>4. e \in ExtremumAt(t + 1) /\ Measured(e, s, t + 1) /\ UpTo(e, t + 1)
      /\ e.first = t + 1 /\ e.rssi = v
  <2>1. t + 1 \in Nat
    OBVIOUS
  <2> QED
    BY <1>1, <2>1, ExtremumTypes, MeasuredNow DEF Extremum
<1>5. /\ m \in NodeAt(t + 1) /\ m.active = n.active /\ m.nadir = e
      /\ m.nadirBuffer = b.nadirBuffer /\ m.peak = n.peak /\ m.peakBuffer = n.peakBuffer
  BY <1>1, FallingFields
<1> HIDE DEF s, b, m, e
<1>6. b.nadirBuffer.first <= t + 1
  <2>1. b.nadirBuffer \in ExtremumAt(t + 1)
    BY <1>3 DEF NodeAt
  <2> QED
    BY <2>1 DEF ExtremumAt
<1>7. Kept(m, s, t + 1)
  BY <1>2, <1>3, <1>4, <1>5, <1>6 DEF Kept
<1>8. Edge(n.peak, e, v, t + 1)
  <2>1. n.rssi \in 0..MaxRssi /\ n.peak.rssi \in 0..MaxRssi /\ MaxRssi \in Nat
    BY <1>1, NodeAssumption DEF NodeAt, ExtremumAt
  <2>2. n.peak.rssi # 0 => n.rssi <= n.peak.rssi
    BY DEF HistoryHolds, Edge
  <2> QED
    BY <1>4, <2>1, <2>2 DEF Edge
<1> QED
  BY <1>1, <1>5, <1>7, <1>8 DEF Come, m, s

\* The peak goes on; one that has lasted as long as two bytes hold goes to its buffer.
LEMMA PeakGoesOn ==
  ASSUME NEW t \in Nat, NEW tr, NEW n, HistoryHolds(n, tr, t),
         n.rssi = n.peak.rssi
  PROVE  LET v == n.rssi
             m == [n EXCEPT !.peak = Extended(@, t + 1)]
             r == [BufferPeak(m, TRUE) EXCEPT !.peak = Extremum(v, t + 1)]
         IN  /\ m.peak.duration # MaxDuration => Come(m, Append(tr, v), v, t + 1)
             /\ Come(r, Append(tr, v), v, t + 1)
<1> DEFINE v == n.rssi
           s == Append(tr, v)
           e == Extended(n.peak, t + 1)
           m == [n EXCEPT !.peak = e]
           b == BufferPeak(m, TRUE)
           f == Extremum(v, t + 1)
           r == [b EXCEPT !.peak = f]
<1>1. /\ n \in NodeAt(t) /\ n.active /\ tr \in Trace(t) /\ Kept(n, tr, t)
      /\ v \in 0..MaxRssi /\ n.peak \in ExtremumAt(t) /\ n.nadir \in ExtremumAt(t)
  BY DEF HistoryHolds, NodeAt
<1>2. n \in NodeAt(t + 1) /\ Kept(n, s, t + 1) /\ s \in Trace(t + 1)
  BY <1>1, KeptLater, TraceGrows
<1>3. /\ e \in ExtremumAt(t + 1) /\ e.rssi = v /\ e.first = n.peak.first
      /\ Measured(e, s, t + 1) /\ (e.duration # MaxDuration => UpTo(e, t + 1))
  <2>1. Measured(n.peak, tr, t)
    BY <1>1 DEF Kept
  <2> QED
    BY <1>1, <2>1, MeasuredExtended
<1>4. /\ f \in ExtremumAt(t + 1) /\ f.rssi = v /\ f.first = t + 1
      /\ Measured(f, s, t + 1) /\ UpTo(f, t + 1)
  <2>1. t + 1 \in Nat
    OBVIOUS
  <2> QED
    BY <1>1, <2>1, ExtremumTypes, MeasuredNow DEF Extremum
<1>5. t + 1 \in Nat
  OBVIOUS
<1>v. v \in 0..MaxRssi
  BY <1>1
<1> HIDE DEF v, s, e, f
<1>6. /\ m \in NodeAt(t + 1) /\ m.active = n.active /\ m.peak = e
      /\ m.peakBuffer = n.peakBuffer /\ m.nadir = n.nadir /\ m.nadirBuffer = n.nadirBuffer
  BY <1>2, <1>3, <1>5, WithPeak
<1>7. Kept(m, s, t + 1)
  BY <1>2, <1>3, <1>6 DEF Kept
<1>8. /\ b \in NodeAt(t + 1) /\ b.active = n.active /\ b.nadir = n.nadir
      /\ Kept(b, s, t + 1)
  <2> HIDE DEF m
  <2>1. b \in NodeAt(t + 1) /\ b.active = m.active /\ b.nadir = m.nadir
    BY <1>5, <1>6, BufferPeakFields
  <2>2. Kept(b, s, t + 1)
    BY <1>2, <1>5, <1>6, <1>7, KeptBuffered
  <2> QED
    BY <1>6, <2>1, <2>2
<1> HIDE DEF m, b
<1>9. /\ r \in NodeAt(t + 1) /\ r.active = n.active /\ r.peak = f /\ r.nadir = n.nadir
      /\ Kept(r, s, t + 1)
  <2>1. r \in NodeAt(t + 1) /\ r.active = b.active /\ r.peak = f /\ r.nadir = b.nadir
    BY <1>4, <1>5, <1>8, WithPeak
  <2>2. Kept(r, s, t + 1)
    BY <1>2, <1>4, <1>5, <1>8, KeptReplaced
  <2> QED
    BY <1>8, <2>1, <2>2
<1> HIDE DEF r
<1>10. ASSUME NEW g, g.rssi = v, UpTo(g, t + 1)
       PROVE  Edge(g, n.nadir, v, t + 1)
  <2>1. n.nadir.rssi \in 0..MaxRssi /\ MaxRssi \in Nat
    BY <1>1, NodeAssumption DEF ExtremumAt
  <2>2. /\ (n.nadir.rssi # MaxRssi => n.nadir.rssi <= v)
        /\ n.peak.rssi # 0 /\ n.nadir.rssi # MaxRssi => n.nadir.rssi < n.peak.rssi
    BY DEF HistoryHolds, Edge, v
  <2>3. n.peak.rssi = v
    BY DEF v
  <2> QED
    BY <1>v, <1>10, <2>1, <2>2, <2>3 DEF Edge
<1>11. m.peak.duration # MaxDuration => Come(m, s, v, t + 1)
  BY <1>1, <1>3, <1>6, <1>7, <1>10 DEF Come
<1>12. Come(r, s, v, t + 1)
  BY <1>1, <1>4, <1>9, <1>10 DEF Come
<1>13. m = [n EXCEPT !.peak = Extended(@, t + 1)]
  BY <1>1 DEF m, e, NodeAt
<1> QED
  BY <1>11, <1>12, <1>13 DEF r, f, b, s, v

\* The nadir goes on; one that has lasted as long as two bytes hold goes to its buffer.
LEMMA NadirGoesOn ==
  ASSUME NEW t \in Nat, NEW tr, NEW n, HistoryHolds(n, tr, t),
         n.rssi = n.nadir.rssi
  PROVE  LET v == n.rssi
             m == [n EXCEPT !.nadir = Extended(@, t + 1)]
             r == [BufferNadir(m, TRUE) EXCEPT !.nadir = Extremum(v, t + 1)]
         IN  /\ m.nadir.duration # MaxDuration => Come(m, Append(tr, v), v, t + 1)
             /\ Come(r, Append(tr, v), v, t + 1)
<1> DEFINE v == n.rssi
           s == Append(tr, v)
           e == Extended(n.nadir, t + 1)
           m == [n EXCEPT !.nadir = e]
           b == BufferNadir(m, TRUE)
           f == Extremum(v, t + 1)
           r == [b EXCEPT !.nadir = f]
<1>1. /\ n \in NodeAt(t) /\ n.active /\ tr \in Trace(t) /\ Kept(n, tr, t)
      /\ v \in 0..MaxRssi /\ n.peak \in ExtremumAt(t) /\ n.nadir \in ExtremumAt(t)
  BY DEF HistoryHolds, NodeAt
<1>2. n \in NodeAt(t + 1) /\ Kept(n, s, t + 1) /\ s \in Trace(t + 1)
  BY <1>1, KeptLater, TraceGrows
<1>3. /\ e \in ExtremumAt(t + 1) /\ e.rssi = v /\ e.first = n.nadir.first
      /\ Measured(e, s, t + 1) /\ (e.duration # MaxDuration => UpTo(e, t + 1))
  <2>1. Measured(n.nadir, tr, t)
    BY <1>1 DEF Kept
  <2> QED
    BY <1>1, <2>1, MeasuredExtended
<1>4. /\ f \in ExtremumAt(t + 1) /\ f.rssi = v /\ f.first = t + 1
      /\ Measured(f, s, t + 1) /\ UpTo(f, t + 1)
  <2>1. t + 1 \in Nat
    OBVIOUS
  <2> QED
    BY <1>1, <2>1, ExtremumTypes, MeasuredNow DEF Extremum
<1>5. t + 1 \in Nat
  OBVIOUS
<1>v. v \in 0..MaxRssi
  BY <1>1
<1> HIDE DEF v, s, e, f
<1>6. /\ m \in NodeAt(t + 1) /\ m.active = n.active /\ m.nadir = e
      /\ m.nadirBuffer = n.nadirBuffer /\ m.peak = n.peak /\ m.peakBuffer = n.peakBuffer
  BY <1>2, <1>3, <1>5, WithNadir
<1>7. Kept(m, s, t + 1)
  BY <1>2, <1>3, <1>6 DEF Kept
<1>8. /\ b \in NodeAt(t + 1) /\ b.active = n.active /\ b.peak = n.peak
      /\ Kept(b, s, t + 1)
  <2> HIDE DEF m
  <2>1. b \in NodeAt(t + 1) /\ b.active = m.active /\ b.peak = m.peak
    BY <1>5, <1>6, BufferNadirFields
  <2>2. Kept(b, s, t + 1)
    BY <1>2, <1>5, <1>6, <1>7, KeptBuffered
  <2> QED
    BY <1>6, <2>1, <2>2
<1> HIDE DEF m, b
<1>9. /\ r \in NodeAt(t + 1) /\ r.active = n.active /\ r.nadir = f /\ r.peak = n.peak
      /\ Kept(r, s, t + 1)
  <2>1. r \in NodeAt(t + 1) /\ r.active = b.active /\ r.nadir = f /\ r.peak = b.peak
    BY <1>4, <1>5, <1>8, WithNadir
  <2>2. Kept(r, s, t + 1)
    BY <1>2, <1>4, <1>5, <1>8, KeptReplaced
  <2> QED
    BY <1>8, <2>1, <2>2
<1> HIDE DEF r
<1>10. ASSUME NEW g, g.rssi = v, UpTo(g, t + 1)
       PROVE  Edge(n.peak, g, v, t + 1)
  <2>1. n.peak.rssi \in 0..MaxRssi /\ MaxRssi \in Nat
    BY <1>1, NodeAssumption DEF ExtremumAt
  <2>2. /\ (n.peak.rssi # 0 => v <= n.peak.rssi)
        /\ n.peak.rssi # 0 /\ n.nadir.rssi # MaxRssi => n.nadir.rssi < n.peak.rssi
    BY DEF HistoryHolds, Edge, v
  <2>3. n.nadir.rssi = v
    BY DEF v
  <2> QED
    BY <1>v, <1>10, <2>1, <2>2, <2>3 DEF Edge
<1>11. m.nadir.duration # MaxDuration => Come(m, s, v, t + 1)
  BY <1>1, <1>3, <1>6, <1>7, <1>10 DEF Come
<1>12. Come(r, s, v, t + 1)
  BY <1>1, <1>4, <1>9, <1>10 DEF Come
<1>13. m = [n EXCEPT !.nadir = Extended(@, t + 1)]
  BY <1>1 DEF m, e, NodeAt
<1> QED
  BY <1>11, <1>12, <1>13 DEF r, f, b, s, v

LEMMA Stays ==
  ASSUME NEW t \in Nat, NEW tr, NEW n, HistoryHolds(n, tr, t)
  PROVE  Come(Unchanged(n, n.rssi, t + 1), Append(tr, n.rssi), n.rssi, t + 1)
<1> DEFINE v == n.rssi
           s == Append(tr, v)
           p == [n EXCEPT !.peak = Extended(@, t + 1)]
           q == [BufferPeak(p, TRUE) EXCEPT !.peak = Extremum(v, t + 1)]
           c == [n EXCEPT !.nadir = Extended(@, t + 1)]
           d == [BufferNadir(c, TRUE) EXCEPT !.nadir = Extremum(v, t + 1)]
<1>1. CASE v = n.peak.rssi
  <2>1. Unchanged(n, v, t + 1) = IF p.peak.duration = MaxDuration THEN q ELSE p
    BY <1>1 DEF Unchanged
  <2>2. (p.peak.duration # MaxDuration => Come(p, s, v, t + 1)) /\ Come(q, s, v, t + 1)
    BY <1>1, PeakGoesOn
  <2> HIDE DEF v, s, p, q
  <2>3. Come(Unchanged(n, v, t + 1), s, v, t + 1)
    BY <2>1, <2>2
  <2> QED
    BY <2>3 DEF s, v
<1>2. CASE v # n.peak.rssi /\ v = n.nadir.rssi
  <2>1. Unchanged(n, v, t + 1) = IF c.nadir.duration = MaxDuration THEN d ELSE c
    BY <1>2 DEF Unchanged
  <2>2. (c.nadir.duration # MaxDuration => Come(c, s, v, t + 1)) /\ Come(d, s, v, t + 1)
    BY <1>2, NadirGoesOn
  <2> HIDE DEF v, s, c, d
  <2>3. Come(Unchanged(n, v, t + 1), s, v, t + 1)
    BY <2>1, <2>2
  <2> QED
    BY <2>3 DEF s, v
<1>3. CASE v # n.peak.rssi /\ v # n.nadir.rssi
  <2>1. Unchanged(n, v, t + 1) = n
    BY <1>3 DEF Unchanged
  <2>2. n \in NodeAt(t) /\ n.active /\ tr \in Trace(t) /\ Kept(n, tr, t) /\ v \in 0..MaxRssi
    BY DEF HistoryHolds, NodeAt
  <2>3. n \in NodeAt(t + 1) /\ Kept(n, s, t + 1)
    BY <2>2, KeptLater
  <2>4. Edge(n.peak, n.nadir, v, t + 1)
    BY <1>3 DEF HistoryHolds, Edge
  <2> HIDE DEF v, s
  <2>5. Come(n, s, v, t + 1)
    BY <2>2, <2>3, <2>4 DEF Come
  <2> QED
    BY <2>1, <2>5 DEF s, v
<1> QED
  BY <1>1, <1>2, <1>3

-----------------------------------------------------------------------------
(* A value is processed.                                                   *)

LEMMA HistoryStep ==
  ASSUME NEW t \in Nat, NEW tr, NEW n, HistoryHolds(n, tr, t), NEW v \in 0..MaxRssi
  PROVE  HistoryHolds(History(n, v, t + 1), Append(tr, v), t + 1)
<1> DEFINE s == Append(tr, v)
           m == IF v > n.rssi THEN Rising(n, v, t + 1)
                ELSE IF v < n.rssi THEN Falling(n, v, t + 1) ELSE Unchanged(n, v, t + 1)
           d == v - n.rssi
           o == [m EXCEPT !.rssi = v, !.change = d]
           b == BufferPeak(o, FALSE)
           h == BufferNadir(b, FALSE)
<1>1. n.rssi \in 0..MaxRssi /\ MaxRssi \in Nat /\ tr \in Trace(t)
  BY NodeAssumption DEF HistoryHolds, NodeAt
<1>2. Come(m, s, v, t + 1)
  <2>1. v > n.rssi => Come(Rising(n, v, t + 1), s, v, t + 1)
    BY Rises
  <2>2. v < n.rssi => Come(Falling(n, v, t + 1), s, v, t + 1)
    BY Falls
  <2>3. v = n.rssi => Come(Unchanged(n, v, t + 1), s, v, t + 1)
    BY Stays
  <2>4. v > n.rssi \/ v < n.rssi \/ v = n.rssi
    BY <1>1
  <2> HIDE DEF s
  <2> QED
    BY <2>1, <2>2, <2>3, <2>4, <1>1
<1>3. d \in Int /\ t + 1 \in Nat
  BY <1>1
<1>4. s \in Trace(t + 1)
  BY <1>1, TraceGrows
<1> HIDE DEF s, m, d
<1>5. /\ o \in NodeAt(t + 1) /\ o.active = m.active /\ o.rssi = v
      /\ o.peak = m.peak /\ o.peakBuffer = m.peakBuffer
      /\ o.nadir = m.nadir /\ o.nadirBuffer = m.nadirBuffer
  <2>1. m \in NodeAt(t + 1)
    BY <1>2 DEF Come
  <2> QED
    BY <1>3, <2>1 DEF NodeAt
<1>6. Kept(o, s, t + 1)
  BY <1>2, <1>5 DEF Come, Kept
<1> HIDE DEF o
<1>7. /\ b \in NodeAt(t + 1) /\ b.active = o.active /\ b.rssi = o.rssi
      /\ b.peak = o.peak /\ b.nadir = o.nadir
  BY <1>3, <1>5, BufferPeakFields
<1>8. Kept(b, s, t + 1)
  BY <1>3, <1>4, <1>5, <1>6, KeptBuffered
<1> HIDE DEF b
<1>9. /\ h \in NodeAt(t + 1) /\ h.active = b.active /\ h.rssi = b.rssi
      /\ h.peak = b.peak /\ h.nadir = b.nadir
  BY <1>3, <1>7, BufferNadirFields
<1>10. Kept(h, s, t + 1)
  BY <1>3, <1>4, <1>7, <1>8, KeptBuffered
<1> HIDE DEF h
<1>11. HistoryHolds(h, s, t + 1)
  BY <1>2, <1>4, <1>5, <1>7, <1>9, <1>10 DEF HistoryHolds, Come
<1>12. History(n, v, t + 1) = h
  BY DEF History, h, b, o, m, d
<1> QED
  BY <1>11, <1>12 DEF s

LEMMA SameHistoryHolds ==
  ASSUME NEW t \in Nat, NEW tr, NEW n, HistoryHolds(n, tr, t),
         NEW m \in NodeAt(t), SameHistory(m, n)
  PROVE  HistoryHolds(m, tr, t)
BY DEF HistoryHolds, SameHistory, Kept

\* Once the server has been heard of, every value a node processes, whatever the
\* course of the RSSI and of the crossings, leaves only measured extremums
\* (rssiProcessValue).
THEOREM ProcessHolds ==
  ASSUME NEW t \in Nat, NEW tr, NEW n, HistoryHolds(n, tr, t), NEW v \in 0..MaxRssi
  PROVE  HistoryHolds(Process(n, v, t + 1), Append(tr, v), t + 1)
<1> DEFINE s == Append(tr, v)
           h == History(n, v, t + 1)
           c == Crossing(h)
           p == PassPeak(c, t + 1)
<1>1. HistoryHolds(h, s, t + 1)
  BY HistoryStep
<1>2. t + 1 \in Nat
  OBVIOUS
<1>3. Process(n, v, t + 1) = p
  BY DEF Process, HistoryHolds
<1> HIDE DEF s, h
<1>4. h \in NodeAt(t + 1)
  BY <1>1 DEF HistoryHolds
<1>5. c \in NodeAt(t + 1) /\ SameHistory(c, h)
  BY <1>2, <1>4, CrossingFields
<1>6. HistoryHolds(c, s, t + 1)
  BY <1>1, <1>2, <1>5, SameHistoryHolds
<1> HIDE DEF c
<1>7. p \in NodeAt(t + 1) /\ SameHistory(p, c)
  BY <1>2, <1>5, CrossingFields
<1> HIDE DEF p
<1>8. HistoryHolds(p, s, t + 1)
  BY <1>2, <1>6, <1>7, SameHistoryHolds
<1> QED
  BY <1>3, <1>8 DEF s

-----------------------------------------------------------------------------
(* Commands.                                                               *)

LEMMA StateResetFields ==
  ASSUME NEW t \in Nat, NEW n \in NodeAt(t)
  PROVE  LET m == StateReset(n) IN
         /\ m \in NodeAt(t) /\ m.active = n.active /\ m.rssi = n.rssi
         /\ m.peak = [n.peak EXCEPT !.rssi = 0]
         /\ m.peakBuffer = [n.peakBuffer EXCEPT !.rssi = 0]
         /\ m.nadir = [n.nadir EXCEPT !.rssi = MaxRssi]
         /\ m.nadirBuffer = [n.nadirBuffer EXCEPT !.rssi = MaxRssi]
<1> DEFINE a == [n.passPeak EXCEPT !.rssi = 0]
           p == [n.peak EXCEPT !.rssi = 0]
           q == [n.peakBuffer EXCEPT !.rssi = 0]
           c == [n.nadir EXCEPT !.rssi = MaxRssi]
           d == [n.nadirBuffer EXCEPT !.rssi = MaxRssi]
<1>1. /\ a \in ExtremumAt(t) /\ p \in ExtremumAt(t) /\ q \in ExtremumAt(t)
      /\ c \in ExtremumAt(t) /\ d \in ExtremumAt(t) /\ MaxRssi \in 0..MaxRssi
  <2>1. /\ n.passPeak \in ExtremumAt(t) /\ n.peak \in ExtremumAt(t)
        /\ n.peakBuffer \in ExtremumAt(t) /\ n.nadir \in ExtremumAt(t)
        /\ n.nadirBuffer \in ExtremumAt(t)
    BY DEF NodeAt
  <2>2. MaxRssi \in 0..MaxRssi
    BY NodeAssumption
  <2> QED
    BY <2>1, <2>2, ExtremumTypes
<1>2. StateReset(n) =
        [n EXCEPT !.crossing = FALSE, !.passPeak = a, !.passNadir = MaxRssi,
                  !.peak = p, !.pendingPeak = FALSE, !.peakBuffer = q,
                  !.nadir = c, !.pendingNadir = FALSE, !.nadirBuffer = d]
  BY DEF StateReset, NodeAt
<1> HIDE DEF a, p, q, c, d
<1>3. StateReset(n) \in NodeAt(t)
  <2> DEFINE k == [n EXCEPT !.crossing = FALSE, !.passPeak = a, !.passNadir = MaxRssi]
             l == [k EXCEPT !.peak = p, !.pendingPeak = FALSE, !.peakBuffer = q]
             o == [l EXCEPT !.nadir = c, !.pendingNadir = FALSE, !.nadirBuffer = d]
  <2>1. k \in NodeAt(t)
    BY <1>1 DEF NodeAt
  <2> HIDE DEF k
  <2>2. l \in NodeAt(t)
    BY <1>1, <2>1 DEF NodeAt
  <2> HIDE DEF l
  <2>3. o \in NodeAt(t)
    BY <1>1, <2>2 DEF NodeAt
  <2> QED
    BY <1>2, <2>3 DEF k, l, o
<1>4. StateReset(n).active = n.active /\ StateReset(n).rssi = n.rssi
  BY <1>2 DEF NodeAt
<1>5. StateReset(n).peak = p /\ StateReset(n).peakBuffer = q
  BY <1>2 DEF NodeAt
<1>6. StateReset(n).nadir = c /\ StateReset(n).nadirBuffer = d
  BY <1>2 DEF NodeAt
<1> QED
  BY <1>3, <1>4, <1>5, <1>6 DEF p, q, c, d

\* The values that a register is written with.
WrittenTo(reg) ==
  CASE reg = "freq" -> Frequencies
    [] reg \in {"enter", "exit"} -> 0..MaxRssi
    [] reg = "force" -> {0}

LEMMA WriteFields ==
  ASSUME NEW t \in Nat, NEW n \in NodeAt(t), NEW reg \in {"freq", "enter", "exit", "force"},
         NEW v \in WrittenTo(reg)
  PROVE  LET m == Write(n, reg, v) IN
         /\ m \in NodeAt(t)
         /\ n.active => SameHistory(m, n) \/ SameHistory(m, StateReset(n))
<1>1. CASE reg = "freq"
  <2> DEFINE k == IF v # n.freq THEN StateReset(n) ELSE n
  <2>1. k \in NodeAt(t)
    BY StateResetFields
  <2>2. v \in Frequencies
    BY <1>1 DEF WrittenTo
  <2>3. Write(n, reg, v) = [k EXCEPT !.freq = v, !.active = TRUE]
    BY <1>1 DEF Write
  <2>4. n.active => k.active
    BY StateResetFields
  <2>5. k = StateReset(n) \/ k = n
    OBVIOUS
  <2> HIDE DEF k
  <2>6. Write(n, reg, v) \in NodeAt(t)
    BY <2>1, <2>2, <2>3 DEF NodeAt
  <2>7. n.active => SameHistory(Write(n, reg, v), k)
    BY <2>1, <2>3, <2>4 DEF NodeAt, SameHistory
  <2> QED
    BY <2>5, <2>6, <2>7
<1>2. CASE reg = "enter"
  <2>1. Write(n, reg, v) = [n EXCEPT !.enter = v] /\ v \in 0..MaxRssi
    BY <1>2 DEF Write, WrittenTo
  <2> QED
    BY <2>1 DEF NodeAt, SameHistory
<1>3. CASE reg = "exit"
  <2>1. Write(n, reg, v) = [n EXCEPT !.exit = v] /\ v \in 0..MaxRssi
    BY <1>3 DEF Write, WrittenTo
  <2> QED
    BY <2>1 DEF NodeAt, SameHistory
<1>4. CASE reg = "force"
  <2>1. Write(n, reg, v) = EndCrossing(n)
    BY <1>4 DEF Write
  <2> QED
    BY <2>1, EndCrossingFields
<1> QED
  BY <1>1, <1>2, <1>3, <1>4

LEMMA ResetHolds ==
  ASSUME NEW t \in Nat, NEW tr, NEW n, HistoryHolds(n, tr, t)
  PROVE  HistoryHolds(StateReset(n), tr, t)
<1> DEFINE m == StateReset(n)
<1>1. n \in NodeAt(t) /\ MaxRssi \in Nat \ {0}
  BY NodeAssumption DEF HistoryHolds
<1>2. /\ n.peak \in ExtremumAt(t) /\ n.peakBuffer \in ExtremumAt(t)
      /\ n.nadir \in ExtremumAt(t) /\ n.nadirBuffer \in ExtremumAt(t)
  BY <1>1 DEF NodeAt
<1>3. /\ m \in NodeAt(t) /\ m.active = n.active
      /\ m.peak = [n.peak EXCEPT !.rssi = 0]
      /\ m.peakBuffer = [n.peakBuffer EXCEPT !.rssi = 0]
      /\ m.nadir = [n.nadir EXCEPT !.rssi = MaxRssi]
      /\ m.nadirBuffer = [n.nadirBuffer EXCEPT !.rssi = MaxRssi]
  BY <1>1, StateResetFields
<1> HIDE DEF m
<1>4. /\ m.peak.rssi = 0 /\ m.peak.first = n.peak.first
      /\ m.peakBuffer.rssi = 0 /\ m.peakBuffer.first = n.peakBuffer.first
      /\ m.nadir.rssi = MaxRssi /\ m.nadir.first = n.nadir.first
      /\ m.nadirBuffer.rssi = MaxRssi /\ m.nadirBuffer.first = n.nadirBuffer.first
  BY <1>2, <1>3 DEF ExtremumAt
<1>5. \A e : e.rssi = 0 \/ e.rssi = MaxRssi => Measured(e, tr, t)
  BY <1>1 DEF Measured
<1>6. Kept(m, tr, t)
  BY <1>4, <1>5 DEF Kept, HistoryHolds
<1>7. Edge(m.peak, m.nadir, m.rssi, t)
  BY <1>1, <1>4 DEF Edge
<1> QED
  BY <1>3, <1>6, <1>7 DEF HistoryHolds, m

LEMMA WriteHolds ==
  ASSUME NEW t \in Nat, NEW tr, NEW n, HistoryHolds(n, tr, t),
         NEW reg \in {"freq", "enter", "exit", "force"}, NEW v \in WrittenTo(reg)
  PROVE  HistoryHolds(Write(n, reg, v), tr, t)
<1> DEFINE m == Write(n, reg, v)
<1>1. n \in NodeAt(t) /\ n.active
  BY DEF HistoryHolds
<1>2. m \in NodeAt(t) /\ (SameHistory(m, n) \/ SameHistory(m, StateReset(n)))
  BY <1>1, WriteFields
<1>3. HistoryHolds(StateReset(n), tr, t)
  BY ResetHolds
<1> HIDE DEF m
<1>4. HistoryHolds(m, tr, t)
  BY <1>2, <1>3, SameHistoryHolds
<1> QED
  BY <1>4 DEF m

\* Reading the extremums only empties a buffer.
LEMMA ReadHolds ==
  ASSUME NEW t \in Nat, NEW tr, NEW n, HistoryHolds(n, tr, t)
  PROVE  HistoryHolds(ExtremumsRead(n), tr, t)
<1> DEFINE p == [n.peakBuffer EXCEPT !.rssi = 0]
           d == [n.nadirBuffer EXCEPT !.rssi = MaxRssi]
           a == [n EXCEPT !.peakBuffer = p]
           b == [n EXCEPT !.nadirBuffer = d]
<1>1. n \in NodeAt(t) /\ Kept(n, tr, t) /\ MaxRssi \in Nat \ {0}
  BY NodeAssumption DEF HistoryHolds
<1>2. n.peakBuffer \in ExtremumAt(t) /\ n.nadirBuffer \in ExtremumAt(t)
  BY <1>1 DEF NodeAt
<1>3. p \in ExtremumAt(t) /\ d \in ExtremumAt(t)
  BY <1>2, ExtremumTypes
<1>4. /\ p.first = n.peakBuffer.first /\ p.rssi = 0
      /\ d.first = n.nadirBuffer.first /\ d.rssi = MaxRssi
  BY <1>2 DEF ExtremumAt
<1>5. Measured(p, tr, t) /\ Measured(d, tr, t)
  BY <1>1, <1>4 DEF Measured
<1>6. ExtremumsRead(n) \in {n, a, b}
  BY <1>1 DEF ExtremumsRead, NodeAt
<1> HIDE DEF p, d
<1>7. /\ a \in NodeAt(t) /\ a.active = n.active /\ a.rssi = n.rssi /\ a.peakBuffer = p
      /\ a.peak = n.peak /\ a.nadir = n.nadir /\ a.nadirBuffer = n.nadirBuffer
  BY <1>1, <1>3 DEF NodeAt
<1>8. /\ b \in NodeAt(t) /\ b.active = n.active /\ b.rssi = n.rssi /\ b.nadirBuffer = d
      /\ b.peak = n.peak /\ b.nadir = n.nadir /\ b.peakBuffer = n.peakBuffer
  BY <1>1, <1>3 DEF NodeAt
<1> HIDE DEF a, b
<1>9. HistoryHolds(a, tr, t)
  BY <1>1, <1>4, <1>5, <1>7 DEF HistoryHolds, Kept
<1>10. HistoryHolds(b, tr, t)
  BY <1>1, <1>4, <1>5, <1>8 DEF HistoryHolds, Kept
<1> QED
  BY <1>6, <1>9, <1>10

LEMMA ActiveHolds ==
  ASSUME NEW t \in Nat, NEW tr, NEW n, HistoryHolds(n, tr, t)
  PROVE  HistoryHolds([n EXCEPT !.active = TRUE], tr, t)
<1>1. n \in NodeAt(t) /\ n.active
  BY DEF HistoryHolds
<1>2. [n EXCEPT !.active = TRUE] = n
  BY <1>1 DEF NodeAt
<1> QED
  BY <1>2

\* An extremum that is sent while two bytes hold its age: the server finds the times
\* at which its value was measured (read by getExtremum, addTo).
LEMMA SentMeasured ==
  ASSUME NEW t \in Nat, NEW tr, NEW n, HistoryHolds(n, tr, t)
  PROVE  LET e == Extremums(n, t) IN
         /\ e.crossing \in BOOLEAN /\ e.rssi \in 0..MaxRssi
         /\ e.since \in 0..MaxDuration /\ e.duration \in 0..MaxDuration
         /\ 0 < e.rssi /\ e.rssi < MaxRssi /\ t - Sent(n).first <= MaxDuration =>
              /\ t - e.since \in 1..t /\ tr[t - e.since] = e.rssi
              /\ t - (e.since - e.duration) \in 1..t
              /\ tr[t - (e.since - e.duration)] = e.rssi
<1> DEFINE x == Sent(n)
           e == Extremums(n, t)
<1>1. n \in NodeAt(t) /\ Kept(n, tr, t) /\ MaxRssi \in Nat /\ MaxDuration \in Nat
  BY NodeAssumption DEF HistoryHolds
<1>2. x \in ExtremumAt(t) /\ Measured(x, tr, t)
  <2>1. x \in {n.peakBuffer, n.nadirBuffer}
    BY DEF Sent
  <2> QED
    BY <1>1, <2>1 DEF NodeAt, Kept
<1>3. /\ e.crossing = n.crossing /\ e.rssi \in {x.rssi, 0}
      /\ e.since = TwoBytes(t - x.first) /\ e.duration = x.duration
  BY DEF Extremums
<1> HIDE DEF x, e
<1>4. /\ x.rssi \in 0..MaxRssi /\ x.first \in 0..t /\ x.duration \in 0..MaxDuration
  BY <1>2 DEF ExtremumAt
<1>5. t - x.first \in Int
  BY <1>4
<1>6. TwoBytes(t - x.first) \in 0..MaxDuration
  BY <1>5, TwoBytesFits
<1>7. n.crossing \in BOOLEAN
  BY <1>1 DEF NodeAt
<1>8. ASSUME 0 < e.rssi, e.rssi < MaxRssi, t - x.first <= MaxDuration
      PROVE  /\ t - e.since \in 1..t /\ tr[t - e.since] = e.rssi
             /\ t - (e.since - e.duration) \in 1..t
             /\ tr[t - (e.since - e.duration)] = e.rssi
  <2>1. e.rssi = x.rssi
    BY <1>1, <1>3, <1>8
  <2>2. /\ x.first >= 1 /\ tr[x.first] = x.rssi
        /\ x.first + x.duration <= t /\ tr[x.first + x.duration] = x.rssi
    BY <1>2, <1>8, <2>1 DEF Measured
  <2>3. t - x.first \in 0..MaxDuration
    BY <1>1, <1>4, <1>8
  <2>4. e.since = t - x.first
    BY <1>3, <2>3, TwoBytesFits
  <2>5. t - e.since = x.first /\ t - (e.since - e.duration) = x.first + x.duration
    BY <1>3, <1>4, <2>4
  <2>6. x.first \in 1..t /\ x.first + x.duration \in 1..t
    BY <1>4, <2>2
  <2> QED
    BY <2>1, <2>2, <2>5, <2>6
<1>9. e.rssi \in 0..MaxRssi
  BY <1>1, <1>3, <1>4
<1>10. e.since \in 0..MaxDuration /\ e.duration \in 0..MaxDuration /\ e.crossing \in BOOLEAN
  BY <1>3, <1>4, <1>6, <1>7
<1> QED
  BY <1>8, <1>9, <1>10 DEF x, e

-----------------------------------------------------------------------------
(* Passes.                                                                 *)

\* The lap ids of passes that follow each other differ, and come round.
LEMMA LapIdStep ==
  /\ \A l \in 0..LapIds-1 : NextLap(l) # l
  /\ \A a \in Nat : a % LapIds \in 0..LapIds-1 /\ NextLap(a % LapIds) = (a + 1) % LapIds
<1> PICK L \in Nat \ {0, 1} : L = LapIds
  BY NodeAssumption
<1>1. \A l \in 0..L-1 : (l + 1) % L # l
  OBVIOUS
<1>2. ASSUME NEW a \in Nat
      PROVE  a % L \in 0..L-1 /\ a \div L \in Nat /\ a = L * (a \div L) + (a % L)
  OBVIOUS
<1>3. ASSUME NEW q \in Nat, NEW r \in 0..L-1
      PROVE  (L * q + r) % L = r
  OBVIOUS
<1>4. ASSUME NEW a \in Nat
      PROVE  ((a % L) + 1) % L = (a + 1) % L
  <2> PICK q, r : q = a \div L /\ r = a % L
    OBVIOUS
  <2>1. r \in 0..L-1 /\ q \in Nat /\ a = L * q + r
    BY <1>2
  <2>2. CASE r + 1 < L
    <3>1. a + 1 = L * q + (r + 1) /\ r + 1 \in 0..L-1
      BY <2>1, <2>2
    <3>2. (L * q + (r + 1)) % L = r + 1
      BY <1>3, <2>1, <3>1
    <3>3. (r + 1) % L = r + 1
      BY <2>1, <2>2
    <3> QED
      BY <3>1, <3>2, <3>3
  <2>3. CASE r + 1 = L
    <3>1. a + 1 = L * (q + 1) + 0
      BY <2>1, <2>3
    <3>2. (L * (q + 1) + 0) % L = 0
      BY <1>3, <2>1
    <3>3. (r + 1) % L = 0
      BY <2>3
    <3> QED
      BY <3>1, <3>2, <3>3
  <2> QED
    BY <2>1, <2>2, <2>3
<1> QED
  BY <1>1, <1>2, <1>4 DEF NextLap

\* The history does not touch passes.
SamePass(m, n) == m.lastPass = n.lastPass /\ m.passPeak = n.passPeak

LEMMA BufferPass ==
  ASSUME NEW t \in Nat, NEW n \in NodeAt(t), NEW force \in BOOLEAN
  PROVE  SamePass(BufferPeak(n, force), n) /\ SamePass(BufferNadir(n, force), n)
<1> PICK b, d : /\ b = PeakOffered(n.peakBuffer, n.peak)
                /\ d = NadirOffered(n.nadirBuffer, n.nadir)
  OBVIOUS
<1>1. /\ BufferPeak(n, force) \in {n, [n EXCEPT !.peakBuffer = b, !.pendingPeak = FALSE]}
      /\ BufferNadir(n, force) \in {n, [n EXCEPT !.nadirBuffer = d, !.pendingNadir = FALSE]}
  BY DEF BufferPeak, BufferNadir, NodeAt
<1>2. SamePass([n EXCEPT !.peakBuffer = b, !.pendingPeak = FALSE], n)
  BY DEF NodeAt, SamePass
<1>3. SamePass([n EXCEPT !.nadirBuffer = d, !.pendingNadir = FALSE], n)
  BY DEF NodeAt, SamePass
<1> QED
  BY <1>1, <1>2, <1>3 DEF SamePass

\* An extremum begins anew or goes on.
LEMMA ExtremumPass ==
  ASSUME NEW t \in Nat, NEW n \in NodeAt(t), NEW e \in ExtremumAt(t), NEW x \in BOOLEAN
  PROVE  /\ [n EXCEPT !.peak = e] \in NodeAt(t) /\ SamePass([n EXCEPT !.peak = e], n)
         /\ [n EXCEPT !.nadir = e] \in NodeAt(t) /\ SamePass([n EXCEPT !.nadir = e], n)
         /\ LET m == [n EXCEPT !.peak = e, !.pendingNadir = x]
            IN  m \in NodeAt(t) /\ SamePass(m, n)
         /\ LET m == [n EXCEPT !.nadir = e, !.pendingPeak = x]
            IN  m \in NodeAt(t) /\ SamePass(m, n)
<1>1. [n EXCEPT !.peak = e] \in NodeAt(t) /\ SamePass([n EXCEPT !.peak = e], n)
  BY DEF NodeAt, SamePass
<1>2. [n EXCEPT !.nadir = e] \in NodeAt(t) /\ SamePass([n EXCEPT !.nadir = e], n)
  BY DEF NodeAt, SamePass
<1>3. [n EXCEPT !.peak = e, !.pendingNadir = x] \in NodeAt(t)
  BY ZenonT(40) DEF NodeAt
<1>4. [n EXCEPT !.nadir = e, !.pendingPeak = x] \in NodeAt(t)
  BY ZenonT(40) DEF NodeAt
<1>5. /\ SamePass([n EXCEPT !.peak = e, !.pendingNadir = x], n)
      /\ SamePass([n EXCEPT !.nadir = e, !.pendingPeak = x], n)
  BY DEF NodeAt, SamePass
<1> QED
  BY <1>1, <1>2, <1>3, <1>4, <1>5

LEMMA HistoryPass ==
  ASSUME NEW t \in Nat, NEW n \in NodeAt(t), NEW v \in 0..MaxRssi
  PROVE  History(n, v, t) \in NodeAt(t) /\ SamePass(History(n, v, t), n)
<1> DEFINE m == IF v > n.rssi THEN Rising(n, v, t)
                ELSE IF v < n.rssi THEN Falling(n, v, t) ELSE Unchanged(n, v, t)
           d == v - n.rssi
           o == [m EXCEPT !.rssi = v, !.change = d]
           b == BufferPeak(o, FALSE)
           h == BufferNadir(b, FALSE)
<1> PICK e, x, y : /\ e = Extremum(v, t)
                   /\ x = Extended(n.peak, t) /\ y = Extended(n.nadir, t)
  OBVIOUS
<1>1. /\ e \in ExtremumAt(t) /\ x \in ExtremumAt(t) /\ y \in ExtremumAt(t)
      /\ n.rssi \in 0..MaxRssi
  BY ExtremumTypes DEF NodeAt
<1>2. Rising(n, v, t) \in NodeAt(t) /\ SamePass(Rising(n, v, t), n)
  <2> PICK k, p : k = BufferPeak(n, TRUE) /\ p = (k.pendingNadir \/ n.change <= 0)
    OBVIOUS
  <2>1. k \in NodeAt(t) /\ SamePass(k, n) /\ p \in BOOLEAN
    BY BufferPeakFields, BufferPass
  <2>2. Rising(n, v, t) = [k EXCEPT !.peak = e, !.pendingNadir = p]
    BY DEF Rising
  <2>3. /\ [k EXCEPT !.peak = e, !.pendingNadir = p] \in NodeAt(t)
        /\ SamePass([k EXCEPT !.peak = e, !.pendingNadir = p], k)
    BY <1>1, <2>1, ExtremumPass
  <2> QED
    BY <2>1, <2>2, <2>3 DEF SamePass
<1>3. Falling(n, v, t) \in NodeAt(t) /\ SamePass(Falling(n, v, t), n)
  <2> PICK k, p : k = BufferNadir(n, TRUE) /\ p = (k.pendingPeak \/ n.change >= 0)
    OBVIOUS
  <2>1. k \in NodeAt(t) /\ SamePass(k, n) /\ p \in BOOLEAN
    BY BufferNadirFields, BufferPass
  <2>2. Falling(n, v, t) = [k EXCEPT !.nadir = e, !.pendingPeak = p]
    BY DEF Falling
  <2>3. /\ [k EXCEPT !.nadir = e, !.pendingPeak = p] \in NodeAt(t)
        /\ SamePass([k EXCEPT !.nadir = e, !.pendingPeak = p], k)
    BY <1>1, <2>1, ExtremumPass
  <2> QED
    BY <2>1, <2>2, <2>3 DEF SamePass
<1>4. Unchanged(n, v, t) \in NodeAt(t) /\ SamePass(Unchanged(n, v, t), n)
  <2> PICK p, q : p = [n EXCEPT !.peak = x] /\ q = [n EXCEPT !.nadir = y]
    OBVIOUS
  <2>1. p \in NodeAt(t) /\ SamePass(p, n) /\ q \in NodeAt(t) /\ SamePass(q, n)
    BY <1>1, ExtremumPass
  <2> PICK k, l : k = BufferPeak(p, TRUE) /\ l = BufferNadir(q, TRUE)
    OBVIOUS
  <2>2. k \in NodeAt(t) /\ SamePass(k, p) /\ l \in NodeAt(t) /\ SamePass(l, q)
    BY <2>1, BufferPeakFields, BufferNadirFields, BufferPass
  <2>3. /\ [k EXCEPT !.peak = e] \in NodeAt(t) /\ SamePass([k EXCEPT !.peak = e], k)
        /\ [l EXCEPT !.nadir = e] \in NodeAt(t) /\ SamePass([l EXCEPT !.nadir = e], l)
    BY <1>1, <2>2, ExtremumPass
  <2>4. Unchanged(n, v, t) \in {n, p, q, [k EXCEPT !.peak = e], [l EXCEPT !.nadir = e]}
    BY DEF Unchanged
  <2> QED
    BY <2>1, <2>2, <2>3, <2>4 DEF SamePass
<1>5. m \in NodeAt(t) /\ SamePass(m, n) /\ d \in Int
  BY <1>1, <1>2, <1>3, <1>4
<1> HIDE DEF m, d
<1>6. o \in NodeAt(t) /\ SamePass(o, m)
  BY <1>5 DEF NodeAt, SamePass
<1> HIDE DEF o
<1>7. b \in NodeAt(t) /\ SamePass(b, o)
  BY <1>6, BufferPeakFields, BufferPass
<1> HIDE DEF b
<1>8. h \in NodeAt(t) /\ SamePass(h, b)
  BY <1>7, BufferNadirFields, BufferPass
<1> HIDE DEF h
<1>9. History(n, v, t) = h
  BY DEF History, h, b, o, m, d
<1> QED
  BY <1>5, <1>6, <1>7, <1>8, <1>9 DEF SamePass

\* The peak of the pass and the last pass lie in the past.
PeakPast(n, t) == n.passPeak.first + n.passPeak.duration <= t /\ n.lastPass.time <= t

\* The last pass is the same one, or the next, which has another lap id.
PassKept(m, n) == m.lastPass = n.lastPass \/ m.lastPass.lap = NextLap(n.lastPass.lap)

LEMMA PeakPastSame ==
  ASSUME NEW t \in Nat, NEW n, NEW m, SamePass(m, n), PeakPast(n, t)
  PROVE  PeakPast(m, t) /\ PassKept(m, n)
BY DEF SamePass, PeakPast, PassKept

LEMMA EndCrossingPass ==
  ASSUME NEW t \in Nat, NEW n \in NodeAt(t), PeakPast(n, t)
  PROVE  PeakPast(EndCrossing(n), t) /\ PassKept(EndCrossing(n), n)
<1> PICK pass, peak :
      /\ pass = [rssi |-> n.passPeak.rssi, time |-> MiddleOfPeak(n.passPeak),
                 nadir |-> n.passNadir, lap |-> NextLap(n.lastPass.lap)]
      /\ peak = [n.passPeak EXCEPT !.rssi = 0]
  OBVIOUS
<1>1. n.passPeak \in ExtremumAt(t)
  BY DEF NodeAt
<1>2. MiddleOfPeak(n.passPeak) <= t
  BY <1>1, NodeAssumption DEF MiddleOfPeak, ExtremumAt, PeakPast
<1>3. peak.first = n.passPeak.first /\ peak.duration = n.passPeak.duration
  BY <1>1 DEF ExtremumAt
<1>4. EndCrossing(n) = [n EXCEPT !.lastPass = pass, !.crossing = FALSE, !.passPeak = peak,
                                 !.passNadir = MaxRssi]
  BY DEF EndCrossing, NodeAt
<1>5. EndCrossing(n).lastPass = pass /\ EndCrossing(n).passPeak = peak
  BY <1>4 DEF NodeAt
<1> QED
  BY <1>2, <1>3, <1>5 DEF PeakPast, PassKept

LEMMA CrossingPass ==
  ASSUME NEW t \in Nat, NEW n \in NodeAt(t), PeakPast(n, t)
  PROVE  PeakPast(Crossing(n), t) /\ PassKept(Crossing(n), n)
<1>1. Crossing(n) \in {n, EndCrossing(n), [n EXCEPT !.crossing = TRUE]}
  BY DEF Crossing
<1>2. SamePass([n EXCEPT !.crossing = TRUE], n) /\ SamePass(n, n)
  BY DEF NodeAt, SamePass
<1> QED
  BY <1>1, <1>2, EndCrossingPass, PeakPastSame

LEMMA PassPeakPass ==
  ASSUME NEW t \in Nat, NEW n \in NodeAt(t), PeakPast(n, t)
  PROVE  PeakPast(PassPeak(n, t), t) /\ PassPeak(n, t).lastPass = n.lastPass
<1> PICK l, e, f : /\ l = Least(n.passNadir, n.rssi)
                   /\ e = Extremum(n.rssi, t) /\ f = Extended(n.passPeak, t)
  OBVIOUS
<1>1. PassPeak(n, t) \in {n, [n EXCEPT !.passNadir = l], [n EXCEPT !.passPeak = e],
                          [n EXCEPT !.passPeak = f]}
  BY DEF PassPeak, NodeAt
<1>2. e.first + e.duration <= t
  BY DEF Extremum
<1>3. f.first + f.duration <= t
  <2>1. n.passPeak \in ExtremumAt(t)
    BY DEF NodeAt
  <2> QED
    BY <2>1, NodeAssumption DEF Extended, Least, ExtremumAt
<1>4. /\ [n EXCEPT !.passNadir = l].lastPass = n.lastPass
      /\ [n EXCEPT !.passNadir = l].passPeak = n.passPeak
      /\ [n EXCEPT !.passPeak = e].lastPass = n.lastPass
      /\ [n EXCEPT !.passPeak = e].passPeak = e
      /\ [n EXCEPT !.passPeak = f].lastPass = n.lastPass
      /\ [n EXCEPT !.passPeak = f].passPeak = f
  BY DEF NodeAt
<1> QED
  BY <1>1, <1>2, <1>3, <1>4 DEF PeakPast

\* What a value that is processed does to the last pass (rssiProcessValue).
LEMMA ProcessPass ==
  ASSUME NEW t \in Nat, NEW n \in NodeAt(t), PeakPast(n, t), NEW v \in 0..MaxRssi
  PROVE  LET m == Process(n, v, t + 1) IN PeakPast(m, t + 1) /\ PassKept(m, n)
<1> PICK u \in Nat : u = t + 1
  OBVIOUS
<1> DEFINE h == History(n, v, u)
           c == Crossing(h)
           p == PassPeak(c, u)
<1>1. n \in NodeAt(u) /\ PeakPast(n, u)
  <2>1. n \in NodeAt(u)
    BY OlderNode
  <2>2. n.passPeak \in ExtremumAt(t) /\ n.lastPass \in Pass
    BY DEF NodeAt
  <2>3. PeakPast(n, u)
    BY <2>2, NodeAssumption DEF PeakPast, ExtremumAt, Pass
  <2> QED
    BY <2>1, <2>3
<1>2. h \in NodeAt(u) /\ SamePass(h, n)
  BY <1>1, HistoryPass
<1> HIDE DEF h
<1>3. PeakPast(h, u)
  BY <1>1, <1>2, PeakPastSame
<1>4. PeakPast(c, u) /\ PassKept(c, h) /\ c \in NodeAt(u)
  BY <1>2, <1>3, CrossingPass, CrossingFields
<1> HIDE DEF c
<1>5. PeakPast(p, u) /\ p.lastPass = c.lastPass
  BY <1>4, PassPeakPass
<1> HIDE DEF p
<1>6. PassKept(p, n)
  BY <1>2, <1>4, <1>5 DEF PassKept, SamePass
<1>7. Process(n, v, u) = IF n.active THEN p ELSE n
  BY DEF Process, p, c, h
<1> QED
  BY <1>1, <1>5, <1>6, <1>7 DEF PassKept

\* What a command does to it (handleWriteCommand, handleReadCommand).
LEMMA WritePass ==
  ASSUME NEW t \in Nat, NEW n \in NodeAt(t), PeakPast(n, t),
         NEW reg \in {"freq", "enter", "exit", "force"}, NEW v
  PROVE  PeakPast(Write(n, reg, v), t) /\ PassKept(Write(n, reg, v), n)
<1>0. n.passPeak \in ExtremumAt(t)
  BY DEF NodeAt
<1>1. CASE reg = "freq"
  <2>1. StateReset(n).lastPass = n.lastPass
        /\ StateReset(n).passPeak = [n.passPeak EXCEPT !.rssi = 0]
    BY DEF StateReset, NodeAt
  <2>2. PeakPast(StateReset(n), t)
    BY <1>0, <2>1 DEF PeakPast, ExtremumAt
  <2> PICK k : k = IF v # n.freq THEN StateReset(n) ELSE n
    OBVIOUS
  <2>3. k \in NodeAt(t) /\ k.lastPass = n.lastPass /\ PeakPast(k, t)
    BY <2>1, <2>2, StateResetFields
  <2>4. Write(n, reg, v) = [k EXCEPT !.freq = v, !.active = TRUE]
    BY <1>1 DEF Write
  <2>5. SamePass(Write(n, reg, v), k)
    BY <2>3, <2>4 DEF NodeAt, SamePass
  <2> QED
    BY <2>3, <2>5, PeakPastSame DEF PassKept
<1>2. CASE reg = "enter"
  <2>1. Write(n, reg, v) = [n EXCEPT !.enter = v]
    BY <1>2 DEF Write
  <2>2. SamePass(Write(n, reg, v), n)
    BY <2>1 DEF NodeAt, SamePass
  <2> QED
    BY <2>2, PeakPastSame
<1>3. CASE reg = "exit"
  <2>1. Write(n, reg, v) = [n EXCEPT !.exit = v]
    BY <1>3 DEF Write
  <2>2. SamePass(Write(n, reg, v), n)
    BY <2>1 DEF NodeAt, SamePass
  <2> QED
    BY <2>2, PeakPastSame
<1>4. CASE reg = "force"
  <2>1. Write(n, reg, v) = EndCrossing(n)
    BY <1>4 DEF Write
  <2> QED
    BY <2>1, EndCrossingPass
<1> QED
  BY <1>1, <1>2, <1>3, <1>4

LEMMA ReadPass ==
  ASSUME NEW t \in Nat, NEW n \in NodeAt(t)
  PROVE  /\ SamePass(ExtremumsRead(n), n) /\ SamePass([n EXCEPT !.active = TRUE], n)
<1> PICK p, d : p = [n.peakBuffer EXCEPT !.rssi = 0] /\ d = [n.nadirBuffer EXCEPT !.rssi = MaxRssi]
  OBVIOUS
<1>1. ExtremumsRead(n) \in {n, [n EXCEPT !.peakBuffer = p], [n EXCEPT !.nadirBuffer = d]}
  BY DEF ExtremumsRead, NodeAt
<1>2. /\ SamePass([n EXCEPT !.peakBuffer = p], n) /\ SamePass([n EXCEPT !.nadirBuffer = d], n)
      /\ SamePass([n EXCEPT !.active = TRUE], n) /\ SamePass(n, n)
  BY DEF NodeAt, SamePass
<1> QED
  BY <1>1, <1>2

=============================================================================
