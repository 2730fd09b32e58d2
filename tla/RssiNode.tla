------------------------------ MODULE RssiNode ------------------------------
(***************************************************************************)
(* The firmware of one receiver node (src/node/RssiNode.cpp, commands.cpp, *)
(* util/single-sendbuffer.h) as operators on the record of its state: what *)
(* a new RSSI value does to it, and what the commands of the server read   *)
(* and write.  A pass begins when the RSSI reaches the enter-at level and  *)
(* ends when it falls below the exit-at level; its time is the middle of   *)
(* its peak.  The peaks and nadirs of the RSSI are kept for the server,    *)
(* one of each, until they are read.                                       *)
(*                                                                         *)
(* The filter is left out: a value is a filtered one, at its time.  Levels *)
(* below are those of the build for several nodes on one processor.        *)
(***************************************************************************)
EXTENDS Integers

CONSTANTS
  MaxRssi,      \* MAX_RSSI (255): no nadir
  MaxDuration,  \* MAX_DURATION (65535 ms), the largest number of two bytes
  LapIds,       \* number of lap ids (256: a byte)
  Frequencies,  \* those a node may be tuned to; 0 on the server's side: disabled
  DefaultFreq,  \* frequency, levels of a node that was just started
  DefaultEnter, DefaultExit

ASSUME NodeAssumption ==
  /\ MaxRssi \in Nat \ {0} /\ MaxDuration \in Nat \ {0} /\ LapIds \in Nat \ {0, 1}
  /\ DefaultFreq \in Frequencies /\ 0 \notin Frequencies
  /\ DefaultEnter \in 0..MaxRssi /\ DefaultExit \in 0..MaxRssi

Extremum(v, t) == [rssi |-> v, first |-> t, duration |-> 0]
NoPeak(e) == e.rssi = 0
NoNadir(e) == e.rssi = MaxRssi
Least(a, b) == IF a < b THEN a ELSE b

\* The states of a node at time t, when no extremum is younger than that.
ExtremumAt(t) == [rssi : 0..MaxRssi, first : 0..t, duration : 0..MaxDuration]
Pass == [rssi : 0..MaxRssi, time : Nat, nadir : 0..MaxRssi, lap : 0..LapIds-1]
NodeAt(t) ==
  [active : BOOLEAN, freq : Frequencies, enter : 0..MaxRssi, exit : 0..MaxRssi,
   crossing : BOOLEAN, rssi : 0..MaxRssi, change : Int,
   passPeak : ExtremumAt(t), passNadir : 0..MaxRssi,
   peak : ExtremumAt(t), pendingPeak : BOOLEAN, peakBuffer : ExtremumAt(t),
   nadir : ExtremumAt(t), pendingNadir : BOOLEAN, nadirBuffer : ExtremumAt(t),
   lastPass : Pass]

PowerUp ==
  [active |-> FALSE, freq |-> DefaultFreq, enter |-> DefaultEnter, exit |-> DefaultExit,
   crossing |-> FALSE, rssi |-> 0, change |-> 0,
   passPeak |-> Extremum(0, 0), passNadir |-> MaxRssi,
   peak |-> Extremum(0, 0), pendingPeak |-> FALSE, peakBuffer |-> Extremum(0, 0),
   nadir |-> Extremum(MaxRssi, 0), pendingNadir |-> FALSE, nadirBuffer |-> Extremum(MaxRssi, 0),
   lastPass |-> [rssi |-> 0, time |-> 0, nadir |-> MaxRssi, lap |-> 0]]

\* rssiStateReset: only the validity of the extremums goes, not the count of laps.
StateReset(n) ==
  [n EXCEPT !.crossing = FALSE, !.passPeak.rssi = 0, !.passNadir = MaxRssi,
            !.peak.rssi = 0, !.pendingPeak = FALSE, !.peakBuffer.rssi = 0,
            !.nadir.rssi = MaxRssi, !.pendingNadir = FALSE, !.nadirBuffer.rssi = MaxRssi]

-----------------------------------------------------------------------------
(* The history of the RSSI.                                                *)

TwoBytes(ms) == ms % (MaxDuration + 1)
Merged(old, new) == [old EXCEPT !.duration = TwoBytes(new.first + new.duration - old.first)]

\* What the buffer holds after it was offered e: an empty one takes it, a full one
\* only under force, and then keeps the more extreme one or merges equal ones.
PeakOffered(buffer, e) ==
  IF NoPeak(buffer) \/ e.rssi > buffer.rssi THEN e
  ELSE IF e.rssi = buffer.rssi THEN Merged(buffer, e) ELSE buffer
NadirOffered(buffer, e) ==
  IF NoNadir(buffer) \/ e.rssi < buffer.rssi THEN e
  ELSE IF e.rssi = buffer.rssi THEN Merged(buffer, e) ELSE buffer

BufferPeak(n, force) ==
  IF n.pendingPeak /\ (force \/ NoPeak(n.peakBuffer))
  THEN [n EXCEPT !.peakBuffer = PeakOffered(@, n.peak), !.pendingPeak = FALSE] ELSE n
BufferNadir(n, force) ==
  IF n.pendingNadir /\ (force \/ NoNadir(n.nadirBuffer))
  THEN [n EXCEPT !.nadirBuffer = NadirOffered(@, n.nadir), !.pendingNadir = FALSE] ELSE n

\* The RSSI has come to v at time t; n.rssi is still the value before.
Rising(n, v, t) ==
  [BufferPeak(n, TRUE) EXCEPT !.peak = Extremum(v, t), !.pendingNadir = @ \/ n.change <= 0]
Falling(n, v, t) ==
  [BufferNadir(n, TRUE) EXCEPT !.nadir = Extremum(v, t), !.pendingPeak = @ \/ n.change >= 0]
Extended(e, t) == [e EXCEPT !.duration = Least(t - e.first, MaxDuration)]
Unchanged(n, v, t) ==
  IF v = n.peak.rssi
  THEN LET m == [n EXCEPT !.peak = Extended(@, t)] IN
       IF m.peak.duration = MaxDuration
       THEN [BufferPeak(m, TRUE) EXCEPT !.peak = Extremum(v, t)] ELSE m
  ELSE IF v = n.nadir.rssi
  THEN LET m == [n EXCEPT !.nadir = Extended(@, t)] IN
       IF m.nadir.duration = MaxDuration
       THEN [BufferNadir(m, TRUE) EXCEPT !.nadir = Extremum(v, t)] ELSE m
  ELSE n

History(n, v, t) ==
  LET m == IF v > n.rssi THEN Rising(n, v, t)
           ELSE IF v < n.rssi THEN Falling(n, v, t) ELSE Unchanged(n, v, t)
      o == [m EXCEPT !.rssi = v, !.change = v - n.rssi]
  IN  BufferNadir(BufferPeak(o, FALSE), FALSE)

-----------------------------------------------------------------------------
(* Passes.                                                                 *)

\* A mutated form: the lap ids do not wrap.
NextLapBeyond(lap) == lap + 1
NextLap(lap) == (lap + 1) % LapIds
MiddleOfPeak(e) == e.first + e.duration \div 2

EndCrossing(n) ==
  [n EXCEPT !.lastPass = [rssi |-> n.passPeak.rssi, time |-> MiddleOfPeak(n.passPeak),
                          nadir |-> n.passNadir, lap |-> NextLap(n.lastPass.lap)],
            !.crossing = FALSE, !.passPeak.rssi = 0, !.passNadir = MaxRssi]

Enters(n) == ~n.crossing /\ n.rssi >= n.enter
Leaves(n) == n.crossing /\ n.rssi < n.exit

Crossing(n) ==
  IF Enters(n) THEN [n EXCEPT !.crossing = TRUE] ELSE IF Leaves(n) THEN EndCrossing(n) ELSE n

PassPeak(n, t) ==
  IF ~n.crossing THEN [n EXCEPT !.passNadir = Least(@, n.rssi)]
  ELSE IF n.rssi > n.passPeak.rssi THEN [n EXCEPT !.passPeak = Extremum(n.rssi, t)]
  ELSE IF n.rssi = n.passPeak.rssi THEN [n EXCEPT !.passPeak = Extended(@, t)] ELSE n

\* rssiProcessValue: nothing happens before the server has first been heard of.
Process(n, v, t) ==
  IF n.active THEN PassPeak(Crossing(History(n, v, t)), t) ELSE n

-----------------------------------------------------------------------------
(* Commands.                                                               *)

\* Of the peak and the nadir that wait to be read, the one that began first; when
\* both began at the same time neither is sent.
SendsPeak(n) ==
  ~NoPeak(n.peakBuffer) /\ (NoNadir(n.nadirBuffer) \/ n.peakBuffer.first < n.nadirBuffer.first)
SendsNadir(n) ==
  ~NoNadir(n.nadirBuffer) /\ (NoPeak(n.peakBuffer) \/ n.nadirBuffer.first < n.peakBuffer.first)

\* READ_LAP_PASS_STATS: the times are sent as milliseconds since.
PassStats(n, now) == [lap |-> n.lastPass.lap, since |-> TwoBytes(now - n.lastPass.time),
                      rssi |-> n.rssi, passPeak |-> n.lastPass.rssi]

\* READ_LAP_EXTREMUMS: what is sent is gone from its buffer.
Sent(n) == IF SendsPeak(n) THEN n.peakBuffer ELSE n.nadirBuffer
Extremums(n, now) ==
  [crossing |-> n.crossing, isPeak |-> SendsPeak(n),
   rssi  |-> IF SendsPeak(n) \/ SendsNadir(n) THEN Sent(n).rssi ELSE 0,
   since |-> TwoBytes(now - Sent(n).first), duration |-> Sent(n).duration]
ExtremumsRead(n) ==
  IF SendsPeak(n) THEN [n EXCEPT !.peakBuffer.rssi = 0]
  ELSE IF SendsNadir(n) THEN [n EXCEPT !.nadirBuffer.rssi = MaxRssi] ELSE n

\* What reads back of a register.
Register(n, reg) ==
  CASE reg = "freq" -> n.freq [] reg = "enter" -> n.enter [] reg = "exit" -> n.exit

\* handleWriteCommand.
Write(n, reg, v) ==
  CASE reg = "freq"  -> [(IF v # n.freq THEN StateReset(n) ELSE n)
                           EXCEPT !.freq = v, !.active = TRUE]
    [] reg = "enter" -> [n EXCEPT !.enter = v]
    [] reg = "exit"  -> [n EXCEPT !.exit = v]
    [] reg = "force" -> EndCrossing(n)
=============================================================================
