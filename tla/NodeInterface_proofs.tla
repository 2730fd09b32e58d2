------------------------ MODULE NodeInterface_proofs ------------------------
(***************************************************************************)
(* What is proved of NodeInterface for every number of nodes, every bound  *)
(* and all courses of the RSSI: types, that the server knows which node    *)
(* its processor takes commands for, that the RSSI history it keeps is one *)
(* that was measured, and that the passes it reports are passes that a     *)
(* node has ended.  The last two need what the firmware holds at each step *)
(* (RssiNode_proofs!HistoryHolds, and PassesHeld), for each node.          *)
(***************************************************************************)
EXTENDS NodeInterface, RssiNode_proofs, SequenceFacts, SequenceTheorems

\* What the firmware of each node holds.
FirmwareHolds == \A i \in Nodes : HistoryHolds(fw[i], trace[i], now)

\* The parts of TypeOK.
LinkOK == cur \in Nodes /\ holder \in Nodes \cup {None}
FirmwareOK ==
  /\ fw \in [Nodes -> NodeAt(now)]
  /\ ended \in [Nodes -> Seq(Nat)] /\ trace \in [Nodes -> Seq(Rssi)]
SeatOK == seat \in [Nodes -> Seat]
PollOK == poll \in Polling /\ (poll.at = "extremums" => poll.stats # <<>>)
TodoOK == todo \in [Greenlets -> Seq(RegisterWrite)]
CountsOK ==
  /\ now \in 0..MaxTime /\ stray \in BOOLEAN /\ late \in BOOLEAN /\ missed \subseteq Nodes
  /\ requests \in 0..MaxRequests /\ faults \in 0..MaxFaults

LEMMA TypeParts ==
  /\ TypeOK <=> LinkOK /\ FirmwareOK /\ SeatOK /\ PollOK /\ TodoOK /\ CountsOK
  /\ TypeOK' <=> LinkOK' /\ FirmwareOK' /\ SeatOK' /\ PollOK' /\ TodoOK' /\ CountsOK'
BY Zenon DEF TypeOK, LinkOK, FirmwareOK, SeatOK, PollOK, TodoOK, CountsOK

LEMMA NodesTypes ==
  /\ Nodes \subseteq Nat /\ 0 \in Nodes /\ None \notin Nodes
  /\ Count = 1 => Nodes = {0}
BY InterfaceAssumption DEF Nodes, None

-----------------------------------------------------------------------------
(* The link.                                                               *)

LEMMA ReachLink ==
  ASSUME TypeOK, NEW i \in Nodes, Reach(i)
  PROVE  LinkOK' /\ (HolderTrue /\ stray' = stray => HolderTrue')
                 /\ (HolderTrue /\ ~stray => cur' = i)
<1>1. cur \in Nodes /\ holder \in Nodes \cup {None} /\ i # None
  BY NodesTypes DEF TypeOK
<1>2. cur' = Reached(i) /\ holder' = IF Count = 1 THEN holder ELSE i
  BY DEF Reach
<1>3. CASE Count = 1
  <2>1. cur = i /\ cur' = cur /\ holder' = holder
    BY <1>1, <1>2, <1>3, NodesTypes DEF Reached, Addressed
  <2> QED
    BY <1>1, <2>1 DEF LinkOK, HolderTrue
<1>4. CASE Count # 1 /\ holder = i
  <2>1. cur' = cur /\ holder' = i
    BY <1>2, <1>4 DEF Reached, Addressed
  <2> QED
    BY <1>1, <1>4, <2>1 DEF LinkOK, HolderTrue
<1>5. CASE Count # 1 /\ holder # i
  <2>1. cur' = i /\ holder' = i
    BY <1>2, <1>5 DEF Reached, Addressed
  <2> QED
    BY <1>1, <2>1 DEF LinkOK, HolderTrue
<1> QED
  BY <1>3, <1>4, <1>5

LEMMA GivenUpLink ==
  ASSUME TypeOK, NEW i \in Nodes, SwitchGivenUp(i)
  PROVE  LinkOK' /\ (HolderTrue => HolderTrue')
<1>1. cur \in Nodes /\ holder \in Nodes \cup {None}
  BY DEF TypeOK
<1>2. /\ cur' \in {cur, i} /\ holder' = holder
      /\ stray' = (stray \/ (holder # None /\ cur' # cur))
  BY DEF SwitchGivenUp, HolderKept
<1>3. LinkOK'
  BY <1>1, <1>2 DEF LinkOK
<1>4. HolderTrue => HolderTrue'
  BY <1>2 DEF HolderTrue
<1> QED
  BY <1>3, <1>4

-----------------------------------------------------------------------------
(* The firmware.                                                           *)

\* What a step that changes at most the node c leaves.
LEMMA OneNode ==
  ASSUME TypeOK, FirmwareHolds, NEW c \in Nodes, NEW m,
         HistoryHolds(m, trace[c], now), fw' = [fw EXCEPT ![c] = m],
         UNCHANGED <<now, trace>>
  PROVE  fw' \in [Nodes -> NodeAt(now')] /\ FirmwareHolds'
<1>1. fw \in [Nodes -> NodeAt(now)]
  BY DEF TypeOK
<1>2. m \in NodeAt(now)
  BY DEF HistoryHolds
<1>3. fw' \in [Nodes -> NodeAt(now)]
  BY <1>1, <1>2
<1>4. ASSUME NEW i \in Nodes PROVE HistoryHolds(fw'[i], trace[i], now)
  <2>1. fw'[i] = IF i = c THEN m ELSE fw[i]
    BY <1>1
  <2> QED
    BY <2>1 DEF FirmwareHolds
<1> QED
  BY <1>3, <1>4 DEF FirmwareHolds

LEMMA EndedType ==
  ASSUME TypeOK, NEW new, SetNodes(new), fw' \in [Nodes -> NodeAt(now')]
  PROVE  ended' \in [Nodes -> Seq(Nat)]
<1>1. \A i \in Nodes : ended[i] \in Seq(Nat) /\ fw'[i].lastPass.time \in Nat
  <2> SUFFICES ASSUME NEW i \in Nodes
               PROVE  ended[i] \in Seq(Nat) /\ fw'[i].lastPass.time \in Nat
    OBVIOUS
  <2>1. fw'[i] \in NodeAt(now')
    OBVIOUS
  <2>2. fw'[i].lastPass \in Pass
    BY <2>1 DEF NodeAt
  <2> QED
    BY <2>2 DEF Pass, TypeOK
<1> QED
  BY <1>1 DEF SetNodes

LEMMA SampleStep ==
  ASSUME TypeOK, FirmwareHolds, Sample
  PROVE  FirmwareOK' /\ FirmwareHolds'
         /\ \A i \in Nodes : /\ Len(trace'[i]) = Len(trace[i]) + 1
                             /\ \A k \in 1..Len(trace[i]) : trace'[i][k] = trace[i][k]
<1>1. now \in Nat /\ now < MaxTime /\ MaxTime \in Nat /\ now' = now + 1
  BY InterfaceAssumption DEF Sample, TypeOK
<1>2. PICK c \in Courses :
        /\ SetNodes([i \in Nodes |-> Process(fw[i], c[i][now'], now')])
        /\ trace' = [i \in Nodes |-> Append(trace[i], c[i][now'])]
  BY DEF Sample
<1>3. ASSUME NEW i \in Nodes PROVE c[i][now + 1] \in 0..MaxRssi
  <2>1. c \in [Nodes -> [1..MaxTime -> 0..MaxRssi]] /\ now + 1 \in 1..MaxTime
    BY <1>1, InterfaceAssumption
  <2> QED
    BY <2>1
<1>4. fw' = [i \in Nodes |-> Process(fw[i], c[i][now + 1], now + 1)]
  BY <1>1, <1>2 DEF SetNodes
<1>5. trace' = [i \in Nodes |-> Append(trace[i], c[i][now + 1])]
  BY <1>1, <1>2
<1>6. ASSUME NEW i \in Nodes PROVE HistoryHolds(fw'[i], trace'[i], now')
  <2>1. HistoryHolds(fw[i], trace[i], now)
    BY DEF FirmwareHolds
  <2>2. HistoryHolds(Process(fw[i], c[i][now + 1], now + 1), Append(trace[i], c[i][now + 1]),
                     now + 1)
    BY <1>1, <1>3, <2>1, ProcessHolds
  <2> QED
    BY <1>1, <1>4, <1>5, <2>2
<1>7. FirmwareHolds'
  BY <1>6 DEF FirmwareHolds
<1>8. fw' \in [Nodes -> NodeAt(now')]
  BY <1>4, <1>6 DEF HistoryHolds
<1>9. ended' \in [Nodes -> Seq(Nat)]
  BY <1>2, <1>8, EndedType
<1>10. trace' \in [Nodes -> Seq(Rssi)]
  BY <1>5, <1>6 DEF HistoryHolds, Trace, Rssi
<1>11. ASSUME NEW i \in Nodes
       PROVE  /\ Len(trace'[i]) = Len(trace[i]) + 1
              /\ \A k \in 1..Len(trace[i]) : trace'[i][k] = trace[i][k]
  <2>1. trace[i] \in Seq(Rssi) /\ c[i][now + 1] \in Rssi
    BY <1>3 DEF TypeOK, Rssi
  <2>2. trace'[i] = Append(trace[i], c[i][now + 1])
    BY <1>5
  <2> QED
    BY <2>1, <2>2
<1> QED
  BY <1>7, <1>8, <1>9, <1>10, <1>11 DEF FirmwareOK

-----------------------------------------------------------------------------
(* The update loop.                                                        *)

LEMMA Chosen ==
  ASSUME NEW S, S # {}
  PROVE  (CHOOSE x \in S : TRUE) \in S
OBVIOUS

\* Where GoOn leaves the loop.
ToFinish(u, r) == [Idle EXCEPT !.at = "finish", !.updates = u, !.restore = r]
ToStats(i, u, r) == [Idle EXCEPT !.at = "stats", !.node = i, !.updates = u, !.restore = r]

LEMMA Listed ==
  ASSUME NEW S, NEW a \in S, NEW b \in S, NEW c \in S
  PROVE  <<a>> \in Seq(S) /\ <<a, b, c>> \in Seq(S)
OBVIOUS

LEMMA IdleType ==
  /\ Idle \in Polling /\ Idle.at = "idle"
  /\ \A u \in Seq(Update), r \in Nodes \cup {None} :
       /\ ToFinish(u, r) \in Polling /\ ToFinish(u, r).at = "finish"
       /\ \A i \in Nodes : ToStats(i, u, r) \in Polling /\ ToStats(i, u, r).at = "stats"
<1>1. 0 \in Nodes /\ 0 \in 0..MaxRetries /\ <<>> \in Seq(Update)
  BY NodesTypes, InterfaceAssumption
<1> QED
  BY <1>1 DEF Idle, Polling, ToFinish, ToStats

LEMMA GoOnType ==
  ASSUME NEW i, NEW u \in Seq(Update), NEW r \in Nodes \cup {None}, i \in Nodes \cup {-1},
         GoOn(i, u, r)
  PROVE  PollOK'
<1>1. NextEnabled(i) \subseteq Nodes
  <2> SUFFICES ASSUME NEW j \in NextEnabled(i) PROVE j \in Nodes
    OBVIOUS
  <2>1. i + 1 \in Nat /\ Count \in Nat
    <3>1. Count \in Nat
      BY InterfaceAssumption
    <3>2. i \in Nat \/ i = -1
      BY NodesTypes
    <3> QED
      BY <3>1, <3>2
  <2>2. j \in i+1..Count-1
    BY DEF NextEnabled
  <2> QED
    BY <2>1, <2>2 DEF Nodes
<1>2. CASE NextEnabled(i) = {}
  <2>1. poll' = ToFinish(u, r)
    BY <1>2 DEF GoOn, ToFinish
  <2> QED
    BY <2>1, IdleType DEF PollOK
<1>3. CASE NextEnabled(i) # {}
  <2> DEFINE j == CHOOSE j \in NextEnabled(i) : TRUE
  <2>1. j \in Nodes
    BY <1>1, <1>3, Chosen
  <2>2. poll' = ToStats(j, u, r)
    BY <1>3 DEF GoOn, ToStats
  <2> HIDE DEF j
  <2> QED
    BY <2>1, <2>2, IdleType DEF PollOK
<1> QED
  BY <1>2, <1>3

LEMMA PollFields ==
  ASSUME PollOK
  PROVE  /\ poll.node \in Nodes /\ poll.updates \in Seq(Update) /\ poll.tries \in 0..MaxRetries
         /\ poll.restore \in Nodes \cup {None} /\ poll.stats \in Stats \cup {<<>>}
         /\ \A i \in Nodes : RestoreAfter(i, seat) \in Nodes \cup {None}
BY DEF PollOK, Polling, RestoreAfter

LEMMA BlockFailsType ==
  ASSUME PollOK, BlockFails
  PROVE  PollOK'
<1>1. /\ poll.node \in Nodes /\ poll.updates \in Seq(Update)
      /\ RestoreAfter(poll.node, seat) \in Nodes \cup {None}
  BY PollFields
<1>2. GoOn(poll.node, poll.updates, RestoreAfter(poll.node, seat)) \/ poll' = Idle
  BY DEF BlockFails
<1>3. poll' = Idle => PollOK'
  BY IdleType DEF PollOK
<1> QED
  BY <1>1, <1>2, <1>3, GoOnType

LEMMA StatsType ==
  ASSUME TypeOK, NEW c \in Nodes
  PROVE  [block |-> PassStats(fw[c], now), passes |-> Len(ended[c]), at |-> now] \in Stats
<1>1. fw[c] \in NodeAt(now) /\ ended[c] \in Seq(Nat) /\ now \in Nat
  BY InterfaceAssumption DEF TypeOK
<1>2. fw[c].lastPass \in Pass /\ fw[c].rssi \in 0..MaxRssi
  BY <1>1 DEF NodeAt
<1>3. /\ fw[c].lastPass.lap \in 0..LapIds-1 /\ fw[c].lastPass.rssi \in 0..MaxRssi
      /\ now - fw[c].lastPass.time \in Int
  BY <1>1, <1>2 DEF Pass
<1>4. TwoBytes(now - fw[c].lastPass.time) \in 0..MaxDuration
  BY <1>3, TwoBytesFits
<1>5. Len(ended[c]) \in Nat
  BY <1>1
<1> QED
  BY <1>1, <1>2, <1>3, <1>4, <1>5 DEF PassStats, Stats, Rssi

\* The history of the RSSI at the server: entries that are true of the trace tr.
EntriesTrue(h, tr) == \A k \in 1..Len(h) : h[k][2] \in 1..Len(tr) /\ tr[h[k][2]] = h[k][1]

LEMMA AddEntryHistory ==
  ASSUME NEW h \in Seq(Rssi \X Int), NEW v \in Rssi, NEW t \in Int
  PROVE  /\ AddEntry(h, v, t) \in Seq(Rssi \X Int)
         /\ \A tr : EntriesTrue(h, tr) /\ t \in 1..Len(tr) /\ tr[t] = v
                      => EntriesTrue(AddEntry(h, v, t), tr)
<1> DEFINE e == <<v, t>>
           k == Append(h, e)
           l == [h EXCEPT ![Len(h)] = e]
<1>1. e \in Rssi \X Int /\ e[1] = v /\ e[2] = t
  OBVIOUS
<1> HIDE DEF e
<1>2. k \in Seq(Rssi \X Int) /\ Len(k) = Len(h) + 1 /\ Len(h) \in Nat
  BY <1>1
<1>3. \A i \in 1..Len(k) : k[i] = IF i = Len(h) + 1 THEN e ELSE h[i]
  BY <1>1
<1>6. AddEntry(h, v, t) = k \/ (Len(h) >= 2 /\ AddEntry(h, v, t) = l)
  BY DEF AddEntry, e
<1>l. Len(h) >= 2 => /\ l \in Seq(Rssi \X Int) /\ Len(l) = Len(h)
                     /\ \A i \in 1..Len(h) : l[i] = IF i = Len(h) THEN e ELSE h[i]
  <2> SUFFICES ASSUME Len(h) >= 2
               PROVE  /\ l \in Seq(Rssi \X Int) /\ Len(l) = Len(h)
                      /\ \A i \in 1..Len(h) : l[i] = IF i = Len(h) THEN e ELSE h[i]
    OBVIOUS
  <2>1. Len(h) \in 1..Len(h)
    BY <1>2
  <2> QED
    BY <1>1, <2>1, ExceptSeq
<1> HIDE DEF k, l
<1>4. Len(h) >= 2 => l \in Seq(Rssi \X Int) /\ Len(l) = Len(h)
  BY <1>l
<1>7. ASSUME NEW tr, EntriesTrue(h, tr), t \in 1..Len(tr), tr[t] = v
      PROVE  EntriesTrue(k, tr) /\ (Len(h) >= 2 => EntriesTrue(l, tr))
  <2>1. EntriesTrue(k, tr)
    <3> SUFFICES ASSUME NEW i \in 1..Len(k)
                 PROVE  k[i][2] \in 1..Len(tr) /\ tr[k[i][2]] = k[i][1]
      BY DEF EntriesTrue
    <3>1. CASE i = Len(h) + 1
      BY <1>1, <1>3, <1>7, <3>1
    <3>2. CASE i # Len(h) + 1
      <4>1. i \in 1..Len(h) /\ k[i] = h[i]
        BY <1>2, <1>3, <3>2
      <4> QED
        BY <1>7, <4>1 DEF EntriesTrue
    <3> QED
      BY <3>1, <3>2
  <2>2. ASSUME Len(h) >= 2 PROVE EntriesTrue(l, tr)
    <3>0. Len(l) = Len(h) /\ \A i \in 1..Len(h) : l[i] = IF i = Len(h) THEN e ELSE h[i]
      BY <1>l, <2>2
    <3> SUFFICES ASSUME NEW i \in 1..Len(h)
                 PROVE  l[i][2] \in 1..Len(tr) /\ tr[l[i][2]] = l[i][1]
      BY <3>0 DEF EntriesTrue
    <3>1. CASE i = Len(h)
      BY <1>1, <1>7, <3>0, <3>1
    <3>2. CASE i # Len(h)
      <4>1. l[i] = h[i]
        BY <3>0, <3>2
      <4> QED
        BY <1>7, <4>1 DEF EntriesTrue
    <3> QED
      BY <3>1, <3>2
  <2> QED
    BY <2>1, <2>2
<1> QED
  BY <1>2, <1>4, <1>6, <1>7

\* What is read of a node's extremums, if it is read in time.
LEMMA AddExtremumHistory ==
  ASSUME now \in Nat, NEW h \in Seq(Rssi \X Int), NEW n, NEW tr, HistoryHolds(n, tr, now)
  PROVE  LET e == Extremums(n, now)
             k == AddExtremum(h, e)
         IN  /\ k \in Seq(Rssi \X Int)
             /\ EntriesTrue(h, tr) /\ (ValidRssi(e.rssi) => now - Sent(n).first <= MaxDuration)
                  => EntriesTrue(k, tr)
<1> DEFINE e == Extremums(n, now)
           a == now - e.since
           b == now - (e.since - e.duration)
           g == AddEntry(h, e.rssi, a)
           f == AddEntry(g, e.rssi, b)
           inTime == ValidRssi(e.rssi) /\ now - Sent(n).first <= MaxDuration
<1>1. /\ e.rssi \in Rssi /\ a \in Int /\ b \in Int
      /\ inTime => a \in 1..now /\ tr[a] = e.rssi /\ b \in 1..now /\ tr[b] = e.rssi
  <2>1. /\ e.rssi \in 0..MaxRssi /\ e.since \in 0..MaxDuration
        /\ e.duration \in 0..MaxDuration
    BY SentMeasured
  <2>2. 0 < e.rssi /\ e.rssi < MaxRssi /\ now - Sent(n).first <= MaxDuration =>
          /\ a \in 1..now /\ tr[a] = e.rssi /\ b \in 1..now /\ tr[b] = e.rssi
    BY SentMeasured
  <2>3. MaxDuration \in Nat
    BY NodeAssumption
  <2> HIDE DEF e
  <2>4. a \in Int /\ b \in Int
    BY <2>1, <2>3
  <2> QED
    BY <2>1, <2>2, <2>4 DEF ValidRssi, Rssi
<1>2. Len(tr) = now
  BY DEF HistoryHolds, Trace
<1>3. AddExtremum(h, e) = IF ~ValidRssi(e.rssi) THEN h ELSE IF e.duration = 0 THEN g ELSE f
  BY DEF AddExtremum
<1> HIDE DEF e, a, b
<1>4. /\ g \in Seq(Rssi \X Int)
      /\ EntriesTrue(h, tr) /\ inTime => EntriesTrue(g, tr)
  BY <1>1, <1>2, AddEntryHistory
<1> HIDE DEF g
<1>5. /\ f \in Seq(Rssi \X Int)
      /\ EntriesTrue(g, tr) /\ inTime => EntriesTrue(f, tr)
  BY <1>1, <1>2, <1>4, AddEntryHistory
<1> HIDE DEF f
<1>6. AddExtremum(h, e) \in Seq(Rssi \X Int)
  BY <1>3, <1>4, <1>5
<1>7. EntriesTrue(h, tr) /\ (ValidRssi(e.rssi) => now - Sent(n).first <= MaxDuration)
        => EntriesTrue(AddExtremum(h, e), tr)
  BY <1>3, <1>4, <1>5
<1> QED
  BY <1>6, <1>7 DEF e

-----------------------------------------------------------------------------
(* Node objects and writes.                                                *)

\* The history of no node changes.
HistoryKept == \A i \in Nodes : seat'[i].history = seat[i].history

LEMMA SeatFields ==
  ASSUME SeatOK, NEW i \in Nodes
  PROVE  /\ seat[i] \in Seat /\ seat[i].freq \in Frequencies \cup {0}
         /\ seat[i].enter \in Rssi /\ seat[i].exit \in Rssi
         /\ seat[i].history \in Seq(Rssi \X Int)
BY DEF SeatOK, Seat

LEMMA OneSeat ==
  ASSUME SeatOK, NEW i \in Nodes, NEW x \in Seat, seat' = [seat EXCEPT ![i] = x]
  PROVE  /\ SeatOK'
         /\ \A j \in Nodes : seat'[j] = IF j = i THEN x ELSE seat[j]
         /\ x.history = seat[i].history => HistoryKept
BY DEF SeatOK, HistoryKept

LEMMA SeatSame ==
  ASSUME SeatOK, UNCHANGED seat
  PROVE  SeatOK' /\ HistoryKept
BY DEF SeatOK, HistoryKept

LEMMA WriteTypes ==
  /\ \A x \in RegisterWrite : /\ x.node \in Nodes
                              /\ x.reg \in {"freq", "enter", "exit", "force", "restored"}
                              /\ x.reg # "restored" => x.value \in WrittenTo(x.reg)
  /\ \A i \in Nodes, b \in BOOLEAN :
       /\ \A v \in Frequencies : W("freq", i, v, b) \in RegisterWrite
       /\ \A v \in Rssi : W("enter", i, v, b) \in RegisterWrite
       /\ \A v \in Rssi : W("exit", i, v, b) \in RegisterWrite
       /\ W("force", i, 0, b) \in RegisterWrite /\ W("restored", i, 0, b) \in RegisterWrite
<1>1. ASSUME NEW x \in RegisterWrite
      PROVE  /\ x.node \in Nodes
             /\ x.reg \in {"freq", "enter", "exit", "force", "restored"}
             /\ x.reg # "restored" => x.value \in WrittenTo(x.reg)
  <2>1. CASE x \in [reg : {"freq"}, node : Nodes, value : Frequencies, save : BOOLEAN]
    BY <2>1 DEF WrittenTo
  <2>2. CASE x \in [reg : {"enter", "exit"}, node : Nodes, value : Rssi, save : BOOLEAN]
    BY <2>2 DEF WrittenTo, Rssi
  <2>3. CASE x \in [reg : {"force", "restored"}, node : Nodes, value : {0}, save : BOOLEAN]
    BY <2>3 DEF WrittenTo
  <2> QED
    BY <2>1, <2>2, <2>3 DEF RegisterWrite
<1>2. ASSUME NEW i \in Nodes, NEW b \in BOOLEAN
      PROVE  /\ \A v \in Frequencies : W("freq", i, v, b) \in RegisterWrite
             /\ \A v \in Rssi : W("enter", i, v, b) \in RegisterWrite
             /\ \A v \in Rssi : W("exit", i, v, b) \in RegisterWrite
             /\ W("force", i, 0, b) \in RegisterWrite
             /\ W("restored", i, 0, b) \in RegisterWrite
  BY DEF W, RegisterWrite
<1> QED
  BY <1>1, <1>2

LEMMA Popped ==
  ASSUME TodoOK, NEW g \in Greenlets, todo[g] # <<>>, Pop(g)
  PROVE  TodoOK' /\ Head1(g) \in RegisterWrite
<1>1. todo[g] \in Seq(RegisterWrite)
  BY DEF TodoOK
<1>2. Tail(todo[g]) \in Seq(RegisterWrite) /\ todo[g][1] \in RegisterWrite
  BY <1>1
<1>3. todo' = [todo EXCEPT ![g] = Tail(todo[g])]
  BY DEF Pop, TodoOK
<1> QED
  BY <1>2, <1>3 DEF TodoOK, Head1

LEMMA SavedType ==
  ASSUME SeatOK, NEW x \in RegisterWrite, x.reg # "restored", NEW out \in WrittenTo(x.reg),
         seat' = Saved(x, out)
  PROVE  SeatOK' /\ HistoryKept
<1> DEFINE i == x.node
           f == IF x.value = PowerDown THEN 0 ELSE out
           a == [seat[i] EXCEPT !.freq = f]
           b == [seat[i] EXCEPT !.enter = x.value]
           c == [seat[i] EXCEPT !.exit = x.value]
<1>1. i \in Nodes /\ seat[i] \in Seat
  BY WriteTypes, SeatFields
<1>2. /\ x.reg = "freq" => f \in Frequencies \cup {0}
      /\ x.reg \in {"enter", "exit"} => x.value \in Rssi
  BY WriteTypes DEF WrittenTo, Rssi
<1>3. \/ x.reg = "freq" /\ seat' = [seat EXCEPT ![i].freq = f]
      \/ x.reg = "enter" /\ seat' = [seat EXCEPT ![i].enter = x.value]
      \/ x.reg = "exit" /\ seat' = [seat EXCEPT ![i].exit = x.value]
      \/ seat' = seat
  BY DEF Saved
<1> HIDE DEF i, f
<1>4. CASE x.reg = "freq" /\ seat' = [seat EXCEPT ![i].freq = f]
  <2>1. a \in Seat /\ a.history = seat[i].history
    BY <1>1, <1>2, <1>4 DEF Seat
  <2>2. seat' = [seat EXCEPT ![i] = a]
    BY <1>4
  <2> HIDE DEF a
  <2> QED
    BY <1>1, <2>1, <2>2, OneSeat
<1>5. CASE x.reg = "enter" /\ seat' = [seat EXCEPT ![i].enter = x.value]
  <2>1. b \in Seat /\ b.history = seat[i].history
    BY <1>1, <1>2, <1>5 DEF Seat
  <2>2. seat' = [seat EXCEPT ![i] = b]
    BY <1>5
  <2> HIDE DEF b
  <2> QED
    BY <1>1, <2>1, <2>2, OneSeat
<1>6. CASE x.reg = "exit" /\ seat' = [seat EXCEPT ![i].exit = x.value]
  <2>1. c \in Seat /\ c.history = seat[i].history
    BY <1>1, <1>2, <1>6 DEF Seat
  <2>2. seat' = [seat EXCEPT ![i] = c]
    BY <1>6
  <2> HIDE DEF c
  <2> QED
    BY <1>1, <2>1, <2>2, OneSeat
<1>7. CASE seat' = seat
  BY <1>7, SeatSame
<1> QED
  BY <1>3, <1>4, <1>5, <1>6, <1>7

-----------------------------------------------------------------------------
(* Steps.                                                                  *)

\* What each step leaves, apart from the history at the server.
StepKeeps == LinkOK' /\ FirmwareOK' /\ SeatOK' /\ PollOK' /\ TodoOK' /\ CountsOK' /\ FirmwareHolds'
HolderKeeps == HolderTrue => HolderTrue'
\* Steps that do not change the history at the server, nor what was measured.
HistoriesKept == HistoryKept /\ trace' = trace /\ (stray => stray') /\ (late => late')

LEMMA FirmwareSame ==
  ASSUME TypeOK, FirmwareHolds, UNCHANGED <<now, fw, ended, trace>>
  PROVE  FirmwareOK' /\ FirmwareHolds'
BY TypeParts DEF FirmwareOK, FirmwareHolds

LEMMA LinkSame ==
  ASSUME TypeOK, UNCHANGED <<cur, holder, stray>>
  PROVE  LinkOK' /\ HolderKeeps
BY DEF TypeOK, LinkOK, HolderKeeps, HolderTrue

LEMMA Faulted ==
  ASSUME TypeOK, Fault
  PROVE  faults' \in 0..MaxFaults
BY SMTT(30), InterfaceAssumption DEF TypeOK, Fault

LEMMA PollStartsStep ==
  ASSUME TypeOK, FirmwareHolds, PollStarts
  PROVE  StepKeeps /\ HolderKeeps /\ HistoriesKept
<1>1. GoOn(-1, <<>>, None)
  BY DEF PollStarts
<1>2. PollOK'
  <2>1. <<>> \in Seq(Update)
    OBVIOUS
  <2> QED
    BY <1>1, <2>1, GoOnType
<1>3. UNCHANGED <<now, fw, cur, holder, seat, todo, ended, trace, stray, late, missed,
                  requests, faults>>
  BY DEF PollStarts, processor, history
<1>4. LinkOK' /\ HolderKeeps /\ FirmwareOK' /\ FirmwareHolds' /\ SeatOK' /\ HistoryKept
  BY <1>3, LinkSame, FirmwareSame, SeatSame, TypeParts
<1>5. TodoOK' /\ CountsOK'
  BY <1>3 DEF TypeOK, TodoOK, CountsOK
<1> QED
  BY <1>2, <1>3, <1>4, <1>5 DEF StepKeeps, HistoriesKept

LEMMA PollGivesUpStep ==
  ASSUME TypeOK, FirmwareHolds, PollGivesUp
  PROVE  StepKeeps /\ HolderKeeps /\ HistoriesKept
<1>1. SwitchGivenUp(poll.node) /\ BlockFails /\ poll.node \in Nodes
  BY PollFields, TypeParts DEF PollGivesUp
<1>2. UNCHANGED <<now, fw, seat, todo, ended, trace, late, missed, requests>>
  BY DEF PollGivesUp, SwitchGivenUp, history
<1>3. LinkOK' /\ HolderKeeps
  BY <1>1, GivenUpLink DEF HolderKeeps
<1>4. PollOK'
  BY <1>1, BlockFailsType, TypeParts
<1>5. FirmwareOK' /\ FirmwareHolds' /\ SeatOK' /\ HistoryKept
  BY <1>2, FirmwareSame, SeatSame, TypeParts
<1>6. faults' \in 0..MaxFaults /\ stray' \in BOOLEAN /\ (stray => stray')
  BY <1>1, Faulted DEF SwitchGivenUp, TypeOK
<1>7. TodoOK' /\ CountsOK'
  BY <1>2, <1>6 DEF TypeOK, TodoOK, CountsOK
<1> QED
  BY <1>2, <1>3, <1>4, <1>5, <1>6, <1>7 DEF StepKeeps, HistoriesKept

LEMMA ReadStatsStep ==
  ASSUME TypeOK, FirmwareHolds, ReadStats
  PROVE  StepKeeps /\ HolderKeeps /\ HistoriesKept
<1>1. Reach(poll.node) /\ poll.node \in Nodes
  BY PollFields, TypeParts DEF ReadStats
<1>2. UNCHANGED <<now, seat, todo, ended, trace, stray, late, missed, requests, faults>>
  BY DEF ReadStats, history
<1>3. LinkOK' /\ HolderKeeps
  BY <1>1, <1>2, ReachLink DEF HolderKeeps
<1>4. cur' \in Nodes
  BY <1>3 DEF LinkOK
<1>5. fw' = [fw EXCEPT ![cur'] = [fw[cur'] EXCEPT !.active = TRUE]]
  BY DEF ReadStats
<1>6. HistoryHolds([fw[cur'] EXCEPT !.active = TRUE], trace[cur'], now)
  <2>1. HistoryHolds(fw[cur'], trace[cur'], now) /\ now \in Nat
    BY <1>4, InterfaceAssumption DEF FirmwareHolds, TypeOK
  <2> QED
    BY <2>1, ActiveHolds
<1>7. fw' \in [Nodes -> NodeAt(now')] /\ FirmwareHolds'
  BY <1>2, <1>4, <1>5, <1>6, OneNode
<1>8. FirmwareOK'
  BY <1>2, <1>7 DEF TypeOK, FirmwareOK
<1>9. PollOK'
  <2> DEFINE r == [block |-> PassStats(fw[cur'], now), passes |-> Len(ended[cur']), at |-> now]
  <2>1. r \in Stats
    BY <1>4, StatsType
  <2>2. r # <<>>
    OBVIOUS
  <2>3. poll' = [poll EXCEPT !.at = "extremums", !.tries = 0, !.stats = r]
    BY DEF ReadStats
  <2> HIDE DEF r
  <2>4. poll \in Polling /\ 0 \in 0..MaxRetries
    BY InterfaceAssumption DEF TypeOK
  <2>5. poll' \in Polling /\ poll'.stats = r
    BY <2>1, <2>3, <2>4 DEF Polling
  <2> QED
    BY <2>2, <2>5 DEF PollOK
<1>10. SeatOK' /\ HistoryKept
  BY <1>2, SeatSame, TypeParts
<1>11. TodoOK' /\ CountsOK'
  BY <1>2 DEF TypeOK, TodoOK, CountsOK
<1> QED
  BY <1>2, <1>3, <1>7, <1>8, <1>9, <1>10, <1>11 DEF StepKeeps, HistoriesKept

LEMMA ReadFailsStep ==
  ASSUME TypeOK, FirmwareHolds, ReadFails
  PROVE  StepKeeps /\ HolderKeeps /\ HistoriesKept
<1>1. Reach(poll.node) /\ poll.node \in Nodes
  BY PollFields, TypeParts DEF ReadFails
<1>2. UNCHANGED <<now, seat, todo, ended, trace, stray, late, missed, requests>>
  BY DEF ReadFails, history
<1>3. LinkOK' /\ HolderKeeps
  BY <1>1, <1>2, ReachLink DEF HolderKeeps
<1>4. cur' \in Nodes
  BY <1>3 DEF LinkOK
<1>5. \/ fw' = fw
      \/ fw' = [fw EXCEPT ![cur'] = [fw[cur'] EXCEPT !.active = TRUE]]
      \/ fw' = [fw EXCEPT ![cur'] = ExtremumsRead(fw[cur'])]
  BY DEF ReadFails
<1>6. /\ HistoryHolds([fw[cur'] EXCEPT !.active = TRUE], trace[cur'], now)
      /\ HistoryHolds(ExtremumsRead(fw[cur']), trace[cur'], now)
  <2>1. HistoryHolds(fw[cur'], trace[cur'], now) /\ now \in Nat
    BY <1>4, InterfaceAssumption DEF FirmwareHolds, TypeOK
  <2> QED
    BY <2>1, ActiveHolds, ReadHolds
<1>7. fw' \in [Nodes -> NodeAt(now')] /\ FirmwareHolds'
  <2>1. CASE fw' = fw
    BY <1>2, <2>1 DEF TypeOK, FirmwareHolds
  <2>2. CASE fw' # fw
    BY <1>2, <1>4, <1>5, <1>6, <2>2, OneNode
  <2> QED
    BY <2>1, <2>2
<1>8. FirmwareOK'
  BY <1>2, <1>7 DEF TypeOK, FirmwareOK
<1>9. PollOK'
  <2>1. PollOK
    BY TypeParts
  <2>2. CASE BlockFails
    BY <2>1, <2>2, BlockFailsType
  <2>3. CASE poll.tries < MaxRetries /\ poll' = [poll EXCEPT !.tries = @ + 1]
    <3>1. poll.tries + 1 \in 0..MaxRetries
      BY <2>1, <2>3, InterfaceAssumption, PollFields
    <3> DEFINE k == poll.tries + 1
    <3>2. poll' = [poll EXCEPT !.tries = k]
      BY <2>3
    <3>3. k \in 0..MaxRetries
      BY <3>1
    <3> HIDE DEF k
    <3> QED
      BY <2>1, <3>2, <3>3 DEF PollOK, Polling
  <2> QED
    BY <2>2, <2>3 DEF ReadFails
<1>10. SeatOK' /\ HistoryKept
  BY <1>2, SeatSame, TypeParts
<1>11. faults' \in 0..MaxFaults
  BY Faulted DEF ReadFails
<1>12. TodoOK' /\ CountsOK'
  BY <1>2, <1>11 DEF TypeOK, TodoOK, CountsOK
<1> QED
  BY <1>2, <1>3, <1>7, <1>8, <1>9, <1>10, <1>12 DEF StepKeeps, HistoriesKept

\* What a read that succeeds adds to the history of its node.
LEMMA ReadExtremumsStep ==
  ASSUME TypeOK, FirmwareHolds, ReadExtremums
  PROVE  /\ StepKeeps /\ HolderKeeps
         /\ HolderTrue /\ HistoryTrue => HistoryTrue'
<1> DEFINE i == poll.node
           s == poll.stats.block
           e == Extremums(fw[cur'], now)
           k == AddExtremum(seat[i].history, e)
           x == [seat[i] EXCEPT !.crossing = e.crossing, !.history = k]
           u == [node |-> i, lap |-> s.lap, time |-> now - s.since,
                 passes |-> poll.stats.passes, at |-> poll.stats.at, read |-> now]
           r == RestoreAfter(i, seat)
<1>1. Reach(i) /\ i \in Nodes /\ poll.updates \in Seq(Update) /\ r \in Nodes \cup {None}
  BY PollFields, TypeParts DEF ReadExtremums
<1>2. UNCHANGED <<now, todo, ended, trace, stray, missed, requests, faults>>
  BY DEF ReadExtremums, history
<1>3. LinkOK' /\ HolderKeeps /\ (HolderTrue /\ ~stray => cur' = i)
  BY <1>1, <1>2, ReachLink DEF HolderKeeps
<1>4. cur' \in Nodes /\ now \in Nat
  BY <1>3, InterfaceAssumption DEF LinkOK, TypeOK
<1>5. HistoryHolds(fw[cur'], trace[cur'], now)
  BY <1>4 DEF FirmwareHolds
<1>6. FirmwareOK' /\ FirmwareHolds'
  <2>1. fw' = [fw EXCEPT ![cur'] = ExtremumsRead(fw[cur'])]
    BY DEF ReadExtremums
  <2>2. HistoryHolds(ExtremumsRead(fw[cur']), trace[cur'], now)
    BY <1>4, <1>5, ReadHolds
  <2>3. fw' \in [Nodes -> NodeAt(now')] /\ FirmwareHolds'
    BY <1>2, <1>4, <2>1, <2>2, OneNode
  <2> QED
    BY <1>2, <2>3 DEF TypeOK, FirmwareOK
<1>7. poll.stats \in Stats
  BY DEF ReadExtremums, TypeOK, Polling
<1>8. u \in Update
  <2>1. s \in [lap : 0..LapIds-1, since : 0..MaxDuration, rssi : Rssi, passPeak : Rssi]
        /\ poll.stats.passes \in Nat /\ poll.stats.at \in Nat
    BY <1>7 DEF Stats
  <2>2. s.lap \in 0..LapIds-1 /\ now - s.since \in Int
    BY <1>4, <2>1, NodeAssumption
  <2> HIDE DEF s, i
  <2> QED
    BY <1>1, <1>4, <2>1, <2>2 DEF Update
<1>9. /\ e.crossing \in BOOLEAN
      /\ k \in Seq(Rssi \X Int)
      /\ EntriesTrue(seat[i].history, trace[cur'])
           /\ (ValidRssi(e.rssi) => now - Sent(fw[cur']).first <= MaxDuration)
         => EntriesTrue(k, trace[cur'])
  <2>1. seat[i].history \in Seq(Rssi \X Int)
    BY <1>1, SeatFields, TypeParts
  <2>2. e.crossing \in BOOLEAN
    BY <1>4, <1>5, SentMeasured
  <2> QED
    BY <1>4, <1>5, <2>1, <2>2, AddExtremumHistory
<1>10. late' = (late \/ (ValidRssi(e.rssi) /\ now - Sent(fw[cur']).first > MaxDuration))
  BY DEF ReadExtremums
<1>11. \/ UNCHANGED seat /\ GoOn(i, poll.updates, r)
       \/ /\ seat' = [seat EXCEPT ![i].crossing = e.crossing, ![i].history = k]
          /\ \/ GoOn(i, poll.updates, r)
             \/ GoOn(i, Append(poll.updates, u), r)
  BY DEF ReadExtremums
<1>12. Append(poll.updates, u) \in Seq(Update)
  BY <1>1, <1>8
<1> HIDE DEF i, s, e, k, u, r
<1>13. PollOK'
  BY <1>1, <1>11, <1>12, GoOnType
<1>14. /\ x \in Seat /\ x.history = k
  <2>1. seat[i] \in Seat
    BY <1>1, SeatFields, TypeParts
  <2> QED
    BY <1>9, <2>1 DEF Seat
<1>15. UNCHANGED seat \/ seat' = [seat EXCEPT ![i] = x]
  <2>1. seat[i] \in Seat
    BY <1>1, SeatFields, TypeParts
  <2> QED
    BY <1>11, <2>1 DEF Seat
<1> HIDE DEF x
<1>16. SeatOK' /\ \A j \in Nodes : seat'[j].history \in {seat[j].history, IF j = i THEN k ELSE seat[j].history}
  <2>1. CASE UNCHANGED seat
    BY <2>1, SeatSame, TypeParts
  <2>2. CASE seat' = [seat EXCEPT ![i] = x]
    <3>1. SeatOK
      BY TypeParts
    <3>2. SeatOK' /\ \A j \in Nodes : seat'[j] = IF j = i THEN x ELSE seat[j]
      BY <1>1, <1>14, <2>2, <3>1, OneSeat
    <3> QED
      BY <1>14, <3>2
  <2> QED
    BY <1>15, <2>1, <2>2
<1>17. ValidRssi(e.rssi) /\ now - Sent(fw[cur']).first > MaxDuration => late'
  BY <1>10
<1>18. late' \in BOOLEAN /\ (late => late')
  BY <1>10 DEF TypeOK
<1>19. TodoOK' /\ CountsOK'
  BY <1>2, <1>18 DEF TypeOK, TodoOK, CountsOK
<1>20. ASSUME HolderTrue, HistoryTrue PROVE HistoryTrue'
  <2> SUFFICES ASSUME ~stray', ~late', NEW j \in Nodes
               PROVE  EntriesTrue(seat'[j].history, trace'[j])
    BY DEF HistoryTrue, EntriesTrue
  <2>1. ~stray /\ ~late
    BY <1>2, <1>18
  <2>2. cur' = i
    BY <1>3, <1>20, <2>1
  <2>3. EntriesTrue(seat[j].history, trace[j]) /\ EntriesTrue(seat[i].history, trace[i])
    BY <1>1, <1>20, <2>1 DEF HistoryTrue, EntriesTrue
  <2>4. ValidRssi(e.rssi) => now - Sent(fw[cur']).first <= MaxDuration
    <3>1. Sent(fw[cur']).first \in Nat
      <4>1. fw[cur'] \in NodeAt(now)
        BY <1>5 DEF HistoryHolds
      <4>2. Sent(fw[cur']) \in ExtremumAt(now)
        BY <4>1 DEF Sent, NodeAt
      <4> QED
        BY <4>2 DEF ExtremumAt
    <3> QED
      BY <1>4, <1>17, <3>1, NodeAssumption
  <2>5. EntriesTrue(k, trace[i])
    BY <1>9, <2>2, <2>3, <2>4
  <2> QED
    BY <1>2, <1>16, <2>3, <2>5
<1> QED
  BY <1>3, <1>6, <1>13, <1>16, <1>19, <1>20 DEF StepKeeps

LEMMA FinishStep ==
  ASSUME TypeOK, FirmwareHolds, Finish
  PROVE  StepKeeps /\ HolderKeeps /\ HistoriesKept
<1>1. UNCHANGED <<now, fw, cur, holder, ended, trace, stray, late, missed, requests, faults>>
  BY ZenonT(40) DEF Finish, processor
<1>2. LinkOK' /\ HolderKeeps /\ FirmwareOK' /\ FirmwareHolds'
  BY SMTT(30), <1>1, LinkSame, FirmwareSame
<1>3. PollOK'
  BY ZenonT(40), IdleType DEF Finish, PollOK
<1>4. SeatOK' /\ HistoryKept
  <2> DEFINE Mine(i) == {k \in DOMAIN poll.updates : poll.updates[k].node = i}
             Of(i) == poll.updates[CHOOSE k \in Mine(i) : TRUE]
             x(i) == [seat[i] EXCEPT !.lap = Of(i).lap, !.seen = Of(i).passes]
  <2>1. seat' = [i \in Nodes |-> IF Mine(i) = {} THEN seat[i] ELSE x(i)]
    BY ZenonT(40) DEF Finish
  <2>2. ASSUME NEW i \in Nodes, Mine(i) # {}
        PROVE  x(i) \in Seat /\ x(i).history = seat[i].history
    <3>1. poll.updates \in Seq(Update)
      BY PollFields, TypeParts
    <3> DEFINE c == CHOOSE k \in Mine(i) : TRUE
    <3>2. c \in Mine(i)
      BY <2>2, Chosen
    <3>3. c \in DOMAIN poll.updates
      BY <3>2
    <3>4. Of(i) \in Update
      <4> HIDE DEF c
      <4>1. poll.updates[c] \in Update
        BY <3>1, <3>3
      <4> QED
        BY <4>1 DEF c
    <3> HIDE DEF Of
    <3>5. Of(i).lap \in -1..LapIds-1 /\ Of(i).passes \in Nat
      BY <3>4, NodeAssumption DEF Update
    <3>6. seat[i] \in Seat
      BY SeatFields, TypeParts
    <3> QED
      BY <3>5, <3>6 DEF Seat
  <2>3. \A i \in Nodes : seat[i] \in Seat
    BY SeatFields, TypeParts
  <2> HIDE DEF x, Mine
  <2> QED
    BY SMTT(30), <2>1, <2>2, <2>3 DEF SeatOK, HistoryKept
<1>5. TodoOK'
  <2> DEFINE i == poll.restore
  <2>1. CASE i = None
    BY ZenonT(40), <2>1 DEF Finish, TypeOK, TodoOK
  <2>2. CASE i # None
    <3>1. i \in Nodes
      BY <2>2, PollFields, TypeParts
    <3>2. seat[i].enter \in Rssi /\ seat[i].exit \in Rssi
      BY <3>1, SeatFields, TypeParts
    <3>3. /\ W("enter", i, seat[i].enter, TRUE) \in RegisterWrite
          /\ W("exit", i, seat[i].exit, TRUE) \in RegisterWrite
          /\ W("restored", i, 0, FALSE) \in RegisterWrite
      BY <3>1, <3>2, WriteTypes
    <3>4. RestoreWrites(i) \in Seq(RegisterWrite)
      BY ZenonT(40), <3>3, Listed DEF RestoreWrites
    <3>5. todo' = [todo EXCEPT !["update"] = RestoreWrites(i)]
      BY ZenonT(40), <2>2 DEF Finish
    <3> HIDE DEF i
    <3> QED
      BY <3>4, <3>5 DEF TypeOK, TodoOK
  <2> QED
    BY SMTT(30), <2>1, <2>2
<1>6. CountsOK'
  BY <1>1 DEF TypeOK, CountsOK
<1> QED
  BY SMTT(30), <1>1, <1>2, <1>3, <1>4, <1>5, <1>6 DEF StepKeeps, HistoriesKept

LEMMA RestoredStep ==
  ASSUME TypeOK, FirmwareHolds, Restored
  PROVE  StepKeeps /\ HolderKeeps /\ HistoriesKept
<1> DEFINE i == Head1("update").node
           x == [seat[i] EXCEPT !.lowered = FALSE, !.lowerTime = 0]
<1>1. UNCHANGED <<now, fw, cur, holder, poll, ended, trace, stray, late, missed, requests, faults>>
  BY DEF Restored, processor, history
<1>2. LinkOK' /\ HolderKeeps /\ FirmwareOK' /\ FirmwareHolds'
  BY <1>1, LinkSame, FirmwareSame
<1>3. TodoOK' /\ Head1("update") \in RegisterWrite
  <2>1. "update" \in Greenlets /\ todo["update"] # <<>> /\ Pop("update")
    BY DEF Restored, Greenlets
  <2> QED
    BY <2>1, Popped, TypeParts
<1>4. i \in Nodes
  BY <1>3, WriteTypes
<1>5. seat' = [seat EXCEPT ![i].lowered = FALSE, ![i].lowerTime = 0]
  BY DEF Restored
<1> HIDE DEF i
<1>6. seat[i] \in Seat
  BY <1>4, SeatFields, TypeParts
<1>7. x \in Seat /\ x.history = seat[i].history
  BY <1>6 DEF Seat
<1>8. seat' = [seat EXCEPT ![i] = x]
  BY <1>4, <1>5, <1>6 DEF TypeOK, Seat
<1> HIDE DEF x
<1>9. SeatOK' /\ HistoryKept
  BY <1>4, <1>7, <1>8, OneSeat, TypeParts
<1>10. PollOK' /\ CountsOK'
  BY <1>1 DEF TypeOK, PollOK, CountsOK
<1> QED
  BY <1>1, <1>2, <1>3, <1>9, <1>10 DEF StepKeeps, HistoriesKept

\* What a write sends.
LEMMA Written ==
  ASSUME TypeOK, NEW g \in Greenlets, CanWrite(g), Pop(g)
  PROVE  /\ TodoOK' /\ Head1(g) \in RegisterWrite /\ Head1(g).node \in Nodes
         /\ Head1(g).reg \in {"freq", "enter", "exit", "force"}
         /\ Head1(g).value \in WrittenTo(Head1(g).reg)
<1>1. TodoOK' /\ Head1(g) \in RegisterWrite /\ Head1(g).reg # "restored"
  BY Popped, TypeParts DEF CanWrite
<1> QED
  BY <1>1, WriteTypes

LEMMA WriteReached ==
  ASSUME TypeOK, FirmwareHolds, NEW g \in Greenlets, CanWrite(g), Pop(g), cur' \in Nodes,
         SetNodes([fw EXCEPT ![cur'] = Write(@, Head1(g).reg, Head1(g).value)]),
         UNCHANGED <<now, trace>>
  PROVE  FirmwareOK' /\ FirmwareHolds'
<1> DEFINE reg == Head1(g).reg
           v == Head1(g).value
<1>1. reg \in {"freq", "enter", "exit", "force"} /\ v \in WrittenTo(reg)
  BY Written
<1>2. fw' = [fw EXCEPT ![cur'] = Write(fw[cur'], reg, v)]
  BY DEF SetNodes
<1>3. HistoryHolds(Write(fw[cur'], reg, v), trace[cur'], now)
  <2>1. HistoryHolds(fw[cur'], trace[cur'], now) /\ now \in Nat
    BY InterfaceAssumption DEF FirmwareHolds, TypeOK
  <2> HIDE DEF reg, v
  <2> QED
    BY <1>1, <2>1, WriteHolds
<1> HIDE DEF reg, v
<1>4. fw' \in [Nodes -> NodeAt(now')] /\ FirmwareHolds'
  BY <1>2, <1>3, OneNode
<1>5. ended' \in [Nodes -> Seq(Nat)]
  BY <1>4, EndedType
<1> QED
  BY <1>4, <1>5 DEF TypeOK, FirmwareOK

LEMMA WriteReachesStep ==
  ASSUME TypeOK, FirmwareHolds, NEW g \in Greenlets, WriteReaches(g)
  PROVE  StepKeeps /\ HolderKeeps /\ HistoriesKept
<1>1. CanWrite(g) /\ Pop(g) /\ Reach(Head1(g).node)
  BY DEF WriteReaches
<1>2. UNCHANGED <<now, poll, trace, stray, late, missed, requests, faults>>
  BY DEF WriteReaches
<1>3. /\ TodoOK' /\ Head1(g) \in RegisterWrite /\ Head1(g).node \in Nodes
      /\ Head1(g).reg # "restored" /\ Head1(g).value \in WrittenTo(Head1(g).reg)
  BY <1>1, Written
<1>4. LinkOK' /\ HolderKeeps
  BY <1>1, <1>2, <1>3, ReachLink DEF HolderKeeps
<1>5. FirmwareOK' /\ FirmwareHolds'
  BY <1>1, <1>2, <1>4, WriteReached DEF WriteReaches, LinkOK
<1>6. SeatOK' /\ HistoryKept
  BY <1>3, SavedType, TypeParts DEF WriteReaches
<1>7. PollOK' /\ CountsOK'
  BY <1>2 DEF TypeOK, PollOK, CountsOK
<1> QED
  BY <1>2, <1>3, <1>4, <1>5, <1>6, <1>7 DEF StepKeeps, HistoriesKept

LEMMA RegisterType ==
  ASSUME TypeOK, NEW c \in Nodes, NEW reg \in {"freq", "enter", "exit"}
  PROVE  Register(fw[c], reg) \in WrittenTo(reg)
<1>1. fw[c] \in NodeAt(now)
  BY DEF TypeOK
<1>2. fw[c].freq \in Frequencies /\ fw[c].enter \in 0..MaxRssi /\ fw[c].exit \in 0..MaxRssi
  BY <1>1 DEF NodeAt
<1>3. CASE reg = "freq"
  BY <1>2, <1>3 DEF Register, WrittenTo
<1>4. CASE reg = "enter"
  BY <1>2, <1>4 DEF Register, WrittenTo
<1>5. CASE reg = "exit"
  BY <1>2, <1>5 DEF Register, WrittenTo
<1> QED
  BY <1>3, <1>4, <1>5

LEMMA WriteFailsStep ==
  ASSUME TypeOK, FirmwareHolds, NEW g \in Greenlets, WriteFails(g)
  PROVE  StepKeeps /\ HolderKeeps /\ HistoriesKept
<1>1. CanWrite(g) /\ Pop(g) /\ Reach(Head1(g).node) /\ Fault
  BY DEF WriteFails
<1>2. UNCHANGED <<now, poll, trace, stray, late, requests>>
  BY DEF WriteFails
<1>3. /\ TodoOK' /\ Head1(g) \in RegisterWrite /\ Head1(g).node \in Nodes
      /\ Head1(g).reg \in {"freq", "enter", "exit", "force"}
      /\ Head1(g).value \in WrittenTo(Head1(g).reg)
  BY <1>1, Written
<1>4. LinkOK' /\ HolderKeeps /\ cur' \in Nodes
  BY <1>1, <1>2, <1>3, ReachLink DEF HolderKeeps, LinkOK
<1>5. FirmwareOK' /\ FirmwareHolds' /\ SeatOK' /\ HistoryKept
  <2>1. CASE /\ SetNodes([fw EXCEPT ![cur'] = Write(@, Head1(g).reg, Head1(g).value)])
             /\ seat' = Saved(Head1(g), Head1(g).value)
    <3>1. FirmwareOK' /\ FirmwareHolds'
      BY <1>1, <1>2, <1>4, <2>1, WriteReached
    <3>2. SeatOK' /\ HistoryKept
      BY <1>3, <2>1, SavedType, TypeParts
    <3> QED
      BY <3>1, <3>2
  <2>2. CASE /\ UNCHANGED <<fw, ended>>
             /\ \E out \in IF Head1(g).reg = "force" THEN {Head1(g).value}
                           ELSE {Head1(g).value, Register(fw[cur'], Head1(g).reg)} :
                  seat' = Saved(Head1(g), out)
    <3>1. FirmwareOK' /\ FirmwareHolds'
      BY <1>2, <2>2, FirmwareSame
    <3>2. PICK out : /\ \/ out = Head1(g).value
                        \/ Head1(g).reg # "force" /\ out = Register(fw[cur'], Head1(g).reg)
                     /\ seat' = Saved(Head1(g), out)
      BY <2>2
    <3>3. out \in WrittenTo(Head1(g).reg)
      BY <1>3, <1>4, <3>2, RegisterType
    <3>4. SeatOK' /\ HistoryKept
      BY <1>3, <3>2, <3>3, SavedType, TypeParts
    <3> QED
      BY <3>1, <3>4
  <2> QED
    BY <2>1, <2>2 DEF WriteFails
<1>6. faults' \in 0..MaxFaults
  BY <1>1, Faulted
<1>7. missed' \subseteq Nodes
  <2>1. missed' = missed \/ missed' = missed \cup {Head1(g).node}
    BY DEF WriteFails
  <2> QED
    BY <1>3, <2>1 DEF TypeOK
<1>8. PollOK' /\ CountsOK'
  BY <1>2, <1>6, <1>7 DEF TypeOK, PollOK, CountsOK
<1> QED
  BY <1>2, <1>3, <1>4, <1>5, <1>8 DEF StepKeeps, HistoriesKept

LEMMA WriteGivenUpStep ==
  ASSUME TypeOK, FirmwareHolds, NEW g \in Greenlets, WriteGivenUp(g)
  PROVE  StepKeeps /\ HolderKeeps /\ HistoriesKept
<1>1. CanWrite(g) /\ Pop(g) /\ SwitchGivenUp(Head1(g).node)
  BY DEF WriteGivenUp
<1>2. UNCHANGED <<now, fw, poll, ended, trace, late, requests>>
  BY DEF WriteGivenUp, SwitchGivenUp, history
<1>3. /\ TodoOK' /\ Head1(g) \in RegisterWrite /\ Head1(g).node \in Nodes
      /\ Head1(g).reg # "restored" /\ Head1(g).value \in WrittenTo(Head1(g).reg)
  BY <1>1, Written
<1>4. LinkOK' /\ HolderKeeps
  BY <1>1, <1>3, GivenUpLink DEF HolderKeeps
<1>5. FirmwareOK' /\ FirmwareHolds'
  BY <1>2, FirmwareSame
<1>6. SeatOK' /\ HistoryKept
  BY <1>3, SavedType, TypeParts DEF WriteGivenUp
<1>7. faults' \in 0..MaxFaults /\ stray' \in BOOLEAN /\ (stray => stray')
  BY <1>1, Faulted DEF SwitchGivenUp, TypeOK
<1>8. missed' \subseteq Nodes
  BY <1>3 DEF WriteGivenUp, TypeOK
<1>9. PollOK' /\ CountsOK'
  BY <1>2, <1>7, <1>8 DEF TypeOK, PollOK, CountsOK
<1> QED
  BY <1>2, <1>3, <1>4, <1>5, <1>6, <1>7, <1>9 DEF StepKeeps, HistoriesKept

\* A request of another greenlet: it changes nothing but what is to be written.
LEMMA Requested ==
  ASSUME TypeOK, FirmwareHolds, NEW ws \in Seq(RegisterWrite), Request(ws)
  PROVE  /\ LinkOK' /\ FirmwareOK' /\ PollOK' /\ TodoOK' /\ CountsOK' /\ FirmwareHolds'
         /\ HolderKeeps /\ trace' = trace /\ (stray => stray') /\ (late => late')
<1>1. /\ UNCHANGED <<now, fw, cur, holder, poll, ended, trace, stray, late, missed, faults>>
      /\ todo' = [todo EXCEPT !["request"] = ws]
      /\ requests < MaxRequests /\ requests' = requests + 1
  BY DEF Request, processor, history
<1>2. LinkOK' /\ HolderKeeps /\ FirmwareOK' /\ FirmwareHolds'
  BY <1>1, LinkSame, FirmwareSame
<1>3. TodoOK' /\ PollOK'
  BY <1>1 DEF TypeOK, TodoOK, PollOK
<1>4. CountsOK'
  BY <1>1, InterfaceAssumption DEF TypeOK, CountsOK
<1> QED
  BY <1>1, <1>2, <1>3, <1>4

LEMMA RequestsStep ==
  ASSUME TypeOK, FirmwareHolds, Requests
  PROVE  /\ StepKeeps /\ HolderKeeps /\ trace' = trace /\ (stray => stray') /\ (late => late')
         /\ \A i \in Nodes : seat'[i].history \in {seat[i].history, <<>>}
<1>0. PICK i \in RequestsTo : \/ \E x \in Settings : Set(i, x[1], x[2])
                              \/ ForceEndCrossing(i) \/ Lower(i)
  BY DEF Requests
<1>1. i \in Nodes
  BY InterfaceAssumption
<1>2. ASSUME NEW x \in Settings, Set(i, x[1], x[2])
      PROVE  \E ws \in Seq(RegisterWrite) : Request(ws) /\ UNCHANGED seat
  <2>1. \/ x[1] = "freq" /\ x[2] \in Frequencies
        \/ x[1] \in {"enter", "exit"} /\ x[2] \in Rssi
    BY InterfaceAssumption DEF Rssi
  <2>2. W(x[1], i, x[2], TRUE) \in RegisterWrite
    BY <1>1, <2>1, WriteTypes
  <2>3. <<W(x[1], i, x[2], TRUE)>> \in Seq(RegisterWrite)
    BY <2>2, Listed
  <2> QED
    BY <1>2, <2>3 DEF Set
<1>3. ASSUME ForceEndCrossing(i)
      PROVE  \E ws \in Seq(RegisterWrite) : Request(ws) /\ UNCHANGED seat
  <2>1. W("force", i, 0, FALSE) \in RegisterWrite
    BY <1>1, WriteTypes
  <2>2. <<W("force", i, 0, FALSE)>> \in Seq(RegisterWrite)
    BY <2>1, Listed
  <2> QED
    BY <1>3, <2>2 DEF ForceEndCrossing
<1>4. CASE \E ws \in Seq(RegisterWrite) : Request(ws) /\ UNCHANGED seat
  <2>1. SeatOK' /\ HistoryKept
    BY <1>4, SeatSame, TypeParts
  <2> QED
    BY <1>4, <2>1, Requested DEF StepKeeps, HistoryKept
<1>5. CASE Lower(i)
  <2> DEFINE ws == [k \in 1..Len(Lowered) |-> W(Lowered[k].reg, i, Lowered[k].value, FALSE)]
             l == now + LowerDuration
             x == [seat[i] EXCEPT !.lowered = TRUE, !.lowerTime = l, !.history = <<>>]
  <2>1. ws \in Seq(RegisterWrite)
    <3> DEFINE R == [reg : {"enter", "exit"}, value : 0..MaxRssi]
               F(k) == W(Lowered[k].reg, i, Lowered[k].value, FALSE)
    <3>0. Lowered \in Seq(R)
      BY InterfaceAssumption
    <3>1. Len(Lowered) \in Nat
      BY <3>0
    <3>2. ASSUME NEW k \in 1..Len(Lowered) PROVE F(k) \in RegisterWrite
      <4>1. Lowered[k] \in R
        BY <3>0, ElementOfSeq
      <4>2. Lowered[k].reg \in {"enter", "exit"} /\ Lowered[k].value \in Rssi
        BY <4>1 DEF Rssi
      <4>3. /\ W("enter", i, Lowered[k].value, FALSE) \in RegisterWrite
            /\ W("exit", i, Lowered[k].value, FALSE) \in RegisterWrite
        BY <1>1, <4>2, WriteTypes
      <4> QED
        BY <4>2, <4>3
    <3> HIDE DEF R, F
    <3>3. ws = [k \in 1..Len(Lowered) |-> F(k)]
      BY DEF F
    <3>4. ws \in [1..Len(Lowered) -> RegisterWrite]
      BY <3>2, <3>3
    <3> HIDE DEF ws
    <3> QED
      BY <3>1, <3>4
  <2>2. Request(ws)
    BY <1>5 DEF Lower
  <2> HIDE DEF ws
  <2>3. seat[i] \in Seat /\ l \in Nat /\ <<>> \in Seq(Rssi \X Int)
    BY <1>1, SeatFields, TypeParts, InterfaceAssumption DEF CountsOK
  <2>4. seat' = [seat EXCEPT ![i].lowered = TRUE, ![i].lowerTime = l, ![i].history = <<>>]
    BY <1>5 DEF Lower
  <2> HIDE DEF l
  <2>5. x \in Seat /\ x.history = <<>>
    BY <2>3 DEF Seat
  <2>6. seat' = [seat EXCEPT ![i] = x]
    BY <1>1, <2>3, <2>4 DEF TypeOK, Seat
  <2> HIDE DEF x
  <2>7. SeatOK' /\ \A j \in Nodes : seat'[j] = IF j = i THEN x ELSE seat[j]
    BY <1>1, <2>5, <2>6, OneSeat, TypeParts
  <2>8. \A j \in Nodes : seat'[j].history \in {seat[j].history, <<>>}
    BY <2>5, <2>7
  <2> QED
    BY <2>1, <2>2, <2>7, <2>8, Requested DEF StepKeeps
<1> QED
  BY <1>0, <1>2, <1>3, <1>4, <1>5

LEMMA SampleKeeps ==
  ASSUME TypeOK, FirmwareHolds, Sample
  PROVE  StepKeeps /\ HolderKeeps /\ (HistoryTrue => HistoryTrue')
<1>1. /\ FirmwareOK' /\ FirmwareHolds'
      /\ \A i \in Nodes : /\ Len(trace'[i]) = Len(trace[i]) + 1
                          /\ \A k \in 1..Len(trace[i]) : trace'[i][k] = trace[i][k]
  BY SampleStep
<1>2. /\ UNCHANGED <<cur, holder, seat, poll, todo, stray, late, missed, requests, faults>>
      /\ now < MaxTime /\ now' = now + 1
  BY DEF Sample
<1>3. LinkOK' /\ HolderKeeps /\ SeatOK'
  BY <1>2, LinkSame, SeatSame, TypeParts
<1>4. PollOK' /\ TodoOK'
  BY <1>2 DEF TypeOK, PollOK, TodoOK
<1>5. CountsOK'
  BY <1>2, InterfaceAssumption DEF TypeOK, CountsOK
<1>6. ASSUME HistoryTrue PROVE HistoryTrue'
  <2> SUFFICES ASSUME ~stray, ~late, NEW i \in Nodes, NEW k \in 1..Len(seat[i].history)
               PROVE  LET e == seat[i].history[k]
                      IN  e[2] \in 1..Len(trace'[i]) /\ trace'[i][e[2]] = e[1]
    BY <1>2 DEF HistoryTrue
  <2> DEFINE e == seat[i].history[k]
  <2>1. e[2] \in 1..Len(trace[i]) /\ trace[i][e[2]] = e[1]
    BY <1>6 DEF HistoryTrue
  <2>2. Len(trace[i]) \in Nat
    BY DEF TypeOK
  <2> HIDE DEF e
  <2>3. e[2] \in 1..Len(trace'[i]) /\ trace'[i][e[2]] = e[1]
    BY <1>1, <2>1, <2>2
  <2> QED
    BY <2>3 DEF e
<1> QED
  BY <1>1, <1>3, <1>4, <1>5, <1>6 DEF StepKeeps

-----------------------------------------------------------------------------
(* The inductive invariant.                                                *)

IInv == TypeOK /\ FirmwareHolds /\ HolderTrue /\ HistoryTrue

LEMMA PowerUpHolds ==
  LET n == [Write(PowerUp, "freq", DefaultFreq) EXCEPT !.lastPass.lap = FirstLap]
  IN  HistoryHolds(n, <<>>, 0)
<1> DEFINE z == Extremum(0, 0)
           o == Extremum(MaxRssi, 0)
           pass == [rssi |-> 0, time |-> 0, nadir |-> MaxRssi, lap |-> 0]
           p == PowerUp
           a == [p EXCEPT !.active = TRUE]
           w == [p EXCEPT !.freq = DefaultFreq, !.active = TRUE]
           last == [w.lastPass EXCEPT !.lap = FirstLap]
           n == [w EXCEPT !.lastPass = last]
<1>1. /\ MaxRssi \in Nat \ {0} /\ 0 \in Nat /\ 0 \in 0..MaxRssi /\ MaxRssi \in 0..MaxRssi
      /\ 0 \in 0..LapIds-1 /\ 0 \in Int
  BY NodeAssumption
<1>2. z \in ExtremumAt(0) /\ o \in ExtremumAt(0)
  BY <1>1, ExtremumTypes
<1>3. /\ z.rssi = 0 /\ z.first = 0 /\ o.rssi = MaxRssi /\ o.first = 0
  BY DEF Extremum
<1>4. pass \in Pass
  BY <1>1 DEF Pass
<1>5. p = [active |-> FALSE, freq |-> DefaultFreq, enter |-> DefaultEnter,
           exit |-> DefaultExit, crossing |-> FALSE, rssi |-> 0, change |-> 0,
           passPeak |-> z, passNadir |-> MaxRssi,
           peak |-> z, pendingPeak |-> FALSE, peakBuffer |-> z,
           nadir |-> o, pendingNadir |-> FALSE, nadirBuffer |-> o, lastPass |-> pass]
  BY DEF PowerUp
<1> HIDE DEF z, o, pass, p
<1>6. p \in NodeAt(0)
  BY <1>1, <1>2, <1>4, <1>5, NodeAssumption DEF NodeAt
<1>7. /\ p.rssi = 0 /\ p.freq = DefaultFreq
      /\ p.peak = z /\ p.peakBuffer = z /\ p.nadir = o /\ p.nadirBuffer = o
  BY <1>5
<1>8. a \in NodeAt(0) /\ a.active
  BY <1>6 DEF NodeAt
<1>9. /\ a.rssi = 0 /\ a.peak = z /\ a.peakBuffer = z /\ a.nadir = o /\ a.nadirBuffer = o
  BY <1>6, <1>7 DEF NodeAt
<1>10. w \in NodeAt(0) /\ SameHistory(w, a)
  BY <1>6, NodeAssumption DEF NodeAt, SameHistory
<1>11. Write(p, "freq", DefaultFreq) = w
  BY <1>7, Zenon DEF Write
<1> HIDE DEF a, w
<1>12. last \in Pass
  BY <1>10, InterfaceAssumption DEF Pass, NodeAt
<1> HIDE DEF last
<1>13. n \in NodeAt(0) /\ SameHistory(n, w)
  BY <1>10, <1>12 DEF NodeAt, SameHistory
<1> HIDE DEF n
<1>14. Kept(a, <<>>, 0)
  BY <1>1, <1>3, <1>9 DEF Kept, Measured
<1>15. Edge(a.peak, a.nadir, a.rssi, 0)
  BY <1>1, <1>3, <1>9 DEF Edge
<1>16. <<>> \in Trace(0)
  BY DEF Trace
<1>17. HistoryHolds(a, <<>>, 0)
  BY <1>8, <1>14, <1>15, <1>16 DEF HistoryHolds
<1>18. HistoryHolds(n, <<>>, 0)
  BY <1>1, <1>10, <1>13, <1>17, SameHistoryHolds
<1> QED
  BY <1>11, <1>18 DEF n, last, p

LEMMA InitHolds ==
  ASSUME Init
  PROVE  IInv
<1>1. /\ now = 0 /\ cur = 0 /\ holder = None /\ poll = Idle
      /\ seat = [i \in Nodes |-> NewSeat] /\ todo = [g \in Greenlets |-> <<>>]
      /\ ended = [i \in Nodes |-> <<>>] /\ trace = [i \in Nodes |-> <<>>]
      /\ stray = FALSE /\ late = FALSE /\ missed = {} /\ requests = 0 /\ faults = 0
  BY DEF Init
<1>2. ASSUME NEW i \in Nodes PROVE HistoryHolds(fw[i], trace[i], now)
  <2>1. fw[i] = [Write(PowerUp, "freq", DefaultFreq) EXCEPT !.lastPass.lap = FirstLap]
    BY DEF Init
  <2>2. trace[i] = <<>> /\ now = 0
    BY <1>1
  <2> QED
    BY <2>1, <2>2, PowerUpHolds
<1>3. FirmwareOK /\ FirmwareHolds
  <2>1. fw \in [Nodes -> NodeAt(now)]
    BY <1>2 DEF Init, HistoryHolds
  <2> QED
    BY <1>1, <1>2, <2>1 DEF FirmwareOK, FirmwareHolds
<1>4. LinkOK /\ HolderTrue
  BY <1>1, NodesTypes DEF LinkOK, HolderTrue
<1>5. SeatOK /\ HistoryTrue
  <2>1. NewSeat \in Seat /\ NewSeat.history = <<>>
    <3>1. /\ DefaultFreq \in Frequencies /\ DefaultEnter \in Rssi /\ DefaultExit \in Rssi
          /\ None \in -1..LapIds-1 /\ 0 \in Nat /\ <<>> \in Seq(Rssi \X Int)
      BY NodeAssumption DEF Rssi, None
    <3> QED
      BY <3>1 DEF NewSeat, Seat
  <2> QED
    BY <1>1, <2>1 DEF SeatOK, HistoryTrue
<1>6. PollOK
  BY <1>1, IdleType DEF PollOK
<1>7. TodoOK /\ CountsOK
  <2>1. MaxTime \in Nat /\ MaxRequests \in Nat /\ MaxFaults \in Nat
    BY InterfaceAssumption
  <2>2. TodoOK
    BY <1>1 DEF TodoOK
  <2>3. 0 \in 0..MaxTime /\ 0 \in 0..MaxRequests /\ 0 \in 0..MaxFaults
    BY <2>1
  <2>4. CountsOK
    BY <1>1, <2>3, Zenon DEF CountsOK
  <2> QED
    BY <2>2, <2>4
<1> QED
  BY <1>3, <1>4, <1>5, <1>6, <1>7, TypeParts DEF IInv

LEMMA NextHolds ==
  ASSUME IInv, [Next]_vars
  PROVE  IInv'
<1>1. TypeOK /\ FirmwareHolds /\ HolderTrue /\ HistoryTrue
  BY DEF IInv
<1>2. ASSUME StepKeeps, HolderKeeps, HistoryTrue'
      PROVE  IInv'
  BY <1>1, <1>2, TypeParts DEF StepKeeps, HolderKeeps, IInv
<1>3. ASSUME trace' = trace, stray => stray', late => late',
             \A i \in Nodes : seat'[i].history \in {seat[i].history, <<>>}
      PROVE  HistoryTrue'
  <2> SUFFICES ASSUME ~stray', ~late', NEW i \in Nodes, NEW k \in 1..Len(seat'[i].history)
               PROVE  LET e == seat'[i].history[k]
                      IN  e[2] \in 1..Len(trace[i]) /\ trace[i][e[2]] = e[1]
    BY <1>3 DEF HistoryTrue
  <2>1. ~stray /\ ~late
    BY <1>3
  <2>2. CASE seat'[i].history = seat[i].history
    BY <1>1, <2>1, <2>2 DEF HistoryTrue
  <2>3. CASE seat'[i].history = <<>>
    BY <2>3
  <2> QED
    BY <1>3, <2>2, <2>3
<1>4. ASSUME StepKeeps, HolderKeeps, HistoriesKept
      PROVE  IInv'
  <2>1. HistoryTrue'
    BY <1>3, <1>4 DEF HistoriesKept, HistoryKept
  <2> QED
    BY <1>2, <1>4, <2>1
<1>5. CASE Sample
  BY <1>1, <1>2, <1>5, SampleKeeps
<1>6. CASE ReadExtremums
  BY <1>1, <1>2, <1>6, ReadExtremumsStep
<1>7. CASE PollStarts \/ PollGivesUp \/ ReadStats \/ ReadFails \/ Finish
  BY <1>1, <1>4, <1>7, PollStartsStep, PollGivesUpStep, ReadStatsStep, ReadFailsStep,
     FinishStep
<1>8. CASE Restored
  BY <1>1, <1>4, <1>8, RestoredStep
<1>9. ASSUME NEW g \in Greenlets, WriteStep(g)
      PROVE  IInv'
  BY <1>1, <1>4, <1>9, WriteReachesStep, WriteFailsStep, WriteGivenUpStep DEF WriteStep
<1>10. CASE Requests
  <2>1. HistoryTrue'
    BY <1>1, <1>3, <1>10, RequestsStep
  <2> QED
    BY <1>1, <1>2, <1>10, <2>1, RequestsStep
<1>11. CASE UNCHANGED vars
  <2>1. UNCHANGED <<now, fw, cur, holder, seat, poll, todo, ended, trace, stray, late,
                    missed, requests, faults>>
    BY <1>11 DEF vars, processor, history
  <2> QED
    BY <1>1, <2>1 DEF IInv, TypeOK, FirmwareHolds, HolderTrue, HistoryTrue
<1> QED
  BY <1>5, <1>6, <1>7, <1>8, <1>9, <1>10, <1>11 DEF Next, Poll

\* The inductive invariant holds of every behaviour.
THEOREM Inductive == Spec => []IInv
<1>1. Init => IInv
  BY InitHolds
<1>2. IInv /\ [Next]_vars => IInv'
  BY NextHolds
<1> QED
  BY <1>1, <1>2, PTL DEF Spec

\* Every variable of the nodes and of the server keeps its type: no extremum is younger
\* than now, and what waits to be written is a register and a value of it.
THEOREM TypeCorrect == Spec => []TypeOK
<1>1. IInv => TypeOK
  BY DEF IInv
<1> QED
  BY <1>1, Inductive, PTL

\* The server knows which node its processor takes commands for, for any number of nodes,
\* whatever requests and replies get lost, unless it gave up on a change.
THEOREM HolderSafe == Spec => []HolderTrue
<1>1. IInv => HolderTrue
  BY DEF IInv
<1> QED
  BY <1>1, Inductive, PTL

\* Every entry of the RSSI history that the server keeps is a value that the node measured
\* at that time, for every course of the RSSI, all levels and any order of reads, writes
\* and faults, as long as each extremum is read before two bytes no longer hold its age.
THEOREM HistorySafe == Spec => []HistoryTrue
<1>1. IInv => HistoryTrue
  BY DEF IInv
<1> QED
  BY <1>1, Inductive, PTL

-----------------------------------------------------------------------------
(* Passes.                                                                 *)

\* The lap id of a node that has ended k passes.
LapAt(k) == (FirstLap + k) % LapIds

\* The times at which a node ended its passes: r goes on where s ends.
Grown(s, r) == Len(s) <= Len(r) /\ \A k \in 1..Len(s) : r[k] = s[k]
EndedGrows == \A i \in Nodes : Grown(ended[i], ended'[i])

\* The last pass that a node holds is the last one it ended.
Held(n, s, t) ==
  /\ PeakPast(n, t) /\ n.lastPass.lap = LapAt(Len(s))
  /\ s # <<>> => s[Len(s)] = n.lastPass.time
PassesHeld == \A i \in Nodes : Held(fw[i], ended[i], now)

\* What was read of a node that ended its passes at the times s.
StatsTrue(b, s) ==
  /\ b.passes <= Len(s) /\ b.block.lap = LapAt(b.passes)
  /\ b.passes >= 1 /\ b.at - s[b.passes] <= MaxDuration => b.block.since = b.at - s[b.passes]
ReadTrue(u, s) ==
  /\ u.passes <= Len(s) /\ u.lap = LapAt(u.passes)
  /\ u.passes >= 1 /\ u.at = u.read /\ u.at - s[u.passes] <= MaxDuration
       => u.time = s[u.passes]

\* What the server knows of the passes: of each node, in the course of an update, and of
\* those that were reported.
SeatsKnow(se, en) ==
  \A i \in Nodes : /\ se[i].seen <= Len(en[i])
                   /\ se[i].lap # None => se[i].lap = LapAt(se[i].seen)
NewsTrue(us, se, en) ==
  /\ \A k \in 1..Len(us) : /\ ReadTrue(us[k], en[us[k].node])
                           /\ se[us[k].node].seen <= us[k].passes
                           /\ us[k].lap # se[us[k].node].lap
  /\ \A k, l \in 1..Len(us) : k < l => us[k].node < us[l].node
PollTrue(p, se, en) ==
  /\ NewsTrue(p.updates, se, en)
  /\ p.at \in {"stats", "extremums"} => \A k \in 1..Len(p.updates) : p.updates[k].node < p.node
  /\ p.at = "extremums" => /\ StatsTrue(p.stats, en[p.node])
                           /\ se[p.node].seen <= p.stats.passes
ReportsTrue(r, se, en) ==
  \A k \in 1..Len(r) :
    /\ ReadTrue(r[k], en[r[k].node]) /\ r[k].passes \in 1..se[r[k].node].seen
    /\ \A l \in 1..k-1 : r[l].node = r[k].node => r[l].passes < r[k].passes

KnownTrue ==
  SeatsKnow(seat, ended) /\ PollTrue(poll, seat, ended) /\ ReportsTrue(reported, seat, ended)
PassInv == reported \in Seq(Update) /\ PassesHeld /\ (~stray => KnownTrue)

-----------------------------------------------------------------------------
(* The passes of the firmware.                                             *)

LEMMA LapAtNext ==
  ASSUME NEW k \in Nat
  PROVE  LapAt(k) \in 0..LapIds-1 /\ LapAt(k + 1) = NextLap(LapAt(k)) /\ LapAt(k + 1) # LapAt(k)
<1> PICK a \in Nat : a = FirstLap + k
  BY InterfaceAssumption, NodeAssumption
<1>1. /\ a % LapIds \in 0..LapIds-1 /\ NextLap(a % LapIds) = (a + 1) % LapIds
      /\ NextLap(a % LapIds) # a % LapIds
  BY LapIdStep
<1>2. FirstLap + (k + 1) = a + 1
  BY InterfaceAssumption, NodeAssumption
<1> QED
  BY <1>1, <1>2 DEF LapAt

LEMMA HeldStep ==
  ASSUME NEW t \in Nat, NEW n \in NodeAt(t), NEW u \in Nat, NEW m \in NodeAt(u),
         NEW s \in Seq(Nat), Held(n, s, t), PeakPast(m, u), PassKept(m, n)
  PROVE  LET r == IF m.lastPass.lap = n.lastPass.lap THEN s ELSE Append(s, m.lastPass.time)
         IN  Held(m, r, u) /\ Grown(s, r)
<1>1. Len(s) \in Nat /\ m.lastPass \in Pass /\ n.lastPass.lap = LapAt(Len(s))
  BY DEF NodeAt, Held
<1>2. CASE m.lastPass.lap = n.lastPass.lap
  <2>1. m.lastPass = n.lastPass
    BY <1>1, <1>2, LapAtNext DEF PassKept
  <2> QED
    BY <1>1, <1>2, <2>1 DEF Held, Grown
<1>3. CASE m.lastPass.lap # n.lastPass.lap
  <2> PICK x, r : x = m.lastPass.time /\ r = Append(s, x)
    OBVIOUS
  <2>1. x \in Nat
    BY <1>1 DEF Pass
  <2>2. /\ Len(r) = Len(s) + 1 /\ r # <<>> /\ r[Len(r)] = x
        /\ \A k \in 1..Len(s) : r[k] = s[k]
    BY <2>1
  <2>3. m.lastPass.lap = LapAt(Len(s) + 1)
    BY <1>1, <1>3, LapAtNext DEF PassKept
  <2>4. Held(m, r, u)
    BY <2>2, <2>3 DEF Held
  <2>5. Grown(s, r)
    BY <1>1, <2>2 DEF Grown
  <2> QED
    BY <1>3, <2>4, <2>5
<1> QED
  BY <1>2, <1>3

LEMMA NodesSet ==
  ASSUME TypeOK, TypeOK', PassesHeld, NEW new, SetNodes(new),
         \A i \in Nodes : PeakPast(fw'[i], now') /\ PassKept(fw'[i], fw[i])
  PROVE  PassesHeld' /\ EndedGrows
<1>1. now \in Nat /\ now' \in Nat
  BY DEF TypeOK
<1> SUFFICES ASSUME NEW i \in Nodes
             PROVE  Held(fw'[i], ended'[i], now') /\ Grown(ended[i], ended'[i])
  BY DEF PassesHeld, EndedGrows
<1>2. fw[i] \in NodeAt(now) /\ fw'[i] \in NodeAt(now') /\ ended[i] \in Seq(Nat)
  BY DEF TypeOK
<1>3. ended'[i] = IF fw'[i].lastPass.lap = fw[i].lastPass.lap THEN ended[i]
                  ELSE Append(ended[i], fw'[i].lastPass.time)
  BY DEF SetNodes
<1>4. Held(fw[i], ended[i], now) /\ PeakPast(fw'[i], now') /\ PassKept(fw'[i], fw[i])
  BY DEF PassesHeld
<1> QED
  BY <1>1, <1>2, <1>3, <1>4, HeldStep

LEMMA NodesSame ==
  ASSUME TypeOK, PassesHeld, UNCHANGED <<now, ended>>, \A i \in Nodes : SamePass(fw'[i], fw[i])
  PROVE  PassesHeld' /\ EndedGrows
<1>1. EndedGrows
  <2>1. \A i \in Nodes : Len(ended[i]) \in Nat
    BY DEF TypeOK
  <2> QED
    BY <2>1 DEF EndedGrows, Grown
<1>2. PassesHeld'
  BY DEF PassesHeld, Held, SamePass, PeakPast
<1> QED
  BY <1>1, <1>2

\* A command to the node c.
LEMMA OnePass ==
  ASSUME TypeOK, PassesHeld, NEW c \in Nodes, NEW m, SamePass(m, fw[c]),
         fw' = [fw EXCEPT ![c] = m], UNCHANGED <<now, ended>>
  PROVE  PassesHeld' /\ EndedGrows
<1>1. ASSUME NEW i \in Nodes PROVE SamePass(fw'[i], fw[i])
  <2>1. fw'[i] = IF i = c THEN m ELSE fw[i]
    BY DEF TypeOK
  <2> QED
    BY <2>1 DEF SamePass
<1> QED
  BY <1>1, NodesSame

LEMMA WritePasses ==
  ASSUME TypeOK, TypeOK', PassesHeld, NEW g \in Greenlets, CanWrite(g), Pop(g), cur' \in Nodes,
         SetNodes([fw EXCEPT ![cur'] = Write(@, Head1(g).reg, Head1(g).value)]), now' = now
  PROVE  PassesHeld' /\ EndedGrows
<1> PICK reg, v : reg = Head1(g).reg /\ v = Head1(g).value
  OBVIOUS
<1>1. reg \in {"freq", "enter", "exit", "force"} /\ now \in Nat
  <2>1. Head1(g).reg \in {"freq", "enter", "exit", "force"}
    BY Written
  <2>2. now \in Nat
    BY InterfaceAssumption DEF TypeOK
  <2> QED
    BY <2>1, <2>2
<1>2. fw' = [fw EXCEPT ![cur'] = Write(fw[cur'], reg, v)] /\ fw \in [Nodes -> NodeAt(now)]
  BY DEF SetNodes, TypeOK
<1>3. ASSUME NEW i \in Nodes PROVE PeakPast(fw'[i], now') /\ PassKept(fw'[i], fw[i])
  <2>1. fw[i] \in NodeAt(now) /\ PeakPast(fw[i], now)
    BY <1>2 DEF PassesHeld, Held
  <2>2. fw'[i] = IF i = cur' THEN Write(fw[i], reg, v) ELSE fw[i]
    BY <1>2
  <2>3. PeakPast(Write(fw[i], reg, v), now) /\ PassKept(Write(fw[i], reg, v), fw[i])
    BY <1>1, <2>1, WritePass
  <2> QED
    BY <2>1, <2>2, <2>3 DEF PassKept
<1> QED
  BY <1>3, NodesSet

LEMMA SamplePasses ==
  ASSUME TypeOK, TypeOK', PassesHeld, Sample
  PROVE  PassesHeld' /\ EndedGrows
<1>1. now \in Nat /\ now < MaxTime /\ MaxTime \in Nat /\ now' = now + 1
  BY InterfaceAssumption DEF Sample, TypeOK
<1>2. PICK c \in Courses : SetNodes([i \in Nodes |-> Process(fw[i], c[i][now'], now')])
  BY DEF Sample
<1>3. ASSUME NEW i \in Nodes PROVE c[i][now + 1] \in 0..MaxRssi
  <2>1. c \in [Nodes -> [1..MaxTime -> 0..MaxRssi]] /\ now + 1 \in 1..MaxTime
    BY <1>1, InterfaceAssumption
  <2> QED
    BY <2>1
<1>4. fw' = [i \in Nodes |-> Process(fw[i], c[i][now + 1], now + 1)]
  BY <1>1, <1>2 DEF SetNodes
<1>5. ASSUME NEW i \in Nodes PROVE PeakPast(fw'[i], now') /\ PassKept(fw'[i], fw[i])
  <2>1. fw[i] \in NodeAt(now) /\ PeakPast(fw[i], now)
    BY DEF TypeOK, PassesHeld, Held
  <2>2. LET m == Process(fw[i], c[i][now + 1], now + 1)
        IN  PeakPast(m, now + 1) /\ PassKept(m, fw[i])
    BY <1>1, <1>3, <2>1, ProcessPass
  <2> QED
    BY <1>1, <1>4, <2>2
<1> QED
  BY <1>2, <1>5, NodesSet

LEMMA FirmwarePasses ==
  ASSUME TypeOK, TypeOK', PassesHeld, [Next]_vars
  PROVE  PassesHeld' /\ EndedGrows
<1>0. cur' \in Nodes /\ now \in Nat
  BY DEF TypeOK
<1>1. ASSUME UNCHANGED <<now, fw, ended>> PROVE PassesHeld' /\ EndedGrows
  BY <1>0, <1>1, NodesSame DEF SamePass
<1>2. CASE Sample
  BY <1>0, <1>2, SamplePasses
<1>3. CASE PollStarts \/ PollGivesUp \/ Finish \/ Restored \/ Requests
  <2>1. CASE PollStarts \/ PollGivesUp
    BY <1>1, <2>1 DEF PollStarts, PollGivesUp, SwitchGivenUp, processor, history
  <2>2. CASE Finish \/ Restored
    BY ZenonT(40), <1>1, <2>2 DEF Finish, Restored, processor, history
  <2>3. CASE Requests
    BY <1>1, <2>3 DEF Requests, Set, ForceEndCrossing, Lower, Request, processor, history
  <2> QED
    BY <1>3, <2>1, <2>2, <2>3
<1>4. CASE ReadStats \/ ReadExtremums \/ ReadFails
  <2> PICK n : n = fw[cur']
    OBVIOUS
  <2>1. n \in NodeAt(now) /\ SamePass(n, n)
    BY <1>0 DEF TypeOK, SamePass
  <2>2. SamePass(ExtremumsRead(n), n) /\ SamePass([n EXCEPT !.active = TRUE], n)
    BY <1>0, <2>1, ReadPass
  <2>3. \/ fw' = fw
        \/ fw' = [fw EXCEPT ![cur'] = [n EXCEPT !.active = TRUE]]
        \/ fw' = [fw EXCEPT ![cur'] = ExtremumsRead(n)]
    BY <1>4 DEF ReadStats, ReadExtremums, ReadFails
  <2>4. UNCHANGED <<now, ended>>
    BY <1>4 DEF ReadStats, ReadExtremums, ReadFails, history
  <2> QED
    BY <1>0, <1>1, <2>2, <2>3, <2>4, OnePass
<1>5. ASSUME NEW g \in Greenlets, WriteStep(g) PROVE PassesHeld' /\ EndedGrows
  <2>1. CASE WriteReaches(g)
    BY <1>0, <2>1, WritePasses DEF WriteReaches
  <2>2. CASE WriteFails(g)
    BY <1>0, <1>1, <2>2, WritePasses DEF WriteFails
  <2>3. CASE WriteGivenUp(g)
    BY <1>1, <2>3 DEF WriteGivenUp, SwitchGivenUp, history
  <2> QED
    BY <1>5, <2>1, <2>2, <2>3 DEF WriteStep
<1>6. CASE UNCHANGED vars
  BY <1>1, <1>6 DEF vars, processor, history
<1> QED
  BY <1>2, <1>3, <1>4, <1>5, <1>6 DEF Next, Poll

-----------------------------------------------------------------------------
(* What the server knows.                                                  *)

LEMMA GrownTrue ==
  ASSUME NEW s \in Seq(Nat), NEW r \in Seq(Nat), Grown(s, r)
  PROVE  /\ \A b : b.passes \in Nat /\ StatsTrue(b, s) => StatsTrue(b, r)
         /\ \A u : u.passes \in Nat /\ ReadTrue(u, s) => ReadTrue(u, r)
<1>1. Len(s) \in Nat /\ Len(r) \in Nat /\ Len(s) <= Len(r)
  BY DEF Grown
<1>2. \A k \in Nat : k >= 1 /\ k <= Len(s) => r[k] = s[k]
  BY <1>1 DEF Grown
<1>3. \A k \in Nat : k <= Len(s) => k <= Len(r)
  BY <1>1
<1> QED
  BY Zenon, <1>2, <1>3 DEF StatsTrue, ReadTrue

\* The laps of no node object change.
LapsKept == \A i \in Nodes : seat'[i].lap = seat[i].lap /\ seat'[i].seen = seat[i].seen

LEMMA SavedLaps ==
  ASSUME SeatOK, NEW x, x.node \in Nodes, NEW out, seat' = Saved(x, out)
  PROVE  LapsKept
<1> PICK i, f : i = x.node /\ f = IF x.value = PowerDown THEN 0 ELSE out
  OBVIOUS
<1>1. \/ seat' = [seat EXCEPT ![i].freq = f]
      \/ seat' = [seat EXCEPT ![i].enter = x.value]
      \/ seat' = [seat EXCEPT ![i].exit = x.value]
      \/ seat' = seat
  BY DEF Saved
<1>2. i \in Nodes /\ seat[i] \in Seat
  BY SeatFields
<1>3. CASE seat' = [seat EXCEPT ![i].freq = f]
  BY <1>2, <1>3 DEF SeatOK, Seat, LapsKept
<1>4. CASE seat' = [seat EXCEPT ![i].enter = x.value]
  BY <1>2, <1>4 DEF SeatOK, Seat, LapsKept
<1>5. CASE seat' = [seat EXCEPT ![i].exit = x.value]
  BY SMTT(30), <1>2, <1>5 DEF SeatOK, Seat, LapsKept
<1>6. CASE seat' = seat
  BY <1>6 DEF LapsKept
<1> QED
  BY <1>1, <1>3, <1>4, <1>5, <1>6

LEMMA SeatLaps ==
  ASSUME SeatOK, NEW i \in Nodes
  PROVE  /\ \A c, h : seat' = [seat EXCEPT ![i].crossing = c, ![i].history = h] => LapsKept
         /\ \A l, t : seat' = [seat EXCEPT ![i].lowered = l, ![i].lowerTime = t] => LapsKept
         /\ \A l, t, h : seat' = [seat EXCEPT ![i].lowered = l, ![i].lowerTime = t,
                                              ![i].history = h] => LapsKept
         /\ seat' = seat => LapsKept
<1>1. seat[i] \in Seat
  BY SeatFields
<1>2. ASSUME NEW c, NEW h, seat' = [seat EXCEPT ![i].crossing = c, ![i].history = h]
      PROVE  LapsKept
  BY <1>1, <1>2 DEF SeatOK, Seat, LapsKept
<1>3. ASSUME NEW l, NEW t, seat' = [seat EXCEPT ![i].lowered = l, ![i].lowerTime = t]
      PROVE  LapsKept
  BY <1>1, <1>3 DEF SeatOK, Seat, LapsKept
<1>4. ASSUME NEW l, NEW t, NEW h,
             seat' = [seat EXCEPT ![i].lowered = l, ![i].lowerTime = t, ![i].history = h]
      PROVE  LapsKept
  BY <1>1, <1>4 DEF SeatOK, Seat, LapsKept
<1>5. seat' = seat => LapsKept
  BY DEF LapsKept
<1> QED
  BY <1>2, <1>3, <1>4, <1>5

LEMMA LapsStep ==
  ASSUME TypeOK, [Next]_vars, ~Finish
  PROVE  LapsKept /\ reported' = reported
<1>0. SeatOK
  BY TypeParts
<1>1. ASSUME UNCHANGED <<seat, reported>> PROVE LapsKept /\ reported' = reported
  BY <1>1 DEF LapsKept
<1>2. CASE Sample \/ PollStarts \/ PollGivesUp \/ ReadStats \/ ReadFails \/ UNCHANGED vars
  BY SMTT(30), <1>1, <1>2 DEF Sample, PollStarts, PollGivesUp, ReadStats, ReadFails, vars, history
<1>3. CASE ReadExtremums
  <2>1. poll.node \in Nodes
    BY PollFields, TypeParts
  <2>2. /\ \/ UNCHANGED seat
           \/ \E c, h : seat' = [seat EXCEPT ![poll.node].crossing = c,
                                             ![poll.node].history = h]
        /\ reported' = reported
    BY ZenonT(40), <1>3, <2>1 DEF ReadExtremums, history, TypeOK
  <2> QED
    BY <1>0, <2>1, <2>2, SeatLaps
<1>4. CASE Restored
  <2> PICK i : i = Head1("update").node
    OBVIOUS
  <2>1. seat' = [seat EXCEPT ![i].lowered = FALSE, ![i].lowerTime = 0]
        /\ Pop("update") /\ todo["update"] # <<>> /\ reported' = reported
    BY <1>4 DEF Restored, history
  <2>2. "update" \in Greenlets
    BY DEF Greenlets
  <2>3. i \in Nodes
    BY <2>1, <2>2, Popped, WriteTypes, TypeParts
  <2> QED
    BY <1>0, <2>1, <2>3, SeatLaps
<1>5. ASSUME NEW g \in Greenlets, WriteStep(g) PROVE LapsKept /\ reported' = reported
  <2>1. CanWrite(g) /\ Pop(g) /\ reported' = reported
        /\ \E out : seat' = Saved(Head1(g), out)
    BY <1>5 DEF WriteStep, WriteReaches, WriteFails, WriteGivenUp, history
  <2>2. Head1(g).node \in Nodes
    BY <2>1, Written
  <2> QED
    BY <1>0, <2>1, <2>2, SavedLaps
<1>6. CASE Requests
  <2> PICK i \in RequestsTo : \/ \E x \in Settings : Set(i, x[1], x[2])
                              \/ ForceEndCrossing(i) \/ Lower(i)
    BY <1>6 DEF Requests
  <2>1. i \in Nodes
    BY InterfaceAssumption
  <2>2. CASE Lower(i)
    <3>1. /\ seat' = [seat EXCEPT ![i].lowered = TRUE, ![i].lowerTime = now + LowerDuration,
                                  ![i].history = <<>>]
          /\ reported' = reported
      BY <2>2 DEF Lower, Request, history
    <3> QED
      BY <1>0, <2>1, <3>1, SeatLaps
  <2>3. CASE ~Lower(i)
    BY <1>1, <2>3 DEF Set, ForceEndCrossing, Request, history
  <2> QED
    BY <2>2, <2>3
<1> QED
  BY <1>2, <1>3, <1>4, <1>5, <1>6 DEF Next, Poll

LEMMA UpdateFields ==
  ASSUME TypeOK, NEW us \in Seq(Update)
  PROVE  /\ Len(us) \in Nat
         /\ \A k \in 1..Len(us) :
              /\ us[k] \in Update /\ us[k].node \in Nodes /\ us[k].node \in Nat
              /\ us[k].passes \in Nat /\ us[k].time \in Int /\ us[k].lap \in 0..LapIds-1
<1>1. Len(us) \in Nat /\ \A k \in 1..Len(us) : us[k] \in Update
  OBVIOUS
<1>2. \A u \in Update : /\ u.node \in Nodes /\ u.passes \in Nat /\ u.time \in Int
                        /\ u.lap \in 0..LapIds-1
  BY DEF Update
<1> QED
  BY <1>1, <1>2, NodesTypes

\* Time passes, nodes end passes: what was known stays true.
LEMMA NewsLater ==
  ASSUME TypeOK, TypeOK', EndedGrows, LapsKept, NEW us \in Seq(Update),
         NewsTrue(us, seat, ended)
  PROVE  NewsTrue(us, seat', ended')
<1>1. ASSUME NEW k \in 1..Len(us)
      PROVE  /\ ReadTrue(us[k], ended'[us[k].node])
             /\ seat'[us[k].node].seen <= us[k].passes
             /\ us[k].lap # seat'[us[k].node].lap
  <2> PICK u, i : u = us[k] /\ i = u.node
    OBVIOUS
  <2>1. i \in Nodes /\ u.passes \in Nat
    BY UpdateFields
  <2>2. ended[i] \in Seq(Nat) /\ ended'[i] \in Seq(Nat) /\ Grown(ended[i], ended'[i])
    BY <2>1 DEF TypeOK, EndedGrows
  <2>3. ReadTrue(u, ended[i]) /\ seat[i].seen <= u.passes /\ u.lap # seat[i].lap
    BY DEF NewsTrue
  <2>4. ReadTrue(u, ended'[i])
    BY <2>1, <2>2, <2>3, GrownTrue
  <2> QED
    BY <2>1, <2>3, <2>4 DEF LapsKept
<1> QED
  BY Zenon, <1>1 DEF NewsTrue

LEMMA SeatsLater ==
  ASSUME TypeOK, TypeOK', EndedGrows, LapsKept, SeatsKnow(seat, ended)
  PROVE  SeatsKnow(seat', ended')
<1> SUFFICES ASSUME NEW i \in Nodes
             PROVE  /\ seat'[i].seen <= Len(ended'[i])
                    /\ seat'[i].lap # None => seat'[i].lap = LapAt(seat'[i].seen)
  BY DEF SeatsKnow
<1>1. seat[i].seen \in Nat
  BY DEF TypeOK, Seat
<1>2. Len(ended[i]) \in Nat /\ Len(ended'[i]) \in Nat /\ Len(ended[i]) <= Len(ended'[i])
  <2>1. ended[i] \in Seq(Nat) /\ ended'[i] \in Seq(Nat)
    BY DEF TypeOK
  <2>2. Len(ended[i]) <= Len(ended'[i])
    BY DEF EndedGrows, Grown
  <2> QED
    BY <2>1, <2>2
<1>3. seat'[i].lap = seat[i].lap /\ seat'[i].seen = seat[i].seen
  BY DEF LapsKept
<1>4. /\ seat[i].seen <= Len(ended[i])
      /\ seat[i].lap # None => seat[i].lap = LapAt(seat[i].seen)
  BY DEF SeatsKnow
<1> QED
  BY <1>1, <1>2, <1>3, <1>4

LEMMA ReportsLater ==
  ASSUME TypeOK, TypeOK', EndedGrows, LapsKept, reported \in Seq(Update),
         ReportsTrue(reported, seat, ended)
  PROVE  ReportsTrue(reported, seat', ended')
<1>1. ASSUME NEW k \in 1..Len(reported)
      PROVE  /\ ReadTrue(reported[k], ended'[reported[k].node])
             /\ seat'[reported[k].node].seen = seat[reported[k].node].seen
  <2> PICK u, i : u = reported[k] /\ i = u.node
    OBVIOUS
  <2>1. i \in Nodes /\ u.passes \in Nat
    BY UpdateFields
  <2>2. ended[i] \in Seq(Nat) /\ ended'[i] \in Seq(Nat) /\ Grown(ended[i], ended'[i])
    BY <2>1 DEF TypeOK, EndedGrows
  <2>3. ReadTrue(u, ended[i])
    BY DEF ReportsTrue
  <2>4. ReadTrue(u, ended'[i])
    BY <2>1, <2>2, <2>3, GrownTrue
  <2> QED
    BY <2>1, <2>4 DEF LapsKept
<1> QED
  BY <1>1 DEF ReportsTrue

LEMMA StatsLater ==
  ASSUME TypeOK, TypeOK', EndedGrows, LapsKept, NEW i \in Nodes, NEW b \in Stats,
         StatsTrue(b, ended[i]), seat[i].seen <= b.passes
  PROVE  StatsTrue(b, ended'[i]) /\ seat'[i].seen <= b.passes
<1>1. b.passes \in Nat
  BY DEF Stats
<1>2. ended[i] \in Seq(Nat) /\ ended'[i] \in Seq(Nat) /\ Grown(ended[i], ended'[i])
  BY DEF TypeOK, EndedGrows
<1> QED
  BY <1>1, <1>2, GrownTrue DEF LapsKept

LEMMA StatsNode ==
  ASSUME TypeOK, poll.at = "extremums"
  PROVE  poll.stats \in Stats /\ poll.node \in Nodes
BY DEF TypeOK, Polling

\* The loop goes on as before.
LEMMA PollLater ==
  ASSUME TypeOK, TypeOK', EndedGrows, LapsKept, PollTrue(poll, seat, ended),
         poll'.updates = poll.updates, poll'.at = poll.at, poll'.node = poll.node,
         poll'.stats = poll.stats
  PROVE  PollTrue(poll', seat', ended')
<1>1. NewsTrue(poll.updates, seat', ended')
  <2>1. poll.updates \in Seq(Update)
    BY PollFields, TypeParts
  <2> QED
    BY <2>1, NewsLater DEF PollTrue
<1>2. CASE poll.at = "extremums"
  <2>1. StatsTrue(poll.stats, ended[poll.node]) /\ seat[poll.node].seen <= poll.stats.passes
    BY <1>2 DEF PollTrue
  <2>2. StatsTrue(poll.stats, ended'[poll.node]) /\ seat'[poll.node].seen <= poll.stats.passes
    BY <1>2, <2>1, StatsLater, StatsNode
  <2> QED
    BY <1>1, <2>2 DEF PollTrue
<1>3. CASE poll.at # "extremums"
  BY <1>1, <1>3 DEF PollTrue
<1> QED
  BY <1>2, <1>3

\* The next node follows those with updates.
LEMMA GoOnTrue ==
  ASSUME TypeOK, NEW i, i \in Nodes \cup {-1}, NEW us \in Seq(Update), NEW r,
         NEW se, NEW en, NewsTrue(us, se, en), \A k \in 1..Len(us) : us[k].node <= i,
         GoOn(i, us, r)
  PROVE  PollTrue(poll', se, en)
<1>1. CASE NextEnabled(i) = {}
  <2>1. poll' = ToFinish(us, r)
    BY <1>1 DEF GoOn, ToFinish
  <2>2. poll'.at = "finish" /\ poll'.updates = us
    BY <2>1 DEF ToFinish, Idle
  <2> QED
    BY <2>2 DEF PollTrue
<1>2. CASE NextEnabled(i) # {}
  <2> PICK j : j = CHOOSE x \in NextEnabled(i) : TRUE
    OBVIOUS
  <2>1. j \in NextEnabled(i)
    BY <1>2, Chosen
  <2>2. poll' = ToStats(j, us, r)
    BY <1>2 DEF GoOn, ToStats
  <2>3. poll'.at = "stats" /\ poll'.updates = us /\ poll'.node = j
    BY <2>2 DEF ToStats, Idle
  <2>4. j \in Int /\ i \in Int /\ i < j
    <3>1. i \in Int /\ Count \in Nat
      BY NodesTypes, InterfaceAssumption
    <3> QED
      BY <2>1, <3>1 DEF NextEnabled
  <2>5. \A k \in 1..Len(us) : us[k].node < j
    BY <2>4, UpdateFields
  <2> QED
    BY <2>3, <2>5 DEF PollTrue
<1> QED
  BY <1>1, <1>2

LEMMA IdleTrue ==
  ASSUME NEW se, NEW en
  PROVE  PollTrue(Idle, se, en) /\ NewsTrue(<<>>, se, en)
BY DEF PollTrue, NewsTrue, Idle

LEMMA BlockFailsTrue ==
  ASSUME TypeOK, TypeOK', EndedGrows, LapsKept, PollTrue(poll, seat, ended), BlockFails
  PROVE  PollTrue(poll', seat', ended')
<1>1. poll.updates \in Seq(Update) /\ poll.node \in Nodes
  BY PollFields, TypeParts
<1>2. CASE poll.at = "stats"
  <2>1. NewsTrue(poll.updates, seat', ended')
    BY <1>1, NewsLater DEF PollTrue
  <2>2. \A k \in 1..Len(poll.updates) : poll.updates[k].node < poll.node
    BY <1>2 DEF PollTrue
  <2>3. \A k \in 1..Len(poll.updates) : poll.updates[k].node <= poll.node
    <3> PICK us, i : us = poll.updates /\ i = poll.node
      OBVIOUS
    <3>1. i \in Nat /\ us \in Seq(Update)
      BY <1>1, NodesTypes
    <3> SUFFICES ASSUME NEW k \in 1..Len(us) PROVE us[k].node <= i
      OBVIOUS
    <3>2. us[k].node \in Nat
      BY <3>1, UpdateFields
    <3>3. us[k].node < i
      BY <2>2
    <3> QED
      BY <3>1, <3>2, <3>3
  <2>4. GoOn(poll.node, poll.updates, RestoreAfter(poll.node, seat))
    BY <1>2 DEF BlockFails
  <2> QED
    BY <1>1, <2>1, <2>3, <2>4, GoOnTrue
<1>3. CASE poll.at # "stats"
  BY <1>3, IdleTrue DEF BlockFails
<1> QED
  BY <1>2, <1>3

\* An update that was found counts from the end of the loop on.
LEMMA ReadStatsTrue ==
  ASSUME TypeOK, TypeOK', PassesHeld, EndedGrows, LapsKept, HolderTrue, ~stray,
         SeatsKnow(seat, ended), PollTrue(poll, seat, ended), ReadStats
  PROVE  PollTrue(poll', seat', ended')
<1> PICK i : i = poll.node
  OBVIOUS
<1>1. i \in Nodes /\ cur' = i /\ ended' = ended /\ now \in Nat
  <2>1. Reach(i) /\ i \in Nodes /\ ended' = ended
    BY PollFields, TypeParts DEF ReadStats, history
  <2>2. now \in Nat
    BY InterfaceAssumption DEF TypeOK
  <2> QED
    BY <2>1, <2>2, ReachLink
<1> PICK s, n, b : /\ s = ended[i] /\ n = fw[i]
                   /\ b = [block |-> PassStats(n, now), passes |-> Len(s), at |-> now]
  OBVIOUS
<1>2. s \in Seq(Nat) /\ n \in NodeAt(now) /\ Held(n, s, now) /\ Len(s) \in Nat
  BY <1>1 DEF TypeOK, PassesHeld
<1>3. StatsTrue(b, s)
  <2>1. /\ b.passes = Len(s) /\ b.at = now /\ b.block.lap = n.lastPass.lap
        /\ b.block.since = TwoBytes(now - n.lastPass.time)
    BY DEF PassStats
  <2>2. Len(s) >= 1 => s[Len(s)] = n.lastPass.time
    BY <1>2 DEF Held
  <2>3. n.lastPass.time \in Nat /\ n.lastPass.time <= now
    BY <1>2 DEF Held, PeakPast, NodeAt, Pass
  <2>4. now - n.lastPass.time <= MaxDuration => now - n.lastPass.time \in 0..MaxDuration
    BY <1>1, <2>3, NodeAssumption
  <2>5. now - n.lastPass.time <= MaxDuration
          => TwoBytes(now - n.lastPass.time) = now - n.lastPass.time
    BY <2>4, TwoBytesFits
  <2>6. n.lastPass.lap = LapAt(Len(s))
    BY <1>2 DEF Held
  <2>7. b.passes <= Len(s)
    BY <1>2, <2>1
  <2> QED
    BY <2>1, <2>2, <2>5, <2>6, <2>7 DEF StatsTrue
<1>4. /\ poll'.at = "extremums" /\ poll'.node = i /\ poll'.updates = poll.updates
      /\ poll'.stats = b
  BY <1>1 DEF ReadStats, TypeOK, Polling
<1>5. seat'[i].seen <= b.passes
  BY <1>1 DEF SeatsKnow, LapsKept
<1>6. NewsTrue(poll.updates, seat', ended')
  <2>1. poll.updates \in Seq(Update)
    BY PollFields, TypeParts
  <2> QED
    BY <2>1, NewsLater DEF PollTrue
<1>7. \A k \in 1..Len(poll.updates) : poll.updates[k].node < i
  BY DEF ReadStats, PollTrue
<1> QED
  BY <1>1, <1>3, <1>4, <1>5, <1>6, <1>7 DEF PollTrue

LEMMA NewsAppended ==
  ASSUME TypeOK, NEW us \in Seq(Update), NEW u \in Update, NEW se, NEW en,
         NewsTrue(us, se, en), ReadTrue(u, en[u.node]), se[u.node].seen <= u.passes,
         u.lap # se[u.node].lap, \A k \in 1..Len(us) : us[k].node < u.node
  PROVE  NewsTrue(Append(us, u), se, en)
<1> PICK vs : vs = Append(us, u)
  OBVIOUS
<1>1. /\ Len(us) \in Nat /\ Len(vs) = Len(us) + 1 /\ vs[Len(vs)] = u
      /\ \A k \in 1..Len(us) : vs[k] = us[k]
  OBVIOUS
<1>2. ASSUME NEW k \in 1..Len(vs)
      PROVE  /\ ReadTrue(vs[k], en[vs[k].node])
             /\ se[vs[k].node].seen <= vs[k].passes
             /\ vs[k].lap # se[vs[k].node].lap
  <2>1. CASE k \in 1..Len(us)
    BY <1>1, <2>1 DEF NewsTrue
  <2>2. CASE k = Len(vs)
    BY <1>1, <2>2
  <2> QED
    BY <1>1, <2>1, <2>2
<1>3. ASSUME NEW k \in 1..Len(vs), NEW l \in 1..Len(vs), k < l
      PROVE  vs[k].node < vs[l].node
  <2>1. k \in 1..Len(us) /\ vs[k] = us[k]
    BY <1>1, <1>3
  <2>2. CASE l = Len(vs)
    BY <1>1, <2>1, <2>2
  <2>3. CASE l # Len(vs)
    <3>1. l \in 1..Len(us) /\ vs[l] = us[l]
      BY <1>1, <2>3
    <3> QED
      BY <1>3, <2>1, <3>1 DEF NewsTrue
  <2> QED
    BY <2>2, <2>3
<1> QED
  BY <1>2, <1>3 DEF NewsTrue

LEMMA ReadExtremumsTrue ==
  ASSUME TypeOK, TypeOK', EndedGrows, LapsKept, ~stray,
         PollTrue(poll, seat, ended), ReadExtremums
  PROVE  PollTrue(poll', seat', ended')
<1> PICK i, us, b, r : i = poll.node /\ us = poll.updates /\ b = poll.stats
                       /\ r = RestoreAfter(i, seat)
  OBVIOUS
<1>1. /\ i \in Nodes /\ us \in Seq(Update) /\ b \in Stats /\ poll.at = "extremums"
      /\ now \in Nat /\ ended' = ended
  BY StatsNode, PollFields, TypeParts DEF ReadExtremums, history, TypeOK
<1> PICK u : u = [node |-> i, lap |-> b.block.lap, time |-> now - b.block.since,
                  passes |-> b.passes, at |-> b.at, read |-> now]
  OBVIOUS
<1>2. GoOn(i, us, r) \/ (NewLap(i, b.block.lap) /\ GoOn(i, Append(us, u), r))
  BY DEF ReadExtremums
<1>3. /\ b.block.lap \in 0..LapIds-1 /\ b.block.since \in Int /\ b.passes \in Nat /\ b.at \in Nat
      /\ u.lap = b.block.lap /\ u.passes = b.passes /\ u.at = b.at /\ u.read = now
      /\ u.node = i /\ u.time = now - b.block.since
  BY <1>1, NodeAssumption DEF Stats
<1>4. u \in Update
  BY <1>1, <1>3 DEF Update
<1>5. StatsTrue(b, ended[i]) /\ seat[i].seen <= b.passes /\ NewsTrue(us, seat, ended)
      /\ \A k \in 1..Len(us) : us[k].node < i
  BY <1>1 DEF PollTrue
<1>6. /\ NewsTrue(us, seat', ended') /\ StatsTrue(b, ended'[i])
      /\ seat'[i].seen <= b.passes /\ seat'[i].lap = seat[i].lap
  BY <1>1, <1>5, NewsLater, StatsLater DEF LapsKept
<1>7. ReadTrue(u, ended'[i])
  <2> PICK s : s = ended'[i]
    OBVIOUS
  <2>1. s \in Seq(Nat)
    BY <1>1 DEF TypeOK
  <2>2. u.passes <= Len(s) /\ u.lap = LapAt(u.passes)
    BY <1>3, <1>6 DEF StatsTrue
  <2>3. ASSUME u.passes >= 1, u.at = u.read, u.at - s[u.passes] <= MaxDuration
        PROVE  u.time = s[u.passes]
    <3>1. s[b.passes] \in Nat
      <4> PICK x : x = b.passes
        OBVIOUS
      <4>1. x \in Nat /\ x >= 1 /\ x <= Len(s)
        BY <1>3, <2>2, <2>3
      <4>2. x \in 1..Len(s)
        BY <2>1, <4>1
      <4> QED
        BY <2>1, <4>2
    <3>2. b.at = now /\ b.passes >= 1 /\ b.at - s[b.passes] <= MaxDuration
      BY <1>3, <2>3
    <3>3. b.block.since = b.at - s[b.passes]
      BY <1>6, <3>2 DEF StatsTrue
    <3>4. now - b.block.since = s[b.passes]
      BY <1>1, <3>1, <3>2, <3>3
    <3> QED
      BY <1>3, <3>4
  <2> QED
    BY <2>2, <2>3 DEF ReadTrue
<1>8. /\ \A k \in 1..Len(us) : us[k].node <= i
      /\ Len(us) \in Nat /\ i \in Nat
  <2>1. \A k \in 1..Len(us) : us[k].node \in Nat
    BY <1>1, UpdateFields
  <2>2. i \in Nat /\ Len(us) \in Nat
    BY <1>1, NodesTypes
  <2> QED
    BY <1>5, <2>1, <2>2
<1>9. CASE GoOn(i, us, r)
  BY <1>1, <1>6, <1>8, <1>9, GoOnTrue
<1>10. CASE NewLap(i, b.block.lap) /\ GoOn(i, Append(us, u), r)
  <2> PICK vs : vs = Append(us, u)
    OBVIOUS
  <2>1. u.lap # seat'[i].lap
    BY <1>3, <1>6, <1>10 DEF NewLap
  <2>2. NewsTrue(vs, seat', ended')
    BY <1>1, <1>3, <1>4, <1>5, <1>6, <1>7, <2>1, NewsAppended
  <2>3. vs \in Seq(Update) /\ \A k \in 1..Len(vs) : vs[k].node <= i
    <3>1. /\ vs \in Seq(Update) /\ Len(vs) = Len(us) + 1 /\ vs[Len(us) + 1] = u
          /\ \A k \in 1..Len(us) : vs[k] = us[k]
      BY <1>1, <1>4
    <3>2. ASSUME NEW k \in 1..Len(vs) PROVE vs[k].node <= i
      <4>1. CASE k = Len(us) + 1
        BY <1>3, <1>8, <3>1, <4>1
      <4>2. CASE k # Len(us) + 1
        BY <1>8, <3>1, <4>2
      <4> QED
        BY <4>1, <4>2
    <3> QED
      BY <3>1, <3>2
  <2> QED
    BY <1>1, <1>10, <2>2, <2>3, GoOnTrue
<1> QED
  BY <1>2, <1>9, <1>10

-----------------------------------------------------------------------------
(* Passes are reported.                                                    *)

\* The reports r are among the news us of seats with a lap, one of a node at most.
Picks(r, us, se) ==
  /\ \A k \in 1..Len(r) : \E j \in 1..Len(us) : r[k] = us[j] /\ se[r[k].node].lap # None
  /\ \A k, l \in 1..Len(r) : k # l => r[k].node # r[l].node

\* The updates that are passes, in some order of theirs: each once.
LEMMA OrderFields ==
  ASSUME TypeOK, NEW p \in InOrder, NEW r, r = [i \in DOMAIN p |-> poll.updates[p[i]]]
  PROVE  /\ r \in Seq(Update)
         /\ NewsTrue(poll.updates, seat, ended) => Picks(r, poll.updates, seat)
<1> PICK us, c : us = poll.updates /\ c = Cardinality(Known)
  OBVIOUS
<1>1. us \in Seq(Update) /\ Len(us) \in Nat /\ DOMAIN us = 1..Len(us)
  BY PollFields, TypeParts
<1>2. Known \subseteq 1..Len(us) /\ \A k \in Known : seat[us[k].node].lap # None
  BY <1>1 DEF Known
<1>3. c \in Nat
  BY <1>1, <1>2, PartFinite
<1>4. p \in [1..c -> Known] /\ DOMAIN p = 1..c
  BY DEF InOrder
<1>5. \A i, j \in 1..c : i < j => Earlier(p[i], p[j])
  BY <1>4 DEF InOrder
<1>6. ASSUME NEW k \in Known PROVE ~Earlier(k, k)
  <2>1. k \in 1..Len(us)
    BY <1>2, <1>6
  <2>2. us[k].time \in Int /\ k \in Int
    BY <1>1, <2>1, UpdateFields
  <2> QED
    BY <2>2 DEF Earlier
<1>7. ASSUME NEW i \in 1..c, NEW j \in 1..c, i < j PROVE p[i] # p[j]
  BY <1>4, <1>5, <1>6, <1>7
<1>8. ASSUME NEW i \in 1..c, NEW j \in 1..c, i # j PROVE p[i] # p[j]
  BY <1>3, <1>7, <1>8
<1>9. ASSUME NewsTrue(us, seat, ended), NEW k \in 1..Len(us), NEW l \in 1..Len(us), k # l
      PROVE  us[k].node # us[l].node
  <2>1. us[k].node \in Nat /\ us[l].node \in Nat
    BY <1>1, UpdateFields
  <2>2. k < l \/ l < k
    BY <1>1, <1>9
  <2>3. (k < l => us[k].node < us[l].node) /\ (l < k => us[l].node < us[k].node)
    BY <1>9 DEF NewsTrue
  <2> QED
    BY <2>1, <2>2, <2>3
<1>10. \A i \in 1..c : p[i] \in 1..Len(us) /\ r[i] = us[p[i]]
  BY <1>2, <1>4
<1>11. r \in Seq(Update) /\ Len(r) = c
  <2>1. r \in [1..c -> Update]
    BY <1>1, <1>4, <1>10
  <2> QED
    BY <1>3, <2>1
<1>12. ASSUME NEW k \in 1..Len(r)
       PROVE  \E j \in 1..Len(us) : r[k] = us[j] /\ seat[r[k].node].lap # None
  BY <1>2, <1>4, <1>10, <1>11
<1>13. ASSUME NewsTrue(us, seat, ended), NEW k \in 1..Len(r), NEW l \in 1..Len(r), k # l
       PROVE  r[k].node # r[l].node
  <2>1. k \in 1..c /\ l \in 1..c
    BY <1>11
  <2> PICK x, y : x = p[k] /\ y = p[l]
    OBVIOUS
  <2>2. x \in 1..Len(us) /\ y \in 1..Len(us) /\ r[k] = us[x] /\ r[l] = us[y]
    BY <1>10, <2>1
  <2>3. x # y
    BY <1>8, <1>13, <2>1
  <2>4. us[x].node # us[y].node
    BY <1>9, <1>13, <2>2, <2>3
  <2> QED
    BY <2>2, <2>4
<1>14. NewsTrue(us, seat, ended) => Picks(r, us, seat)
  BY <1>12, <1>13 DEF Picks
<1> QED
  BY <1>11, <1>14

\* What the node objects know after the update: of a node with an update, that.
LEMMA SeatsAfter ==
  ASSUME TypeOK, NewsTrue(poll.updates, seat, ended), Finish
  PROVE  /\ \A k \in 1..Len(poll.updates) :
              LET u == poll.updates[k]
              IN  seat'[u.node].lap = u.lap /\ seat'[u.node].seen = u.passes
         /\ \A i \in Nodes :
              (\A k \in 1..Len(poll.updates) : poll.updates[k].node # i) =>
                seat'[i].lap = seat[i].lap /\ seat'[i].seen = seat[i].seen
<1> PICK us : us = poll.updates
  OBVIOUS
<1>1. us \in Seq(Update) /\ Len(us) \in Nat /\ DOMAIN us = 1..Len(us)
  BY PollFields, TypeParts
<1> DEFINE Mine(i) == {k \in 1..Len(us) : us[k].node = i}
           x(i) == [seat[i] EXCEPT !.lap = us[CHOOSE k \in Mine(i) : TRUE].lap,
                                   !.seen = us[CHOOSE k \in Mine(i) : TRUE].passes]
<1>2. seat' = [i \in Nodes |-> IF Mine(i) = {} THEN seat[i] ELSE x(i)]
  BY ZenonT(40), <1>1 DEF Finish
<1>3. ASSUME NEW k \in 1..Len(us)
      PROVE  seat'[us[k].node].lap = us[k].lap /\ seat'[us[k].node].seen = us[k].passes
  <2> PICK i : i = us[k].node
    OBVIOUS
  <2>1. i \in Nodes /\ seat[i] \in Seat
    BY <1>1, UpdateFields, SeatFields, TypeParts
  <2>2. \A l \in 1..Len(us) : us[l].node = i => l = k
    <3> SUFFICES ASSUME NEW l \in 1..Len(us), us[l].node = i, l # k PROVE FALSE
      OBVIOUS
    <3>1. (k < l => us[k].node < us[l].node) /\ (l < k => us[l].node < us[k].node)
      BY DEF NewsTrue
    <3>2. i \in Nat
      BY <2>1, NodesTypes
    <3> QED
      BY <1>1, <3>1, <3>2
  <2>3. Mine(i) = {k}
    BY <2>2
  <2>4. (CHOOSE l \in Mine(i) : TRUE) = k
    BY <2>3
  <2>5. x(i) = [seat[i] EXCEPT !.lap = us[k].lap, !.seen = us[k].passes]
    BY Zenon, <2>4
  <2>6. seat'[i] = x(i)
    BY Zenon, <1>2, <2>1, <2>3
  <2> HIDE DEF x, Mine
  <2> QED
    BY <2>1, <2>5, <2>6 DEF Seat
<1>4. ASSUME NEW i \in Nodes, \A k \in 1..Len(us) : us[k].node # i
      PROVE  seat'[i].lap = seat[i].lap /\ seat'[i].seen = seat[i].seen
  <2>1. Mine(i) = {}
    BY SMTT(30), <1>4
  <2>2. seat'[i] = seat[i]
    BY Zenon, <1>2, <2>1
  <2> QED
    BY <2>2
<1> QED
  BY <1>3, <1>4

\* q is the a entries of s, then the b entries of r.
Joined(q, s, r, a, b) == /\ a \in Nat /\ b \in Nat /\ a = Len(s) /\ Len(q) = a + b
                         /\ \A k \in 1..a : q[k] = s[k]
                         /\ \A k \in 1..Len(q) : k > a => k - a \in 1..b /\ q[k] = r[k - a]

\* No seat's count falls from se to new.
NoneLess(se, new) == \A i \in Nodes : /\ se[i].seen \in Nat /\ new[i].seen \in Nat
                                      /\ se[i].seen <= new[i].seen

\* The b reports of r are of passes that the seats' counts reach between se and new,
\* at most one of a seat.
Between(r, b, se, new, en) ==
  /\ \A k \in 1..b : /\ ReadTrue(r[k], en[r[k].node]) /\ r[k].node \in Nodes
                      /\ r[k].passes \in 1..new[r[k].node].seen
                      /\ se[r[k].node].seen < r[k].passes
  /\ \A k, l \in 1..b : k # l => r[k].node # r[l].node

\* Reports r of other passes than s, which come later for their nodes, follow s.
LEMMA ReportsJoined ==
  ASSUME NEW s, NEW r, NEW q, NEW a, NEW b, NEW se, NEW new, NEW en,
         Joined(q, s, r, a, b), NoneLess(se, new), Between(r, b, se, new, en),
         \A k \in 1..a : s[k].node \in Nodes, ReportsTrue(s, se, en)
  PROVE  ReportsTrue(q, new, en)
<1> USE DEF Joined, NoneLess, Between
<1> SUFFICES ASSUME NEW k \in 1..Len(q)
             PROVE  /\ ReadTrue(q[k], en[q[k].node]) /\ q[k].passes \in 1..new[q[k].node].seen
                    /\ \A l \in 1..k-1 : q[l].node = q[k].node => q[l].passes < q[k].passes
  BY DEF ReportsTrue
<1>1. CASE k <= a
  <2>1. k \in 1..a /\ \A l \in 1..k-1 : l \in 1..a
    BY <1>1
  <2>2. q[k] = s[k] /\ \A l \in 1..k-1 : q[l] = s[l]
    BY <2>1
  <2> PICK v, i : v = s[k] /\ i = v.node
    OBVIOUS
  <2>3. /\ ReadTrue(v, en[i]) /\ i \in Nodes /\ v.passes \in 1..se[i].seen
        /\ \A l \in 1..k-1 : s[l].node = i => s[l].passes < v.passes
    BY <2>1 DEF ReportsTrue
  <2>4. v.passes \in 1..new[i].seen
    BY <2>3
  <2> QED
    BY <2>2, <2>3, <2>4
<1>2. CASE k > a
  <2> PICK j \in 1..b : j = k - a /\ q[k] = r[j]
    BY <1>2
  <2> PICK v, i : v = r[j] /\ i = v.node
    OBVIOUS
  <2>1. /\ ReadTrue(v, en[i]) /\ i \in Nodes
        /\ v.passes \in 1..new[i].seen /\ se[i].seen < v.passes
    OBVIOUS
  <2>2. se[i].seen \in Nat /\ new[i].seen \in Nat /\ v.passes \in Nat
    BY <2>1
  <2>3. ASSUME NEW l \in 1..k-1, q[l].node = i PROVE q[l].passes < v.passes
    <3>1. l \in 1..Len(q)
      OBVIOUS
    <3>2. CASE l <= a
      <4>1. l \in 1..a /\ q[l] = s[l]
        BY <3>1, <3>2
      <4> PICK w : w = s[l]
        OBVIOUS
      <4>2. w.passes \in 1..se[w.node].seen /\ w.node = i
        BY <2>3, <4>1 DEF ReportsTrue
      <4>3. w.passes < v.passes
        BY <2>1, <2>2, <4>2
      <4> QED
        BY <4>1, <4>3
    <3>3. CASE l > a
      <4> PICK m : m = l - a
        OBVIOUS
      <4>1. m \in 1..b /\ q[l] = r[m] /\ m # j
        BY <3>1, <3>3
      <4>2. r[m].node # r[j].node
        BY <4>1
      <4> QED
        BY <2>3, <4>1, <4>2
    <3> QED
      BY <3>1, <3>2, <3>3
  <2> QED
    BY <2>1, <2>3
<1> QED
  BY <1>1, <1>2

LEMMA JoinedIs ==
  ASSUME NEW s \in Seq(Update), NEW r \in Seq(Update), NEW q, NEW a, NEW b,
         q = s \o r /\ a = Len(s) /\ b = Len(r)
  PROVE  Joined(q, s, r, a, b)
<1>1. a \in Nat /\ b \in Nat /\ Len(q) = a + b
  OBVIOUS
<1>2. \A k \in 1..a : q[k] = s[k]
  OBVIOUS
<1>3. \A k \in 1..Len(q) : k > a => k - a \in 1..b /\ q[k] = r[k - a]
  BY <1>1
<1> QED
  BY <1>1, <1>2, <1>3 DEF Joined

\* What the end of a poll reports.
LEMMA FinishAdds ==
  ASSUME TypeOK, Finish, NewsTrue(poll.updates, seat, ended)
  PROVE  \E r : r \in Seq(Update) /\ reported' = reported \o r /\ Picks(r, poll.updates, seat)
<1>1. PICK p \in InOrder : reported' = reported \o [i \in DOMAIN p |-> poll.updates[p[i]]]
  BY ZenonT(40) DEF Finish
<1> PICK r : r = [i \in DOMAIN p |-> poll.updates[p[i]]]
  OBVIOUS
<1>2. r \in Seq(Update) /\ Picks(r, poll.updates, seat)
  BY OrderFields
<1>3. reported' = reported \o r
  BY <1>1
<1> QED
  BY Zenon, <1>2, <1>3

LEMMA FinishTrue ==
  ASSUME TypeOK, TypeOK', PassesHeld, reported \in Seq(Update), KnownTrue, Finish
  PROVE  KnownTrue'
<1> PICK us, en : us = poll.updates /\ en = ended
  OBVIOUS
<1>1. /\ us \in Seq(Update) /\ Len(us) \in Nat /\ ended' = en /\ poll' = Idle
      /\ NewsTrue(us, seat, en) /\ SeatsKnow(seat, en) /\ ReportsTrue(reported, seat, en)
  BY ZenonT(40), PollFields, TypeParts, UpdateFields DEF Finish, KnownTrue, PollTrue
<1>2. /\ \A k \in 1..Len(us) : /\ seat'[us[k].node].lap = us[k].lap
                               /\ seat'[us[k].node].seen = us[k].passes
      /\ \A i \in Nodes : (\A k \in 1..Len(us) : us[k].node # i) =>
                            seat'[i].lap = seat[i].lap /\ seat'[i].seen = seat[i].seen
  BY <1>1, SeatsAfter
<1>3. \A k \in 1..Len(us) : /\ ReadTrue(us[k], en[us[k].node]) /\ us[k].node \in Nodes
                            /\ seat[us[k].node].seen <= us[k].passes
                            /\ us[k].lap # seat[us[k].node].lap /\ us[k].passes \in Nat
  BY <1>1, UpdateFields DEF NewsTrue
<1>4. \A i \in Nodes : seat[i].seen \in Nat /\ seat'[i].seen \in Nat
  BY DEF TypeOK, Seat
<1>5. ASSUME NEW i \in Nodes
      PROVE  /\ seat[i].seen <= seat'[i].seen /\ seat'[i].seen <= Len(en[i])
             /\ seat'[i].lap # None => seat'[i].lap = LapAt(seat'[i].seen)
  <2>1. CASE \A k \in 1..Len(us) : us[k].node # i
    BY <1>1, <1>2, <1>4, <2>1 DEF SeatsKnow
  <2>2. ASSUME NEW k \in 1..Len(us), us[k].node = i
        PROVE  /\ seat[i].seen <= seat'[i].seen /\ seat'[i].seen <= Len(en[i])
               /\ seat'[i].lap # None => seat'[i].lap = LapAt(seat'[i].seen)
    BY <1>2, <1>3, <2>2 DEF ReadTrue
  <2> QED
    BY <2>1, <2>2
<1>6. SeatsKnow(seat', en)
  BY <1>5 DEF SeatsKnow
<1>7. PollTrue(poll', seat', en)
  BY <1>1, IdleTrue
<1>r. NewsTrue(poll.updates, seat, ended)
  BY <1>1
<1> PICK r : r \in Seq(Update) /\ reported' = reported \o r /\ Picks(r, poll.updates, seat)
  BY ZenonT(40), <1>r, FinishAdds
<1>8. /\ \A k \in 1..Len(r) : \E j \in 1..Len(us) : r[k] = us[j] /\ seat[r[k].node].lap # None
      /\ \A k, l \in 1..Len(r) : k # l => r[k].node # r[l].node
  BY Zenon DEF Picks
<1>9. ASSUME NEW k \in 1..Len(r)
      PROVE  /\ ReadTrue(r[k], en[r[k].node]) /\ r[k].node \in Nodes
             /\ r[k].passes \in 1..seat'[r[k].node].seen
             /\ seat[r[k].node].seen < r[k].passes
  <2> PICK j \in 1..Len(us) : r[k] = us[j] /\ seat[r[k].node].lap # None
    BY <1>8
  <2> PICK u, i : u = us[j] /\ i = u.node
    OBVIOUS
  <2>1. /\ ReadTrue(u, en[i]) /\ i \in Nodes /\ seat[i].seen <= u.passes /\ u.passes \in Nat
        /\ u.lap # seat[i].lap /\ seat'[i].seen = u.passes
    BY <1>2, <1>3
  <2>2. seat[i].lap = LapAt(seat[i].seen) /\ u.lap = LapAt(u.passes)
    BY <1>1, <2>1 DEF SeatsKnow, ReadTrue
  <2>3. seat[i].seen # u.passes
    BY <2>1, <2>2
  <2>4. seat[i].seen < u.passes /\ u.passes >= 1
    BY SMTT(30), <1>4, <2>1, <2>3
  <2>5. u.passes \in 1..seat'[i].seen
    BY <2>1, <2>4
  <2> QED
    BY <2>1, <2>4, <2>5
<1>10. ReportsTrue(reported \o r, seat', en)
  <2> PICK q, a, b : q = reported \o r /\ a = Len(reported) /\ b = Len(r)
    OBVIOUS
  <2>1. Joined(q, reported, r, a, b)
    BY JoinedIs
  <2>2. \A k \in 1..a : reported[k].node \in Nodes
    BY UpdateFields
  <2>3. Between(r, b, seat, seat', en)
    BY <1>8, <1>9 DEF Between
  <2>5. NoneLess(seat, seat')
    BY <1>4, <1>5 DEF NoneLess
  <2>6. ReportsTrue(q, seat', en)
    BY ZenonT(40), <1>1, <2>1, <2>2, <2>3, <2>5, ReportsJoined
  <2> QED
    BY <2>6
<1> QED
  BY Zenon, <1>1, <1>6, <1>7, <1>10 DEF KnownTrue

LEMMA FinishReported ==
  ASSUME TypeOK, reported \in Seq(Update), Finish
  PROVE  reported' \in Seq(Update)
<1> PICK p \in InOrder : reported' = reported \o [i \in DOMAIN p |-> poll.updates[p[i]]]
  BY ZenonT(40) DEF Finish
<1> PICK r : r = [i \in DOMAIN p |-> poll.updates[p[i]]]
  OBVIOUS
<1>1. r \in Seq(Update)
  BY OrderFields
<1> QED
  BY <1>1

-----------------------------------------------------------------------------
(* Steps.                                                                  *)

LEMMA PollStep ==
  ASSUME TypeOK, TypeOK', EndedGrows, LapsKept, PassesHeld, HolderTrue, ~stray,
         SeatsKnow(seat, ended), PollTrue(poll, seat, ended), [Next]_vars, ~Finish
  PROVE  PollTrue(poll', seat', ended')
<1>1. ASSUME UNCHANGED poll PROVE PollTrue(poll', seat', ended')
  BY <1>1, PollLater
<1>2. CASE Sample \/ Restored \/ Requests \/ UNCHANGED vars
  <2>1. UNCHANGED poll
    BY <1>2 DEF Sample, Restored, Requests, Set, ForceEndCrossing, Lower, Request, vars
  <2> QED
    BY <1>1, <2>1
<1>3. ASSUME NEW g \in Greenlets, WriteStep(g) PROVE PollTrue(poll', seat', ended')
  BY <1>1, <1>3 DEF WriteStep, WriteReaches, WriteFails, WriteGivenUp
<1>4. CASE PollStarts
  <2>1. GoOn(-1, <<>>, None) /\ <<>> \in Seq(Update)
    BY <1>4 DEF PollStarts
  <2> PICK us : us = <<>>
    OBVIOUS
  <2>2. NewsTrue(us, seat', ended') /\ us \in Seq(Update) /\ Len(us) = 0
    BY IdleTrue
  <2>3. \A k \in 1..Len(us) : us[k].node <= -1
    BY <2>2
  <2> QED
    BY <2>1, <2>2, <2>3, GoOnTrue
<1>5. CASE PollGivesUp
  BY <1>5, BlockFailsTrue DEF PollGivesUp
<1>6. CASE ReadStats
  BY <1>6, ReadStatsTrue
<1>7. CASE ReadExtremums
  BY <1>7, ReadExtremumsTrue
<1>8. CASE ReadFails
  <2>1. CASE BlockFails
    BY <2>1, BlockFailsTrue
  <2>2. CASE poll' = [poll EXCEPT !.tries = poll.tries + 1]
    <3>1. poll \in Polling
      BY DEF TypeOK
    <3>2. /\ poll'.updates = poll.updates /\ poll'.at = poll.at /\ poll'.node = poll.node
          /\ poll'.stats = poll.stats
      BY <2>2, <3>1 DEF Polling
    <3> QED
      BY <3>2, PollLater
  <2> QED
    BY <1>8, <2>1, <2>2 DEF ReadFails
<1> QED
  BY <1>2, <1>3, <1>4, <1>5, <1>6, <1>7, <1>8 DEF Next, Poll

\* A change that was given up half done stays so.
LEMMA StrayStays ==
  ASSUME TypeOK, [Next]_vars, ~stray'
  PROVE  ~stray
<1>1. CASE Sample \/ PollStarts \/ ReadStats \/ ReadExtremums \/ ReadFails \/ Restored
  BY <1>1 DEF Sample, PollStarts, ReadStats, ReadExtremums, ReadFails, Restored
<1>2. CASE Finish
  BY ZenonT(40), <1>2 DEF Finish
<1>3. CASE PollGivesUp
  BY <1>3 DEF PollGivesUp, SwitchGivenUp, TypeOK
<1>4. CASE Requests \/ UNCHANGED vars
  BY <1>4 DEF Requests, Set, ForceEndCrossing, Lower, Request, vars
<1>5. ASSUME NEW g \in Greenlets, WriteStep(g) PROVE ~stray
  BY <1>5 DEF WriteStep, WriteReaches, WriteFails, WriteGivenUp, SwitchGivenUp, TypeOK
<1> QED
  BY <1>1, <1>2, <1>3, <1>4, <1>5 DEF Next, Poll

LEMMA PassStep ==
  ASSUME TypeOK, TypeOK', HolderTrue, PassInv, [Next]_vars
  PROVE  PassInv'
<1>1. reported \in Seq(Update) /\ PassesHeld /\ (~stray => KnownTrue)
  BY DEF PassInv
<1>2. PassesHeld' /\ EndedGrows
  BY <1>1, FirmwarePasses
<1>3. CASE Finish
  <2>1. reported' \in Seq(Update)
    BY <1>1, <1>3, FinishReported
  <2>2. ~stray' => KnownTrue'
    BY <1>1, <1>3, FinishTrue, StrayStays
  <2> QED
    BY <1>2, <2>1, <2>2 DEF PassInv
<1>4. CASE ~Finish
  <2>1. LapsKept /\ reported' = reported
    BY <1>4, LapsStep
  <2>2. ASSUME ~stray' PROVE KnownTrue'
    <3>1. ~stray /\ KnownTrue
      BY <1>1, <2>2, StrayStays
    <3>2. /\ SeatsKnow(seat, ended) /\ PollTrue(poll, seat, ended)
          /\ ReportsTrue(reported, seat, ended)
      BY <3>1 DEF KnownTrue
    <3>3. PollTrue(poll', seat', ended')
      BY <1>1, <1>2, <1>4, <2>1, <3>1, <3>2, PollStep
    <3>4. SeatsKnow(seat', ended') /\ ReportsTrue(reported, seat', ended')
      BY <1>1, <1>2, <2>1, <3>2, SeatsLater, ReportsLater
    <3> QED
      BY <2>1, <3>3, <3>4 DEF KnownTrue
  <2> QED
    BY <1>1, <1>2, <2>1, <2>2 DEF PassInv
<1> QED
  BY <1>3, <1>4

\* A node that has ended no pass holds the lap number it started with.
LEMMA HeldAtFirst ==
  ASSUME NEW n, NEW t, PeakPast(n, t), n.lastPass.lap = LapAt(Len(<<>>))
  PROVE  Held(n, <<>>, t)
<1>1. (<<>> # <<>>) => <<>>[Len(<<>>)] = n.lastPass.time
  OBVIOUS
<1> QED
  BY <1>1, Zenon DEF Held

LEMMA InitPasses ==
  ASSUME Init
  PROVE  PassInv
<1>1. /\ now = 0 /\ reported = <<>> /\ poll = Idle /\ ended = [i \in Nodes |-> <<>>]
      /\ seat = [i \in Nodes |-> NewSeat]
      /\ \A i \in Nodes :
           fw[i] = [Write(PowerUp, "freq", DefaultFreq) EXCEPT !.lastPass.lap = FirstLap]
  BY DEF Init
<1>2. PassesHeld
  <2> SUFFICES ASSUME NEW i \in Nodes PROVE Held(fw[i], <<>>, 0)
    BY <1>1 DEF PassesHeld
  <2> DEFINE p == PowerUp
             w == Write(p, "freq", DefaultFreq)
  <2>1. w = [p EXCEPT !.freq = DefaultFreq, !.active = TRUE]
    BY Zenon DEF Write, PowerUp
  <2>2. /\ w.lastPass = [rssi |-> 0, time |-> 0, nadir |-> MaxRssi, lap |-> 0]
        /\ w.passPeak = Extremum(0, 0) /\ "lastPass" \in DOMAIN w
    BY <2>1 DEF PowerUp
  <2> HIDE DEF w
  <2>3. fw[i] = [w EXCEPT !.lastPass.lap = FirstLap]
    BY <1>1 DEF w
  <2>4. /\ fw[i].lastPass = [rssi |-> 0, time |-> 0, nadir |-> MaxRssi, lap |-> FirstLap]
        /\ fw[i].passPeak = Extremum(0, 0)
    BY <2>2, <2>3
  <2>5. FirstLap = LapAt(Len(<<>>))
    <3>1. /\ FirstLap \in Nat /\ LapIds \in Nat /\ LapIds > 0
          /\ FirstLap < LapIds
      BY InterfaceAssumption, NodeAssumption
    <3>2. Len(<<>>) = 0
      OBVIOUS
    <3>3. FirstLap + 0 = FirstLap /\ FirstLap % LapIds = FirstLap
      BY <3>1
    <3> QED
      BY <3>2, <3>3 DEF LapAt
  <2>6. PeakPast(fw[i], 0)
    BY <2>4, InterfaceAssumption DEF PeakPast, Extremum
  <2>7. fw[i].lastPass.lap = LapAt(Len(<<>>))
    BY <2>4, <2>5
  <2> QED
    BY <2>6, <2>7, HeldAtFirst
<1>3. KnownTrue
  <2>1. SeatsKnow(seat, ended)
    BY <1>1 DEF SeatsKnow, NewSeat
  <2>2. PollTrue(poll, seat, ended)
    BY <1>1, IdleTrue
  <2>3. ReportsTrue(reported, seat, ended)
    BY <1>1 DEF ReportsTrue
  <2> QED
    BY <2>1, <2>2, <2>3 DEF KnownTrue
<1> QED
  BY <1>1, <1>2, <1>3 DEF PassInv

\* A pass is reported for the node that ended it, with its time if both blocks were read
\* at once and early enough, each at most once and in their order: for any number of nodes
\* and of lap ids, whatever gets lost (update, process_updates).
THEOREM PassesSafe == Spec => []PassesTrue
<1>1. Init => PassInv
  BY InitPasses
<1>2. IInv /\ IInv' /\ PassInv /\ [Next]_vars => PassInv'
  BY PassStep DEF IInv
<1>3. PassInv /\ TypeOK => PassesTrue
  <2> SUFFICES ASSUME PassInv, TypeOK, ~stray, NEW k \in 1..Len(reported)
               PROVE  LET u == reported[k] IN
                      /\ u.passes \in 1..Len(ended[u.node])
                      /\ u.at = u.read /\ u.at - ended[u.node][u.passes] <= MaxDuration
                           => u.time = ended[u.node][u.passes]
                      /\ \A l \in 1..k-1 : reported[l].node = u.node
                                             => reported[l].passes < u.passes
    BY Zenon DEF PassesTrue
  <2> PICK u : u = reported[k]
    OBVIOUS
  <2>1. reported \in Seq(Update) /\ ReportsTrue(reported, seat, ended)
    BY DEF PassInv, KnownTrue
  <2>2. u.node \in Nodes /\ u.passes \in Nat
    BY <2>1, UpdateFields
  <2>3. /\ ReadTrue(u, ended[u.node]) /\ u.passes \in 1..seat[u.node].seen
        /\ \A l \in 1..k-1 : reported[l].node = u.node => reported[l].passes < u.passes
    BY <2>1 DEF ReportsTrue
  <2>4. Len(ended[u.node]) \in Nat /\ seat[u.node].seen \in Nat
    <3>1. ended[u.node] \in Seq(Nat) /\ seat[u.node] \in Seat
      BY <2>2 DEF TypeOK
    <3> QED
      BY <3>1 DEF Seat
  <2>5. u.passes \in 1..Len(ended[u.node]) /\ u.passes >= 1
    BY <2>2, <2>3, <2>4 DEF ReadTrue
  <2>6. u.at = u.read /\ u.at - ended[u.node][u.passes] <= MaxDuration
          => u.time = ended[u.node][u.passes]
    BY <2>3, <2>5 DEF ReadTrue
  <2> QED
    BY <2>3, <2>5, <2>6
<1>4. IInv => TypeOK
  BY DEF IInv
<1> QED
  BY <1>1, <1>2, <1>3, <1>4, Inductive, PTL DEF Spec

=============================================================================
