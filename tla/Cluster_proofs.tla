--------------------------- MODULE Cluster_proofs ---------------------------
(***************************************************************************)
(* What is proved of the cluster for any number of secondaries, any sizes  *)
(* and any number of faults: the types; that a record which left a queue   *)
(* without having been given up was handled by the primary (every ack      *)
(* under way names a pass that arrived); that the stored splits are those  *)
(* of the first gates; and that a connected secondary takes part in the    *)
(* race (what it is sent ends with the request that the race asks for).    *)
(***************************************************************************)
EXTENDS Cluster, SequenceFacts, TLAPS

-----------------------------------------------------------------------------
(* Messages and queues.                                                    *)

\* A pass record is known by its number; 0 is no number of a pass.
LEMMA Messages ==
  /\ Join \in ToPrimary /\ Passes \subseteq ToPrimary
  /\ \A m \in ToPrimary : m.n \in Nat /\ (m # Join <=> m \in Passes) /\ (m \in Passes <=> m.n # 0)
  /\ \A n \in Nat \ {0} : Msg("pass_record", n) \in Passes
  /\ \A m \in Passes : m = Msg("pass_record", m.n) /\ m.n \in Nat \ {0}
  /\ \A n \in Nat : Msg("ack", n) \in ToSecondary
  /\ \A t \in Commands : Msg(t, 0) \in ToSecondary
BY DEF Join, ToPrimary, Passes, ToSecondary, Commands, Msg

\* A queue that holds no record that it did not hold stays within its size.
LEMMA WithinSizeShrinks ==
  ASSUME NEW q \in Seq(ToPrimary), NEW r \in Seq(ToPrimary),
         ToSet(r) \subseteq ToSet(q) \cup {Join},
         Cardinality(ToSet(q) \ {Join}) <= QueueSize
  PROVE  Cardinality(ToSet(r) \ {Join}) <= QueueSize
<1>1. IsFiniteSet(ToSet(q)) /\ IsFiniteSet(ToSet(r))
  BY ToSetSize
<1>2. IsFiniteSet(ToSet(q) \ {Join}) /\ IsFiniteSet(ToSet(r) \ {Join})
  BY <1>1, FS_Subset
<1>3. ToSet(r) \ {Join} \subseteq ToSet(q) \ {Join}
  OBVIOUS
<1>4. Cardinality(ToSet(r) \ {Join}) <= Cardinality(ToSet(q) \ {Join})
  BY <1>2, <1>3, FS_Subset
<1>5. /\ Cardinality(ToSet(r) \ {Join}) \in Nat /\ Cardinality(ToSet(q) \ {Join}) \in Nat
      /\ QueueSize \in Nat
  BY <1>2, FS_CardinalityType, ClusterAssumption
<1> QED
  BY <1>4, <1>5

\* A queue whose length is within its size is.
LEMMA WithinSizeByLength ==
  ASSUME NEW q \in Seq(ToPrimary), Len(q) <= QueueSize
  PROVE  Cardinality(ToSet(q) \ {Join}) <= QueueSize
<1>1. IsFiniteSet(ToSet(q)) /\ Cardinality(ToSet(q)) <= Len(q)
  BY ToSetSize
<1>2. IsFiniteSet(ToSet(q) \ {Join}) /\ Cardinality(ToSet(q) \ {Join}) <= Cardinality(ToSet(q))
  BY <1>1, FS_Subset
<1>3. /\ Cardinality(ToSet(q) \ {Join}) \in Nat /\ Cardinality(ToSet(q)) \in Nat
      /\ QueueSize \in Nat /\ Len(q) \in Nat
  BY <1>1, <1>2, FS_CardinalityType, ClusterAssumption
<1> QED
  BY <1>1, <1>2, <1>3

-----------------------------------------------------------------------------
(* Types.                                                                  *)

\* The value types that the updates of the variables keep.
LEMMA ExceptType ==
  ASSUME NEW S, NEW T, NEW f \in [S -> T], NEW s \in S, NEW v \in T
  PROVE  [f EXCEPT ![s] = v] \in [S -> T]
OBVIOUS

LEMMA PassType ==
  ASSUME TypeOK, NEW s \in Secondaries, Pass(s)
  PROVE  TypeOK'
<1> DEFINE n == passes[s] + 1
           m == Msg("pass_record", n)
<1>1. /\ passes \in [Secondaries -> Nat] /\ queue \in [Secondaries -> Seq(ToPrimary)]
      /\ dropped \in [Secondaries -> SUBSET (Nat \ {0})]
      /\ n \in Nat \ {0} /\ m \in ToPrimary /\ PassesOf[s] \in Nat
  <2>1. /\ passes \in [Secondaries -> Nat] /\ queue \in [Secondaries -> Seq(ToPrimary)]
        /\ dropped \in [Secondaries -> SUBSET (Nat \ {0})]
    BY DEF TypeOK
  <2>2. n \in Nat \ {0}
    BY <2>1
  <2>3. PassesOf[s] \in Nat
    BY ClusterAssumption DEF Secondaries
  <2> QED
    BY <2>1, <2>2, <2>3, Messages
<1>2. passes' = [passes EXCEPT ![s] = n] /\ passes'[s] = n
  BY <1>1 DEF Pass
<1>3. /\ passes' \in [Secondaries -> Nat]
      /\ \A t \in Secondaries : passes'[t] <= PassesOf[t]
  <2>1. passes[s] < PassesOf[s] /\ \A t \in Secondaries : passes[t] <= PassesOf[t]
    BY DEF Pass, TypeOK
  <2>2. passes' \in [Secondaries -> Nat] /\ \A t \in Secondaries \ {s} : passes'[t] = passes[t]
    BY <1>1, <1>2
  <2> QED
    BY <1>1, <1>2, <2>1, <2>2
<1>4. dropped' \in [Secondaries -> SUBSET (Nat \ {0})]
  <2>1. dropped[s] \cup {n} \in SUBSET (Nat \ {0})
    BY <1>1
  <2>2. dropped' = dropped \/ dropped' = [dropped EXCEPT ![s] = dropped[s] \cup {n}]
    BY <1>2 DEF Pass
  <2> QED
    BY <1>1, <2>1, <2>2, ExceptType
<1>5. CASE queue' = queue
  BY <1>3, <1>4, <1>5 DEF Pass, TypeOK, WithinSize, net, client, primary
<1>6. CASE HasRoom(s) /\ queue' = [queue EXCEPT ![s] = Append(queue[s], m)]
  <2>1. Append(queue[s], m) \in Seq(ToPrimary) /\ Len(Append(queue[s], m)) <= QueueSize
    BY <1>1, <1>6, ClusterAssumption DEF HasRoom
  <2>2. queue' \in [Secondaries -> Seq(ToPrimary)]
    BY <1>1, <1>6, <2>1, ExceptType
  <2>3. \A t \in Secondaries : WithinSize(t)'
    <3>1. Cardinality(ToSet(Append(queue[s], m)) \ {Join}) <= QueueSize
      BY <2>1, WithinSizeByLength
    <3> QED
      BY <1>1, <1>6, <3>1 DEF WithinSize, TypeOK
  <2> QED
    BY <1>3, <1>4, <2>2, <2>3 DEF Pass, TypeOK, net, client, primary
<1> QED
  BY <1>2, <1>5, <1>6 DEF Pass, AddRecord

\* A queue replaced by one without new records.
LEMMA QueueSet ==
  ASSUME TypeOK, NEW s \in Secondaries, NEW q \in Seq(ToPrimary),
         ToSet(q) \subseteq ToSet(queue[s]) \cup {Join}, queue' = [queue EXCEPT ![s] = q]
  PROVE  /\ queue' \in [Secondaries -> Seq(ToPrimary)]
         /\ \A t \in Secondaries : WithinSize(t)'
<1>1. queue \in [Secondaries -> Seq(ToPrimary)] /\ \A t \in Secondaries : WithinSize(t)
  BY DEF TypeOK
<1>2. Cardinality(ToSet(q) \ {Join}) <= QueueSize
  BY <1>1, WithinSizeShrinks DEF WithinSize
<1> QED
  BY <1>1, <1>2, ExceptType DEF WithinSize

LEMMA TailType ==
  ASSUME TypeOK, NEW s \in Secondaries, queue[s] # <<>>, queue' = [queue EXCEPT ![s] = Tail(@)]
  PROVE  /\ queue' \in [Secondaries -> Seq(ToPrimary)]
         /\ \A t \in Secondaries : WithinSize(t)'
<1>1. queue[s] \in Seq(ToPrimary)
  BY DEF TypeOK
<1>2. Tail(queue[s]) \in Seq(ToPrimary) /\ ToSet(Tail(queue[s])) \subseteq ToSet(queue[s])
  BY <1>1, ToSetTail
<1> QED
  BY <1>2, QueueSet

LEMMA DequeueType ==
  ASSUME TypeOK, NEW s \in Secondaries, queue[s] # <<>>, Dequeue(s)
  PROVE  /\ queue' \in [Secondaries -> Seq(ToPrimary)]
         /\ \A t \in Secondaries : WithinSize(t)'
         /\ dropped' \in [Secondaries -> SUBSET (Nat \ {0})]
<1>1. queue[s] \in Seq(ToPrimary) /\ dropped \in [Secondaries -> SUBSET (Nat \ {0})]
  BY DEF TypeOK
<1>2. Head(queue[s]).n \in Nat
  BY <1>1, ToSetTail, Messages
<1>3. dropped[s] \cup ({Head(queue[s]).n} \ {0}) \in SUBSET (Nat \ {0})
  BY <1>1, <1>2
<1> QED
  BY <1>1, <1>3, ExceptType, TailType DEF Dequeue

LEMMA QueueStepType ==
  ASSUME TypeOK, NEW s \in Secondaries, QueueStep(s)
  PROVE  TypeOK'
<1>0. /\ waiting \in [Secondaries -> BOOLEAN] /\ notify \in [Secondaries -> BOOLEAN]
      /\ retries \in [Secondaries -> 0..MaxRetries] /\ MaxRetries \in Nat
      /\ toPrimary \in [Secondaries -> Seq(ToPrimary)]
      /\ queue \in [Secondaries -> Seq(ToPrimary)]
  BY ClusterAssumption DEF TypeOK
<1>1. /\ [waiting EXCEPT ![s] = TRUE] \in [Secondaries -> BOOLEAN]
      /\ [waiting EXCEPT ![s] = FALSE] \in [Secondaries -> BOOLEAN]
      /\ [notify EXCEPT ![s] = FALSE] \in [Secondaries -> BOOLEAN]
      /\ [retries EXCEPT ![s] = 0] \in [Secondaries -> 0..MaxRetries]
  BY <1>0
<1>2. CASE Send(s)
  <2>1. queue[s] # <<>> /\ (Dequeue(s) \/ UNCHANGED <<queue, dropped>>)
    BY <1>2 DEF Send
  <2>2. /\ queue' \in [Secondaries -> Seq(ToPrimary)]
        /\ \A t \in Secondaries : WithinSize(t)'
        /\ dropped' \in [Secondaries -> SUBSET (Nat \ {0})]
    BY <2>1, DequeueType DEF TypeOK, WithinSize
  <2>3. toPrimary' \in [Secondaries -> Seq(ToPrimary)]
    <3>1. Append(toPrimary[s], Head(queue[s])) \in Seq(ToPrimary)
      BY <1>0, <2>1, ToSetTail
    <3> QED
      BY <1>0, <1>2, <3>1, ExceptType DEF Send
  <2>4. /\ waiting' \in [Secondaries -> BOOLEAN] /\ notify' \in [Secondaries -> BOOLEAN]
        /\ retries' \in [Secondaries -> 0..MaxRetries]
    BY <1>0, <1>1, <1>2 DEF Send
  <2> QED
    BY <1>2, <2>2, <2>3, <2>4 DEF Send, TypeOK, server, client, primary
<1>3. CASE Notified(s)
  <2>1. /\ waiting' \in [Secondaries -> BOOLEAN] /\ notify' \in [Secondaries -> BOOLEAN]
        /\ retries' \in [Secondaries -> 0..MaxRetries]
    BY <1>1, <1>3 DEF Notified
  <2> QED
    BY <1>3, <2>1 DEF Notified, TypeOK, WithinSize, server, net, client, primary, history
<1>4. CASE Timeout(s)
  <2>1. (queue[s] # <<>> /\ Dequeue(s)) \/ UNCHANGED <<queue, dropped>>
    BY <1>4 DEF Timeout
  <2>2. /\ queue' \in [Secondaries -> Seq(ToPrimary)]
        /\ \A t \in Secondaries : WithinSize(t)'
        /\ dropped' \in [Secondaries -> SUBSET (Nat \ {0})]
    BY <2>1, DequeueType DEF TypeOK, WithinSize
  <2>3. retries' \in [Secondaries -> 0..MaxRetries]
    <3>1. \/ retries' = [retries EXCEPT ![s] = 0]
          \/ /\ retries' = [retries EXCEPT ![s] = retries[s] + 1]
             /\ ~(retries[s] + 1 > MaxRetries)
      BY <1>4 DEF Timeout, TooOften, CountRetry
    <3> QED
      BY <1>0, <1>1, <3>1
  <2>4. waiting' \in [Secondaries -> BOOLEAN]
    BY <1>1, <1>4 DEF Timeout
  <2> QED
    BY <1>4, <2>2, <2>3, <2>4 DEF Timeout, TypeOK, server, net, client, primary
<1> QED
  BY <1>2, <1>3, <1>4 DEF QueueStep

LEMMA ReceivesType ==
  ASSUME TypeOK, NEW s \in Secondaries, SecondaryReceives(s)
  PROVE  TypeOK'
<1> DEFINE m == Head(toSecondary[s])
<1>0. /\ expects \in [Secondaries -> BOOLEAN] /\ notify \in [Secondaries -> BOOLEAN]
      /\ secRace \in [Secondaries -> {"ready", "staging", "racing", "done"}]
      /\ toSecondary \in [Secondaries -> Seq(ToSecondary)]
      /\ queue \in [Secondaries -> Seq(ToPrimary)]
  BY DEF TypeOK
<1>1. /\ [expects EXCEPT ![s] = TRUE] \in [Secondaries -> BOOLEAN]
      /\ [notify EXCEPT ![s] = TRUE] \in [Secondaries -> BOOLEAN]
  BY <1>0
<1>2. toSecondary' \in [Secondaries -> Seq(ToSecondary)] /\ m \in ToSecondary
  <2>1. toSecondary[s] # <<>> /\ toSecondary' = [toSecondary EXCEPT ![s] = Tail(toSecondary[s])]
    BY DEF SecondaryReceives
  <2> QED
    BY <1>0, <2>1, ToSetTail, ExceptType
<1> HIDE DEF m
<1>3. CASE ReceiveAck(s, m) /\ UNCHANGED secRace
  <2>1. \/ queue[s] # <<>> /\ queue' = [queue EXCEPT ![s] = Tail(@)]
        \/ UNCHANGED queue
    BY <1>3 DEF ReceiveAck, Acks
  <2>2. /\ queue' \in [Secondaries -> Seq(ToPrimary)]
        /\ \A t \in Secondaries : WithinSize(t)'
    BY <2>1, TailType DEF TypeOK, WithinSize
  <2>3. expects' \in [Secondaries -> BOOLEAN] /\ notify' \in [Secondaries -> BOOLEAN]
    BY <1>0, <1>1, <1>3 DEF ReceiveAck
  <2> QED
    BY <1>2, <1>3, <2>2, <2>3 DEF SecondaryReceives, ReceiveAck, TypeOK, client, primary, history
<1>4. CASE PutJoin(s)
  <2>1. <<Join>> \o queue[s] \in Seq(ToPrimary)
        /\ ToSet(<<Join>> \o queue[s]) \subseteq ToSet(queue[s]) \cup {Join}
    BY <1>0, Messages, ToSetPut
  <2>2. queue' = [queue EXCEPT ![s] = <<Join>> \o queue[s]]
    BY <1>4 DEF PutJoin
  <2>3. /\ queue' \in [Secondaries -> Seq(ToPrimary)]
        /\ \A t \in Secondaries : WithinSize(t)'
    BY <2>1, <2>2, QueueSet
  <2>4. notify' \in [Secondaries -> BOOLEAN]
    BY <1>0, <1>1, <1>4 DEF PutJoin
  <2> QED
    BY <1>2, <1>4, <2>3, <2>4 DEF SecondaryReceives, PutJoin, TypeOK, client, primary, history
<1>5. CASE /\ m.type \notin {"ack", "join_cluster_ex"}
           /\ secRace' = [secRace EXCEPT ![s] = Obey(m.type, @)] /\ UNCHANGED queues
  <2>1. m.type \in {"stage_race", "stop_race", "save_laps", "discard_laps"}
    BY <1>2, <1>5 DEF ToSecondary, Commands
  <2>2. Obey(m.type, secRace[s]) \in {"ready", "staging", "racing", "done"}
    BY <2>1 DEF Obey
  <2>3. secRace' \in [Secondaries -> {"ready", "staging", "racing", "done"}]
    BY <1>0, <1>5, <2>2, ExceptType
  <2> QED
    BY <1>2, <1>5, <2>3 DEF SecondaryReceives, TypeOK, WithinSize, queues, client, primary, history
<1> QED
  BY <1>3, <1>4, <1>5 DEF SecondaryReceives, ReceiveAck, m

LEMMA StartsType ==
  ASSUME TypeOK, NEW s \in Secondaries, SecondaryStarts(s)
  PROVE  TypeOK'
<1>1. secRace' \in [Secondaries -> {"ready", "staging", "racing", "done"}]
  BY DEF SecondaryStarts, TypeOK
<1> QED
  BY <1>1 DEF SecondaryStarts, TypeOK, WithinSize, queues, net, client, primary, history

\* What on_connect sends, and a list of messages sent to all.
LEMMA GreetingType == Greeting \in Seq(ToSecondary)
<1>1. Msg("join_cluster_ex", 0) \in ToSecondary /\ Msg("stage_race", 0) \in ToSecondary
  BY Messages DEF Commands
<1>2. /\ <<Msg("join_cluster_ex", 0)>> \in Seq(ToSecondary)
      /\ <<Msg("stage_race", 0)>> \in Seq(ToSecondary) /\ <<>> \in Seq(ToSecondary)
  BY <1>1
<1> QED
  BY <1>2 DEF Greeting

LEMMA EmitAllType ==
  ASSUME TypeOK, NEW ms \in Seq(ToSecondary), EmitAll(ms)
  PROVE  toSecondary' \in [Secondaries -> Seq(ToSecondary)]
<1>1. \A s \in Secondaries :
        toSecondary[s] \in Seq(ToSecondary) /\ toSecondary[s] \o ms \in Seq(ToSecondary)
  BY DEF TypeOK
<1> QED
  BY <1>1 DEF EmitAll

LEMMA OnDisconnectType ==
  ASSUME TypeOK, NEW s \in Secondaries, OnDisconnect(s)
  PROVE  /\ contact' \in [Secondaries -> BOOLEAN] /\ known' \in [Secondaries -> BOOLEAN]
         /\ running' = running
<1>1. contact \in [Secondaries -> BOOLEAN] /\ known \in [Secondaries -> BOOLEAN]
  BY DEF TypeOK
<1> QED
  BY <1>1 DEF OnDisconnect

LEMMA ClientStepType ==
  ASSUME TypeOK, NEW s \in Secondaries, ClientStep(s)
  PROVE  TypeOK'
<1>0. /\ contact \in [Secondaries -> BOOLEAN] /\ known \in [Secondaries -> BOOLEAN]
      /\ running \in [Secondaries -> BOOLEAN]
      /\ link \in [Secondaries -> {"up", "stuck", "closing", "down"}]
      /\ toSecondary \in [Secondaries -> Seq(ToSecondary)]
      /\ toPrimary \in [Secondaries -> Seq(ToPrimary)]
  BY DEF TypeOK
<1>1. CASE Connect(s)
  <2>1. toSecondary[s] \o Greeting \in Seq(ToSecondary)
    BY <1>0, GreetingType
  <2>2. toSecondary' \in [Secondaries -> Seq(ToSecondary)]
    BY <1>0, <1>1, <2>1, ExceptType DEF Connect
  <2>3. /\ contact' \in [Secondaries -> BOOLEAN]
        /\ link' \in [Secondaries -> {"up", "stuck", "closing", "down"}]
    BY <1>0, <1>1 DEF Connect
  <2> QED
    BY <1>1, <2>2, <2>3
       DEF Connect, TypeOK, WithinSize, queues, server, primary, history
<1>2. CASE GiveUp(s)
  <2>1. running' \in [Secondaries -> BOOLEAN]
    BY <1>0, <1>2 DEF GiveUp
  <2> QED
    BY <1>2, <2>1 DEF GiveUp, TypeOK, WithinSize, queues, server, net, primary, history
<1>3. CASE RetrySecondary(s)
  <2>1. /\ running' \in [Secondaries -> BOOLEAN] /\ contact' \in [Secondaries -> BOOLEAN]
        /\ known' \in [Secondaries -> BOOLEAN]
    BY <1>0, <1>3 DEF RetrySecondary
  <2> QED
    BY <1>3, <2>1 DEF RetrySecondary, TypeOK, WithinSize, queues, server, net, primary, history
<1>4. CASE WorkerSeesDown(s)
  BY <1>4, OnDisconnectType
     DEF WorkerSeesDown, TypeOK, WithinSize, queues, server, net, primary, history
<1>5. CASE QueryTimeout(s)
  <2>1. link' \in [Secondaries -> {"up", "stuck", "closing", "down"}]
    BY <1>0, <1>5 DEF QueryTimeout
  <2>2. faults' \in 0..MaxFaults
    BY SMTT(30), <1>5, ClusterAssumption DEF QueryTimeout, Fault, TypeOK
  <2> QED
    BY <1>5, <2>1, <2>2, OnDisconnectType
       DEF QueryTimeout, TypeOK, WithinSize, queues, server, primary, history
<1>6. CASE PrimaryReceives(s)
  <2> DEFINE m == Head(toPrimary[s])
  <2>1. m \in ToPrimary /\ toPrimary' \in [Secondaries -> Seq(ToPrimary)]
    <3>1. toPrimary[s] # <<>> /\ toPrimary' = [toPrimary EXCEPT ![s] = Tail(toPrimary[s])]
      BY <1>6 DEF PrimaryReceives
    <3> QED
      BY <1>0, <3>1, ToSetTail, ExceptType
  <2>2. toSecondary' \in [Secondaries -> Seq(ToSecondary)]
    <3>1. Msg("ack", m.n) \in ToSecondary
      BY <2>1, Messages
    <3>2. Append(toSecondary[s], Msg("ack", m.n)) \in Seq(ToSecondary)
      BY <1>0, <3>1
    <3> QED
      BY <1>0, <1>6, <3>2, ExceptType DEF PrimaryReceives
  <2>3. (m # Join /\ OnPassRecord(s, m)) \/ UNCHANGED <<contact, splits, seen, last>>
    BY <1>6 DEF PrimaryReceives
  <2> HIDE DEF m
  <2>4. /\ contact' \in [Secondaries -> BOOLEAN]
        /\ seen' \in [Secondaries -> SUBSET (Nat \ {0})] /\ last' \in [Secondaries -> Nat]
        /\ splits' \in [0..MaxLaps -> Seq(Secondaries)]
    <3>1. CASE UNCHANGED <<contact, splits, seen, last>>
      BY <3>1 DEF TypeOK
    <3>2. CASE m # Join /\ OnPassRecord(s, m)
      <4>1. m.n \in Nat \ {0}
        BY <2>1, <3>2, Messages
      <4>2. /\ seen \in [Secondaries -> SUBSET (Nat \ {0})] /\ last \in [Secondaries -> Nat]
            /\ splits \in [0..MaxLaps -> Seq(Secondaries)]
        BY DEF TypeOK
      <4>3. seen[s] \cup {m.n} \in SUBSET (Nat \ {0})
        BY <4>1, <4>2
      <4>4. /\ contact' \in [Secondaries -> BOOLEAN]
            /\ seen' \in [Secondaries -> SUBSET (Nat \ {0})] /\ last' \in [Secondaries -> Nat]
        BY <1>0, <3>2, <4>1, <4>2, <4>3, ExceptType DEF OnPassRecord
      <4>5. CurrentLap \in 0..MaxLaps
        BY ClusterAssumption DEF CurrentLap, TypeOK
      <4>6. Append(splits[CurrentLap], s) \in Seq(Secondaries)
        BY <4>2, <4>5
      <4>7. \/ splits' = splits
            \/ splits' = [splits EXCEPT ![CurrentLap] = Append(splits[CurrentLap], s)]
        BY <3>2 DEF OnPassRecord
      <4>8. splits' \in [0..MaxLaps -> Seq(Secondaries)]
        BY ZenonT(40), <4>2, <4>5, <4>6, <4>7, ExceptType, Zenon
      <4> QED
        BY <4>4, <4>8
    <3> QED
      BY <2>3, <3>1, <3>2
  <2> QED
    BY <1>6, <2>1, <2>2, <2>4 DEF PrimaryReceives, TypeOK, WithinSize, queues, server
<1> QED
  BY <1>1, <1>2, <1>3, <1>4, <1>5, <1>6 DEF ClientStep

LEMMA NetworkStepType ==
  ASSUME TypeOK, NEW s \in Secondaries, NetworkStep(s)
  PROVE  TypeOK'
<1>0. /\ link \in [Secondaries -> {"up", "stuck", "closing", "down"}]
      /\ toSecondary \in [Secondaries -> Seq(ToSecondary)]
      /\ toPrimary \in [Secondaries -> Seq(ToPrimary)]
  BY DEF TypeOK
<1>1. ASSUME \E i \in 0..Len(toPrimary[s]) :
               toPrimary' = [toPrimary EXCEPT ![s] = SubSeq(@, 1, i)]
      PROVE  toPrimary' \in [Secondaries -> Seq(ToPrimary)]
  <2> PICK i \in 0..Len(toPrimary[s]) :
               toPrimary' = [toPrimary EXCEPT ![s] = SubSeq(toPrimary[s], 1, i)]
    BY <1>1
  <2> QED
    BY <1>0, ToSetCut, ExceptType
<1>2. ASSUME \E i \in 0..Len(toSecondary[s]) :
               toSecondary' = [toSecondary EXCEPT ![s] = SubSeq(@, 1, i)]
      PROVE  toSecondary' \in [Secondaries -> Seq(ToSecondary)]
  <2> PICK i \in 0..Len(toSecondary[s]) :
               toSecondary' = [toSecondary EXCEPT ![s] = SubSeq(toSecondary[s], 1, i)]
    BY <1>2
  <2> QED
    BY <1>0, ToSetCut, ExceptType
<1>3. ASSUME Fault(s) PROVE faults' \in 0..MaxFaults
  BY <1>3, ClusterAssumption DEF Fault, TypeOK
<1>4. CASE Break(s)
  <2>1. link' \in [Secondaries -> {"up", "stuck", "closing", "down"}]
    BY <1>0, <1>4 DEF Break
  <2>2. /\ toPrimary' \in [Secondaries -> Seq(ToPrimary)]
        /\ toSecondary' \in [Secondaries -> Seq(ToSecondary)] /\ faults' \in 0..MaxFaults
    BY <1>1, <1>2, <1>3, <1>4 DEF Break
  <2> QED
    BY <1>4, <2>1, <2>2
       DEF Break, TypeOK, WithinSize, queues, server, client, primary, history
<1>5. CASE Closed(s)
  <2>1. link' \in [Secondaries -> {"up", "stuck", "closing", "down"}]
    BY <1>0, <1>5 DEF Closed
  <2> QED
    BY <1>5, <2>1, OnDisconnectType
       DEF Closed, TypeOK, WithinSize, queues, server, primary, history
<1>6. CASE Restart(s)
  <2>1. link' \in [Secondaries -> {"up", "stuck", "closing", "down"}]
    BY <1>0, <1>6 DEF Restart
  <2>2. toPrimary' \in [Secondaries -> Seq(ToPrimary)] /\ faults' \in 0..MaxFaults
    BY <1>1, <1>3, <1>6 DEF Restart
  <2>3. toSecondary' \in [Secondaries -> Seq(ToSecondary)]
    <3>1. <<>> \in Seq(ToSecondary) /\ toSecondary' = [toSecondary EXCEPT ![s] = <<>>]
      BY <1>6 DEF Restart
    <3> QED
      BY <1>0, <3>1, ExceptType
  <2>4. queue' \in [Secondaries -> Seq(ToPrimary)] /\ \A t \in Secondaries : WithinSize(t)'
    <3>1. <<>> \in Seq(ToPrimary) /\ ToSet(<<>>) = {}
      BY DEF ToSet
    <3> QED
      BY <1>6, <3>1, QueueSet DEF Restart
  <2>5. dropped' \in [Secondaries -> SUBSET (Nat \ {0})]
    <3>1. dropped \in [Secondaries -> SUBSET (Nat \ {0})] /\ queue[s] \in Seq(ToPrimary)
      BY DEF TypeOK
    <3>2. \A m \in ToSet(queue[s]) \ {Join} : m.n \in Nat \ {0}
      BY <3>1, Messages, InToSet DEF ToSet
    <3>3. dropped[s] \cup {m.n : m \in ToSet(queue[s]) \ {Join}} \in SUBSET (Nat \ {0})
      BY <3>1, <3>2
    <3> QED
      BY <1>6, <3>1, <3>3, ExceptType DEF Restart
  <2>6. /\ expects' \in [Secondaries -> BOOLEAN] /\ notify' \in [Secondaries -> BOOLEAN]
        /\ waiting' \in [Secondaries -> BOOLEAN]
    BY <1>6 DEF Restart, TypeOK
  <2>7. retries' \in [Secondaries -> 0..MaxRetries]
        /\ secRace' \in [Secondaries -> {"ready", "staging", "racing", "done"}]
    BY <1>6, ClusterAssumption DEF Restart, TypeOK
  <2> QED
    BY <1>6, <2>1, <2>2, <2>3, <2>4, <2>5, <2>6, <2>7 DEF Restart, TypeOK, client, primary
<1> QED
  BY <1>4, <1>5, <1>6 DEF NetworkStep

LEMMA RaceStepType ==
  ASSUME TypeOK, RaceStep
  PROVE  TypeOK'
<1>0. /\ laps \in 0..MaxLaps /\ requests \in 0..MaxRequests
      /\ MaxLaps \in Nat /\ MaxRequests \in Nat
      /\ race \in {"ready", "staging", "racing", "stopping", "done"}
  BY ClusterAssumption DEF TypeOK
<1>1. ASSUME Request PROVE requests' \in 0..MaxRequests
  BY <1>0, <1>1 DEF Request
<1>2. \A t \in Commands : <<Msg(t, 0)>> \in Seq(ToSecondary)
  BY Messages
<1>3. CASE Stage
  <2>1. splits' \in [0..MaxLaps -> Seq(Secondaries)]
    BY <1>3 DEF Stage, NoSplits
  <2>2. toSecondary' \in [Secondaries -> Seq(ToSecondary)]
    <3>1. CASE UNCHANGED toSecondary
      BY <3>1 DEF TypeOK
    <3>2. CASE EmitAll((IF race = "done" THEN <<Msg("discard_laps", 0)>> ELSE <<>>)
                     \o <<Msg("stage_race", 0)>>)
      <4>1. (IF race = "done" THEN <<Msg("discard_laps", 0)>> ELSE <<>>)
              \o <<Msg("stage_race", 0)>> \in Seq(ToSecondary)
        BY <1>2 DEF Commands
      <4> QED
        BY <3>2, <4>1, EmitAllType
    <3> QED
      BY <1>3, <3>1, <3>2 DEF Stage
  <2>3. /\ race' \in {"ready", "staging", "racing", "stopping", "done"}
        /\ laps' \in 0..MaxLaps
    BY <1>0, <1>3 DEF Stage
  <2>4. requests' \in 0..MaxRequests
    BY <1>1, <1>3 DEF Stage
  <2> QED
    BY <1>3, <2>1, <2>2, <2>3, <2>4 DEF Stage, TypeOK, WithinSize, queues, server, history
<1>4. CASE Start \/ Stopped
  BY <1>4 DEF Start, Stopped, TypeOK, WithinSize, queues, server, net, client, history
<1>5. CASE LapPass
  <2>1. laps' \in 0..MaxLaps
    BY <1>0, <1>5 DEF LapPass
  <2> QED
    BY <1>5, <2>1 DEF LapPass, TypeOK, WithinSize, queues, server, net, client, history
<1>6. CASE Stop
  <2>1. toSecondary' \in [Secondaries -> Seq(ToSecondary)]
    BY <1>2, <1>6, EmitAllType DEF Stop, Commands
  <2>2. race' \in {"ready", "staging", "racing", "stopping", "done"}
    BY <1>6 DEF Stop
  <2>3. requests' \in 0..MaxRequests
    BY <1>1, <1>6 DEF Stop
  <2> QED
    BY <1>6, <2>1, <2>2, <2>3 DEF Stop, TypeOK, WithinSize, queues, server, history
<1>7. CASE Clear
  <2>1. toSecondary' \in [Secondaries -> Seq(ToSecondary)]
    BY <1>2, <1>7, EmitAllType DEF Clear, Commands
  <2>2. requests' \in 0..MaxRequests
    BY <1>1, <1>7 DEF Clear
  <2>3. laps' \in 0..MaxLaps
    BY <1>0, <1>7 DEF Clear
  <2> QED
    BY <1>7, <2>1, <2>2, <2>3 DEF Clear, TypeOK, WithinSize, queues, server, history
<1> QED
  BY <1>3, <1>4, <1>5, <1>6, <1>7 DEF RaceStep

LEMMA TypeInit == Init => TypeOK
<1> SUFFICES ASSUME Init PROVE TypeOK
  OBVIOUS
<1>1. /\ Count \in Nat \ {0} /\ MaxLaps \in Nat /\ MaxRequests \in Nat /\ MaxFaults \in Nat
      /\ MaxRetries \in Nat /\ Joined \subseteq Secondaries /\ QueueSize \in Nat
      /\ PassesOf \in [Secondaries -> Nat]
  BY ClusterAssumption DEF Secondaries
<1>2. /\ queue \in [Secondaries -> Seq(ToPrimary)] /\ toPrimary \in [Secondaries -> Seq(ToPrimary)]
      /\ toSecondary \in [Secondaries -> Seq(ToSecondary)]
      /\ splits \in [0..MaxLaps -> Seq(Secondaries)]
  BY DEF Init, Nothing, NoSplits
<1>3. \A s \in Secondaries : WithinSize(s)
  <2>1. <<>> \in Seq(ToPrimary) /\ Len(<<>>) <= QueueSize
    BY <1>1
  <2>2. \A s \in Secondaries : queue[s] = <<>>
    BY DEF Init, Nothing
  <2> QED
    BY <2>1, <2>2, WithinSizeByLength DEF WithinSize
<1>4. /\ expects \in [Secondaries -> BOOLEAN] /\ notify \in [Secondaries -> BOOLEAN]
      /\ waiting \in [Secondaries -> BOOLEAN] /\ contact \in [Secondaries -> BOOLEAN]
      /\ known \in [Secondaries -> BOOLEAN] /\ running \in [Secondaries -> BOOLEAN]
  BY DEF Init, HaveJoined, No
<1>5. /\ retries \in [Secondaries -> 0..MaxRetries] /\ passes \in [Secondaries -> Nat]
      /\ \A s \in Secondaries : passes[s] <= PassesOf[s]
      /\ seen \in [Secondaries -> SUBSET (Nat \ {0})] /\ last \in [Secondaries -> Nat]
      /\ dropped \in [Secondaries -> SUBSET (Nat \ {0})]
  BY <1>1 DEF Init, Zero
<1>6. /\ secRace \in [Secondaries -> {"ready", "staging", "racing", "done"}]
      /\ link \in [Secondaries -> {"up", "stuck", "closing", "down"}]
      /\ race \in {"ready", "staging", "racing", "stopping", "done"}
      /\ laps \in 0..MaxLaps /\ requests \in 0..MaxRequests /\ faults \in 0..MaxFaults
  BY <1>1 DEF Init
<1> QED
  BY <1>2, <1>3, <1>4, <1>5, <1>6 DEF TypeOK

LEMMA TypeStep ==
  ASSUME TypeOK, [Next]_vars
  PROVE  TypeOK'
<1>1. CASE Next
  BY <1>1, PassType, QueueStepType, ReceivesType, StartsType, ClientStepType,
     NetworkStepType, RaceStepType DEF Next, SecondaryStep
<1>2. CASE UNCHANGED vars
  BY <1>2 DEF TypeOK, WithinSize, vars, queues, server, net, client, primary, history
<1> QED
  BY <1>1, <1>2

\* Every variable of the cluster keeps its type, and no queue holds more records
\* than its size, whatever breaks, restarts, times out and is put in front.
THEOREM TypeCorrect == Spec => []TypeOK
BY TypeInit, TypeStep, PTL DEF Spec

-----------------------------------------------------------------------------
(* Acknowledged passes have arrived.                                       *)

\* An ack on its way names a pass that the primary has handled.
AcksTrue == \A s \in Secondaries : \A m \in ToSet(toSecondary[s]) : m.n # 0 => m.n \in seen[s]

AckInv == AcksTrue /\ AckedArrived

\* The commands of the primary name no pass.
LEMMA CommandsNameNone ==
  /\ \A t \in Commands : /\ <<Msg(t, 0)>> \in Seq(ToSecondary)
                           /\ \A m \in ToSet(<<Msg(t, 0)>>) : m.n = 0
  /\ \A m \in ToSet(Greeting) : m.n = 0
<1>1. ASSUME NEW t \in Commands
      PROVE  /\ <<Msg(t, 0)>> \in Seq(ToSecondary)
             /\ ToSet(<<Msg(t, 0)>>) = {Msg(t, 0)} /\ Msg(t, 0).n = 0
  BY Messages, ToSetOne DEF Msg
<1>2. \A m \in ToSet(Greeting) : m.n = 0
  <2> DEFINE j == <<Msg("join_cluster_ex", 0)>>
             g == <<Msg("stage_race", 0)>>
  <2>1. /\ j \in Seq(ToSecondary) /\ g \in Seq(ToSecondary) /\ <<>> \in Seq(ToSecondary)
        /\ (\A m \in ToSet(j) : m.n = 0) /\ (\A m \in ToSet(g) : m.n = 0)
    BY <1>1 DEF Commands
  <2>2. Greeting = j \o g \/ Greeting = j \o <<>>
    BY DEF Greeting
  <2> HIDE DEF j, g
  <2> QED
    <3>1. /\ ToSet(j \o g) = ToSet(j) \cup ToSet(g)
          /\ ToSet(j \o <<>>) = ToSet(j) \cup ToSet(<<>>)
      BY ZenonT(40), <2>1, ToSetConcat, Zenon
    <3> QED
      BY <2>1, <2>2, <3>1, ToSetNone
<1> QED
  BY <1>1, <1>2

LEMMA EmitAllTrue ==
  ASSUME TypeOK, AcksTrue, NEW ms \in Seq(ToSecondary), \A m \in ToSet(ms) : m.n = 0,
         EmitAll(ms), UNCHANGED seen
  PROVE  AcksTrue'
<1>1. \A s \in Secondaries : toSecondary[s] \in Seq(ToSecondary)
  BY DEF TypeOK
<1>2. ASSUME NEW s \in Secondaries, NEW m \in ToSet(toSecondary'[s]), m.n # 0
      PROVE  m.n \in seen[s]
  <2>1. toSecondary'[s] = toSecondary[s] \o ms \/ toSecondary'[s] = toSecondary[s]
    BY DEF EmitAll
  <2>2. ToSet(toSecondary[s] \o ms) = ToSet(toSecondary[s]) \cup ToSet(ms)
    BY <1>1, ToSetConcat
  <2>3. m \in ToSet(toSecondary[s])
    BY <1>2, <2>1, <2>2
  <2> QED
    BY <1>2, <2>3 DEF AcksTrue
<1> QED
  BY <1>2 DEF AcksTrue

LEMMA AcksTrueStep ==
  ASSUME TypeOK, AcksTrue, Next
  PROVE  AcksTrue'
<1>0. \A s \in Secondaries :
        toSecondary[s] \in Seq(ToSecondary) /\ toPrimary[s] \in Seq(ToPrimary)
  BY DEF TypeOK
<1>1. CASE UNCHANGED <<toSecondary, seen>>
  BY <1>1 DEF AcksTrue
<1>2. ASSUME NEW s \in Secondaries, UNCHANGED seen, NEW q \in Seq(ToSecondary),
             toSecondary' = [toSecondary EXCEPT ![s] = q],
             \A m \in ToSet(q) : m \in ToSet(toSecondary[s]) \/ m.n = 0
      PROVE  AcksTrue'
  BY <1>2 DEF AcksTrue, TypeOK
<1>3. ASSUME NEW s \in Secondaries, SecondaryReceives(s)
      PROVE  AcksTrue'
  <2>1. toSecondary[s] # <<>> /\ toSecondary' = [toSecondary EXCEPT ![s] = Tail(toSecondary[s])]
        /\ UNCHANGED seen
    BY <1>3 DEF SecondaryReceives, history
  <2> QED
    BY ZenonT(40), <1>0, <1>2, <2>1, ToSetTail
<1>4. ASSUME NEW s \in Secondaries, Connect(s)
      PROVE  AcksTrue'
  <2>1. toSecondary' = [toSecondary EXCEPT ![s] = toSecondary[s] \o Greeting] /\ UNCHANGED seen
    BY <1>4 DEF Connect, history
  <2>2. /\ toSecondary[s] \o Greeting \in Seq(ToSecondary)
        /\ ToSet(toSecondary[s] \o Greeting) = ToSet(toSecondary[s]) \cup ToSet(Greeting)
    BY <1>0, GreetingType, ToSetConcat
  <2> QED
    BY <1>2, <2>1, <2>2, CommandsNameNone
<1>5. ASSUME NEW s \in Secondaries, PrimaryReceives(s)
      PROVE  AcksTrue'
  <2> DEFINE m == Head(toPrimary[s])
  <2>1. m \in ToPrimary
    BY <1>0, <1>5, ToSetTail DEF PrimaryReceives
  <2>2. Msg("ack", m.n) \in ToSecondary /\ Msg("ack", m.n).n = m.n
    BY <2>1, Messages DEF Msg
  <2>3. /\ seen \in [Secondaries -> SUBSET (Nat \ {0})]
        /\ seen' = [seen EXCEPT ![s] = seen[s] \cup {m.n}] \/ (m.n = 0 /\ UNCHANGED seen)
    BY <1>5, <2>1, Messages DEF TypeOK, PrimaryReceives, OnPassRecord, Join, Msg
  <2>4. toSecondary' = toSecondary
        \/ toSecondary' = [toSecondary EXCEPT ![s] = Append(toSecondary[s], Msg("ack", m.n))]
    BY <1>5 DEF PrimaryReceives
  <2> HIDE DEF m
  <2>5. ToSet(Append(toSecondary[s], Msg("ack", m.n)))
          = ToSet(toSecondary[s]) \cup {Msg("ack", m.n)}
    BY <1>0, <2>2, ToSetAppend
  <2>6. ASSUME NEW t \in Secondaries, NEW k \in ToSet(toSecondary'[t]), k.n # 0
        PROVE  k.n \in seen'[t]
    <3>1. seen[t] \subseteq seen'[t] /\ (m.n # 0 => m.n \in seen'[s])
      BY <2>3
    <3>2. k \in ToSet(toSecondary[t]) \/ (t = s /\ k = Msg("ack", m.n))
      <4>1. \/ toSecondary'[t] = toSecondary[t]
            \/ t = s /\ toSecondary'[t] = Append(toSecondary[s], Msg("ack", m.n))
        BY <2>4 DEF TypeOK
      <4> QED
        BY <2>5, <2>6, <4>1
    <3> QED
      BY <2>2, <2>6, <3>1, <3>2 DEF AcksTrue
  <2> QED
    BY <2>6 DEF AcksTrue
<1>6. ASSUME NEW s \in Secondaries, Break(s)
      PROVE  AcksTrue'
  <2> PICK i \in 0..Len(toSecondary[s]) :
        toSecondary' = [toSecondary EXCEPT ![s] = SubSeq(toSecondary[s], 1, i)]
    BY <1>6 DEF Break
  <2>1. UNCHANGED seen
    BY <1>6 DEF Break, history
  <2> QED
    BY ZenonT(40), <1>0, <1>2, <2>1, ToSetCut, Zenon
<1>7. ASSUME NEW s \in Secondaries, Restart(s)
      PROVE  AcksTrue'
  <2>1. /\ <<>> \in Seq(ToSecondary) /\ ToSet(<<>>) = {} /\ UNCHANGED seen
        /\ toSecondary' = [toSecondary EXCEPT ![s] = <<>>]
    BY <1>7, ToSetNone DEF Restart
  <2> QED
    BY <1>2, <2>1
<1>8. CASE RaceStep
  <2>1. CASE UNCHANGED <<toSecondary, seen>>
    BY <1>1, <2>1
  <2>2. ASSUME NEW t \in Commands, EmitAll(<<Msg(t, 0)>>), UNCHANGED seen
        PROVE  AcksTrue'
    BY <2>2, CommandsNameNone, EmitAllTrue
  <2>3. ASSUME EmitAll((IF race = "done" THEN <<Msg("discard_laps", 0)>> ELSE <<>>)
                     \o <<Msg("stage_race", 0)>>), UNCHANGED seen
        PROVE  AcksTrue'
    <3> DEFINE a == IF race = "done" THEN <<Msg("discard_laps", 0)>> ELSE <<>>
               b == <<Msg("stage_race", 0)>>
    <3>1. /\ a \in Seq(ToSecondary) /\ b \in Seq(ToSecondary)
          /\ \A m \in ToSet(a) \cup ToSet(b) : m.n = 0
      BY CommandsNameNone, ToSetNone DEF Commands
    <3> HIDE DEF a, b
    <3>2. a \o b \in Seq(ToSecondary) /\ \A m \in ToSet(a \o b) : m.n = 0
      BY <3>1, ToSetConcat
    <3> QED
      BY <2>3, <3>2, EmitAllTrue DEF a, b
  <2> QED
    BY <1>8, <2>1, <2>2, <2>3
       DEF RaceStep, Stage, Start, LapPass, Stop, Stopped, Clear, net, history, Commands
<1>9. ASSUME NEW s \in Secondaries,
             \/ QueueStep(s) \/ Pass(s) \/ SecondaryStarts(s) \/ GiveUp(s)
             \/ RetrySecondary(s) \/ WorkerSeesDown(s) \/ QueryTimeout(s) \/ Closed(s)
      PROVE  AcksTrue'
  <2>1. UNCHANGED <<toSecondary, seen>>
    BY <1>9 DEF QueueStep, Send, Notified, Timeout, Pass, SecondaryStarts, GiveUp,
       RetrySecondary, WorkerSeesDown, QueryTimeout, Closed, net, history
  <2> QED
    BY <1>1, <2>1
<1> QED
  BY <1>3, <1>4, <1>5, <1>6, <1>7, <1>8, <1>9
     DEF Next, SecondaryStep, ClientStep, NetworkStep

\* A step that makes no pass loses none if each record that leaves a queue is
\* handled or given up.
LEMMA NoneLost ==
  ASSUME AckedArrived, UNCHANGED passes,
         \A s \in Secondaries :
           /\ seen[s] \subseteq seen'[s] /\ dropped[s] \subseteq dropped'[s]
           /\ \A m \in ToSet(queue[s]) :
                m \in ToSet(queue'[s]) \/ m = Join \/ m.n \in seen'[s] \cup dropped'[s]
  PROVE  AckedArrived'
<1>1. ASSUME NEW s \in Secondaries, NEW n \in 1..passes[s]
      PROVE  n \in seen'[s] \cup dropped'[s] \/ Msg("pass_record", n) \in ToSet(queue'[s])
  <2>1. Msg("pass_record", n) # Join /\ Msg("pass_record", n).n = n
    BY DEF Msg, Join
  <2> QED
    BY <1>1, <2>1 DEF AckedArrived
<1> QED
  BY <1>1 DEF AckedArrived

LEMMA DequeueLosesNone ==
  ASSUME TypeOK, AckedArrived, NEW s \in Secondaries, queue[s] # <<>>, Dequeue(s),
         UNCHANGED <<passes, seen>>
  PROVE  AckedArrived'
<1>1. /\ queue \in [Secondaries -> Seq(ToPrimary)]
      /\ dropped \in [Secondaries -> SUBSET (Nat \ {0})]
  BY DEF TypeOK
<1>2. /\ ToSet(queue[s]) = ToSet(Tail(queue[s])) \cup {Head(queue[s])}
      /\ Head(queue[s]) \in ToPrimary
  BY <1>1, ToSetTail
<1>3. /\ queue'[s] = Tail(queue[s]) /\ dropped'[s] = dropped[s] \cup ({Head(queue[s]).n} \ {0})
      /\ \A t \in Secondaries \ {s} : queue'[t] = queue[t] /\ dropped'[t] = dropped[t]
  BY <1>1 DEF Dequeue
<1>4. Head(queue[s]) = Join \/ Head(queue[s]).n # 0
  BY <1>2, Messages
<1> QED
  BY <1>2, <1>3, <1>4, NoneLost

LEMMA AckedArrivedStep ==
  ASSUME TypeOK, AcksTrue, AckedArrived, Next
  PROVE  AckedArrived'
<1>0. /\ queue \in [Secondaries -> Seq(ToPrimary)] /\ passes \in [Secondaries -> Nat]
      /\ dropped \in [Secondaries -> SUBSET (Nat \ {0})]
      /\ seen \in [Secondaries -> SUBSET (Nat \ {0})]
      /\ toSecondary \in [Secondaries -> Seq(ToSecondary)]
  BY DEF TypeOK
<1>1. CASE UNCHANGED <<queue, passes, seen, dropped>>
  BY <1>1 DEF AckedArrived
<1>2. ASSUME NEW s \in Secondaries, Pass(s)
      PROVE  AckedArrived'
  <2> DEFINE k == passes[s] + 1
             r == Msg("pass_record", k)
  <2>1. passes' = [passes EXCEPT ![s] = k] /\ UNCHANGED seen /\ k \in Nat \ {0} /\ r \in ToPrimary
    BY <1>0, <1>2, Messages DEF Pass
  <2>2. \/ queue' = [queue EXCEPT ![s] = Append(queue[s], r)] /\ UNCHANGED dropped
        \/ dropped' = [dropped EXCEPT ![s] = dropped[s] \cup {k}] /\ UNCHANGED queue
    BY <1>0, <1>2 DEF Pass, AddRecord
  <2>3. ToSet(Append(queue[s], r)) = ToSet(queue[s]) \cup {r}
    BY <1>0, <2>1, ToSetAppend
  <2>4. \A t \in Secondaries : ToSet(queue[t]) \subseteq ToSet(queue'[t])
                             /\ dropped[t] \subseteq dropped'[t]
    BY <1>0, <2>2, <2>3
  <2>5. k \in dropped'[s] \/ r \in ToSet(queue'[s])
    BY <1>0, <2>2, <2>3
  <2>6. ASSUME NEW t \in Secondaries, NEW n \in 1..passes'[t]
        PROVE  n \in 1..passes[t] \/ (t = s /\ n = k)
    BY <1>0, <2>1, <2>6
  <2> HIDE DEF k, r
  <2>7. ASSUME NEW t \in Secondaries, NEW n \in 1..passes'[t]
        PROVE  n \in seen'[t] \cup dropped'[t] \/ Msg("pass_record", n) \in ToSet(queue'[t])
    <3>1. CASE n \in 1..passes[t]
      BY <2>1, <2>4, <3>1 DEF AckedArrived
    <3>2. CASE t = s /\ n = k
      BY <2>5, <3>2 DEF r
    <3> QED
      BY <2>6, <2>7, <3>1, <3>2
  <2> QED
    BY <2>7 DEF AckedArrived
<1>3. ASSUME NEW s \in Secondaries, QueueStep(s)
      PROVE  AckedArrived'
  <2>1. /\ UNCHANGED <<passes, seen>>
        /\ (queue[s] # <<>> /\ Dequeue(s)) \/ UNCHANGED <<queue, dropped>>
    BY <1>3 DEF QueueStep, Send, Notified, Timeout, server, history
  <2> QED
    BY <1>1, <2>1, DequeueLosesNone
<1>4. ASSUME NEW s \in Secondaries, SecondaryReceives(s)
      PROVE  AckedArrived'
  <2> DEFINE m == Head(toSecondary[s])
  <2>1. m \in ToSet(toSecondary[s]) /\ m \in ToSecondary
    BY <1>0, <1>4, ToSetTail DEF SecondaryReceives
  <2>2. UNCHANGED <<passes, seen, dropped>>
    BY <1>4 DEF SecondaryReceives, history
  <2>3. ReceiveAck(s, m) \/ PutJoin(s) \/ UNCHANGED queue
    BY <1>4 DEF SecondaryReceives, queues
  <2> HIDE DEF m
  <2>4. CASE ReceiveAck(s, m)
    <3>1. CASE UNCHANGED queue
      BY <1>1, <2>2, <3>1
    <3>2. CASE Acks(m, queue[s]) /\ queue' = [queue EXCEPT ![s] = Tail(queue[s])]
      <4>1. /\ ToSet(queue[s]) = ToSet(Tail(queue[s])) \cup {Head(queue[s])}
            /\ Head(queue[s]).n = m.n /\ m.n # 0
        BY <1>0, <2>1, <3>2, ToSetTail DEF Acks, Msg, ToSecondary
      <4>2. m.n \in seen[s]
        BY <2>1, <4>1 DEF AcksTrue
      <4>3. queue'[s] = Tail(queue[s]) /\ \A t \in Secondaries \ {s} : queue'[t] = queue[t]
        BY <1>0, <3>2
      <4> QED
        BY <2>2, <4>1, <4>2, <4>3, NoneLost
    <3> QED
      BY <2>4, <3>1, <3>2 DEF ReceiveAck
  <2>5. CASE PutJoin(s)
    <3>1. ToSet(<<Join>> \o queue[s]) = ToSet(queue[s]) \cup {Join}
      BY <1>0, Messages, ToSetPut
    <3>2. queue' = [queue EXCEPT ![s] = <<Join>> \o queue[s]]
      BY <2>5 DEF PutJoin
    <3>3. queue'[s] = <<Join>> \o queue[s] /\ \A t \in Secondaries \ {s} : queue'[t] = queue[t]
      BY <1>0, <3>2
    <3> QED
      BY <2>2, <3>1, <3>3, NoneLost
  <2> QED
    BY <1>1, <2>2, <2>3, <2>4, <2>5
<1>5. ASSUME NEW s \in Secondaries, PrimaryReceives(s)
      PROVE  AckedArrived'
  <2>1. UNCHANGED <<queue, passes, dropped>>
    BY <1>5 DEF PrimaryReceives, queues, server
  <2>2. \A t \in Secondaries : seen[t] \subseteq seen'[t]
    BY <1>0, <1>5 DEF PrimaryReceives, OnPassRecord
  <2> QED
    BY <2>1, <2>2, NoneLost
<1>6. ASSUME NEW s \in Secondaries, Restart(s)
      PROVE  AckedArrived'
  <2>1. UNCHANGED <<passes, seen>>
    BY <1>6 DEF Restart
  <2>2. /\ dropped'[s] = dropped[s] \cup {m.n : m \in ToSet(queue[s]) \ {Join}}
        /\ \A t \in Secondaries \ {s} : queue'[t] = queue[t] /\ dropped'[t] = dropped[t]
    BY <1>0, <1>6 DEF Restart
  <2> QED
    BY <2>1, <2>2, NoneLost
<1>7. ASSUME \/ RaceStep
             \/ \E s \in Secondaries :
                  \/ SecondaryStarts(s) \/ Connect(s) \/ GiveUp(s) \/ RetrySecondary(s)
                  \/ WorkerSeesDown(s) \/ QueryTimeout(s) \/ Break(s) \/ Closed(s)
      PROVE  AckedArrived'
  <2>1. UNCHANGED <<queue, passes, seen, dropped>>
    BY <1>7 DEF RaceStep, Stage, Start, LapPass, Stop, Stopped, Clear, SecondaryStarts,
       Connect, GiveUp, RetrySecondary, WorkerSeesDown, QueryTimeout, Break, Closed,
       queues, server, history
  <2> QED
    BY <1>1, <2>1
<1> QED
  BY <1>2, <1>3, <1>4, <1>5, <1>6, <1>7
     DEF Next, SecondaryStep, ClientStep, NetworkStep

\* A pass record is handled by the primary, still queued, or given up: an ack
\* never takes one from the queue that the primary has not handled, whatever
\* breaks, restarts, times out and is sent again.
THEOREM AckedArrivedSafe == Spec => []AckedArrived
<1>1. Init => AckInv
  BY ToSetNone DEF Init, Zero, Nothing, AckInv, AcksTrue, AckedArrived
<1>2. TypeOK /\ AckInv /\ [Next]_vars => AckInv'
  <2>1. AckInv /\ UNCHANGED vars => AckInv'
    BY DEF AckInv, AcksTrue, AckedArrived, vars, queues, server, net, history
  <2> QED
    BY <2>1, AcksTrueStep, AckedArrivedStep DEF AckInv
<1>3. AckInv => AckedArrived
  BY DEF AckInv
<1> QED
  BY <1>1, <1>2, <1>3, TypeCorrect, PTL DEF Spec

-----------------------------------------------------------------------------
(* Splits.                                                                 *)

LEMMA SplitsStep ==
  ASSUME TypeOK, SplitsConsecutive, Next
  PROVE  SplitsConsecutive'
<1>1. CASE UNCHANGED splits
  BY <1>1 DEF SplitsConsecutive
<1>2. CASE splits' = NoSplits
  BY <1>2 DEF SplitsConsecutive, NoSplits
<1>3. ASSUME NEW s \in Secondaries, Fits(s),
             splits' = [splits EXCEPT ![CurrentLap] = Append(splits[CurrentLap], s)]
      PROVE  SplitsConsecutive'
  <2> DEFINE c == CurrentLap
             q == splits[c]
  <2>1. c \in 0..MaxLaps /\ splits \in [0..MaxLaps -> Seq(Secondaries)]
    BY ClusterAssumption DEF CurrentLap, TypeOK
  <2>2. q \in Seq(Secondaries) /\ s = IF q = <<>> THEN 0 ELSE q[Len(q)] + 1
    BY <1>3, <2>1 DEF Fits, Last
  <2>3. \A i \in 1..Len(q) : q[i] = i - 1
    BY <2>1 DEF SplitsConsecutive
  <2>4. splits'[c] = Append(q, s) /\ \A l \in 0..MaxLaps \ {c} : splits'[l] = splits[l]
    BY <1>3, <2>1
  <2> HIDE DEF c, q
  <2>5. s = Len(q)
    BY <2>2, <2>3
  <2>6. \A i \in 1..Len(Append(q, s)) : Append(q, s)[i] = i - 1
    BY <2>2, <2>3, <2>5
  <2> QED
    BY <2>4, <2>6 DEF SplitsConsecutive
<1>4. ASSUME NEW s \in Secondaries, PrimaryReceives(s)
      PROVE  SplitsConsecutive'
  BY <1>1, <1>3, <1>4 DEF PrimaryReceives, OnPassRecord
<1>5. ASSUME NEW s \in Secondaries,
             \/ QueueStep(s) \/ SecondaryStep(s) \/ NetworkStep(s)
             \/ Connect(s) \/ GiveUp(s) \/ RetrySecondary(s) \/ WorkerSeesDown(s) \/ QueryTimeout(s)
      PROVE  UNCHANGED splits
  BY <1>5 DEF QueueStep, Send, Notified, Timeout, SecondaryStep, Pass, SecondaryReceives,
     SecondaryStarts, NetworkStep, Break, Closed, Restart, Connect, GiveUp, RetrySecondary,
     WorkerSeesDown, QueryTimeout, primary
<1>6. CASE RaceStep
  BY <1>1, <1>2, <1>6 DEF RaceStep, Stage, Start, LapPass, Stop, Stopped, Clear
<1> QED
  BY <1>1, <1>4, <1>5, <1>6 DEF Next, ClientStep

\* The splits of every lap are those of the first gates, each once and in order,
\* whatever arrives late, twice or not at all.
THEOREM SplitsSafe == Spec => []SplitsConsecutive
<1>1. Init => SplitsConsecutive
  BY DEF Init, NoSplits, SplitsConsecutive
<1>2. TypeOK /\ SplitsConsecutive /\ [Next]_vars => SplitsConsecutive'
  <2>1. SplitsConsecutive /\ UNCHANGED vars => SplitsConsecutive'
    BY DEF SplitsConsecutive, vars, primary
  <2> QED
    BY <2>1, SplitsStep
<1> QED
  BY <1>1, <1>2, TypeCorrect, PTL DEF Spec

-----------------------------------------------------------------------------
(* Secondaries take part.                                                  *)

Endings == {"stop_race", "save_laps", "discard_laps"}

\* A secondary in the race st that handles the messages q takes part after them.
TakesPart(st, q) ==
  \/ st \in {"staging", "racing"} /\ \A i \in 1..Len(q) : q[i].type \notin Endings
  \/ \E i \in 1..Len(q) :
       q[i].type = "stage_race" /\ \A j \in i+1..Len(q) : q[j].type \notin Endings

\* A worker that gave up has no connection, a live connection is contact, and a
\* secondary with a live connection takes part once it has handled what is under
\* way.
PartHolds ==
  \A s \in Secondaries :
    /\ ~running[s] => link[s] = "down"
    /\ link[s] = "up" => contact[s]
    /\ race \in {"staging", "racing"} /\ link[s] = "up"
         => TakesPart(secRace[s], toSecondary[s])

\* Messages that end no race leave a secondary in it; a stage request at the end
\* brings it in.
LEMMA TakesPartAppend ==
  ASSUME NEW st, NEW q \in Seq(ToSecondary), NEW r \in Seq(ToSecondary),
         TakesPart(st, q), \A i \in 1..Len(r) : r[i].type \notin Endings
  PROVE  TakesPart(st, q \o r)
<1> DEFINE c == q \o r
<1>1. /\ Len(q) \in Nat /\ Len(r) \in Nat /\ Len(c) = Len(q) + Len(r)
      /\ \A i \in 1..Len(q) : c[i] = q[i]
      /\ \A i \in 1..Len(c) : i > Len(q) => c[i] = r[i - Len(q)] /\ i - Len(q) \in 1..Len(r)
  OBVIOUS
<1> HIDE DEF c
<1>2. ASSUME NEW k \in Nat, \A j \in k+1..Len(q) : q[j].type \notin Endings
      PROVE  \A j \in k+1..Len(c) : c[j].type \notin Endings
  BY <1>1, <1>2
<1>3. CASE st \in {"staging", "racing"} /\ \A i \in 1..Len(q) : q[i].type \notin Endings
  <2>1. \A i \in 0+1..Len(q) : q[i].type \notin Endings
    BY <1>3
  <2>2. \A i \in 0+1..Len(c) : c[i].type \notin Endings
    BY <1>2, <2>1
  <2> QED
    BY <1>3, <2>2 DEF TakesPart, c
<1>4. ASSUME NEW i \in 1..Len(q), q[i].type = "stage_race",
             \A j \in i+1..Len(q) : q[j].type \notin Endings
      PROVE  TakesPart(st, q \o r)
  <2>1. i \in 1..Len(c) /\ c[i].type = "stage_race"
    BY <1>1, <1>4
  <2>2. i \in Nat
    BY <1>1
  <2>3. \A j \in i+1..Len(c) : c[j].type \notin Endings
    BY <1>2, <1>4, <2>2
  <2> QED
    BY <2>1, <2>3 DEF TakesPart, c
<1> QED
  BY <1>3, <1>4 DEF TakesPart

LEMMA TakesPartStaged ==
  ASSUME NEW st, NEW q \in Seq(ToSecondary)
  PROVE  TakesPart(st, q \o <<Msg("stage_race", 0)>>)
<1> DEFINE c == q \o <<Msg("stage_race", 0)>>
<1>1. Len(c) = Len(q) + 1 /\ c[Len(c)] = Msg("stage_race", 0) /\ Len(q) \in Nat
  OBVIOUS
<1> HIDE DEF c
<1>2. Len(c) \in 1..Len(c) /\ c[Len(c)].type = "stage_race"
      /\ \A j \in Len(c)+1..Len(c) : c[j].type \notin Endings
  BY <1>1 DEF Msg
<1> QED
  BY <1>2 DEF TakesPart, c

LEMMA TakesPartHandled ==
  ASSUME NEW st, NEW st2, NEW q \in Seq(ToSecondary), q # <<>>, TakesPart(st, q),
         \/ Head(q).type \in {"ack", "join_cluster_ex"} /\ st2 = st
         \/ Head(q).type \notin {"ack", "join_cluster_ex"} /\ st2 = Obey(Head(q).type, st)
  PROVE  TakesPart(st2, Tail(q))
<1> DEFINE r == Tail(q)
<1>1. /\ Len(q) \in Nat /\ Len(q) > 0 /\ Len(r) = Len(q) - 1
      /\ Head(q) = q[1] /\ Head(q) \in ToSecondary
      /\ \A i \in 1..Len(r) : r[i] = q[i + 1] /\ i + 1 \in 1..Len(q)
  OBVIOUS
<1> HIDE DEF r
<1>2. Head(q).type = "stage_race" => st2 \in {"staging", "racing"}
  BY DEF Obey
<1>3. Head(q).type \notin Endings /\ st \in {"staging", "racing"} => st2 \in {"staging", "racing"}
  BY <1>1, <1>2 DEF ToSecondary, Commands, Endings
<1>4. CASE st \in {"staging", "racing"} /\ \A i \in 1..Len(q) : q[i].type \notin Endings
  <2>1. st2 \in {"staging", "racing"}
    BY <1>1, <1>3, <1>4
  <2>2. \A i \in 1..Len(r) : r[i].type \notin Endings
    BY <1>1, <1>4
  <2> QED
    BY <2>1, <2>2 DEF TakesPart, r
<1>5. ASSUME NEW i \in 1..Len(q), q[i].type = "stage_race",
             \A j \in i+1..Len(q) : q[j].type \notin Endings
      PROVE  TakesPart(st2, r)
  <2>1. CASE i = 1
    <3>1. st2 \in {"staging", "racing"}
      BY <1>1, <1>2, <1>5, <2>1
    <3>2. \A j \in 1..Len(r) : r[j].type \notin Endings
      BY <1>1, <1>5, <2>1
    <3> QED
      BY <3>1, <3>2 DEF TakesPart
  <2>2. CASE i # 1
    <3>1. i - 1 \in 1..Len(r) /\ r[i - 1] = q[i]
      BY <1>1, <2>2
    <3>2. \A j \in (i-1)+1..Len(r) : r[j].type \notin Endings
      BY <1>1, <1>5, <2>2
    <3> QED
      BY <1>5, <3>1, <3>2 DEF TakesPart
  <2> QED
    BY <2>1, <2>2
<1> QED
  BY <1>4, <1>5 DEF TakesPart, r

\* An emit whose messages end no race.
LEMMA TakesPartAck ==
  ASSUME NEW st, NEW q \in Seq(ToSecondary), NEW m \in ToSecondary, m.type \notin Endings,
         TakesPart(st, q)
  PROVE  TakesPart(st, Append(q, m))
<1>1. <<m>> \in Seq(ToSecondary) /\ \A i \in 1..Len(<<m>>) : <<m>>[i].type \notin Endings
  OBVIOUS
<1>2. Append(q, m) = q \o <<m>>
  OBVIOUS
<1> QED
  BY <1>1, <1>2, TakesPartAppend

LEMMA PartHoldsStep ==
  ASSUME TypeOK, PartHolds, Next
  PROVE  PartHolds'
<1>0. /\ running \in [Secondaries -> BOOLEAN] /\ contact \in [Secondaries -> BOOLEAN]
      /\ link \in [Secondaries -> {"up", "stuck", "closing", "down"}]
      /\ toSecondary \in [Secondaries -> Seq(ToSecondary)]
      /\ toPrimary \in [Secondaries -> Seq(ToPrimary)]
      /\ secRace \in [Secondaries -> {"ready", "staging", "racing", "done"}]
      /\ race \in {"ready", "staging", "racing", "stopping", "done"}
  BY DEF TypeOK
<1>1. CASE UNCHANGED <<running, link, contact, race, secRace, toSecondary>>
  BY <1>1 DEF PartHolds
<1>2. ASSUME NEW s \in Secondaries, Connect(s)
      PROVE  PartHolds'
  <2> DEFINE j == <<Msg("join_cluster_ex", 0)>>
             g == <<Msg("stage_race", 0)>>
  <2>1. /\ link'[s] = "up" /\ contact'[s] /\ toSecondary'[s] = toSecondary[s] \o Greeting
        /\ running[s] /\ UNCHANGED <<running, race, secRace>>
        /\ \A t \in Secondaries \ {s} :
             link'[t] = link[t] /\ contact'[t] = contact[t] /\ toSecondary'[t] = toSecondary[t]
    BY <1>0, <1>2 DEF Connect, server, primary
  <2>2. race \in {"staging", "racing"} => TakesPart(secRace[s], toSecondary[s] \o Greeting)
    <3>1. /\ j \in Seq(ToSecondary) /\ g \in Seq(ToSecondary)
          /\ toSecondary[s] \o (j \o g) = (toSecondary[s] \o j) \o g
      BY <1>0, CommandsNameNone DEF Commands
    <3>2. toSecondary[s] \o j \in Seq(ToSecondary)
      BY <1>0, <3>1
    <3>3. race \in {"staging", "racing"} => Greeting = j \o g
      BY DEF Greeting
    <3> HIDE DEF j
    <3> QED
      BY <3>1, <3>2, <3>3, TakesPartStaged
  <2> QED
    BY <2>1, <2>2 DEF PartHolds
<1>3. ASSUME NEW s \in Secondaries, GiveUp(s) \/ RetrySecondary(s)
      PROVE  PartHolds'
  <2>1. /\ \A t \in Secondaries \ {s} : running'[t] = running[t] /\ contact'[t] = contact[t]
        /\ link[s] # "up" /\ ~running'[s] => link[s] = "down"
        /\ UNCHANGED <<link, race, secRace, toSecondary>>
    BY <1>0, <1>3 DEF GiveUp, RetrySecondary, PartHolds, server, net, primary
  <2>2. link[s] # "up" /\ (~running'[s] => link[s] = "down")
    BY <1>0, <1>3 DEF GiveUp, RetrySecondary, PartHolds
  <2> QED
    BY <2>1, <2>2 DEF PartHolds
<1>4. ASSUME NEW s \in Secondaries, Closed(s) \/ WorkerSeesDown(s) \/ QueryTimeout(s)
      PROVE  PartHolds'
  <2>1. /\ \A t \in Secondaries \ {s} : link'[t] = link[t] /\ contact'[t] = contact[t]
        /\ link'[s] # "up" /\ UNCHANGED <<running, race, secRace, toSecondary>>
    BY <1>0, <1>4 DEF Closed, WorkerSeesDown, QueryTimeout, OnDisconnect, server, primary, net
  <2>2. ~running[s] => link'[s] = "down"
    BY <1>0, <1>4 DEF Closed, WorkerSeesDown, QueryTimeout, PartHolds, net
  <2> QED
    BY <2>1, <2>2 DEF PartHolds
<1>5. ASSUME NEW s \in Secondaries, Break(s) \/ Restart(s)
      PROVE  PartHolds'
  <2>1. /\ \A t \in Secondaries \ {s} : /\ link'[t] = link[t] /\ secRace'[t] = secRace[t]
                                         /\ toSecondary'[t] = toSecondary[t]
        /\ UNCHANGED <<running, race, contact>>
    BY <1>0, <1>5 DEF Break, Restart, server, client, primary
  <2>2. link'[s] # "up" /\ (link'[s] = link[s] \/ link[s] = "up")
    BY <1>0, <1>5 DEF Break, Restart
  <2> QED
    BY <2>1, <2>2 DEF PartHolds
<1>6. ASSUME NEW s \in Secondaries, SecondaryReceives(s)
      PROVE  PartHolds'
  <2>1. /\ toSecondary[s] # <<>> /\ toSecondary'[s] = Tail(toSecondary[s])
        /\ \A t \in Secondaries \ {s} :
             toSecondary'[t] = toSecondary[t] /\ secRace'[t] = secRace[t]
        /\ UNCHANGED <<running, race, contact, link>>
    BY <1>0, <1>6 DEF SecondaryReceives, ReceiveAck, PutJoin, client, primary
  <2>2. \/ /\ Head(toSecondary[s]).type \in {"ack", "join_cluster_ex"}
           /\ secRace'[s] = secRace[s]
        \/ /\ Head(toSecondary[s]).type \notin {"ack", "join_cluster_ex"}
           /\ secRace'[s] = Obey(Head(toSecondary[s]).type, secRace[s])
    BY <1>0, <1>6 DEF SecondaryReceives, ReceiveAck, PutJoin
  <2>3. TakesPart(secRace[s], toSecondary[s]) => TakesPart(secRace'[s], Tail(toSecondary[s]))
    <3> DEFINE st == secRace[s]
               st2 == secRace'[s]
               q == toSecondary[s]
    <3>1. q \in Seq(ToSecondary) /\ q # <<>>
      BY <1>0, <2>1
    <3>2. \/ Head(q).type \in {"ack", "join_cluster_ex"} /\ st2 = st
          \/ Head(q).type \notin {"ack", "join_cluster_ex"} /\ st2 = Obey(Head(q).type, st)
      BY <2>2
    <3> HIDE DEF st, st2, q
    <3>3. SUFFICES ASSUME TakesPart(st, q) PROVE TakesPart(st2, Tail(q))
      BY DEF st, st2, q
    <3>4. q \in Seq(ToSecondary)
      BY <3>1
    <3>5. q # <<>>
      BY <3>1
    <3> QED
      BY <3>2, <3>3, <3>4, <3>5, TakesPartHandled
  <2> QED
    BY <2>1, <2>3 DEF PartHolds
<1>7. ASSUME NEW s \in Secondaries, SecondaryStarts(s)
      PROVE  PartHolds'
  <2>1. /\ \A t \in Secondaries \ {s} : secRace'[t] = secRace[t]
        /\ secRace'[s] = "racing" /\ secRace[s] = "staging"
        /\ UNCHANGED <<running, race, contact, link, toSecondary>>
    BY <1>0, <1>7 DEF SecondaryStarts, net, client, primary
  <2>2. TakesPart(secRace[s], toSecondary[s]) => TakesPart(secRace'[s], toSecondary[s])
    BY <2>1 DEF TakesPart
  <2> QED
    BY <2>1, <2>2 DEF PartHolds
<1>8. ASSUME NEW s \in Secondaries, PrimaryReceives(s)
      PROVE  PartHolds'
  <2> DEFINE m == Msg("ack", Head(toPrimary[s]).n)
  <2>1. m \in ToSecondary /\ m.type \notin Endings
    BY <1>0, <1>8, ToSetTail, Messages DEF PrimaryReceives, Msg, Endings
  <2> HIDE DEF m
  <2>2. /\ \A t \in Secondaries : contact'[t] = contact[t] \/ contact'[t] = TRUE
        /\ UNCHANGED <<running, race, link, secRace>>
    BY <1>0, <1>8 DEF PrimaryReceives, OnPassRecord, server
  <2>3. \A t \in Secondaries : toSecondary'[t] = toSecondary[t]
                             \/ toSecondary'[t] = Append(toSecondary[t], m)
    BY <1>0, <1>8 DEF PrimaryReceives, m
  <2>4. \A t \in Secondaries :
          TakesPart(secRace[t], toSecondary[t]) => TakesPart(secRace[t], toSecondary'[t])
    <3> SUFFICES ASSUME NEW t \in Secondaries, TakesPart(secRace[t], toSecondary[t])
                 PROVE  TakesPart(secRace[t], toSecondary'[t])
      OBVIOUS
    <3>1. TakesPart(secRace[t], Append(toSecondary[t], m))
      BY <1>0, <2>1, TakesPartAck
    <3> QED
      BY <2>3, <3>1
  <2> QED
    BY <2>2, <2>4 DEF PartHolds
<1>9. CASE RaceStep
  <2>1. UNCHANGED <<running, contact, link, secRace>>
    BY <1>9 DEF RaceStep, Stage, Start, LapPass, Stop, Stopped, Clear, server, net, client
  <2>2. CASE race' \notin {"staging", "racing"}
    BY <2>1, <2>2 DEF PartHolds
  <2>3. CASE race \in {"staging", "racing"} /\ UNCHANGED toSecondary
    BY <2>1, <2>3 DEF PartHolds
  <2>4. CASE /\ race' \in {"staging", "racing"}
             /\ ~(race \in {"staging", "racing"} /\ UNCHANGED toSecondary)
    <3> DEFINE a == IF race = "done" THEN <<Msg("discard_laps", 0)>> ELSE <<>>
               b == <<Msg("stage_race", 0)>>
    <3>1. EmitAll(a \o b)
      BY <1>9, <2>4 DEF RaceStep, Stage, Start, LapPass, Stop, Stopped, Clear, net
    <3>2. a \in Seq(ToSecondary) /\ b \in Seq(ToSecondary)
      BY CommandsNameNone DEF Commands
    <3> HIDE DEF a
    <3>3. ASSUME NEW s \in Secondaries, link[s] = "up"
          PROVE  TakesPart(secRace[s], toSecondary'[s])
      <4>1. toSecondary'[s] = toSecondary[s] \o (a \o b)
        BY <1>0, <3>1, <3>3 DEF EmitAll, PartHolds
      <4>2. /\ toSecondary[s] \o (a \o b) = (toSecondary[s] \o a) \o b
            /\ toSecondary[s] \o a \in Seq(ToSecondary)
        BY <1>0, <3>2
      <4> QED
        BY <4>1, <4>2, TakesPartStaged
    <3> QED
      BY <2>1, <3>3 DEF PartHolds
  <2> QED
    BY <2>2, <2>3, <2>4
<1>10. ASSUME NEW s \in Secondaries, QueueStep(s) \/ Pass(s)
      PROVE  PartHolds'
  <2>1. UNCHANGED <<running, link, contact, race, secRace, toSecondary>>
    BY <1>10 DEF QueueStep, Send, Notified, Timeout, Pass, server, net, client, primary
  <2> QED
    BY <1>1, <2>1
<1> QED
  BY <1>2, <1>3, <1>4, <1>5, <1>6, <1>7, <1>8, <1>9, <1>10
     DEF Next, SecondaryStep, ClientStep, NetworkStep

\* While the primary stages or races, a secondary that is connected and has
\* handled what it was sent takes part, even one that was restarted or connected
\* in the middle of the race.
THEOREM TakePartSafe == Spec => []SecondariesTakePart
<1>1. Init => PartHolds
  <2> SUFFICES ASSUME Init, NEW s \in Secondaries
               PROVE  /\ running[s] /\ (link[s] = "up" => contact[s])
                      /\ race \in {"staging", "racing"} /\ link[s] = "up"
                           => TakesPart(secRace[s], toSecondary[s])
    BY DEF PartHolds
  <2>1. /\ running[s] /\ (link[s] = "up" <=> s \in Joined) /\ (contact[s] <=> s \in Joined)
        /\ toSecondary[s] = <<>> /\ (s \in Joined => secRace[s] = race)
    BY DEF Init, HaveJoined, Nothing
  <2> QED
    BY <2>1 DEF TakesPart
<1>2. TypeOK /\ PartHolds /\ [Next]_vars => PartHolds'
  <2>1. PartHolds /\ UNCHANGED vars => PartHolds'
    BY DEF PartHolds, vars, server, net, client, primary
  <2> QED
    BY <2>1, PartHoldsStep
<1>3. PartHolds => SecondariesTakePart
  <2>1. ASSUME NEW st, TakesPart(st, <<>>) PROVE st \in {"staging", "racing"}
    BY <2>1 DEF TakesPart
  <2> QED
    BY <2>1 DEF PartHolds, SecondariesTakePart
<1> QED
  BY <1>1, <1>2, <1>3, TypeCorrect, PTL DEF Spec

-----------------------------------------------------------------------------
(***************************************************************************)
(* The pass records of a secondary arrive in order: Cluster implements     *)
(* PassChannel.  What is under way and what is queued are sorted by the    *)
(* number of the pass, the first before the second, and none is older      *)
(* than the latest that arrived or newer than the latest that was put; a   *)
(* record may be there twice (it is sent again until its ack comes), and   *)
(* the answer to a join, whose number is 0, may be anywhere.               *)
(***************************************************************************)

\* A record has no newer one before it.
Sorted(q) ==
  \A i \in 1..Len(q), j \in 1..Len(q) : i < j /\ q[j].n # 0 => q[i].n <= q[j].n

Before(p, q) ==
  \A i \in 1..Len(p), j \in 1..Len(q) : q[j].n # 0 => p[i].n <= q[j].n

Between(q, lo, hi) ==
  \A i \in 1..Len(q) : q[i].n <= hi /\ (q[i].n # 0 => lo <= q[i].n)

\* p is under way, q is queued; lo has arrived and hi has been put.
Ordered(p, q, lo, hi) ==
  /\ Sorted(p) /\ Sorted(q) /\ Before(p, q)
  /\ Between(p, lo, hi) /\ Between(q, lo, hi) /\ lo <= hi

OrderHolds ==
  \A s \in Secondaries : Ordered(toPrimary[s], queue[s], last[s], passes[s])

-----------------------------------------------------------------------------
(* What the steps do to a pair of sequences.                               *)

LEMMA Elements ==
  ASSUME NEW q \in Seq(ToPrimary)
  PROVE  Len(q) \in Nat /\ \A i \in 1..Len(q) : q[i] \in ToPrimary /\ q[i].n \in Nat
<1>1. Len(q) \in Nat /\ \A i \in 1..Len(q) : q[i] \in ToPrimary
  OBVIOUS
<1> QED
  BY <1>1, Messages

\* Elements are taken from the front or from the end of either.
LEMMA OrderedCut ==
  ASSUME NEW p \in Seq(ToPrimary), NEW q \in Seq(ToPrimary), NEW lo \in Nat, NEW hi \in Nat,
         Ordered(p, q, lo, hi),
         NEW p2 \in Seq(ToPrimary), NEW q2 \in Seq(ToPrimary), NEW d \in Nat, NEW e \in Nat,
         Len(p2) + d <= Len(p), \A i \in 1..Len(p2) : p2[i] = p[i + d],
         Len(q2) + e <= Len(q), \A i \in 1..Len(q2) : q2[i] = q[i + e]
  PROVE  Ordered(p2, q2, lo, hi)
<1>1. /\ Len(p) \in Nat /\ Len(q) \in Nat /\ Len(p2) \in Nat /\ Len(q2) \in Nat
  OBVIOUS
<1>2. /\ \A i \in 1..Len(p2) : i + d \in 1..Len(p) /\ p2[i] = p[i + d]
      /\ \A i \in 1..Len(q2) : i + e \in 1..Len(q) /\ q2[i] = q[i + e]
  <2>1. ASSUME NEW i \in 1..Len(p2) PROVE i + d \in 1..Len(p)
    BY <1>1, <2>1
  <2>2. ASSUME NEW i \in 1..Len(q2) PROVE i + e \in 1..Len(q)
    BY <1>1, <2>2
  <2> QED
    BY <2>1, <2>2
<1>3. Sorted(p2)
  <2> SUFFICES ASSUME NEW i \in 1..Len(p2), NEW j \in 1..Len(p2), i < j, p2[j].n # 0
               PROVE  p2[i].n <= p2[j].n
    BY DEF Sorted
  <2>1. i + d < j + d /\ i + d \in 1..Len(p) /\ j + d \in 1..Len(p)
    BY <1>1, <1>2
  <2> QED
    BY <1>2, <2>1 DEF Ordered, Sorted
<1>4. Sorted(q2)
  <2> SUFFICES ASSUME NEW i \in 1..Len(q2), NEW j \in 1..Len(q2), i < j, q2[j].n # 0
               PROVE  q2[i].n <= q2[j].n
    BY DEF Sorted
  <2>1. i + e < j + e /\ i + e \in 1..Len(q) /\ j + e \in 1..Len(q)
    BY <1>1, <1>2
  <2> QED
    BY <1>2, <2>1 DEF Ordered, Sorted
<1>5. Before(p2, q2)
  BY <1>2 DEF Ordered, Before
<1>6. Between(p2, lo, hi) /\ Between(q2, lo, hi)
  BY <1>2 DEF Ordered, Between
<1> QED
  BY <1>3, <1>4, <1>5, <1>6 DEF Ordered

\* A new record goes to the end of the queue, or is dropped.
LEMMA OrderedPut ==
  ASSUME NEW p \in Seq(ToPrimary), NEW q \in Seq(ToPrimary), NEW lo \in Nat, NEW hi \in Nat,
         Ordered(p, q, lo, hi), NEW m \in ToPrimary, m.n = hi + 1
  PROVE  Ordered(p, q, lo, hi + 1) /\ Ordered(p, Append(q, m), lo, hi + 1)
<1> DEFINE r == Append(q, m)
<1>1. /\ Len(r) = Len(q) + 1 /\ r[Len(r)] = m
      /\ \A i \in 1..Len(q) : r[i] = q[i]
  OBVIOUS
<1>2. /\ Len(q) \in Nat /\ \A i \in 1..Len(q) : q[i].n \in Nat
      /\ Len(p) \in Nat /\ \A i \in 1..Len(p) : p[i].n \in Nat
  BY Elements
<1>3. \A i \in 1..Len(r) : i \in 1..Len(q) \/ i = Len(r)
  BY <1>1, <1>2
<1> HIDE DEF r
<1>4. Between(p, lo, hi + 1) /\ Between(q, lo, hi + 1) /\ lo <= hi + 1
  BY <1>2 DEF Ordered, Between
<1>5. Between(r, lo, hi + 1)
  BY SMTT(30), <1>1, <1>3, <1>4 DEF Between
<1>6. Sorted(r)
  <2> SUFFICES ASSUME NEW i \in 1..Len(r), NEW j \in 1..Len(r), i < j, r[j].n # 0
               PROVE  r[i].n <= r[j].n
    BY DEF Sorted
  <2>1. i \in 1..Len(q)
    BY <1>1, <1>2
  <2>2. CASE j \in 1..Len(q)
    BY <1>1, <2>1, <2>2 DEF Ordered, Sorted
  <2>3. CASE j = Len(r)
    BY <1>1, <1>4, <2>1, <2>3 DEF Between
  <2> QED
    BY <1>3, <2>2, <2>3
<1>7. Before(p, r)
  <2> SUFFICES ASSUME NEW i \in 1..Len(p), NEW j \in 1..Len(r), r[j].n # 0
               PROVE  p[i].n <= r[j].n
    BY DEF Before
  <2>1. CASE j \in 1..Len(q)
    BY <1>1, <2>1 DEF Ordered, Before
  <2>2. CASE j = Len(r)
    BY <1>1, <1>4, <2>2 DEF Between
  <2> QED
    BY <1>3, <2>1, <2>2
<1> QED
  BY <1>4, <1>5, <1>6, <1>7 DEF Ordered, r

\* The answer to a join goes in front of the queue.
LEMMA OrderedJoin ==
  ASSUME NEW p \in Seq(ToPrimary), NEW q \in Seq(ToPrimary), NEW lo \in Nat, NEW hi \in Nat,
         Ordered(p, q, lo, hi)
  PROVE  Ordered(p, <<Join>> \o q, lo, hi)
<1> DEFINE r == <<Join>> \o q
<1>1. Join \in ToPrimary /\ Join.n = 0
  BY Messages DEF Join, Msg
<1>2. /\ Len(r) = Len(q) + 1 /\ r[1] = Join
      /\ \A i \in 1..Len(r) : i # 1 => r[i] = q[i - 1]
  BY <1>1
<1>3. /\ Len(q) \in Nat /\ \A i \in 1..Len(q) : q[i].n \in Nat
  BY Elements
<1> HIDE DEF r
<1>4. \A i \in 1..Len(r) : r[i].n # 0 => i # 1 /\ i - 1 \in 1..Len(q) /\ r[i] = q[i - 1]
  BY <1>1, <1>2, <1>3
<1>5. Between(r, lo, hi)
  <2> SUFFICES ASSUME NEW i \in 1..Len(r)
               PROVE  r[i].n <= hi /\ (r[i].n # 0 => lo <= r[i].n)
    BY DEF Between
  <2> QED
    BY <1>4 DEF Ordered, Between
<1>6. Sorted(r)
  <2> SUFFICES ASSUME NEW i \in 1..Len(r), NEW j \in 1..Len(r), i < j, r[j].n # 0
               PROVE  r[i].n <= r[j].n
    BY DEF Sorted
  <2>1. j - 1 \in 1..Len(q) /\ r[j] = q[j - 1]
    BY <1>4
  <2>2. CASE r[i].n = 0
    BY <1>3, <2>1, <2>2
  <2>3. CASE r[i].n # 0
    <3>1. i - 1 \in 1..Len(q) /\ r[i] = q[i - 1] /\ i - 1 < j - 1
      BY SMTT(30), <1>4, <2>3
    <3> QED
      BY <2>1, <3>1 DEF Ordered, Sorted
  <2> QED
    BY <2>2, <2>3
<1>7. Before(p, r)
  BY <1>4 DEF Ordered, Before
<1> QED
  BY <1>5, <1>6, <1>7 DEF Ordered, r

\* The head of the queue is sent.
LEMMA OrderedSend ==
  ASSUME NEW p \in Seq(ToPrimary), NEW q \in Seq(ToPrimary), NEW lo \in Nat, NEW hi \in Nat,
         Ordered(p, q, lo, hi), q # <<>>
  PROVE  Ordered(Append(p, Head(q)), q, lo, hi)
<1> DEFINE r == Append(p, Head(q))
<1>1. Head(q) = q[1] /\ Head(q) \in ToPrimary /\ 1 \in 1..Len(q)
  OBVIOUS
<1>2. /\ Len(r) = Len(p) + 1 /\ r[Len(r)] = q[1]
      /\ \A i \in 1..Len(p) : r[i] = p[i]
  BY <1>1
<1>3. /\ Len(q) \in Nat /\ \A i \in 1..Len(q) : q[i].n \in Nat
      /\ Len(p) \in Nat /\ \A i \in 1..Len(p) : p[i].n \in Nat
  BY Elements
<1>4. \A i \in 1..Len(r) : i \in 1..Len(p) \/ i = Len(r)
  BY <1>2, <1>3
<1> HIDE DEF r
<1>5. Between(r, lo, hi)
  BY <1>1, <1>2, <1>4 DEF Ordered, Between
<1>6. Sorted(r)
  <2> SUFFICES ASSUME NEW i \in 1..Len(r), NEW j \in 1..Len(r), i < j, r[j].n # 0
               PROVE  r[i].n <= r[j].n
    BY DEF Sorted
  <2>1. i \in 1..Len(p)
    BY <1>2, <1>3
  <2>2. CASE j \in 1..Len(p)
    BY <1>2, <2>1, <2>2 DEF Ordered, Sorted
  <2>3. CASE j = Len(r)
    BY <1>1, <1>2, <2>1, <2>3 DEF Ordered, Before
  <2> QED
    BY <1>4, <2>2, <2>3
<1>7. Before(r, q)
  <2> SUFFICES ASSUME NEW i \in 1..Len(r), NEW j \in 1..Len(q), q[j].n # 0
               PROVE  r[i].n <= q[j].n
    BY DEF Before
  <2>1. CASE i \in 1..Len(p)
    BY <1>2, <2>1 DEF Ordered, Before
  <2>2. CASE i = Len(r) /\ j = 1
    BY <1>2, <1>3, <2>2
  <2>3. CASE i = Len(r) /\ j # 1
    <3>1. 1 < j
      BY <1>3, <2>3
    <3> QED
      BY <1>1, <1>2, <2>3, <3>1 DEF Ordered, Sorted
  <2> QED
    BY <1>4, <2>1, <2>2, <2>3
<1> QED
  BY <1>5, <1>6, <1>7 DEF Ordered, r

\* The first of what is under way arrives.
LEMMA OrderedArrive ==
  ASSUME NEW p \in Seq(ToPrimary), NEW q \in Seq(ToPrimary), NEW lo \in Nat, NEW hi \in Nat,
         Ordered(p, q, lo, hi), p # <<>>
  PROVE  /\ Ordered(Tail(p), q, lo, hi)
         /\ Head(p).n # 0 => /\ Head(p).n \in lo..hi
                             /\ Ordered(Tail(p), q, Head(p).n, hi)
<1> DEFINE r == Tail(p)
<1>1. /\ Head(p) = p[1] /\ 1 \in 1..Len(p) /\ r \in Seq(ToPrimary)
      /\ Len(r) + 1 = Len(p) /\ \A i \in 1..Len(r) : r[i] = p[i + 1]
      /\ Len(q) + 0 <= Len(q) /\ \A i \in 1..Len(q) : q[i] = q[i + 0]
  OBVIOUS
<1>2. /\ Len(q) \in Nat /\ \A i \in 1..Len(q) : q[i].n \in Nat
      /\ Len(p) \in Nat /\ \A i \in 1..Len(p) : p[i].n \in Nat
      /\ Len(r) \in Nat
  BY <1>1, Elements
<1> HIDE DEF r
<1>3. Ordered(r, q, lo, hi)
  <2>1. Len(r) + 1 <= Len(p)
    BY <1>1, <1>2
  <2> QED
    BY <1>1, <2>1, OrderedCut
<1>4. ASSUME Head(p).n # 0
      PROVE  Head(p).n \in lo..hi /\ Ordered(r, q, Head(p).n, hi)
  <2>1. Head(p).n \in Nat /\ lo <= Head(p).n /\ Head(p).n <= hi
    BY <1>1, <1>2, <1>4 DEF Ordered, Between
  <2>2. Between(q, Head(p).n, hi)
    BY <1>1, <1>3 DEF Ordered, Between, Before
  <2>3. Between(r, Head(p).n, hi)
    <3> SUFFICES ASSUME NEW i \in 1..Len(r), r[i].n # 0
                 PROVE  Head(p).n <= r[i].n
      BY <1>3 DEF Ordered, Between
    <3>1. i + 1 \in 1..Len(p) /\ 1 < i + 1 /\ r[i] = p[i + 1]
      BY <1>1, <1>2
    <3> QED
      BY <1>1, <3>1 DEF Ordered, Sorted
  <2> QED
    BY <1>3, <2>1, <2>2, <2>3 DEF Ordered
<1> QED
  BY <1>3, <1>4 DEF r
-----------------------------------------------------------------------------
(* The steps of the cluster.                                               *)

LEMMA OrderInit == Init => OrderHolds
BY DEF Init, OrderHolds, Ordered, Sorted, Before, Between, Nothing, Zero

\* The order is that of one secondary: a step of another leaves it alone.
Others(s) ==
  \A t \in Secondaries \ {s} : /\ toPrimary'[t] = toPrimary[t] /\ queue'[t] = queue[t]
                               /\ last'[t] = last[t] /\ passes'[t] = passes[t]

LEMMA OrderOfOne ==
  ASSUME OrderHolds, NEW s \in Secondaries, Others(s),
         Ordered(toPrimary'[s], queue'[s], last'[s], passes'[s])
  PROVE  OrderHolds'
BY DEF OrderHolds, Others

LEMMA OrderQueueStep ==
  ASSUME TypeOK, OrderHolds, NEW s \in Secondaries, QueueStep(s)
  PROVE  OrderHolds'
<1> DEFINE p == toPrimary[s]
           q == queue[s]
<1>1. /\ p \in Seq(ToPrimary) /\ q \in Seq(ToPrimary) /\ last[s] \in Nat /\ passes[s] \in Nat
      /\ Ordered(p, q, last[s], passes[s])
  BY DEF TypeOK, OrderHolds
<1>2. Others(s) /\ last' = last /\ passes' = passes
  BY DEF TypeOK, Others, QueueStep, Send, Notified, Timeout, Dequeue, server, net, history
<1>3. \/ toPrimary'[s] = p
      \/ q # <<>> /\ toPrimary'[s] = Append(p, Head(q))
  BY DEF TypeOK, QueueStep, Send, Notified, Timeout, net
<1>4. queue'[s] = q \/ (q # <<>> /\ queue'[s] = Tail(q))
  BY DEF TypeOK, QueueStep, Send, Notified, Timeout, Dequeue, queues
<1> HIDE DEF p, q
<1>5. \A r \in Seq(ToPrimary) :
        Ordered(r, q, last[s], passes[s]) /\ q # <<>> => Ordered(r, Tail(q), last[s], passes[s])
  <2> SUFFICES ASSUME NEW r \in Seq(ToPrimary), Ordered(r, q, last[s], passes[s]), q # <<>>
               PROVE  Ordered(r, Tail(q), last[s], passes[s])
    OBVIOUS
  <2> DEFINE t == Tail(q)
  <2>1. /\ t \in Seq(ToPrimary) /\ Len(t) + 1 <= Len(q) /\ \A i \in 1..Len(t) : t[i] = q[i + 1]
        /\ Len(r) + 0 <= Len(r) /\ \A i \in 1..Len(r) : r[i] = r[i + 0]
    BY <1>1
  <2> HIDE DEF t
  <2>2. Ordered(r, t, last[s], passes[s])
    BY <1>1, <2>1, OrderedCut
  <2> QED
    BY <2>2 DEF t
<1>6. q # <<>> => /\ Append(p, Head(q)) \in Seq(ToPrimary)
                  /\ Ordered(Append(p, Head(q)), q, last[s], passes[s])
  BY <1>1, OrderedSend
<1>7. Ordered(toPrimary'[s], queue'[s], last[s], passes[s])
  BY <1>1, <1>3, <1>4, <1>5, <1>6
<1> QED
  BY <1>2, <1>7, OrderOfOne

LEMMA OrderSecondaryStep ==
  ASSUME TypeOK, OrderHolds, NEW s \in Secondaries, SecondaryStep(s)
  PROVE  OrderHolds'
<1> DEFINE p == toPrimary[s]
           q == queue[s]
<1>1. /\ p \in Seq(ToPrimary) /\ q \in Seq(ToPrimary) /\ last[s] \in Nat /\ passes[s] \in Nat
      /\ Ordered(p, q, last[s], passes[s])
  BY DEF TypeOK, OrderHolds
<1>2. CASE Pass(s)
  <2> DEFINE m == Msg("pass_record", passes[s] + 1)
  <2>1. passes'[s] = passes[s] + 1 /\ toPrimary'[s] = p /\ last' = last /\ Others(s)
    BY <1>2 DEF TypeOK, Pass, Others, net
  <2>2. m \in ToPrimary /\ m.n = passes[s] + 1
    BY <1>1, Messages DEF Msg
  <2>3. queue'[s] = q \/ queue'[s] = Append(q, m)
    BY <1>2, <2>1 DEF TypeOK, Pass, AddRecord
  <2> HIDE DEF m, p, q
  <2>4. /\ Ordered(p, q, last[s], passes[s] + 1)
        /\ Ordered(p, Append(q, m), last[s], passes[s] + 1)
    BY <1>1, <2>2, OrderedPut
  <2>5. Ordered(toPrimary'[s], queue'[s], last'[s], passes'[s])
    BY <2>1, <2>3, <2>4
  <2> QED
    BY <2>1, <2>5, OrderOfOne
<1>3. CASE SecondaryReceives(s)
  <2>1. /\ toPrimary' = toPrimary /\ last' = last /\ passes' = passes /\ Others(s)
    BY <1>3 DEF TypeOK, SecondaryReceives, ReceiveAck, PutJoin, Others, queues, history
  <2>2. \/ queue'[s] = q \/ queue'[s] = <<Join>> \o q
        \/ q # <<>> /\ queue'[s] = Tail(q)
    BY <1>3 DEF TypeOK, SecondaryReceives, ReceiveAck, PutJoin, Acks, queues
  <2> HIDE DEF p, q
  <2>3. Ordered(p, <<Join>> \o q, last[s], passes[s])
    BY <1>1, OrderedJoin
  <2>4. q # <<>> => Ordered(p, Tail(q), last[s], passes[s])
    <3> SUFFICES ASSUME q # <<>>
                 PROVE  Ordered(p, Tail(q), last[s], passes[s])
      OBVIOUS
    <3> DEFINE t == Tail(q)
    <3>1. /\ t \in Seq(ToPrimary) /\ Len(t) + 1 <= Len(q) /\ \A i \in 1..Len(t) : t[i] = q[i + 1]
          /\ Len(p) + 0 <= Len(p) /\ \A i \in 1..Len(p) : p[i] = p[i + 0]
      BY <1>1
    <3> HIDE DEF t
    <3>2. Ordered(p, t, last[s], passes[s])
      BY <1>1, <3>1, OrderedCut
    <3> QED
      BY <3>2 DEF t
  <2>5. Ordered(toPrimary'[s], queue'[s], last'[s], passes'[s])
    BY <1>1, <2>1, <2>2, <2>3, <2>4 DEF p
  <2> QED
    BY <2>1, <2>5, OrderOfOne
<1>4. CASE SecondaryStarts(s)
  BY <1>4 DEF SecondaryStarts, OrderHolds, queues, net, history
<1> QED
  BY <1>2, <1>3, <1>4 DEF SecondaryStep

\* What the arrival of the first message under way does to the latest pass that
\* arrived.
LEMMA ArrivalMoves ==
  ASSUME TypeOK, NEW s \in Secondaries, PrimaryReceives(s)
  PROVE  LET m == Head(toPrimary[s]) IN
           /\ toPrimary[s] # <<>> /\ toPrimary' = [toPrimary EXCEPT ![s] = Tail(toPrimary[s])]
           /\ UNCHANGED <<queue, passes>>
           /\ \/ m.n = 0 /\ last' = last
              \/ m.n # 0 /\ last' = [last EXCEPT ![s] = m.n]
<1> DEFINE m == Head(toPrimary[s])
<1>1. toPrimary[s] \in Seq(ToPrimary) /\ toPrimary[s] # <<>>
  BY DEF TypeOK, PrimaryReceives
<1>2. m \in ToPrimary
  BY <1>1, ToSetTail
<1>3. m = Join => m.n = 0
  BY DEF Join, Msg
<1>4. m # Join => m.n # 0
  BY <1>2, Messages
<1>5. \/ m = Join /\ last' = last
      \/ m # Join /\ last' = [last EXCEPT ![s] = m.n]
  BY DEF PrimaryReceives, OnPassRecord
<1>6. toPrimary' = [toPrimary EXCEPT ![s] = Tail(toPrimary[s])] /\ UNCHANGED <<queue, passes>>
  BY DEF PrimaryReceives, queues, server
<1> QED
  BY <1>1, <1>3, <1>4, <1>5, <1>6

LEMMA OrderClientStep ==
  ASSUME TypeOK, OrderHolds, NEW s \in Secondaries, ClientStep(s)
  PROVE  OrderHolds'
<1>1. CASE Connect(s) \/ GiveUp(s) \/ RetrySecondary(s) \/ WorkerSeesDown(s) \/ QueryTimeout(s)
  BY <1>1 DEF Connect, GiveUp, RetrySecondary, WorkerSeesDown, QueryTimeout, OrderHolds,
              queues, server, net, history
<1>2. CASE PrimaryReceives(s)
  <2> DEFINE p == toPrimary[s]
             q == queue[s]
  <2>1. /\ p \in Seq(ToPrimary) /\ q \in Seq(ToPrimary) /\ last[s] \in Nat /\ passes[s] \in Nat
        /\ Ordered(p, q, last[s], passes[s])
    BY DEF TypeOK, OrderHolds
  <2>2. /\ p # <<>> /\ toPrimary'[s] = Tail(p) /\ queue' = queue /\ passes' = passes
        /\ \/ last'[s] = last[s]
           \/ Head(p).n # 0 /\ last'[s] = Head(p).n
        /\ Others(s)
    <3>1. /\ p # <<>> /\ toPrimary' = [toPrimary EXCEPT ![s] = Tail(p)]
          /\ queue' = queue /\ passes' = passes
          /\ \/ last' = last
             \/ Head(p).n # 0 /\ last' = [last EXCEPT ![s] = Head(p).n]
      BY <1>2, ArrivalMoves
    <3> HIDE DEF p, q
    <3> QED
      BY <3>1 DEF TypeOK, Others
  <2> HIDE DEF p, q
  <2>3. /\ Ordered(Tail(p), q, last[s], passes[s])
        /\ Head(p).n # 0 => Ordered(Tail(p), q, Head(p).n, passes[s])
    BY <2>1, <2>2, OrderedArrive
  <2>4. Ordered(toPrimary'[s], queue'[s], last'[s], passes'[s])
    BY <2>2, <2>3 DEF q
  <2> QED
    BY <2>2, <2>4, OrderOfOne
<1> QED
  BY <1>1, <1>2 DEF ClientStep

LEMMA OrderNetworkStep ==
  ASSUME TypeOK, OrderHolds, NEW s \in Secondaries, NetworkStep(s)
  PROVE  OrderHolds'
<1>1. CASE Closed(s)
  BY <1>1 DEF Closed, OrderHolds, queues, server, history
<1>2. CASE Break(s) \/ Restart(s)
  <2> DEFINE p == toPrimary[s]
             q == queue[s]
  <2>1. /\ p \in Seq(ToPrimary) /\ q \in Seq(ToPrimary) /\ last[s] \in Nat /\ passes[s] \in Nat
        /\ Ordered(p, q, last[s], passes[s])
    BY DEF TypeOK, OrderHolds
  <2>2. /\ last' = last /\ passes' = passes /\ Others(s)
        /\ queue'[s] = q \/ queue'[s] = <<>>
    BY <1>2 DEF TypeOK, Break, Restart, Others, queues, server, history
  <2>3. PICK k \in 0..Len(p) : toPrimary'[s] = SubSeq(p, 1, k)
    BY <1>2 DEF TypeOK, Break, Restart
  <2> DEFINE r == SubSeq(p, 1, k)
  <2> HIDE DEF p, q
  <2>4. /\ r \in Seq(ToPrimary) /\ Len(r) = k /\ \A i \in 1..Len(r) : r[i] = p[i]
    BY <2>1, ToSetCut
  <2> HIDE DEF r
  <2>5. /\ Len(r) + 0 <= Len(p) /\ \A i \in 1..Len(r) : r[i] = p[i + 0]
        /\ Len(q) + 0 <= Len(q) /\ \A i \in 1..Len(q) : q[i] = q[i + 0]
        /\ <<>> \in Seq(ToPrimary) /\ Len(<<>>) + 0 <= Len(q)
        /\ \A i \in 1..Len(<<>>) : <<>>[i] = q[i + 0]
    BY <2>1, <2>4
  <2>6. Ordered(r, q, last[s], passes[s])
    BY <2>1, <2>4, <2>5, OrderedCut
  <2>7. Ordered(r, <<>>, last[s], passes[s])
    BY <2>1, <2>4, <2>5, OrderedCut
  <2>8. Ordered(toPrimary'[s], queue'[s], last'[s], passes'[s])
    BY <2>2, <2>3, <2>6, <2>7 DEF r
  <2> QED
    BY <2>2, <2>8, OrderOfOne
<1> QED
  BY <1>1, <1>2 DEF NetworkStep

LEMMA OrderStep ==
  ASSUME TypeOK, OrderHolds, [Next]_vars
  PROVE  OrderHolds'
<1>1. CASE RaceStep
  BY <1>1 DEF RaceStep, Stage, Start, LapPass, Stop, Stopped, Clear, OrderHolds,
              queues, server, net, history
<1>2. CASE UNCHANGED vars
  BY <1>2 DEF vars, queues, server, net, history, OrderHolds
<1> QED
  BY <1>1, <1>2, OrderQueueStep, OrderSecondaryStep, OrderClientStep, OrderNetworkStep DEF Next

\* What is under way and what is queued of a secondary stays sorted: a record that is
\* sent again, or goes behind the answer to a join, never overtakes an older one.
THEOREM OrderSafe == Spec => []OrderHolds
<1>1. TypeOK /\ OrderHolds /\ [Next]_vars => OrderHolds'
  BY OrderStep
<1> QED
  BY <1>1, OrderInit, TypeCorrect, PTL DEF Spec

-----------------------------------------------------------------------------
(* Cluster implements PassChannel.                                         *)

LEMMA ChannelInit == Init => Channel!Init
BY DEF Init, Channel!Init, Zero

LEMMA ChannelStep ==
  ASSUME TypeOK, OrderHolds, [Next]_vars
  PROVE  [Channel!Next]_(Channel!vars)
<1>1. ASSUME NEW s \in Secondaries, Pass(s)
      PROVE  Channel!Put(s)
  BY <1>1 DEF Pass, Channel!Put
<1>2. ASSUME NEW s \in Secondaries, PrimaryReceives(s)
      PROVE  UNCHANGED <<passes, last>> \/ Channel!Deliver(s)
  <2> DEFINE p == toPrimary[s]
  <2>1. /\ p \in Seq(ToPrimary) /\ queue[s] \in Seq(ToPrimary)
        /\ last[s] \in Nat /\ passes[s] \in Nat
        /\ Ordered(p, queue[s], last[s], passes[s])
    BY DEF TypeOK, OrderHolds
  <2>2. p # <<>> /\ UNCHANGED passes
        /\ \/ last' = last
           \/ Head(p).n # 0 /\ last' = [last EXCEPT ![s] = Head(p).n]
    BY <1>2, ArrivalMoves
  <2> HIDE DEF p
  <2>3. Head(p).n # 0 => Head(p).n \in last[s]..passes[s]
    BY <2>1, <2>2, OrderedArrive
  <2> QED
    BY <2>2, <2>3 DEF Channel!Deliver
<1>3. ASSUME NEW s \in Secondaries,
             \/ QueueStep(s) \/ NetworkStep(s) \/ SecondaryReceives(s) \/ SecondaryStarts(s)
             \/ Connect(s) \/ GiveUp(s) \/ RetrySecondary(s) \/ WorkerSeesDown(s)
             \/ QueryTimeout(s)
      PROVE  UNCHANGED <<passes, last>>
  BY <1>3 DEF QueueStep, Send, Notified, Timeout, Dequeue, NetworkStep, Break, Closed, Restart,
              SecondaryReceives, SecondaryStarts, Connect, GiveUp, RetrySecondary,
              WorkerSeesDown, QueryTimeout, server, history
<1>4. CASE RaceStep
  BY <1>4 DEF RaceStep, Stage, Start, LapPass, Stop, Stopped, Clear, server, history, Channel!vars
<1>5. CASE UNCHANGED vars
  BY <1>5 DEF vars, server, history, Channel!vars
<1> QED
  BY <1>1, <1>2, <1>3, <1>4, <1>5
     DEF Next, SecondaryStep, ClientStep, Channel!Next, Channel!vars

\* Every behaviour of the cluster, whatever is lost, sent twice, cut or restarted, is
\* one of the channel: records arrive in the order of their passes (SendAckQueue).
THEOREM ChannelImplemented == Spec => InOrder
<1>1. TypeOK /\ OrderHolds /\ [Next]_vars => [Channel!Next]_(Channel!vars)
  BY ChannelStep
<1> QED
  BY <1>1, ChannelInit, TypeCorrect, OrderSafe, PTL DEF Spec, InOrder, Channel!Spec
=============================================================================
