------------------------------ MODULE Cluster ------------------------------
(***************************************************************************)
(* A primary timer and its secondary "split" timers (ClusterNodeSet.py),   *)
(* the queue that carries pass records from a secondary to the primary     *)
(* (util/SendAckQueue.py) and the handlers of server.py and RHRace.py      *)
(* that the messages between them call.                                    *)
(*                                                                         *)
(* Every timer is a server of its own.  The primary is a socket.io client  *)
(* of each secondary; a connection that breaks loses what is under way     *)
(* and is noticed later by either side, a secondary may be restarted, and  *)
(* the worker greenlet of the primary connects again.  The number of a     *)
(* secondary is its split id: the order of the gates on the course.        *)
(*                                                                         *)
(* One node with a pilot is followed.  Check queries that are answered,    *)
(* times, speeds, callouts and the actions of an action-mode timer are     *)
(* left out.  Greenlets that gevent.spawn starts for an emit are run where *)
(* they are spawned.                                                       *)
(***************************************************************************)
EXTENDS Integers, Sequences, FiniteSets, SequencesExt

CONSTANTS
  Count,       \* number of secondaries
  QueueSize,   \* size of a SendAckQueue (20)
  MaxRetries,  \* SAQ_RETRY_MAX_ATTEMPTS (40)
  PassesOf,    \* bound: passes seen by each secondary
  Joined,      \* the secondaries that have joined before the start
  Unreliable,  \* bound: the secondaries that faults happen to
  MaxLaps,     \* bound: passes seen by the primary in a race
  MaxRequests, \* bound: requests to stage, stop, save or discard
  MaxFaults    \* bound: breaks, restarts and unanswered queries

ASSUME ClusterAssumption ==
  /\ Count \in Nat \ {0} /\ QueueSize \in Nat \ {0} /\ MaxRetries \in Nat
  /\ MaxLaps \in Nat /\ MaxRequests \in Nat /\ MaxFaults \in Nat
  /\ PassesOf \in [0..Count-1 -> Nat] /\ Unreliable \subseteq 0..Count-1
  /\ Joined \subseteq 0..Count-1

Secondaries == 0..Count-1

\* Messages.  n is the number of a pass, the payload that an ack repeats; 0: none.
Msg(t, k) == [type |-> t, n |-> k]
Passes == [type : {"pass_record"}, n : Nat \ {0}]
Join == Msg("join_cluster_response", 0)
Commands == {"join_cluster_ex", "stage_race", "stop_race", "save_laps", "discard_laps"}
ToPrimary == Passes \cup {Join}
ToSecondary == [type : Commands, n : {0}] \cup [type : {"ack"}, n : Nat]

VARIABLES
  \* of the server of each secondary
  queue,     \* emitMessageQueue
  expects,   \* anyAcksReceivedFlag
  notify,    \* ackNotifyEventObj is set
  waiting,   \* the queue's worker waits for an ack of the head
  retries,   \* emitRetryCount
  secRace,   \* race_status
  passes,    \* pass records put so far
  \* of the connections
  link,      \* "up", "stuck" (dead, not noticed), "closing" or "down"
  toPrimary, toSecondary,  \* messages under way
  \* of the primary's SecondaryNode objects
  contact,   \* lastContactTime > 0
  known,     \* numDisconnects > 0
  running,   \* runningFlag
  \* of the primary's race
  race,      \* race_status; "stopping": RACING, stop_race already sent
  laps,      \* passes of the node, lap 0 included
  splits,    \* split ids stored for each lap
  \* history and bounds
  seen,      \* passes that arrived, per secondary
  last,      \* the latest of them
  dropped,   \* passes taken from a queue without an ack, or lost with it
  requests, faults

queues == <<queue, expects, notify, waiting, retries>>
server == <<secRace, passes>>
net == <<link, toPrimary, toSecondary>>
client == <<contact, known, running>>
primary == <<race, laps, splits, requests>>
history == <<seen, last, dropped>>
vars == <<queues, server, net, client, primary, history, faults>>

-----------------------------------------------------------------------------
(* The secondary: passes and the queue.                                    *)

HasRoom(s) == Len(queue[s]) < QueueSize

\* A mutated form: records are put where the answer to a join is put.
AddInFront(q, m) == <<m>> \o q
AddRecord(q, m) == Append(q, m)

\* s's record of a pass is put in the queue; a full queue is waited for at most
\* a second, then the record is dropped with an error in the log.
Pass(s) ==
  /\ secRace[s] = "racing" /\ passes[s] < PassesOf[s]
  /\ passes' = [passes EXCEPT ![s] = @ + 1]
  /\ \/ /\ HasRoom(s)
        /\ queue' = [queue EXCEPT ![s] = AddRecord(@, Msg("pass_record", passes'[s]))]
        /\ UNCHANGED dropped
     \/ /\ ~HasRoom(s)
        /\ dropped' = [dropped EXCEPT ![s] = @ \cup {passes'[s]}]
        /\ UNCHANGED queue
  /\ UNCHANGED <<expects, notify, waiting, retries, secRace, net, client, primary,
                 seen, last, faults>>

\* A mutated form: the ack's payload is not looked at.
AcksAnything(m, q) == q # <<>>
\* Does the ack m confirm the head of the queue q?
Acks(m, q) == q # <<>> /\ m.n > 0 /\ Head(q) = Msg("pass_record", m.n)

Dequeue(s) ==
  /\ queue' = [queue EXCEPT ![s] = Tail(@)]
  /\ dropped' = [dropped EXCEPT ![s] = @ \cup ({Head(queue[s]).n} \ {0})]

\* The worker sends the head of the queue.  Only a pass record waits for its ack,
\* and only once the primary is known to send any; otherwise it is popped at once.
Send(s) ==
  /\ queue[s] # <<>> /\ ~waiting[s]
  /\ toPrimary' = IF link[s] = "up" THEN [toPrimary EXCEPT ![s] = Append(@, Head(queue[s]))]
                  ELSE toPrimary
  /\ notify' = [notify EXCEPT ![s] = FALSE]
  /\ IF Head(queue[s]) # Join /\ expects[s]
     THEN waiting' = [waiting EXCEPT ![s] = TRUE] /\ UNCHANGED <<queue, dropped, retries>>
     ELSE Dequeue(s) /\ retries' = [retries EXCEPT ![s] = 0] /\ UNCHANGED waiting
  /\ UNCHANGED <<expects, server, link, toSecondary, client, primary, seen, last, faults>>

Notified(s) ==
  /\ waiting[s] /\ notify[s]
  /\ waiting' = [waiting EXCEPT ![s] = FALSE]
  /\ notify' = [notify EXCEPT ![s] = FALSE]
  /\ retries' = [retries EXCEPT ![s] = 0]
  /\ UNCHANGED <<queue, expects, server, net, client, primary, history, faults>>

\* A mutated form: a message is sent again for ever.
CountNothing(r) == r
CountRetry(r) == r + 1
\* A mutated form: one more is sent.
TooOftenLate(r) == r > MaxRetries
\* Is a message that was sent again r times not sent once more?
TooOften(r) == CountRetry(r) > MaxRetries

\* The wait of three seconds ends; it may do so while a notification is on its way.
Timeout(s) ==
  /\ waiting[s]
  /\ waiting' = [waiting EXCEPT ![s] = FALSE]
  /\ IF queue[s] = <<>>
     THEN retries' = [retries EXCEPT ![s] = 0] /\ UNCHANGED <<queue, dropped>>
     ELSE IF TooOften(retries[s])
     THEN retries' = [retries EXCEPT ![s] = 0] /\ Dequeue(s)
     ELSE retries' = [retries EXCEPT ![s] = CountRetry(@)] /\ UNCHANGED <<queue, dropped>>
  /\ UNCHANGED <<expects, notify, server, net, client, primary, seen, last, faults>>

-----------------------------------------------------------------------------
(* The secondary: messages of the primary.                                 *)

\* join_cluster_response goes ahead of what waits for an ack.
PutJoin(s) ==
  /\ queue' = [queue EXCEPT ![s] = <<Join>> \o @]
  /\ notify' = IF queue[s] = <<>> THEN notify ELSE [notify EXCEPT ![s] = TRUE]
  /\ UNCHANGED <<expects, waiting, retries, secRace>>

ReceiveAck(s, m) ==
  /\ expects' = [expects EXCEPT ![s] = TRUE]
  /\ IF expects[s] /\ Acks(m, queue[s])
     THEN /\ queue' = [queue EXCEPT ![s] = Tail(@)]
          /\ notify' = [notify EXCEPT ![s] = TRUE]
     ELSE UNCHANGED <<queue, notify>>
  /\ UNCHANGED <<waiting, retries, secRace>>

\* What a request does to the race of a secondary: a race that runs is left
\* alone by stage_race, any other is discarded and staged.
Obey(t, st) ==
  CASE t = "stage_race"   -> IF st = "racing" THEN "racing" ELSE "staging"
    [] t = "stop_race"    -> IF st = "staging" THEN "ready" ELSE "done"
    [] t = "save_laps"    -> IF st = "staging" THEN "staging" ELSE "ready"
    [] t = "discard_laps" -> "ready"

SecondaryReceives(s) ==
  /\ toSecondary[s] # <<>>
  /\ toSecondary' = [toSecondary EXCEPT ![s] = Tail(@)]
  /\ LET m == Head(toSecondary[s]) IN
       \/ m.type = "ack" /\ ReceiveAck(s, m)
       \/ m.type = "join_cluster_ex" /\ PutJoin(s)
       \/ /\ m.type \notin {"ack", "join_cluster_ex"}
          /\ secRace' = [secRace EXCEPT ![s] = Obey(m.type, @)]
          /\ UNCHANGED queues
  /\ UNCHANGED <<passes, link, toPrimary, client, primary, history, faults>>

SecondaryStarts(s) ==
  /\ secRace[s] = "staging"
  /\ secRace' = [secRace EXCEPT ![s] = "racing"]
  /\ UNCHANGED <<queues, passes, net, client, primary, history, faults>>

-----------------------------------------------------------------------------
(* The primary: emits and the connection.                                  *)

\* Emit the messages ms to each secondary that has contact; a live connection
\* carries them.
EmitAll(ms) ==
  toSecondary' = [s \in Secondaries |->
                    IF contact[s] /\ link[s] = "up" THEN toSecondary[s] \o ms ELSE toSecondary[s]]

\* A mutated form: the secondary is not told of a race that is on.
GreetingJoinOnly == <<Msg("join_cluster_ex", 0)>>
\* What on_connect sends.
Greeting ==
  <<Msg("join_cluster_ex", 0)>> \o
  (IF race \in {"staging", "racing", "stopping"} THEN <<Msg("stage_race", 0)>> ELSE <<>>)

\* The worker thread connects; a secondary that was never reached is not tried
\* during a race.
Connect(s) ==
  /\ running[s] /\ ~contact[s] /\ link[s] = "down"
  /\ known[s] \/ race \in {"ready", "done"}
  /\ link' = [link EXCEPT ![s] = "up"]
  /\ contact' = [contact EXCEPT ![s] = TRUE]
  /\ toSecondary' = [toSecondary EXCEPT ![s] = @ \o Greeting]
  /\ UNCHANGED <<queues, server, toPrimary, known, running, primary, history, faults>>

\* It gives up on a secondary that it never reached; a user may have it try again.
GiveUp(s) ==
  /\ running[s] /\ ~contact[s] /\ ~known[s] /\ link[s] = "down"
  /\ running' = [running EXCEPT ![s] = FALSE]
  /\ UNCHANGED <<queues, server, net, contact, known, primary, history, faults>>

RetrySecondary(s) ==
  /\ ~running[s]
  /\ running' = [running EXCEPT ![s] = TRUE]
  /\ contact' = [contact EXCEPT ![s] = FALSE]
  /\ known' = [known EXCEPT ![s] = FALSE]
  /\ UNCHANGED <<queues, server, net, primary, history, faults>>

OnDisconnect(s) ==
  /\ contact' = [contact EXCEPT ![s] = FALSE]
  /\ known' = [known EXCEPT ![s] = @ \/ contact[s]]
  /\ UNCHANGED running

Fault(s) == s \in Unreliable /\ faults < MaxFaults /\ faults' = faults + 1

\* The network cuts the connection: the tails of what is under way are lost.
Break(s) ==
  /\ link[s] = "up" /\ Fault(s)
  /\ link' = [link EXCEPT ![s] = "stuck"]
  /\ \E i \in 0..Len(toPrimary[s]) :
       toPrimary' = [toPrimary EXCEPT ![s] = SubSeq(@, 1, i)]
  /\ \E i \in 0..Len(toSecondary[s]) :
       toSecondary' = [toSecondary EXCEPT ![s] = SubSeq(@, 1, i)]
  /\ UNCHANGED <<queues, server, client, primary, history>>

\* socket.io notices, or the close that the worker asked for completes.
Closed(s) ==
  /\ link[s] \in {"stuck", "closing"}
  /\ link' = [link EXCEPT ![s] = "down"]
  /\ OnDisconnect(s)
  /\ UNCHANGED <<queues, server, toPrimary, toSecondary, primary, history, faults>>

\* The worker finds the connection gone though a late message renewed the contact.
WorkerSeesDown(s) ==
  /\ running[s] /\ contact[s] /\ link[s] = "down"
  /\ OnDisconnect(s)
  /\ UNCHANGED <<queues, server, net, primary, history, faults>>

\* No answer in time: the connection is closed, or, when that takes long, counted
\* as closed.
QueryTimeout(s) ==
  /\ running[s] /\ contact[s] /\ link[s] \in {"up", "stuck"}
  /\ IF link[s] = "up" THEN Fault(s) ELSE UNCHANGED faults
  /\ \E l \in {"down", "closing"} : link' = [link EXCEPT ![s] = l]
  /\ OnDisconnect(s)
  /\ UNCHANGED <<queues, server, toPrimary, toSecondary, primary, history>>

\* The server of s is restarted.
Restart(s) ==
  /\ Fault(s)
  /\ link' = IF link[s] = "up" THEN [link EXCEPT ![s] = "stuck"] ELSE link
  /\ \E i \in 0..Len(toPrimary[s]) :
       toPrimary' = [toPrimary EXCEPT ![s] = SubSeq(@, 1, i)]
  /\ toSecondary' = [toSecondary EXCEPT ![s] = <<>>]
  /\ dropped' = [dropped EXCEPT ![s] = @ \cup {m.n : m \in ToSet(queue[s]) \ {Join}}]
  /\ queue' = [queue EXCEPT ![s] = <<>>]
  /\ expects' = [expects EXCEPT ![s] = FALSE]
  /\ notify' = [notify EXCEPT ![s] = FALSE]
  /\ waiting' = [waiting EXCEPT ![s] = FALSE]
  /\ retries' = [retries EXCEPT ![s] = 0]
  /\ secRace' = [secRace EXCEPT ![s] = "ready"]
  /\ UNCHANGED <<passes, client, primary, seen, last>>

-----------------------------------------------------------------------------
(* The primary: splits.                                                    *)

\* The lap that a split belongs to: lap 1 starts with the first pass.
CurrentLap == IF laps = 0 THEN 0 ELSE laps - 1

\* A mutated form: a split may be missing before this one.
FitsAfterAny(s) ==
  laps > 0 /\ \A i \in 1..Len(splits[CurrentLap]) : splits[CurrentLap][i] < s
\* s is the next split of the lap.
Fits(s) ==
  /\ laps > 0
  /\ s = IF splits[CurrentLap] = <<>> THEN 0 ELSE Last(splits[CurrentLap]) + 1

\* A pass record arrives: it counts as contact, its split is stored if a race is
\* on and it fits, and it is acknowledged whatever became of it.
OnPassRecord(s, m) ==
  /\ contact' = [contact EXCEPT ![s] = TRUE]
  /\ splits' = IF race \in {"racing", "stopping"} /\ Fits(s)
               THEN [splits EXCEPT ![CurrentLap] = Append(@, s)] ELSE splits
  /\ seen' = [seen EXCEPT ![s] = @ \cup {m.n}]
  /\ last' = [last EXCEPT ![s] = m.n]

\* A pass record or the answer to a join.  The ack does not ask for contact; the
\* ack of a join has no payload.
PrimaryReceives(s) ==
  /\ toPrimary[s] # <<>>
  /\ toPrimary' = [toPrimary EXCEPT ![s] = Tail(@)]
  /\ LET m == Head(toPrimary[s]) IN
       /\ toSecondary' = IF link[s] = "up"
                         THEN [toSecondary EXCEPT ![s] = Append(@, Msg("ack", m.n))]
                         ELSE toSecondary
       /\ \/ m # Join /\ OnPassRecord(s, m)
          \/ m = Join /\ UNCHANGED <<contact, splits, seen, last>>
  /\ UNCHANGED <<queues, server, link, known, running, race, laps, requests, dropped, faults>>

-----------------------------------------------------------------------------
(* The primary: its race.                                                  *)

Request == requests < MaxRequests /\ requests' = requests + 1

NoSplits == [l \in 0..MaxLaps |-> <<>>]

\* A request to stage: the stored splits are gone before anything else is looked
\* at.  A finished race without laps is discarded first.
Stage ==
  /\ Request
  /\ splits' = NoSplits
  /\ \/ /\ race = "ready" \/ (race = "done" /\ laps = 0)
        /\ race' = "staging" /\ laps' = 0
        /\ EmitAll((IF race = "done" THEN <<Msg("discard_laps", 0)>> ELSE <<>>)
                     \o <<Msg("stage_race", 0)>>)
     \/ /\ race \in {"staging", "racing", "stopping"} \/ (race = "done" /\ laps > 0)
        /\ UNCHANGED <<race, laps, toSecondary>>
  /\ UNCHANGED <<queues, server, link, toPrimary, contact, known, running, history, faults>>

Start ==
  /\ race = "staging" /\ race' = "racing"
  /\ UNCHANGED <<queues, server, net, client, laps, splits, requests, history, faults>>

LapPass ==
  /\ race \in {"racing", "stopping"} /\ laps < MaxLaps
  /\ laps' = laps + 1
  /\ UNCHANGED <<queues, server, net, client, race, splits, requests, history, faults>>

\* stop tells the secondaries first; the race is RACING until passes are handled.
Stop ==
  /\ Request
  /\ race # "stopping"
  /\ race' = CASE race = "racing" -> "stopping" [] race = "staging" -> "ready"
               [] OTHER -> "done"
  /\ EmitAll(<<Msg("stop_race", 0)>>)
  /\ UNCHANGED <<queues, server, link, toPrimary, contact, known, running, laps, splits,
                 history, faults>>

Stopped ==
  /\ race = "stopping" /\ race' = "done"
  /\ UNCHANGED <<queues, server, net, client, laps, splits, requests, history, faults>>

\* do_save_actions and discard_laps of a finished race.
Clear ==
  /\ Request
  /\ race = "done" /\ race' = "ready" /\ laps' = 0
  /\ EmitAll(<<Msg("save_laps", 0)>>) \/ EmitAll(<<Msg("discard_laps", 0)>>)
  /\ UNCHANGED <<queues, server, link, toPrimary, contact, known, running, splits,
                 history, faults>>

-----------------------------------------------------------------------------

Zero == [s \in Secondaries |-> 0]
No == [s \in Secondaries |-> FALSE]
HaveJoined == [s \in Secondaries |-> s \in Joined]
Nothing == [s \in Secondaries |-> <<>>]

\* Connections are made while the primary races, or after a race without laps.  The
\* secondaries in Joined have followed it so far.
Init ==
  /\ queue = Nothing /\ expects = HaveJoined /\ notify = No /\ waiting = No /\ retries = Zero
  /\ race \in {"racing", "done"} /\ laps = 0 /\ splits = NoSplits
  /\ secRace = [s \in Secondaries |-> IF s \in Joined THEN race ELSE "ready"] /\ passes = Zero
  /\ link = [s \in Secondaries |-> IF s \in Joined THEN "up" ELSE "down"]
  /\ toPrimary = Nothing /\ toSecondary = Nothing
  /\ contact = HaveJoined /\ known = No
  /\ running = [s \in Secondaries |-> TRUE]
  /\ requests = 0 /\ faults = 0
  /\ seen = [s \in Secondaries |-> {}] /\ last = Zero /\ dropped = [s \in Secondaries |-> {}]

QueueStep(s) == Send(s) \/ Notified(s) \/ Timeout(s)
SecondaryStep(s) == Pass(s) \/ SecondaryReceives(s) \/ SecondaryStarts(s)
ClientStep(s) ==
  \/ Connect(s) \/ GiveUp(s) \/ RetrySecondary(s) \/ WorkerSeesDown(s)
  \/ QueryTimeout(s) \/ PrimaryReceives(s)
NetworkStep(s) == Break(s) \/ Closed(s) \/ Restart(s)
RaceStep == Stage \/ Start \/ LapPass \/ Stop \/ Stopped \/ Clear

Next ==
  \/ \E s \in Secondaries : QueueStep(s) \/ SecondaryStep(s) \/ ClientStep(s) \/ NetworkStep(s)
  \/ RaceStep

Spec == Init /\ [][Next]_vars

\* The queue's worker is a greenlet that nothing blocks: it runs, and its timer
\* expires.
FairSpec == Spec /\ \A s \in Secondaries : WF_vars(QueueStep(s))

-----------------------------------------------------------------------------

\* A queue holds no more records than its size; the answer to a join is put in
\* front whatever it holds.
WithinSize(s) == Cardinality(ToSet(queue[s]) \ {Join}) <= QueueSize

TypeOK ==
  /\ queue \in [Secondaries -> Seq(ToPrimary)] /\ toPrimary \in [Secondaries -> Seq(ToPrimary)]
  /\ toSecondary \in [Secondaries -> Seq(ToSecondary)]
  /\ \A s \in Secondaries : WithinSize(s) /\ passes[s] <= PassesOf[s]
  /\ expects \in [Secondaries -> BOOLEAN] /\ notify \in [Secondaries -> BOOLEAN]
  /\ waiting \in [Secondaries -> BOOLEAN] /\ contact \in [Secondaries -> BOOLEAN]
  /\ known \in [Secondaries -> BOOLEAN] /\ running \in [Secondaries -> BOOLEAN]
  /\ retries \in [Secondaries -> 0..MaxRetries] /\ passes \in [Secondaries -> Nat]
  /\ secRace \in [Secondaries -> {"ready", "staging", "racing", "done"}]
  /\ link \in [Secondaries -> {"up", "stuck", "closing", "down"}]
  /\ race \in {"ready", "staging", "racing", "stopping", "done"}
  /\ laps \in 0..MaxLaps /\ splits \in [0..MaxLaps -> Seq(Secondaries)]
  /\ seen \in [Secondaries -> SUBSET (Nat \ {0})] /\ last \in [Secondaries -> Nat]
  /\ dropped \in [Secondaries -> SUBSET (Nat \ {0})]
  /\ requests \in 0..MaxRequests /\ faults \in 0..MaxFaults

\* A pass that left the queue because it was acknowledged has been handled by the
\* primary: whatever breaks, a record is handled, still queued, or was given up.
AckedArrived ==
  \A s \in Secondaries : \A n \in 1..passes[s] :
    n \in seen[s] \cup dropped[s] \/ Msg("pass_record", n) \in ToSet(queue[s])

\* The records of one secondary arrive in the order of its passes (SendAckQueue).
Channel == INSTANCE PassChannel
InOrder == Channel!Spec

\* The splits stored for a lap are those of the first gates, each once and in
\* order, whatever arrives late, twice or not at all (on_pass_record).
SplitsConsecutive ==
  \A l \in 0..MaxLaps : \A i \in 1..Len(splits[l]) : splits[l][i] = i - 1

\* While the primary races, a secondary that is connected and has handled what it
\* was sent takes part, even one that was restarted or reconnected (on_connect).
SecondariesTakePart ==
  race \in {"staging", "racing"} =>
    \A s \in Secondaries :
      link[s] = "up" /\ contact[s] /\ toSecondary[s] = <<>> => secRace[s] \in {"staging", "racing"}

\* A queue does not hold a record for ever, connected or not (queueWorkerFn).
QueueDrains == \A s \in Unreliable : queue[s] # <<>> ~> queue[s] = <<>>
=============================================================================
