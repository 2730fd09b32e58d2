--------------------------- MODULE NodeInterface ---------------------------
(***************************************************************************)
(* The server's side of the receiver nodes: the update loop that polls     *)
(* them (RHInterface.py, BaseHardwareInterface.py), the writes of other    *)
(* greenlets (race start, settings), and the serial link they share        *)
(* (serial_node.py), over which requests and replies get lost.             *)
(*                                                                         *)
(* The nodes are those of one processor (RssiNode), which answers for its  *)
(* current node; the server keeps track of which one that is.  Time is one *)
(* clock, in milliseconds for the nodes and the server alike; it may pass  *)
(* between the attempts of a read.  A race is on: the RSSI history is kept.*)
(* Captures of levels, scans and the test of the receiver's register are   *)
(* left out.                                                               *)
(***************************************************************************)
EXTENDS RssiNode, SequencesExt

CONSTANTS
  Count,          \* number of nodes
  PowerDown,      \* the frequency that powers a receiver down (1111)
  MaxRetries,     \* MAX_RETRY_COUNT (4)
  FirstLap,       \* lap id that the nodes have come to when the server starts
  Courses,        \* bound: courses that the RSSI values of all nodes may take
  Settings,       \* bound: settings that are written, a register and its value each
  Lowered,        \* the registers written to lower the levels of a node
  LowerDuration,  \* how long levels stay lowered
  MaxTime,        \* bound: time
  MaxRequests,    \* bound: requests of other greenlets
  RequestsTo,     \* bound: nodes they are for
  MaxFaults       \* bound: failing attempts of a read, or changes and writes that fail for good

Nodes == 0..Count-1
None == -1

ASSUME InterfaceAssumption ==
  /\ Count \in Nat \ {0} /\ MaxRetries \in Nat /\ LowerDuration \in Nat
  /\ PowerDown \in Frequencies /\ FirstLap \in 0..LapIds-1 /\ RequestsTo \subseteq Nodes
  /\ Courses \subseteq [Nodes -> [1..MaxTime -> 0..MaxRssi]]
  /\ Settings \subseteq {"freq"} \X Frequencies \cup {"enter", "exit"} \X (0..MaxRssi)
  /\ Lowered \in Seq([reg : {"enter", "exit"}, value : 0..MaxRssi])
  /\ {MaxTime, MaxRequests, MaxFaults} \subseteq Nat

VARIABLES
  now,
  \* the processor
  fw,        \* fw[i]: the firmware's record of node i
  cur,       \* cmdRssiNodePtr
  \* the server
  holder,    \* multi_curnode_index_holder: the index it takes cur to be, or None
  seat,      \* seat[i]: the Node object
  poll,      \* where the update loop is
  todo,      \* what each greenlet has yet to write
  \* history and bounds
  ended,     \* ended[i]: times of the passes that node i has ended
  trace,     \* trace[i]: the values it measured
  reported,  \* passes given to pass_record_callback
  stray,     \* a change of the current node was given up half done
  late,      \* an extremum was read so late that two bytes do not hold its age
  missed,    \* nodes that a write was given up for and has not reached
  requests, faults

processor == <<fw, cur>>
history == <<ended, trace, reported>>
vars == <<now, processor, holder, seat, poll, todo, history, stray, late, missed, requests, faults>>

Greenlets == {"update", "request"}

-----------------------------------------------------------------------------
(* The processor.                                                          *)

\* Replace the records of the nodes by new; a pass that ends is recorded.
SetNodes(new) ==
  /\ fw' = new
  /\ ended' = [i \in Nodes |->
                 IF fw'[i].lastPass.lap = fw[i].lastPass.lap THEN ended[i]
                 ELSE Append(ended[i], fw'[i].lastPass.time)]

\* One round of loop(): a value of each node is processed.
Sample ==
  /\ now < MaxTime /\ now' = now + 1
  /\ \E c \in Courses :
       /\ \A i \in Nodes : IsPrefix(trace[i], c[i])
       /\ SetNodes([i \in Nodes |-> Process(fw[i], c[i][now'], now')])
       /\ trace' = [i \in Nodes |-> Append(trace[i], c[i][now'])]
  /\ UNCHANGED <<cur, holder, seat, poll, todo, reported, stray, late, missed, requests, faults>>

-----------------------------------------------------------------------------
(* The link.                                                               *)

Fault == faults < MaxFaults /\ faults' = faults + 1

Addressed(i) == Count = 1 \/ holder = i

\* A mutated form: the index is kept although the processor may not have it.
HolderAfterGiveUp(i) == i
HolderKept(i) == holder

\* The node that a block for node i reaches: the current one, if the server takes it
\* to be i; otherwise the index is first changed, until the processor confirms it.
Reached(i) == IF Addressed(i) THEN cur ELSE i
Reach(i) == cur' = Reached(i) /\ holder' = IF Count = 1 THEN holder ELSE i

\* No confirmation comes, over and over: the server gives up on the block and does
\* not know whether the processor has changed.
SwitchGivenUp(i) ==
  /\ ~Addressed(i) /\ Fault
  /\ cur' \in {cur, i}
  /\ holder' = HolderKept(i)
  /\ stray' = (stray \/ (holder # None /\ cur' # cur))
  /\ UNCHANGED fw

-----------------------------------------------------------------------------
(* The update loop.                                                        *)

Idle == [at |-> "idle", node |-> 0, tries |-> 0, stats |-> <<>>, updates |-> <<>>,
         restore |-> None]

ValidRssi(v) == 0 < v /\ v < MaxRssi

\* Blocks of other greenlets wait while a block is being repeated (node_io_rlock_obj).
LockFree == poll.tries = 0

\* With node i done, the one with lowered levels to restore, if any: the first whose time
\* has come, or one with an earlier time.
RestoreAfter(i, seats) ==
  IF /\ seats[i].lowered /\ now >= seats[i].lowerTime
     /\ poll.restore = None \/ seats[i].lowerTime < seats[poll.restore].lowerTime
  THEN i ELSE poll.restore

\* The first node after i that is enabled; the last one is followed by the lists.
NextEnabled(i) == {j \in i+1..Count-1 : seat[j].freq # 0 /\ \A k \in i+1..j-1 : seat[k].freq = 0}
GoOn(i, updates, restore) ==
  poll' = IF NextEnabled(i) = {}
          THEN [Idle EXCEPT !.at = "finish", !.updates = updates, !.restore = restore]
          ELSE [Idle EXCEPT !.at = "stats", !.node = CHOOSE j \in NextEnabled(i) : TRUE,
                            !.updates = updates, !.restore = restore]

PollStarts ==
  /\ poll.at = "idle" /\ todo["update"] = <<>>
  /\ GoOn(-1, <<>>, None)
  /\ UNCHANGED <<now, processor, holder, seat, todo, history, stray, late, missed, requests, faults>>

\* What a block that could not be read leads to: the node is passed over, or, with the
\* second block, the update ends in an exception; what it found at other nodes is
\* found again by the next one.
BlockFails ==
  IF poll.at = "stats" THEN GoOn(poll.node, poll.updates, RestoreAfter(poll.node, seat))
  ELSE poll' = Idle

PollGivesUp ==
  /\ poll.at \in {"stats", "extremums"} /\ SwitchGivenUp(poll.node)
  /\ BlockFails
  /\ UNCHANGED <<now, seat, todo, history, late, missed, requests>>

\* READ_LAP_PASS_STATS succeeds.  passes and at: ghosts, the passes that the node has
\* ended by then and the time.
ReadStats ==
  /\ poll.at = "stats" /\ Reach(poll.node)
  /\ poll' = [poll EXCEPT !.at = "extremums", !.tries = 0,
                          !.stats = [block |-> PassStats(fw[cur'], now),
                                     passes |-> Len(ended[cur']), at |-> now]]
  /\ fw' = [fw EXCEPT ![cur'].active = TRUE]
  /\ UNCHANGED <<now, seat, todo, history, stray, late, missed, requests, faults>>

\* _addEntry: a third entry of one value moves the second.
AddEntry(h, v, t) ==
  IF Len(h) >= 2 /\ h[Len(h)][1] = v /\ h[Len(h) - 1][1] = v
  THEN [h EXCEPT ![Len(h)] = <<v, t>>] ELSE Append(h, <<v, t>>)

\* A mutated form: the time since the end is used for the start.
AddSwapped(h, e) ==
  IF ~ValidRssi(e.rssi) THEN h
  ELSE AddEntry(AddEntry(h, e.rssi, now - e.since), e.rssi, now - (e.since + e.duration))
\* addTo: the extremum's first and last times; one entry if they are the same.
AddExtremum(h, e) ==
  IF ~ValidRssi(e.rssi) THEN h
  ELSE IF e.duration = 0 THEN AddEntry(h, e.rssi, now - e.since)
  ELSE AddEntry(AddEntry(h, e.rssi, now - e.since), e.rssi, now - (e.since - e.duration))

\* A mutated form: laps are compared by their order.
LaterLap(i, lap) == lap > seat[i].lap
\* Another: every update counts.
AnyLap(i, lap) == TRUE
NewLap(i, lap) == lap # seat[i].lap

\* READ_LAP_EXTREMUMS succeeds, and both blocks are processed: the time of the pass
\* is that of the second block less the milliseconds of the first.
ReadExtremums ==
  /\ poll.at = "extremums" /\ Reach(poll.node)
  /\ fw' = [fw EXCEPT ![cur'] = ExtremumsRead(@)]
  /\ LET i == poll.node
         s == poll.stats.block
         e == Extremums(fw[cur'], now)
         update == [node |-> i, lap |-> s.lap, time |-> now - s.since,
                    passes |-> poll.stats.passes, at |-> poll.stats.at, read |-> now]
     IN  /\ late' = (late \/ (ValidRssi(e.rssi) /\ now - Sent(fw[cur']).first > MaxDuration))
         /\ IF ~ValidRssi(s.rssi)
            THEN UNCHANGED seat /\ GoOn(i, poll.updates, RestoreAfter(i, seat))
            ELSE /\ seat' = [seat EXCEPT
                      ![i].crossing = e.crossing, ![i].history = AddExtremum(@, e)]
                 /\ GoOn(i, IF NewLap(i, s.lap) THEN Append(poll.updates, update)
                            ELSE poll.updates,
                         RestoreAfter(i, seat))
  /\ UNCHANGED <<now, todo, history, stray, missed, requests, faults>>

\* An attempt fails: the request was lost, or the reply to what the node has done.
ReadFails ==
  /\ poll.at \in {"stats", "extremums"} /\ Reach(poll.node) /\ Fault
  /\ fw' \in {fw, [fw EXCEPT ![cur'] = IF poll.at = "stats" THEN [@ EXCEPT !.active = TRUE]
                                       ELSE ExtremumsRead(@)]}
  /\ IF poll.tries < MaxRetries THEN poll' = [poll EXCEPT !.tries = @ + 1] ELSE BlockFails
  /\ UNCHANGED <<now, seat, todo, history, stray, late, missed, requests>>

\* process_updates: in the order of the passes, at one time in that of the nodes; the first
\* lap id that is heard of a node is no pass.
Known == {k \in DOMAIN poll.updates : seat[poll.updates[k].node].lap # None}
Earlier(k, l) ==
  LET at(j) == poll.updates[j].time IN at(k) < at(l) \/ (at(k) = at(l) /\ k < l)
InOrder ==
  {p \in [1..Cardinality(Known) -> Known] : \A i, j \in DOMAIN p : i < j => Earlier(p[i], p[j])}

W(reg, i, v, save) == [reg |-> reg, node |-> i, value |-> v, save |-> save]

\* A mutated form: only the enter-at level is restored.
RestoreEnterOnly(i) == <<W("enter", i, seat[i].enter, TRUE), W("restored", i, 0, FALSE)>>
RestoreWrites(i) ==
  <<W("enter", i, seat[i].enter, TRUE), W("exit", i, seat[i].exit, TRUE),
    W("restored", i, 0, FALSE)>>

\* The update ends: passes are reported, levels are restored.
Finish ==
  /\ poll.at = "finish"
  /\ \E p \in InOrder : reported' = reported \o [i \in DOMAIN p |-> poll.updates[p[i]]]
  /\ seat' = [i \in Nodes |->
       LET mine == {k \in DOMAIN poll.updates : poll.updates[k].node = i}
           u == poll.updates[CHOOSE k \in mine : TRUE] IN
       IF mine = {} THEN seat[i] ELSE [seat[i] EXCEPT !.lap = u.lap, !.seen = u.passes]]
  /\ todo' = IF poll.restore = None THEN todo
             ELSE [todo EXCEPT !["update"] = RestoreWrites(poll.restore)]
  /\ poll' = Idle
  /\ UNCHANGED <<now, processor, holder, ended, trace, stray, late, missed, requests, faults>>

-----------------------------------------------------------------------------
(* Writes.                                                                 *)

Head1(g) == todo[g][1]
Pop(g) == todo' = [todo EXCEPT ![g] = Tail(@)]
CanWrite(g) == todo[g] # <<>> /\ Head1(g).reg # "restored" /\ (g = "update" \/ LockFree)

\* set_and_validate_value ends with out for the value in: the node object takes it,
\* out of the frequency and in of the levels.
Saved(w, out) ==
  IF w.reg = "freq"
  THEN [seat EXCEPT ![w.node].freq = IF w.value = PowerDown THEN 0 ELSE out]
  ELSE IF w.save /\ w.reg = "enter" /\ out # 0 THEN [seat EXCEPT ![w.node].enter = w.value]
  ELSE IF w.save /\ w.reg = "exit" /\ out # 0 THEN [seat EXCEPT ![w.node].exit = w.value]
  ELSE seat

\* The value is written and reads back.
WriteReaches(g) ==
  /\ CanWrite(g) /\ Reach(Head1(g).node)
  /\ SetNodes([fw EXCEPT ![cur'] = Write(@, Head1(g).reg, Head1(g).value)])
  /\ seat' = Saved(Head1(g), Head1(g).value)
  /\ Pop(g)
  /\ UNCHANGED <<now, poll, trace, reported, stray, late, missed, requests, faults>>

\* All attempts fail: nothing is read, which counts as success whether or not the value
\* was written, or an old value is read each time.
WriteFails(g) ==
  /\ CanWrite(g) /\ Reach(Head1(g).node) /\ Fault
  /\ LET w == Head1(g) IN
       \/ /\ SetNodes([fw EXCEPT ![cur'] = Write(@, w.reg, w.value)])
          /\ seat' = Saved(w, w.value) /\ UNCHANGED missed
       \/ /\ UNCHANGED <<fw, ended>> /\ missed' = missed \cup {w.node}
          /\ \E out \in IF w.reg = "force" THEN {w.value}
                        ELSE {w.value, Register(fw[cur'], w.reg)} :
               seat' = Saved(w, out)
  /\ Pop(g)
  /\ UNCHANGED <<now, poll, trace, reported, stray, late, requests>>

WriteGivenUp(g) ==
  /\ CanWrite(g) /\ SwitchGivenUp(Head1(g).node)
  /\ seat' = Saved(Head1(g), Head1(g).value)
  /\ missed' = missed \cup {Head1(g).node}
  /\ Pop(g)
  /\ UNCHANGED <<now, poll, history, late, requests>>

\* The levels have been restored.
Restored ==
  /\ todo["update"] # <<>> /\ Head1("update").reg = "restored"
  /\ seat' = [seat EXCEPT ![Head1("update").node].lowered = FALSE,
                          ![Head1("update").node].lowerTime = 0]
  /\ Pop("update")
  /\ UNCHANGED <<now, processor, holder, poll, history, stray, late, missed, requests, faults>>

-----------------------------------------------------------------------------
(* Other greenlets.                                                        *)

Request(ws) ==
  /\ requests < MaxRequests /\ requests' = requests + 1
  /\ todo["request"] = <<>> /\ todo' = [todo EXCEPT !["request"] = ws]
  /\ UNCHANGED <<now, processor, holder, poll, history, stray, late, missed, faults>>

\* set_frequency (disabling a node powers its receiver down), set_enter_at_level and
\* set_exit_at_level.
Set(i, reg, v) ==
  /\ reg = "freq" \/ ValidRssi(v)
  /\ Request(<<W(reg, i, v, TRUE)>>) /\ UNCHANGED seat

\* A crossing that the server knows of is ended at the start of a race.
ForceEndCrossing(i) ==
  /\ seat[i].crossing /\ seat[i].freq # 0
  /\ Request(<<W("force", i, 0, FALSE)>>) /\ UNCHANGED seat

\* The levels are lowered before the start of a race, and the history cleared.
Lower(i) ==
  /\ seat[i].freq # 0
  /\ Request([k \in 1..Len(Lowered) |-> W(Lowered[k].reg, i, Lowered[k].value, FALSE)])
  /\ seat' = [seat EXCEPT ![i].lowered = TRUE, ![i].lowerTime = now + LowerDuration,
                          ![i].history = <<>>]

-----------------------------------------------------------------------------

NewSeat == [freq |-> DefaultFreq, enter |-> DefaultEnter, exit |-> DefaultExit,
            lap |-> None, seen |-> 0, crossing |-> FALSE,
            lowered |-> FALSE, lowerTime |-> 0, history |-> <<>>]

\* The frequencies have been written at the start of the server.
Init ==
  /\ now = 0
  /\ fw = [i \in Nodes |->
             [Write(PowerUp, "freq", DefaultFreq) EXCEPT !.lastPass.lap = FirstLap]]
  /\ cur = 0 /\ holder = None
  /\ seat = [i \in Nodes |-> NewSeat] /\ poll = Idle
  /\ todo = [g \in Greenlets |-> <<>>]
  /\ ended = [i \in Nodes |-> <<>>] /\ trace = [i \in Nodes |-> <<>>]
  /\ reported = <<>>
  /\ stray = FALSE /\ late = FALSE /\ missed = {} /\ requests = 0 /\ faults = 0

Poll == PollStarts \/ PollGivesUp \/ ReadStats \/ ReadExtremums \/ ReadFails \/ Finish
WriteStep(g) == WriteReaches(g) \/ WriteFails(g) \/ WriteGivenUp(g)
Requests ==
  \E i \in RequestsTo :
    \/ \E x \in Settings : Set(i, x[1], x[2])
    \/ ForceEndCrossing(i) \/ Lower(i)

Next == Sample \/ Poll \/ Restored \/ (\E g \in Greenlets : WriteStep(g)) \/ Requests

Spec == Init /\ [][Next]_vars

\* The update loop runs for ever, whatever an update raises, and no greenlet holds
\* the link for ever.
FairSpec ==
  /\ Spec
  /\ WF_vars(Poll) /\ WF_vars(Restored)
  /\ \A g \in Greenlets : WF_vars(WriteStep(g))

-----------------------------------------------------------------------------

Rssi == 0..MaxRssi
Seat == [freq : Frequencies \cup {0}, enter : Rssi, exit : Rssi, lap : -1..LapIds-1,
         seen : Nat, crossing : BOOLEAN, lowered : BOOLEAN, lowerTime : Nat,
         history : Seq(Rssi \X Int)]
RegisterWrite ==
  [reg : {"freq"}, node : Nodes, value : Frequencies, save : BOOLEAN]
    \cup [reg : {"enter", "exit"}, node : Nodes, value : Rssi, save : BOOLEAN]
    \cup [reg : {"force", "restored"}, node : Nodes, value : {0}, save : BOOLEAN]
Stats == [block : [lap : 0..LapIds-1, since : 0..MaxDuration, rssi : Rssi, passPeak : Rssi],
          passes : Nat, at : Nat]
Update == [node : Nodes, lap : 0..LapIds-1, time : Int, passes : Nat, at : Nat, read : Nat]
Polling == [at : {"idle", "stats", "extremums", "finish"}, node : Nodes, tries : 0..MaxRetries,
            stats : Stats \cup {<<>>}, updates : Seq(Update), restore : Nodes \cup {None}]

TypeOK ==
  /\ now \in 0..MaxTime /\ cur \in Nodes /\ holder \in Nodes \cup {None}
  /\ fw \in [Nodes -> NodeAt(now)] /\ seat \in [Nodes -> Seat]
  /\ poll \in Polling /\ (poll.at = "extremums" => poll.stats # <<>>)
  /\ todo \in [Greenlets -> Seq(RegisterWrite)]
  /\ ended \in [Nodes -> Seq(Nat)] /\ trace \in [Nodes -> Seq(Rssi)]
  /\ stray \in BOOLEAN /\ late \in BOOLEAN /\ missed \subseteq Nodes
  /\ requests \in 0..MaxRequests /\ faults \in 0..MaxFaults

\* The server knows which node its processor takes commands for, whatever got lost,
\* unless it gave up on a change (check_set_multi_node_index).
HolderTrue == ~stray => holder \in {None, cur}

\* Passes are reported for the node that ended them, in their order and each at most
\* once, with their times as far as both blocks were read at once (update,
\* process_updates) and were read before two bytes no longer hold the age of the pass.
PassesTrue ==
  ~stray => \A k \in 1..Len(reported) :
    LET u == reported[k] IN
    /\ u.passes \in 1..Len(ended[u.node])
    /\ u.at = u.read /\ u.at - ended[u.node][u.passes] <= MaxDuration
         => u.time = ended[u.node][u.passes]
    /\ \A l \in 1..k-1 : reported[l].node = u.node => reported[l].passes < u.passes

\* Every entry of the RSSI history is a value that the node measured at that time,
\* however peaks were merged, dropped or lost (bufferHistoricPeak, addTo), as long as each
\* is read before its age is more than two bytes hold.
HistoryTrue ==
  ~stray /\ ~late => \A i \in Nodes : \A k \in 1..Len(seat[i].history) :
    LET e == seat[i].history[k] IN e[2] \in 1..Len(trace[i]) /\ trace[i][e[2]] = e[1]

\* Once no more passes end, the server knows of the last one of each enabled node, even
\* if reads fail and updates end in exceptions.
PassesNoticed ==
  \A i \in RequestsTo :
    []<>(seat[i].seen = Len(ended[i]) \/ seat[i].freq = 0 \/ stray)

\* RssiNode.cpp:517: rssiEndCrossing, which counts a pass, is the "function called when
\* crossing ends (by RSSI or I2C command)": a pass ends a crossing.
PassesEndCrossings ==
  [][\A i \in Nodes : ended'[i] # ended[i] => fw[i].crossing]_vars

-----------------------------------------------------------------------------
(* Lowered levels.                                                         *)

\* Node i has the levels that the server holds for it, and is not to be restored.
LevelsBack(i) ==
  ~seat[i].lowered /\ fw[i].enter = seat[i].enter /\ fw[i].exit = seat[i].exit

\* The levels of node i are put back, over and over, but while they are to be low, and for
\* good if it is disabled or if a write was given up.
LoweringEnds(i) ==
  []<>(\/ LevelsBack(i) \/ (seat[i].lowered /\ now < seat[i].lowerTime)
       \/ seat[i].freq = 0 \/ i \in missed \/ stray)

\* The levels of node i are about to be lowered.
Lowers(i) ==
  \E k \in DOMAIN todo["request"] :
    LET w == todo["request"][k] IN w.node = i /\ w.reg \in {"enter", "exit"} /\ ~w.save

\* They are lowered before the time to restore them has come (seconds later).
InTime(i) == Lowers(i) /\ seat[i].lowered => now < seat[i].lowerTime

\* The update loop has found it time to restore them, and is on its way to.
Restores(i) == poll.restore = i \/ \E k \in DOMAIN todo["update"] : todo["update"][k].node = i

\* The levels lowered at the start of a race are restored on the node, both of them, after
\* the time set for it (RHRace.py:411-440, RHInterface.py:380-403), unless the next race
\* lowers them while the update loop restores them.
LevelsRestored ==
  \A i \in RequestsTo : []InTime(i) /\ []~(Lowers(i) /\ Restores(i)) => LoweringEnds(i)

\* doc/Tuning Parameters.md:60: "Sets the maximum amount of time (in seconds) that the
\* EnterAt and ExitAt values will be lowered."
LoweredAtMost == \A i \in RequestsTo : []InTime(i) => LoweringEnds(i)
=============================================================================
