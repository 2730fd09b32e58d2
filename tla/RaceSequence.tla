---------------------------- MODULE RaceSequence ----------------------------
(***************************************************************************)
(* The race of the RotorHazard server (src/src/server/RHRace.py): its      *)
(* status, the requests that move it (stage, stop, save, discard, the      *)
(* scheduler), the start and expire threads of every staging, the calls    *)
(* put off with gevent.spawn_later and the queue of pass records.          *)
(*                                                                         *)
(* The server is one OS thread of gevent greenlets (server.py:53-54), so a *)
(* greenlet runs until it yields.  The variable cpu is the greenlet that   *)
(* runs, or Free when none does; a step that yields sets cpu to Free, and  *)
(* frame[x] says where greenlet x goes on when it is resumed.              *)
(*                                                                         *)
(* Time is logical: clk moves when a race starts (start_time_monotonic is  *)
(* reached) and when it ends (end_time), the two instants add_lap compares *)
(* time stamps with.  How long a sleep lasts is left open.                 *)
(***************************************************************************)
EXTENDS Integers, Sequences

CONSTANTS
  Clients,            \* greenlets that run the socket handlers of the clients
  Delayed,            \* greenlets that run calls put off with spawn_later
  Heartbeat,          \* the greenlet that fires the race scheduler
  Free,               \* the value of cpu when every greenlet has yielded
  Heats, NoHeat,      \* heat ids, and HEAT_ID_NONE (practice mode)
  MaxStages,          \* bound: start tokens handed out
  RequestKinds,       \* which requests the clients make
  MaxPasses,          \* bound: gate crossings
  MaxRequests,        \* bound: requests of clients and of the scheduler's user
  QueueSize,          \* capacity of the pass-record queue
  FixedTime,          \* race_format.unlimited_time == 0
  GraceStop,          \* race_format.lap_grace_sec > -1
  SecondaryFormat,    \* the race format is the secondary (split) timer format
  NodeIOYields,       \* talking to a node yields (it does not for mock nodes)
  StoredResultsValid  \* the stored heat, class and event results are valid

ASSUME BoundsAssumption ==
  /\ MaxStages \in Nat \ {0}
  /\ MaxRequests \in Nat \ {0}
  /\ MaxPasses \in Nat
  /\ QueueSize \in Nat \ {0}

ASSUME SwitchesAssumption ==
  /\ FixedTime \in BOOLEAN /\ GraceStop \in BOOLEAN
  /\ SecondaryFormat \in BOOLEAN
  /\ NodeIOYields \in BOOLEAN /\ StoredResultsValid \in BOOLEAN

StageIds == 1..MaxStages

StartThread(t) == <<"start", t>>
ExpireThread(t) == <<"expire", t>>

Threads == {"start", "expire"} \X StageIds

Greenlets == Clients \cup Delayed \cup {Heartbeat} \cup Threads

ASSUME GreenletsAssumption ==
  /\ Free \notin Greenlets
  /\ NoHeat \notin Heats
  /\ (Clients \cup Delayed \cup {Heartbeat}) \cap Threads = {}
  /\ Clients \cap Delayed = {}
  /\ Heartbeat \notin Clients \cup Delayed

AllRequestKinds == {"stage", "stop", "stopSave", "save", "discard", "setHeat",
                    "schedule", "scheduleSave", "cancel"}

ASSUME RequestKindsAssumption == RequestKinds \subseteq AllRequestKinds

Statuses == {"READY", "STAGING", "RACING", "DONE"}

\* Where a greenlet goes on.  "idle" is a free slot or a thread that ended.
Places == {"idle", "stage", "stagePrep", "stageCheck", "stageClear",
           "stageLaunch", "startWait", "startRace", "expireTimer",
           "expireDrain", "expireGrace", "stop", "doStop", "drain", "stopEnd",
           "stopSave", "save", "saveWrite", "saveClear", "discard", "clear", "advance"}

\* Where a call comes back to.
ReturnPlaces == {"stagePrep", "stageCheck", "clear", "advance"}

\* A call put off with spawn_later: a stop, a stop that saves, or a save.  token
\* is the token at the time of the request; the code keeps no such thing.
Calls == [fn : {"stop", "stopSave", "save"}, token : 0..MaxStages]

-----------------------------------------------------------------------------
VARIABLES
  status,        \* race_status
  token,         \* start_token; 0 is False
  timerRunning,  \* timer_running
  startTime,     \* start_time: when the race started; 0 once it is cleared
  startMono,     \* start_time_monotonic
  endTime,       \* end_time
  dbId,          \* db_id is not None
  laps,          \* time stamps in node_laps, deleted and invalid ones included
  heat,          \* current_heat
  scheduled,     \* scheduled
  forceSave,     \* scheduler_forcing_save
  crossing,      \* when the crossing in progress began; 0 if there is none
  passQ,         \* pass records waiting in pass_invoke_func_queue_obj
  adding,        \* invokeInProgressFlag of that queue
  clk,           \* monotonic()
  saved,         \* the SavedRaceMeta rows with their laps, in order
  frame,         \* where each greenlet goes on
  later,         \* how many put-off calls of each kind wait
  asked,         \* requests so far; only the bound reads it
  passes,        \* crossings so far; only the bound reads it
  cpu            \* the greenlet that runs

race == <<status, token, timerRunning, startTime, startMono, endTime, dbId, laps>>
sched == <<scheduled, forceSave>>
node == <<crossing, passQ, adding, passes>>
vars == <<race, heat, sched, node, clk, saved, frame, later, asked, cpu>>

AllHeats == Heats \cup {NoHeat}

Frames == [pc : Places, ret : Seq(ReturnPlaces), doSave : BOOLEAN, heat : AllHeats]

IdleFrame == [pc |-> "idle", ret |-> <<>>, doSave |-> FALSE, heat |-> NoHeat]

\* A SavedRaceMeta row; start stands for start_time_formatted.
SavedRaces == [start : Nat, heat : AllHeats, classOf : AllHeats, laps : SUBSET Nat]

\* No pass record is queued or being processed (waitForQueueEmpty returns at
\* once).
QueueIdle == ~adding /\ passQ = <<>>

\* stop() and race_start_thread force the end of a crossing only for a node
\* with a pilot; practice mode has no pilots.
Forced == crossing # 0 /\ heat # NoHeat
ForcedAtStart == crossing # 0 /\ (heat # NoHeat \/ SecondaryFormat)
-----------------------------------------------------------------------------
(* How a greenlet runs.                                                    *)

\* x is at p and nobody else runs.
On(x, p) == frame[x].pc = p /\ cpu \in {x, Free}

Goto(x, p) == frame' = [frame EXCEPT ![x].pc = p]

\* The frames f after gevent.spawn of greenlet y, which begins at p.
Spawn(f, y, p) == [f EXCEPT ![y].pc = p]

\* x calls the function that begins at p, to go on at q when it returns.
Call(x, p, q) ==
  frame' = [frame EXCEPT ![x].pc = p,
                         ![x].ret = <<q>> \o @,
                         ![x].doSave = FALSE]

\* The frame of x after a return.
Returned(x) ==
  IF frame[x].ret = <<>>
  THEN IdleFrame
  ELSE [frame[x] EXCEPT !.pc = Head(frame[x].ret), !.ret = Tail(frame[x].ret)]

Return(x) == frame' = [frame EXCEPT ![x] = Returned(x)]

KeepRunning(x) == cpu' = x
Yield == cpu' = Free
YieldIf(x, c) == cpu' = IF c THEN Free ELSE x

\* x returns without yielding: it runs on in its caller, if it has one.
ReturnRunning(x) == Return(x) /\ YieldIf(x, frame[x].ret = <<>>)

\* x returns after emit_current_leaderboard, which yields if it has to
\* rebuild the results (Results.calc_leaderboard sleeps).
ReturnMaybeYield(x) ==
  /\ Return(x)
  /\ \/ Yield
     \/ frame[x].ret # <<>> /\ KeepRunning(x)

PutOff(fn) == later' = [later EXCEPT ![[fn |-> fn, token |-> token]] = @ + 1]

-----------------------------------------------------------------------------
(* Requests of the clients (server.py:2348-2560, RHAPI RaceAPI).           *)

\* A request arrives; MaxRequests bounds how many do.
Arrives(kind) ==
  /\ cpu = Free
  /\ kind \in RequestKinds
  /\ asked < MaxRequests
  /\ asked' = asked + 1

Request(c, kind, p, doSave) ==
  /\ Arrives(kind)
  /\ frame[c].pc = "idle"
  /\ frame' = [frame EXCEPT ![c] = [IdleFrame EXCEPT !.pc = p, !.doSave = doSave]]
  /\ cpu' = c
  /\ UNCHANGED <<race, heat, sched, node, clk, saved, later>>

StageRequest(c) == token < MaxStages /\ Request(c, "stage", "stage", FALSE)

StopRequest(c) ==
  Request(c, "stop", "stop", FALSE) \/ Request(c, "stopSave", "stop", TRUE)

\* save(): a running race is stopped and saved a little later.
SaveRequest(c) ==
  IF status = "RACING"
  THEN Request(c, "save", "stop", TRUE)
  ELSE Request(c, "save", "save", FALSE)

DiscardRequest(c) == Request(c, "discard", "discard", FALSE)

\* set_heat(): finalize_heat_set refuses unless the race is READY.
SetHeat(h) ==
  /\ Arrives("setHeat")
  /\ status = "READY"
  /\ h # heat
  /\ heat' = h
  /\ UNCHANGED <<race, sched, node, clk, saved, frame, later, cpu>>

\* schedule() with a time: no look at the race status.
Schedule(force) ==
  /\ Arrives(IF force THEN "scheduleSave" ELSE "schedule")
  /\ scheduled' = TRUE
  /\ forceSave' = force
  /\ UNCHANGED <<race, heat, node, clk, saved, frame, later, cpu>>

\* schedule(0)
Unschedule ==
  /\ scheduled' = FALSE
  /\ forceSave' = IF scheduled THEN FALSE ELSE forceSave

CancelSchedule ==
  /\ Arrives("cancel")
  /\ scheduled
  /\ Unschedule
  /\ UNCHANGED <<race, heat, node, clk, saved, frame, later, cpu>>

\* heartbeat_thread_function: the scheduled time has come.
FireSchedule ==
  /\ cpu = Free
  /\ frame[Heartbeat].pc = "idle"
  /\ scheduled
  /\ token < MaxStages
  /\ scheduled' = FALSE
  /\ Goto(Heartbeat, "stage")
  /\ cpu' = Heartbeat
  /\ UNCHANGED <<race, heat, forceSave, node, clk, saved, later, asked>>

\* Mutant: a put-off call runs though it ran before.
FireLaterAgain(d, k) ==
  /\ cpu = Free
  /\ frame[d].pc = "idle"
  /\ later' = [later EXCEPT ![k] = @ - 1]
  /\ frame' = [frame EXCEPT ![d] =
       [IdleFrame EXCEPT !.pc = IF k.fn = "save" THEN "save" ELSE "doStop",
                         !.doSave = (k.fn = "stopSave")]]
  /\ cpu' = d
  /\ UNCHANGED <<race, heat, sched, node, clk, saved, asked>>

\* gevent runs a call put off with spawn_later in a greenlet of its own.
FireLater(d, k) ==
  /\ cpu = Free
  /\ frame[d].pc = "idle"
  /\ later[k] > 0
  /\ later' = [later EXCEPT ![k] = @ - 1]
  /\ frame' = [frame EXCEPT ![d] =
       [IdleFrame EXCEPT !.pc = IF k.fn = "save" THEN "save" ELSE "doStop",
                         !.doSave = (k.fn = "stopSave")]]
  /\ cpu' = d
  /\ UNCHANGED <<race, heat, sched, node, clk, saved, asked>>
-----------------------------------------------------------------------------
(* stage() (RHRace.py:119-372).  The early returns (interface not ready,   *)
(* inactive heat, grouped heat already saved) change nothing of this state *)
(* and are left out.                                                       *)

\* The scheduler on a race that is not READY: save it if told to and it is
\* not stopped, else give up.
StageEntry(x) ==
  /\ On(x, "stage")
  /\ \/ /\ status = "READY"
        /\ Goto(x, "stageCheck") /\ KeepRunning(x)
        /\ UNCHANGED sched
     \/ /\ status # "READY" /\ x # Heartbeat
        /\ Goto(x, "stagePrep") /\ KeepRunning(x)
        /\ UNCHANGED sched
     \/ /\ status # "READY" /\ x = Heartbeat
        /\ status # "DONE" /\ forceSave
        /\ forceSave' = FALSE
        /\ Call(x, "save", "stagePrep") /\ KeepRunning(x)
        /\ UNCHANGED scheduled
     \/ /\ status # "READY" /\ x = Heartbeat
        /\ status = "DONE" \/ ~forceSave
        /\ forceSave' = FALSE
        /\ scheduled' = FALSE
        /\ ReturnRunning(x)
  /\ UNCHANGED <<race, heat, node, clk, saved, later, asked>>

\* A race that is over without a lap is cleared; a secondary timer clears any
\* race but a running one.
StagePrep(x) ==
  /\ On(x, "stagePrep")
  /\ \/ /\ status # "READY" /\ SecondaryFormat /\ status = "RACING"
        /\ ReturnRunning(x)
     \/ /\ status # "READY" /\ SecondaryFormat /\ status # "RACING"
        /\ Call(x, "discard", "stageCheck") /\ KeepRunning(x)
     \/ /\ ~SecondaryFormat /\ status = "DONE" /\ laps = {}
        /\ Call(x, "discard", "stageCheck") /\ KeepRunning(x)
     \/ /\ \/ status = "READY"
           \/ ~SecondaryFormat /\ ~(status = "DONE" /\ laps = {})
        /\ Goto(x, "stageCheck") /\ KeepRunning(x)
  /\ UNCHANGED <<race, heat, sched, node, clk, saved, later, asked>>

\* "only initiate staging if ready": then the nodes are set up.
StageCheck(x) ==
  /\ On(x, "stageCheck")
  /\ IF status = "READY"
     THEN Unschedule /\ Goto(x, "stageClear") /\ YieldIf(x, NodeIOYields)
     ELSE ReturnRunning(x) /\ UNCHANGED sched
  /\ UNCHANGED <<race, heat, node, clk, saved, later, asked>>

\* Clears the last race and goes STAGING; emit_current_leaderboard then has
\* to build the empty leaderboard, and yields.
StageClear(x) ==
  /\ On(x, "stageClear")
  /\ laps' = {} /\ dbId' = FALSE /\ startTime' = 0
  /\ timerRunning' = FALSE
  /\ status' = "STAGING"
  /\ Goto(x, "stageLaunch") /\ Yield
  /\ UNCHANGED <<token, startMono, endTime, heat, sched, node, clk, saved, later, asked>>

\* Mutant: no second start thread while one still waits.
StageLaunchOnce(x) ==
  /\ On(x, "stageLaunch")
  /\ token < MaxStages
  /\ token' = token + 1
  /\ startMono' = clk + 1
  /\ IF \E t \in StageIds : frame[StartThread(t)].pc = "startWait"
     THEN Return(x)
     ELSE frame' = Spawn([frame EXCEPT ![x] = Returned(x)], StartThread(token + 1), "startWait")
  /\ YieldIf(x, frame[x].ret = <<>>)
  /\ UNCHANGED <<status, timerRunning, startTime, endTime, dbId, laps, heat, sched,
                 node, clk, saved, later, asked>>

\* The start time, a new token and the start thread that carries it.
StageLaunch(x) ==
  /\ On(x, "stageLaunch")
  /\ token < MaxStages
  /\ token' = token + 1
  /\ startMono' = clk + 1
  /\ frame' = Spawn([frame EXCEPT ![x] = Returned(x)], StartThread(token + 1), "startWait")
  /\ YieldIf(x, frame[x].ret = <<>>)
  /\ UNCHANGED <<status, timerRunning, startTime, endTime, dbId, laps, heat, sched,
                 node, clk, saved, later, asked>>

-----------------------------------------------------------------------------
(* race_start_thread and race_expire_thread (RHRace.py:398-529).           *)

\* Mutant: the status is not looked at again.
StartWaitAnyStatus(t) ==
  LET x == StartThread(t) IN
  /\ On(x, "startWait")
  /\ IF token = t
     THEN /\ clk' = IF clk < startMono THEN startMono ELSE clk
          /\ startTime' = clk'
          /\ Goto(x, "startRace")
          /\ YieldIf(x, NodeIOYields /\ ForcedAtStart)
     ELSE /\ Return(x) /\ Yield
          /\ UNCHANGED <<clk, startTime>>
  /\ UNCHANGED <<status, token, timerRunning, startMono, endTime, dbId, laps,
                 heat, sched, node, saved, later, asked>>

\* The last look at status and token, then the blocking wait for the start
\* time.  Nodes with a crossing in progress are told to end it.
StartWait(t) ==
  LET x == StartThread(t) IN
  /\ On(x, "startWait")
  /\ IF status = "STAGING" /\ token = t
     THEN /\ clk' = IF clk < startMono THEN startMono ELSE clk
          /\ startTime' = clk'
          /\ Goto(x, "startRace")
          /\ YieldIf(x, NodeIOYields /\ ForcedAtStart)
     ELSE /\ Return(x) /\ Yield
          /\ UNCHANGED <<clk, startTime>>
  /\ UNCHANGED <<status, token, timerRunning, startMono, endTime, dbId, laps,
                 heat, sched, node, saved, later, asked>>

StartRace(t) ==
  LET x == StartThread(t) IN
  /\ On(x, "startRace")
  /\ status' = "RACING"
  /\ timerRunning' = TRUE
  /\ frame' = LET ended == [frame EXCEPT ![x] = IdleFrame] IN
              IF FixedTime THEN Spawn(ended, ExpireThread(t), "expireTimer") ELSE ended
  /\ Yield
  /\ UNCHANGED <<token, startTime, startMono, endTime, dbId, laps, heat, sched,
                 node, clk, saved, later, asked>>

\* The count-down is over: the race goes on until the grace period ends.
ExpireTimer(t) ==
  LET x == ExpireThread(t) IN
  /\ On(x, "expireTimer")
  /\ IF status = "RACING" /\ token = t
     THEN timerRunning' = FALSE /\ Goto(x, "expireDrain") /\ YieldIf(x, ~QueueIdle)
     ELSE Return(x) /\ Yield /\ UNCHANGED timerRunning
  /\ UNCHANGED <<status, token, startTime, startMono, endTime, dbId, laps, heat,
                 sched, node, clk, saved, later, asked>>

\* waitForQueueEmpty returned, if need be after its 300 polls.
ExpireDrain(t) ==
  LET x == ExpireThread(t) IN
  /\ On(x, "expireDrain")
  /\ IF GraceStop THEN Goto(x, "expireGrace") ELSE Return(x)
  /\ Yield
  /\ UNCHANGED <<race, heat, sched, node, clk, saved, later, asked>>

\* Mutant: the expire thread takes its own race for another one.
ExpireGraceOfOther(t) ==
  LET x == ExpireThread(t) IN
  /\ On(x, "expireGrace")
  /\ IF status = "RACING" /\ token # t
     THEN Goto(x, "stop") /\ KeepRunning(x)
     ELSE Return(x) /\ Yield
  /\ UNCHANGED <<race, heat, sched, node, clk, saved, later, asked>>

ExpireGrace(t) ==
  LET x == ExpireThread(t) IN
  /\ On(x, "expireGrace")
  /\ IF status = "RACING" /\ token = t
     THEN Goto(x, "stop") /\ KeepRunning(x)
     ELSE Return(x) /\ Yield
  /\ UNCHANGED <<race, heat, sched, node, clk, saved, later, asked>>

-----------------------------------------------------------------------------
(* stop() and do_stop_race_actions() (RHRace.py:533-629).                  *)

\* A running race with a crossing in progress is stopped half a second later.
Stop(x) ==
  /\ On(x, "stop")
  /\ IF status = "RACING" /\ Forced
     THEN /\ PutOff(IF frame[x].doSave THEN "stopSave" ELSE "stop")
          /\ Return(x)
          /\ YieldIf(x, NodeIOYields \/ frame[x].ret = <<>>)
     ELSE Goto(x, "doStop") /\ KeepRunning(x) /\ UNCHANGED later
  /\ UNCHANGED <<race, heat, sched, node, clk, saved, asked>>

\* Mutant: a race stopped while it stages is DONE as well.
DoStopIsDone(x) ==
  /\ On(x, "doStop")
  /\ status' = "DONE"
  /\ IF status = "RACING"
     THEN /\ clk' = clk + 1 /\ endTime' = clk + 1
          /\ Goto(x, "drain") /\ YieldIf(x, ~QueueIdle)
     ELSE /\ UNCHANGED <<clk, endTime>>
          /\ Goto(x, "stopEnd") /\ KeepRunning(x)
  /\ UNCHANGED <<token, timerRunning, startTime, startMono, dbId, laps, heat,
                 sched, node, saved, later, asked>>

\* A running race is DONE, a staging one READY again, and any other is DONE.
DoStop(x) ==
  /\ On(x, "doStop")
  /\ \/ /\ status = "RACING"
        /\ clk' = clk + 1
        /\ endTime' = clk + 1
        /\ status' = "DONE"
        /\ Goto(x, "drain") /\ YieldIf(x, ~QueueIdle)
     \/ /\ status = "STAGING"
        /\ status' = "READY"
        /\ Goto(x, "stopEnd") /\ KeepRunning(x)
        /\ UNCHANGED <<clk, endTime>>
     \/ /\ status \in {"READY", "DONE"}
        /\ status' = "DONE"
        /\ Goto(x, "stopEnd") /\ KeepRunning(x)
        /\ UNCHANGED <<clk, endTime>>
  /\ UNCHANGED <<token, timerRunning, startTime, startMono, dbId, laps, heat,
                 sched, node, saved, later, asked>>

\* waitForQueueEmpty returned, if need be after its 300 polls.
Drain(x) ==
  /\ On(x, "drain")
  /\ Goto(x, "stopEnd") /\ KeepRunning(x)
  /\ UNCHANGED <<race, heat, sched, node, clk, saved, later, asked>>

\* The leaderboard is emitted, which may have to be built.
StopEnd(x) ==
  /\ On(x, "stopEnd")
  /\ timerRunning' = FALSE
  /\ IF frame[x].doSave
     THEN Goto(x, "stopSave") /\ (Yield \/ KeepRunning(x))
     ELSE ReturnMaybeYield(x)
  /\ UNCHANGED <<status, token, startTime, startMono, endTime, dbId, laps, heat,
                 sched, node, clk, saved, later, asked>>

\* "do with a bit of delay": the save is put off.
StopSave(x) ==
  /\ On(x, "stopSave")
  /\ PutOff("save")
  /\ ReturnRunning(x)
  /\ UNCHANGED <<race, heat, sched, node, clk, saved, asked>>

-----------------------------------------------------------------------------
(* do_save_actions() and discard_laps() (RHRace.py:632-785, 1371-1420).    *)

\* Mutant: no look at db_id.
SaveTwice(x) ==
  /\ On(x, "save")
  /\ \/ startTime = 0 /\ ReturnRunning(x)
     \/ /\ startTime # 0 /\ heat = NoHeat
        /\ Goto(x, "discard") /\ KeepRunning(x)
     \/ /\ startTime # 0 /\ heat # NoHeat
        /\ frame' = [frame EXCEPT ![x] = [@ EXCEPT !.pc = "saveWrite", !.heat = heat]]
        /\ YieldIf(x, ~StoredResultsValid)
  /\ UNCHANGED <<race, heat, sched, node, clk, saved, later, asked>>

\* Nothing to save, practice mode, or already saved; else the stored results
\* of heat, class and event are fetched, which builds them if they are stale.
Save(x) ==
  /\ On(x, "save")
  /\ \/ /\ startTime = 0 \/ (heat # NoHeat /\ dbId)
        /\ ReturnRunning(x)
     \/ /\ startTime # 0 /\ heat = NoHeat
        /\ Goto(x, "discard") /\ KeepRunning(x)
     \/ /\ startTime # 0 /\ heat # NoHeat /\ ~dbId
        /\ frame' = [frame EXCEPT ![x] = [@ EXCEPT !.pc = "saveWrite", !.heat = heat]]
        /\ YieldIf(x, ~StoredResultsValid)
  /\ UNCHANGED <<race, heat, sched, node, clk, saved, later, asked>>

\* The rows of the race; the results are then rebuilt, which may yield.
SaveWrite(x) ==
  /\ On(x, "saveWrite")
  /\ saved' = Append(saved, [start |-> startTime, heat |-> heat,
                             classOf |-> frame[x].heat, laps |-> laps])
  /\ dbId' = TRUE
  /\ Goto(x, "saveClear")
  /\ Yield \/ KeepRunning(x)
  /\ UNCHANGED <<status, token, timerRunning, startTime, startMono, endTime, laps,
                 heat, sched, node, clk, later, asked>>

SaveClear(x) ==
  /\ On(x, "saveClear")
  /\ Call(x, "discard", "advance") /\ KeepRunning(x)
  /\ UNCHANGED <<race, heat, sched, node, clk, saved, later, asked>>

\* set_heat(get_next_heat_id(...)): finalize_heat_set refuses unless READY; it
\* emits the leaderboard.
Advance(x) ==
  /\ On(x, "advance")
  /\ heat' \in IF status = "READY" THEN AllHeats ELSE {heat}
  /\ ReturnMaybeYield(x)
  /\ UNCHANGED <<race, sched, node, clk, saved, later, asked>>

Discard(x) ==
  /\ On(x, "discard")
  /\ IF status \in {"STAGING", "RACING"} THEN Call(x, "stop", "clear") ELSE Goto(x, "clear")
  /\ KeepRunning(x)
  /\ UNCHANGED <<race, heat, sched, node, clk, saved, later, asked>>

\* clear_laps and READY; the empty leaderboard has to be built, which yields.
Clear(x) ==
  /\ On(x, "clear")
  /\ laps' = {} /\ dbId' = FALSE /\ startTime' = 0
  /\ status' = "READY"
  /\ Return(x) /\ Yield
  /\ UNCHANGED <<token, timerRunning, startMono, endTime, heat, sched, node, clk,
                 saved, later, asked>>

-----------------------------------------------------------------------------
(* Gate crossings and pass records (BaseHardwareInterface.process_updates, *)
(* server.py:3081, RHRace.add_lap, InvokeFuncQueue).                       *)

BeginCrossing ==
  /\ cpu = Free
  /\ crossing = 0
  /\ passes < MaxPasses
  /\ passes' = passes + 1
  /\ crossing' = clk
  /\ UNCHANGED <<race, heat, sched, passQ, adding, clk, saved, frame, later, asked, cpu>>

\* The pass is stamped with the time of its peak.
EndCrossing ==
  /\ cpu = Free
  /\ crossing # 0
  /\ Len(passQ) < QueueSize
  /\ \E ts \in crossing..clk : passQ' = Append(passQ, ts)
  /\ crossing' = 0
  /\ UNCHANGED <<race, heat, sched, adding, passes, clk, saved, frame, later, asked, cpu>>

\* Mutants: a pass that is no part of the race counts, because its race is not
\* looked at, or because it came at the end.
CountsAlways(ts) == ts >= startMono
CountsAtEnd(ts) ==
  /\ status = "RACING" \/ (status = "DONE" /\ ts <= endTime)
  /\ ts >= startMono

\* add_lap: count the pass if the race runs, or ran when it happened.
Counts(ts) ==
  /\ status = "RACING" \/ (status = "DONE" /\ ts < endTime)
  /\ ts >= startMono

\* The queue worker takes a record; adding a lap rebuilds the results, which
\* yields while the record is still in progress.  (emit_pass_record, before the
\* lap is appended, yields as well on a secondary timer whose queue of messages
\* to the primary is full; that is left out.)
TakePass ==
  /\ cpu = Free
  /\ ~adding
  /\ passQ # <<>>
  /\ passQ' = Tail(passQ)
  /\ laps' = IF Counts(Head(passQ)) THEN laps \cup {Head(passQ)} ELSE laps
  /\ adding' = Counts(Head(passQ))
  /\ UNCHANGED <<status, token, timerRunning, startTime, startMono, endTime, dbId,
                 heat, sched, crossing, passes, clk, saved, frame, later, asked, cpu>>

EndPass ==
  /\ cpu = Free
  /\ adding
  /\ adding' = FALSE
  /\ UNCHANGED <<race, heat, sched, crossing, passQ, passes, clk, saved, frame, later, asked, cpu>>

-----------------------------------------------------------------------------
Init ==
  /\ status = "READY" /\ token = 0 /\ timerRunning = FALSE
  /\ startTime = 0 /\ startMono = 0 /\ endTime = 0
  /\ dbId = FALSE /\ laps = {}
  /\ heat \in AllHeats
  /\ scheduled = FALSE /\ forceSave = FALSE
  /\ crossing = 0 /\ passQ = <<>> /\ adding = FALSE
  /\ clk = 1
  /\ saved = <<>>
  /\ frame = [x \in Greenlets |-> IdleFrame]
  /\ later = [k \in Calls |-> 0]
  /\ asked = 0 /\ passes = 0
  /\ cpu = Free

Requests ==
  \/ \E c \in Clients : \/ StageRequest(c) \/ StopRequest(c)
                         \/ SaveRequest(c) \/ DiscardRequest(c)
  \/ \E h \in AllHeats : SetHeat(h)
  \/ \E force \in BOOLEAN : Schedule(force)
  \/ CancelSchedule

Staging(x) == StageEntry(x) \/ StagePrep(x) \/ StageCheck(x) \/ StageClear(x) \/ StageLaunch(x)
Stopping(x) == Stop(x) \/ DoStop(x) \/ Drain(x) \/ StopEnd(x) \/ StopSave(x)
Saving(x) == Save(x) \/ SaveWrite(x) \/ SaveClear(x) \/ Advance(x) \/ Discard(x) \/ Clear(x)
Starting(t) == StartWait(t) \/ StartRace(t)
Expiring(t) == ExpireTimer(t) \/ ExpireDrain(t) \/ ExpireGrace(t)
Passing == BeginCrossing \/ EndCrossing \/ TakePass \/ EndPass

Next ==
  \/ Requests
  \/ FireSchedule
  \/ \E d \in Delayed, k \in Calls : FireLater(d, k)
  \/ \E x \in Greenlets : Staging(x) \/ Stopping(x) \/ Saving(x)
  \/ \E t \in StageIds : Starting(t) \/ Expiring(t)
  \/ Passing

Spec == Init /\ [][Next]_vars

-----------------------------------------------------------------------------
(* Fairness.  gevent's loop runs every greenlet that is ready, and a timer *)
(* that is due, in turn, so none is passed over for ever (strong fairness, *)
(* because a ready greenlet waits while another has the cpu).              *)

ThreadStep(t) == Starting(t) \/ Expiring(t) \/ Stopping(ExpireThread(t))
SlotStep(x) == Staging(x) \/ Stopping(x) \/ Saving(x)

Fairness ==
  /\ \A t \in StageIds : SF_vars(ThreadStep(t))
  /\ \A x \in Clients \cup Delayed \cup {Heartbeat} : SF_vars(SlotStep(x))
  /\ SF_vars(\E d \in Delayed, k \in Calls : FireLater(d, k))
  /\ SF_vars(FireSchedule)

FairSpec == Spec /\ Fairness

-----------------------------------------------------------------------------
(* Properties.                                                             *)

\* The values every variable can take.
TypeOK ==
  /\ status \in Statuses
  /\ token \in 0..MaxStages
  /\ timerRunning \in BOOLEAN /\ dbId \in BOOLEAN
  /\ startTime \in Nat /\ startMono \in Nat /\ endTime \in Nat /\ clk \in Nat \ {0}
  /\ laps \in SUBSET Nat
  /\ heat \in AllHeats
  /\ scheduled \in BOOLEAN /\ forceSave \in BOOLEAN
  /\ crossing \in Nat /\ passQ \in Seq(Nat) /\ adding \in BOOLEAN
  /\ passes \in 0..MaxPasses
  /\ saved \in Seq(SavedRaces)
  /\ frame \in [Greenlets -> Frames]
  /\ later \in [Calls -> Nat]
  /\ asked \in 0..MaxRequests
  /\ cpu \in Greenlets \cup {Free}

\* No race that is READY or STAGING has a lap: add_lap drops the passes left
\* over in the queue from the race before, and every way back to READY clears
\* the laps (RHRace.py:855-858, 1379-1380).
NoLapsBeforeStart == status \in {"READY", "STAGING"} => laps = {}

\* The laps of a race that is over came before its end (RHRace.py:855).
LapsBeforeEnd == status = "DONE" => \A ts \in laps : ts < endTime

\* The laps of a race lie between its start and its end, whatever pass records
\* of earlier races are still queued when it starts (RHRace.py:855-866).
LapsWithinRace ==
  /\ startTime # 0 => \A ts \in laps : ts >= startTime
  /\ LapsBeforeEnd

\* A race, known by when it started, is saved once: db_id keeps a second save
\* request, a put-off save and the scheduler from writing its rows again
\* (RHRace.py:652), as long as no save has to wait for a results build between its
\* look at db_id and the writing.
SavedOnce ==
  \A i, j \in 1..Len(saved) : saved[i].start = saved[j].start => i = j

\* Between a check and what it allows: the look at the status before staging
\* (RHRace.py:255), before starting (460) and before saving (643).
Critical == {"stageClear", "startRace", "saveWrite"}

\* What x, at such a place, has found.
Checked(x) ==
  CASE frame[x].pc = "stageClear" -> status = "READY"
    [] frame[x].pc = "startRace"  -> status = "STAGING" /\ \A t \in StageIds :
                                       x = StartThread(t) => token = t
    [] frame[x].pc = "saveWrite"  -> startTime # 0 /\ ~dbId

\* Whether the code lets others in between the check and the place p.
LetsIn(p) == IF p = "saveWrite" THEN ~StoredResultsValid ELSE NodeIOYields

\* A race that has a start time runs or is over, or is about to run.
StartTimeHolds ==
  startTime # 0 => \/ status \in {"RACING", "DONE"}
                  \/ \E x \in Greenlets : frame[x].pc = "startRace"

\* stage, race_start_thread and do_save_actions act on what they checked (RHRace.py:255,
\* 460, 643, 652), and only a race that was started can be saved; what is between a check
\* and its use and does not have the cpu is there because of one wait, that of node I/O
\* for staging and starting, that of a results build for saving, and of no other.
ChecksHold ==
  /\ \A x \in Greenlets : frame[x].pc \in Critical =>
       IF cpu = x THEN Checked(x) ELSE LetsIn(frame[x].pc)
  /\ NodeIOYields \/ StartTimeHolds

\* The race control keeps the promise of RaceLifecycle: staging and starting come late
\* only where node I/O lets others in (RHRace.py:255-299, 460-503), saving where that or a
\* results build does (643-734).
Lifecycle ==
  INSTANCE RaceLifecycle WITH
    archive <- saved, LateControl <- NodeIOYields, LateSave <- ~StoredResultsValid
ImplementsLifecycle == Lifecycle!Spec

\* "Only start a race if it is not already in progress" (RHRace.py:462), "only initiate
\* staging if ready" (255): a race starts from STAGING and is staged from READY.
StagesThenStarts ==
  [][/\ status' = "RACING" /\ status # "RACING" => status = "STAGING"
     /\ status' = "STAGING" /\ status # "STAGING" => status = "READY"]_vars

\* A stop that was put off to let forced crossings complete stops the race it
\* was asked for: after discard_laps has flagged the status "as ready to start
\* next race" (RHRace.py:1380) it changes nothing.
PutOffStopHitsItsRace ==
  [][\A k \in Calls :
       k.fn # "save" /\ later'[k] < later[k]
         => token = k.token /\ status \in {"RACING", "DONE"}]_vars

\* doc/RHAPI.md:1374, force_save: "if True and active race is stopped at
\* scheduled time, save and stage race".
ForcedScheduleSavesStopped ==
  [][frame[Heartbeat].pc = "stage" /\ frame'[Heartbeat] # frame[Heartbeat]
       /\ forceSave /\ status = "DONE"
       => frame'[Heartbeat].pc = "save"]_vars

\* doc/User Guide.md:143: "During a Fixed Time race, Grace Period is the amount
\* of time after the race clock expires before the timer is automatically
\* stopped."
RaceEnds == status = "RACING" ~> status # "RACING"

\* The expire thread of the race that runs ends it, whatever requests, put-off
\* stops and expire threads of earlier races come in between (RHRace.py:506-529).
ExpiryEndsRace ==
  \A t \in StageIds :
    status = "RACING" /\ token = t /\ frame[ExpireThread(t)].pc # "idle"
      ~> ~(status = "RACING" /\ token = t)

\* A race does not stay in STAGING: whatever stop, discard and second stage
\* happen meanwhile, the start thread of the last token starts it or it is
\* READY again (RHRace.py:334-340, 460-463).
StagingEnds == status = "STAGING" ~> status # "STAGING"

=============================================================================
