------------------------ MODULE RaceSequence_proofs ------------------------
(***************************************************************************)
(* Proofs about RaceSequence, for every value of its constants: the types, *)
(* no laps before the start, checks and the waits that may make them       *)
(* stale, the implementation of RaceLifecycle; and, when neither node I/O  *)
(* nor a results build lets another greenlet in (Quiet), laps within their *)
(* race and races saved once.                                              *)
(***************************************************************************)
EXTENDS RaceSequence, TLAPS

-----------------------------------------------------------------------------
(* What the moves of a greenlet do to the frames.                          *)

\* The slots and threads are greenlets.
LEMMA ThreadGreenlets ==
  /\ \A t \in StageIds : StartThread(t) \in Greenlets /\ ExpireThread(t) \in Greenlets
  /\ Clients \subseteq Greenlets /\ Delayed \subseteq Greenlets
  /\ Heartbeat \in Greenlets
BY DEF Greenlets, Threads, StartThread, ExpireThread

\* The frame of a free slot is a frame.
LEMMA IdleFrameType == IdleFrame \in Frames
BY DEF IdleFrame, Frames, Places, AllHeats

\* A return leads to a place that calls come back to, or ends the greenlet.
LEMMA ReturnedType ==
  ASSUME TypeOK, NEW x \in Greenlets
  PROVE  Returned(x) \in Frames /\ Returned(x).pc \in ReturnPlaces \cup {"idle"}
<1> DEFINE f == frame[x]
<1>1. f \in Frames
  BY DEF TypeOK
<1>2. CASE f.ret = <<>>
  BY <1>2, IdleFrameType DEF Returned, IdleFrame
<1>3. CASE f.ret # <<>>
  <2>1. Head(f.ret) \in ReturnPlaces /\ Tail(f.ret) \in Seq(ReturnPlaces)
    BY <1>1, <1>3 DEF Frames
  <2>2. Returned(x) = [f EXCEPT !.pc = Head(f.ret), !.ret = Tail(f.ret)]
    BY <1>3 DEF Returned
  <2> QED
    BY <1>1, <2>1, <2>2 DEF Frames, ReturnPlaces, Places
<1> QED
  BY <1>2, <1>3

\* The moves keep the frames well typed.
LEMMA GotoType ==
  ASSUME TypeOK, NEW x \in Greenlets, NEW p \in Places, Goto(x, p)
  PROVE  frame' \in [Greenlets -> Frames]
BY DEF TypeOK, Goto, Frames

LEMMA ReturnType ==
  ASSUME TypeOK, NEW x \in Greenlets, Return(x)
  PROVE  frame' \in [Greenlets -> Frames]
BY ReturnedType DEF TypeOK, Return

LEMMA CallType ==
  ASSUME TypeOK, NEW x \in Greenlets, NEW p \in Places, NEW q \in ReturnPlaces,
         Call(x, p, q)
  PROVE  frame' \in [Greenlets -> Frames]
<1>1. frame[x].ret \in Seq(ReturnPlaces)
  BY DEF TypeOK, Frames
<1>2. <<q>> \o frame[x].ret \in Seq(ReturnPlaces)
  BY <1>1
<1> QED
  BY ZenonT(40), <1>2 DEF TypeOK, Call, Frames

LEMMA SpawnType ==
  ASSUME NEW f \in [Greenlets -> Frames], NEW y \in Greenlets, NEW p \in Places
  PROVE  Spawn(f, y, p) \in [Greenlets -> Frames]
BY DEF Spawn, Frames

LEMMA PutOffType ==
  ASSUME TypeOK, NEW fn \in {"stop", "stopSave", "save"}, PutOff(fn)
  PROVE  later' \in [Calls -> Nat]
<1>1. [fn |-> fn, token |-> token] \in Calls
  BY DEF TypeOK, Calls
<1> QED
  BY <1>1 DEF TypeOK, PutOff

-----------------------------------------------------------------------------
(* Types.                                                                  *)

\* A request begins its handler and leaves the rest alone.
LEMMA RequestType ==
  ASSUME TypeOK, NEW c \in Clients, NEW kind, NEW p \in Places, NEW doSave \in BOOLEAN,
         Request(c, kind, p, doSave)
  PROVE  TypeOK'
<1>1. c \in Greenlets
  BY ThreadGreenlets
<1>2. [IdleFrame EXCEPT !.pc = p, !.doSave = doSave] \in Frames
  BY IdleFrameType DEF Frames
<1>3. frame' \in [Greenlets -> Frames]
  BY <1>1, <1>2 DEF TypeOK, Request
<1>4. asked' \in 0..MaxRequests
  BY SMTT(30), BoundsAssumption DEF TypeOK, Request, Arrives
<1>5. cpu' \in Greenlets \cup {Free}
  BY <1>1 DEF Request
<1> QED
  BY <1>3, <1>4, <1>5 DEF TypeOK, Request, race, sched, node

LEMMA RequestsType ==
  ASSUME TypeOK, Requests
  PROVE  TypeOK'
<1>1. ASSUME NEW c \in Clients,
             StageRequest(c) \/ StopRequest(c) \/ SaveRequest(c) \/ DiscardRequest(c)
      PROVE  TypeOK'
  BY <1>1, RequestType
     DEF StageRequest, StopRequest, SaveRequest, DiscardRequest, Places
<1>2. ASSUME NEW h \in AllHeats, SetHeat(h)
      PROVE  TypeOK'
  BY <1>2, BoundsAssumption DEF TypeOK, SetHeat, Arrives, race, sched, node
<1>3. ASSUME NEW force \in BOOLEAN, Schedule(force)
      PROVE  TypeOK'
  BY <1>3, BoundsAssumption DEF TypeOK, Schedule, Arrives, race, node
<1>4. ASSUME CancelSchedule
      PROVE  TypeOK'
  <2>1. forceSave' \in BOOLEAN /\ scheduled' \in BOOLEAN
    BY <1>4, Zenon DEF CancelSchedule, Unschedule
  <2> QED
    BY <1>4, <2>1, BoundsAssumption DEF TypeOK, CancelSchedule, Arrives, race, node
<1> QED
  BY <1>1, <1>2, <1>3, <1>4 DEF Requests

LEMMA FireScheduleType ==
  ASSUME TypeOK, FireSchedule
  PROVE  TypeOK'
<1>1. frame' \in [Greenlets -> Frames]
  BY GotoType, ThreadGreenlets DEF FireSchedule, Places
<1> QED
  BY <1>1, ThreadGreenlets DEF TypeOK, FireSchedule, race, node

LEMMA FireLaterType ==
  ASSUME TypeOK, NEW d \in Delayed, NEW k \in Calls, FireLater(d, k)
  PROVE  TypeOK'
<1>1. [IdleFrame EXCEPT !.pc = IF k.fn = "save" THEN "save" ELSE "doStop",
                        !.doSave = (k.fn = "stopSave")] \in Frames
  BY IdleFrameType DEF Frames, Places
<1>2. frame' \in [Greenlets -> Frames]
  BY <1>1, ThreadGreenlets DEF TypeOK, FireLater
<1>3. later' \in [Calls -> Nat]
  BY DEF TypeOK, FireLater
<1> QED
  BY <1>2, <1>3, ThreadGreenlets DEF TypeOK, FireLater, race, sched, node

LEMMA PassingType ==
  ASSUME TypeOK, Passing
  PROVE  TypeOK'
<1>1. CASE BeginCrossing
  BY <1>1, BoundsAssumption DEF TypeOK, BeginCrossing, race, sched
<1>2. CASE EndCrossing
  BY <1>2 DEF TypeOK, EndCrossing, race, sched
<1>3. CASE TakePass
  <2>1. adding' \in BOOLEAN
    BY <1>3, Zenon DEF TakePass, Counts
  <2>2. passQ # <<>> /\ passQ \in Seq(Nat)
    BY <1>3 DEF TypeOK, TakePass
  <2>3. Head(passQ) \in Nat /\ Tail(passQ) \in Seq(Nat)
    BY <2>2
  <2>4. laps' \in SUBSET Nat /\ passQ' \in Seq(Nat)
    BY <1>3, <2>3 DEF TypeOK, TakePass
  <2> QED
    BY <1>3, <2>1, <2>4 DEF TypeOK, TakePass, sched
<1>4. CASE EndPass
  BY <1>4 DEF TypeOK, EndPass, race, sched
<1> QED
  BY <1>1, <1>2, <1>3, <1>4 DEF Passing

LEMMA StagingType ==
  ASSUME TypeOK, NEW x \in Greenlets, Staging(x)
  PROVE  TypeOK'
<1> USE ReturnType, CallType, GotoType
<1>1. CASE StageEntry(x)
  <2>1. frame' \in [Greenlets -> Frames]
    BY <1>1 DEF StageEntry, ReturnRunning, Places, ReturnPlaces
  <2>2. cpu' \in Greenlets \cup {Free}
    BY <1>1 DEF StageEntry, ReturnRunning, KeepRunning, YieldIf
  <2>3. scheduled' \in BOOLEAN /\ forceSave' \in BOOLEAN
    BY <1>1 DEF TypeOK, StageEntry, sched
  <2> QED
    BY <1>1, <2>1, <2>2, <2>3 DEF TypeOK, StageEntry, race, node
<1>2. CASE StagePrep(x)
  <2>1. frame' \in [Greenlets -> Frames]
    BY <1>2 DEF StagePrep, ReturnRunning, Places, ReturnPlaces
  <2>2. cpu' \in Greenlets \cup {Free}
    BY <1>2 DEF StagePrep, ReturnRunning, KeepRunning, YieldIf
  <2> QED
    BY <1>2, <2>1, <2>2 DEF TypeOK, StagePrep, race, sched, node
<1>3. CASE StageCheck(x)
  <2>1. frame' \in [Greenlets -> Frames]
    BY <1>3 DEF StageCheck, ReturnRunning, Places
  <2>2. cpu' \in Greenlets \cup {Free}
    BY <1>3 DEF StageCheck, ReturnRunning, KeepRunning, YieldIf
  <2>3. scheduled' \in BOOLEAN /\ forceSave' \in BOOLEAN
    <3>1. scheduled \in BOOLEAN /\ forceSave \in BOOLEAN
      BY DEF TypeOK
    <3> QED
      BY <1>3, <3>1, Zenon DEF StageCheck, Unschedule, sched
  <2> QED
    BY <1>3, <2>1, <2>2, <2>3 DEF TypeOK, StageCheck, race, node
<1>4. CASE StageClear(x)
  <2>1. frame' \in [Greenlets -> Frames]
    BY <1>4 DEF StageClear, Places
  <2> QED
    BY <1>4, <2>1 DEF TypeOK, StageClear, Yield, Statuses, sched, node
<1>5. CASE StageLaunch(x)
  <2>1. StartThread(token + 1) \in Greenlets
    <3>1. token \in 0..MaxStages /\ MaxStages \in Nat
      BY BoundsAssumption DEF TypeOK
    <3>2. token < MaxStages
      BY <1>5 DEF StageLaunch
    <3>3. token + 1 \in StageIds
      BY <3>1, <3>2 DEF StageIds
    <3> QED
      BY <3>3, ThreadGreenlets
  <2>2. frame' \in [Greenlets -> Frames]
    <3>1. [frame EXCEPT ![x] = Returned(x)] \in [Greenlets -> Frames]
      BY ReturnedType DEF TypeOK
    <3> QED
      BY <1>5, <2>1, <3>1, SpawnType DEF StageLaunch, Places
  <2>3. token' \in 0..MaxStages /\ startMono' \in Nat
    <3>1. token \in 0..MaxStages /\ MaxStages \in Nat /\ clk \in Nat
      BY BoundsAssumption DEF TypeOK
    <3>2. token' = token + 1 /\ token < MaxStages /\ startMono' = clk + 1
      BY <1>5 DEF StageLaunch
    <3> QED
      BY <3>1, <3>2
  <2> QED
    BY <1>5, <2>2, <2>3 DEF TypeOK, StageLaunch, YieldIf, sched, node
<1> QED
  BY <1>1, <1>2, <1>3, <1>4, <1>5 DEF Staging

LEMMA StoppingType ==
  ASSUME TypeOK, NEW x \in Greenlets, Stopping(x)
  PROVE  TypeOK'
<1> USE ReturnType, GotoType
<1>1. CASE Stop(x)
  <2>1. frame' \in [Greenlets -> Frames]
    BY <1>1 DEF Stop, Places
  <2>2. cpu' \in Greenlets \cup {Free}
    BY <1>1 DEF Stop, KeepRunning, YieldIf
  <2>3. later' \in [Calls -> Nat]
    BY <1>1, PutOffType DEF TypeOK, Stop
  <2> QED
    BY <1>1, <2>1, <2>2, <2>3 DEF TypeOK, Stop, race, sched, node
<1>2. CASE DoStop(x)
  <2>1. frame' \in [Greenlets -> Frames]
    BY <1>2 DEF DoStop, Places
  <2>2. cpu' \in Greenlets \cup {Free}
    BY <1>2 DEF DoStop, KeepRunning, YieldIf
  <2> QED
    BY <1>2, <2>1, <2>2 DEF TypeOK, DoStop, Statuses, sched, node
<1>3. CASE Drain(x)
  <2>1. frame' \in [Greenlets -> Frames]
    BY <1>3 DEF Drain, Places
  <2> QED
    BY <1>3, <2>1 DEF TypeOK, Drain, KeepRunning, race, sched, node
<1>4. CASE StopEnd(x)
  <2>1. frame' \in [Greenlets -> Frames]
    BY <1>4 DEF StopEnd, ReturnMaybeYield, Places
  <2>2. cpu' \in Greenlets \cup {Free}
    BY <1>4 DEF StopEnd, ReturnMaybeYield, KeepRunning, Yield
  <2> QED
    BY <1>4, <2>1, <2>2 DEF TypeOK, StopEnd, sched, node
<1>5. CASE StopSave(x)
  <2>1. frame' \in [Greenlets -> Frames]
    BY <1>5 DEF StopSave, ReturnRunning
  <2>2. later' \in [Calls -> Nat]
    BY <1>5, PutOffType DEF StopSave
  <2> QED
    BY <1>5, <2>1, <2>2
       DEF TypeOK, StopSave, ReturnRunning, YieldIf, race, sched, node
<1> QED
  BY <1>1, <1>2, <1>3, <1>4, <1>5 DEF Stopping

LEMMA SavingType ==
  ASSUME TypeOK, NEW x \in Greenlets, Saving(x)
  PROVE  TypeOK'
<1> USE ReturnType, CallType, GotoType
<1>1. CASE Save(x)
  <2>1. frame' \in [Greenlets -> Frames]
    <3>1. [frame[x] EXCEPT !.pc = "saveWrite", !.heat = heat] \in Frames
      BY ZenonT(40) DEF TypeOK, Frames, Places
    <3>2. [frame EXCEPT ![x] = [@ EXCEPT !.pc = "saveWrite", !.heat = heat]]
            \in [Greenlets -> Frames]
      BY <3>1 DEF TypeOK
    <3> QED
      BY <1>1, <3>2 DEF Save, ReturnRunning, Places
  <2>2. cpu' \in Greenlets \cup {Free}
    BY <1>1 DEF Save, ReturnRunning, KeepRunning, YieldIf
  <2> QED
    BY <1>1, <2>1, <2>2 DEF TypeOK, Save, race, sched, node
<1>2. CASE SaveWrite(x)
  <2>1. frame' \in [Greenlets -> Frames]
    BY <1>2 DEF SaveWrite, Places
  <2>2. cpu' \in Greenlets \cup {Free}
    BY <1>2 DEF SaveWrite, KeepRunning, Yield
  <2>3. saved' \in Seq(SavedRaces)
    <3>1. [start |-> startTime, heat |-> heat, classOf |-> frame[x].heat, laps |-> laps]
            \in SavedRaces
      BY DEF TypeOK, SavedRaces, Frames
    <3>2. saved \in Seq(SavedRaces)
      BY DEF TypeOK
    <3> QED
      BY <1>2, <3>1, <3>2 DEF SaveWrite
  <2> QED
    BY <1>2, <2>1, <2>2, <2>3 DEF TypeOK, SaveWrite, sched, node
<1>3. CASE SaveClear(x)
  <2>1. frame' \in [Greenlets -> Frames]
    BY <1>3 DEF SaveClear, Places, ReturnPlaces
  <2> QED
    BY <1>3, <2>1 DEF TypeOK, SaveClear, KeepRunning, race, sched, node
<1>4. CASE Advance(x)
  <2>1. frame' \in [Greenlets -> Frames]
    BY <1>4 DEF Advance, ReturnMaybeYield
  <2>2. cpu' \in Greenlets \cup {Free}
    BY <1>4 DEF Advance, ReturnMaybeYield, KeepRunning, Yield
  <2> QED
    BY <1>4, <2>1, <2>2 DEF TypeOK, Advance, race, sched, node
<1>5. CASE Discard(x)
  <2>1. frame' \in [Greenlets -> Frames]
    BY <1>5 DEF Discard, Places, ReturnPlaces
  <2> QED
    BY <1>5, <2>1 DEF TypeOK, Discard, KeepRunning, race, sched, node
<1>6. CASE Clear(x)
  <2>1. frame' \in [Greenlets -> Frames]
    BY <1>6 DEF Clear
  <2> QED
    BY <1>6, <2>1 DEF TypeOK, Clear, Yield, Statuses, sched, node
<1> QED
  BY <1>1, <1>2, <1>3, <1>4, <1>5, <1>6 DEF Saving

LEMMA StartingType ==
  ASSUME TypeOK, NEW t \in StageIds, Starting(t)
  PROVE  TypeOK'
<1> DEFINE x == StartThread(t)
<1>1. x \in Greenlets /\ ExpireThread(t) \in Greenlets
  BY ThreadGreenlets
<1> HIDE DEF x
<1>2. CASE StartWait(t)
  <2>1. frame' \in [Greenlets -> Frames]
    BY <1>1, <1>2, GotoType, ReturnType DEF StartWait, Places, x
  <2>2. cpu' \in Greenlets \cup {Free}
    BY <1>1, <1>2 DEF StartWait, YieldIf, Yield, x
  <2>3. clk' \in Nat \ {0} /\ startTime' \in Nat
    BY <1>2 DEF TypeOK, StartWait
  <2> QED
    BY <1>2, <2>1, <2>2, <2>3 DEF TypeOK, StartWait, sched, node
<1>3. CASE StartRace(t)
  <2>1. [frame EXCEPT ![x] = IdleFrame] \in [Greenlets -> Frames]
    BY <1>1, IdleFrameType DEF TypeOK
  <2>2. frame' \in [Greenlets -> Frames]
    BY <1>1, <1>3, <2>1, SpawnType DEF StartRace, Places, x
  <2> QED
    BY <1>3, <2>2 DEF TypeOK, StartRace, Yield, Statuses, sched, node
<1> QED
  BY <1>2, <1>3 DEF Starting

LEMMA ExpiringType ==
  ASSUME TypeOK, NEW t \in StageIds, Expiring(t)
  PROVE  TypeOK'
<1> DEFINE x == ExpireThread(t)
<1>1. x \in Greenlets
  BY ThreadGreenlets
<1> HIDE DEF x
<1> USE GotoType, ReturnType
<1>2. CASE ExpireTimer(t)
  <2>1. frame' \in [Greenlets -> Frames]
    BY <1>1, <1>2 DEF ExpireTimer, Places, x
  <2>2. cpu' \in Greenlets \cup {Free} /\ timerRunning' \in BOOLEAN
    BY <1>1, <1>2 DEF TypeOK, ExpireTimer, YieldIf, Yield, x
  <2> QED
    BY <1>2, <2>1, <2>2 DEF TypeOK, ExpireTimer, sched, node
<1>3. CASE ExpireDrain(t)
  <2>1. frame' \in [Greenlets -> Frames]
    BY <1>1, <1>3 DEF ExpireDrain, Places, x
  <2> QED
    BY <1>3, <2>1 DEF TypeOK, ExpireDrain, Yield, race, sched, node
<1>4. CASE ExpireGrace(t)
  <2>1. frame' \in [Greenlets -> Frames]
    BY <1>1, <1>4 DEF ExpireGrace, Places, x
  <2>2. cpu' \in Greenlets \cup {Free}
    BY <1>1, <1>4 DEF ExpireGrace, KeepRunning, Yield, x
  <2> QED
    BY <1>4, <2>1, <2>2 DEF TypeOK, ExpireGrace, race, sched, node
<1> QED
  BY <1>2, <1>3, <1>4 DEF Expiring

\* Every variable of the race control keeps its type, whatever requests, put-off
\* calls, threads and pass records come in whatever order.
THEOREM TypeCorrect == Spec => []TypeOK
<1>1. Init => TypeOK
  <2> SUFFICES ASSUME Init PROVE TypeOK
    OBVIOUS
  <2>1. frame \in [Greenlets -> Frames] /\ later \in [Calls -> Nat]
    BY IdleFrameType DEF Init
  <2>2. token \in 0..MaxStages /\ passes \in 0..MaxPasses /\ asked \in 0..MaxRequests
    BY BoundsAssumption DEF Init
  <2>3. saved \in Seq(SavedRaces) /\ passQ \in Seq(Nat)
    BY DEF Init
  <2>4. /\ timerRunning \in BOOLEAN /\ dbId \in BOOLEAN /\ adding \in BOOLEAN
        /\ scheduled \in BOOLEAN /\ forceSave \in BOOLEAN
    BY Zenon DEF Init
  <2>5. /\ status \in Statuses /\ laps \in SUBSET Nat /\ heat \in AllHeats
        /\ startTime \in Nat /\ startMono \in Nat /\ endTime \in Nat
        /\ clk \in Nat \ {0} /\ crossing \in Nat /\ cpu \in Greenlets \cup {Free}
    BY DEF Init, Statuses
  <2> QED
    BY <2>1, <2>2, <2>3, <2>4, <2>5 DEF TypeOK
<1>2. TypeOK /\ [Next]_vars => TypeOK'
  <2> SUFFICES ASSUME TypeOK, [Next]_vars PROVE TypeOK'
    OBVIOUS
  <2>1. CASE Next
    BY <2>1, RequestsType, FireScheduleType, FireLaterType, StagingType, StoppingType,
       SavingType, StartingType, ExpiringType, PassingType DEF Next
  <2>2. CASE UNCHANGED vars
    BY <2>2 DEF TypeOK, vars, race, sched, node
  <2> QED
    BY <2>1, <2>2
<1> QED
  BY <1>1, <1>2, PTL DEF Spec

-----------------------------------------------------------------------------
(* No laps before the start.                                               *)

\* Only these steps change the status, the laps, the start time or the rows.
LEMMA StepCases ==
  ASSUME Next
  PROVE  \/ UNCHANGED <<status, laps, startTime, saved>>
         \/ \E x \in Greenlets : StageClear(x) \/ DoStop(x) \/ SaveWrite(x) \/ Clear(x)
         \/ \E t \in StageIds : StartWait(t) \/ StartRace(t)
         \/ TakePass
<1> DEFINE Same == UNCHANGED <<status, laps, startTime, saved>>
<1>1. Requests => Same
  BY DEF Requests, StageRequest, StopRequest, SaveRequest, DiscardRequest, Request,
         SetHeat, Schedule, CancelSchedule, race
<1>2. FireSchedule => Same
  BY DEF FireSchedule, race
<1>3. ASSUME NEW d \in Delayed, NEW k \in Calls, FireLater(d, k)
      PROVE  Same
  BY <1>3 DEF FireLater, race
<1>4. ASSUME NEW x \in Greenlets, Staging(x)
      PROVE  Same \/ StageClear(x)
  BY <1>4 DEF Staging, StageEntry, StagePrep, StageCheck, StageLaunch, race
<1>5. ASSUME NEW x \in Greenlets, Stopping(x)
      PROVE  Same \/ DoStop(x)
  BY <1>5 DEF Stopping, Stop, Drain, StopEnd, StopSave, race
<1>6. ASSUME NEW x \in Greenlets, Saving(x)
      PROVE  Same \/ SaveWrite(x) \/ Clear(x)
  BY <1>6 DEF Saving, Save, SaveClear, Advance, Discard, race
<1>7. ASSUME NEW t \in StageIds, Expiring(t)
      PROVE  Same
  BY <1>7 DEF Expiring, ExpireTimer, ExpireDrain, ExpireGrace, race
<1>8. Passing => Same \/ TakePass
  BY DEF Passing, BeginCrossing, EndCrossing, EndPass, race
<1> HIDE DEF Same
<1>9. CASE Same
  BY <1>9 DEF Same
<1>10. CASE ~Same
  BY <1>1, <1>2, <1>3, <1>4, <1>5, <1>6, <1>7, <1>8, <1>10 DEF Next, Starting
<1> QED
  BY <1>9, <1>10

LEMMA NoLapsInit == Init => NoLapsBeforeStart
BY DEF Init, NoLapsBeforeStart

LEMMA NoLapsStep ==
  ASSUME NoLapsBeforeStart, [Next]_vars
  PROVE  NoLapsBeforeStart'
<1> USE DEF NoLapsBeforeStart
<1>1. CASE UNCHANGED <<status, laps>>
  BY <1>1
<1>2. ASSUME NEW x \in Greenlets, StageClear(x) \/ DoStop(x) \/ SaveWrite(x) \/ Clear(x)
      PROVE  NoLapsBeforeStart'
  BY <1>2 DEF StageClear, DoStop, SaveWrite, Clear
<1>3. ASSUME NEW t \in StageIds, StartWait(t) \/ StartRace(t)
      PROVE  NoLapsBeforeStart'
  BY <1>3 DEF StartWait, StartRace
<1>4. CASE TakePass
  BY <1>4 DEF TakePass, Counts
<1> QED
  BY <1>1, <1>2, <1>3, <1>4, StepCases DEF vars, race

\* A race that is READY or STAGING has no laps, whatever pass records of earlier
\* races are still queued and whichever calls yield.
THEOREM NoLapsSafe == Spec => []NoLapsBeforeStart
BY NoLapsInit, NoLapsStep, PTL DEF Spec

-----------------------------------------------------------------------------
(* Checks hold when they are used.                                         *)

\* The step leaves x at a place that is not critical, and no other greenlet at
\* a critical place that it was not at.
Settles(x) ==
  \A y \in Greenlets : frame'[y].pc \in Critical => y # x /\ frame'[y].pc = frame[y].pc

LEMMA GotoSettles ==
  ASSUME TypeOK, NEW x \in Greenlets, NEW p, Goto(x, p)
  PROVE  /\ p \notin Critical => Settles(x)
         /\ frame'[x].pc = p
         /\ \A y \in Greenlets \ {x} : frame'[y] = frame[y]
BY DEF TypeOK, Goto, Settles, Frames

LEMMA ReturnSettles ==
  ASSUME TypeOK, NEW x \in Greenlets, Return(x)
  PROVE  Settles(x)
<1>1. frame'[x].pc \notin Critical
  BY ReturnedType DEF TypeOK, Return, ReturnPlaces, Critical
<1>2. \A y \in Greenlets \ {x} : frame'[y] = frame[y]
  BY DEF TypeOK, Return
<1> QED
  BY <1>1, <1>2 DEF Settles

LEMMA CallSettles ==
  ASSUME TypeOK, NEW x \in Greenlets, NEW p, p \notin Critical, NEW q, Call(x, p, q)
  PROVE  Settles(x)
BY DEF TypeOK, Call, Settles, Frames

LEMMA StagingSettles ==
  ASSUME TypeOK, NEW x \in Greenlets, Staging(x)
  PROVE  Settles(x) \/ (StageCheck(x) /\ status = "READY")
<1> USE ReturnSettles, CallSettles, GotoSettles DEF Critical
<1>1. CASE StageEntry(x)
  BY <1>1 DEF StageEntry, ReturnRunning
<1>2. CASE StagePrep(x)
  BY <1>2 DEF StagePrep, ReturnRunning
<1>3. CASE StageCheck(x) /\ status # "READY"
  BY <1>3 DEF StageCheck, ReturnRunning
<1>4. CASE StageClear(x)
  BY <1>4 DEF StageClear
<1>5. CASE StageLaunch(x)
  <2> DEFINE s == StartThread(token + 1)
             g == [frame EXCEPT ![x] = Returned(x)]
  <2>1. g \in [Greenlets -> Frames]
    BY ReturnedType DEF TypeOK
  <2>2. g[x].pc \notin Critical /\ \A y \in Greenlets \ {x} : g[y] = frame[y]
    BY ReturnedType DEF TypeOK, ReturnPlaces
  <2>3. frame' = Spawn(g, s, "startWait")
    BY <1>5 DEF StageLaunch
  <2> HIDE DEF g, s
  <2>4. \A y \in Greenlets : frame'[y].pc \in Critical => frame'[y].pc = g[y].pc
    BY <2>1, <2>3 DEF Spawn, Frames
  <2> QED
    BY <2>2, <2>4 DEF Settles
<1> QED
  BY <1>1, <1>2, <1>3, <1>4, <1>5 DEF Staging

LEMMA StoppingSettles ==
  ASSUME TypeOK, NEW x \in Greenlets, Stopping(x)
  PROVE  Settles(x)
<1> USE ReturnSettles, GotoSettles DEF Critical
<1>1. CASE Stop(x)
  BY <1>1 DEF Stop
<1>2. CASE DoStop(x)
  BY <1>2 DEF DoStop
<1>3. CASE Drain(x)
  BY <1>3 DEF Drain
<1>4. CASE StopEnd(x)
  BY <1>4 DEF StopEnd, ReturnMaybeYield
<1>5. CASE StopSave(x)
  BY <1>5 DEF StopSave, ReturnRunning
<1> QED
  BY <1>1, <1>2, <1>3, <1>4, <1>5 DEF Stopping

\* A save goes to write the rows only for a race with a start time.
Saves(x) == Save(x) /\ startTime # 0 /\ frame'[x].pc = "saveWrite"

LEMMA SavingSettles ==
  ASSUME TypeOK, NEW x \in Greenlets, Saving(x)
  PROVE  Settles(x) \/ Saves(x)
<1> USE ReturnSettles, CallSettles, GotoSettles DEF Critical
<1>1. CASE Save(x)
  <2>1. CASE startTime # 0 /\ frame'[x].pc = "saveWrite"
    BY <1>1, <2>1 DEF Saves
  <2>2. CASE ~(startTime # 0 /\ frame'[x].pc = "saveWrite")
    <3>1. ASSUME frame' = [frame EXCEPT ![x] = [@ EXCEPT !.pc = "saveWrite", !.heat = heat]]
          PROVE  frame'[x].pc = "saveWrite"
      BY <3>1 DEF TypeOK, Frames
    <3> QED
      BY <1>1, <2>2, <3>1 DEF Save, ReturnRunning
  <2> QED
    BY <2>1, <2>2
<1>2. CASE SaveWrite(x)
  BY <1>2 DEF SaveWrite
<1>3. CASE SaveClear(x)
  BY <1>3 DEF SaveClear
<1>4. CASE Advance(x)
  BY <1>4 DEF Advance, ReturnMaybeYield
<1>5. CASE Discard(x)
  BY <1>5 DEF Discard
<1>6. CASE Clear(x)
  BY <1>6 DEF Clear
<1> QED
  BY <1>1, <1>2, <1>3, <1>4, <1>5, <1>6 DEF Saving

\* The wait for the start ends with a race to start.
Begins(t) == StartWait(t) /\ status = "STAGING" /\ token = t

LEMMA StartingSettles ==
  ASSUME TypeOK, NEW t \in StageIds, Starting(t)
  PROVE  Settles(StartThread(t)) \/ Begins(t)
<1> DEFINE x == StartThread(t)
<1>1. x \in Greenlets /\ ExpireThread(t) \in Greenlets
  BY ThreadGreenlets
<1>2. CASE StartWait(t) /\ ~Begins(t)
  BY <1>1, <1>2, ReturnSettles DEF StartWait, Begins
<1>3. CASE StartRace(t)
  <2> DEFINE g == [frame EXCEPT ![x] = IdleFrame]
  <2>1. g \in [Greenlets -> Frames]
    BY <1>1, IdleFrameType DEF TypeOK
  <2>2. g[x].pc \notin Critical /\ \A y \in Greenlets \ {x} : g[y] = frame[y]
    BY <1>1 DEF TypeOK, IdleFrame, Critical
  <2>3. frame' = Spawn(g, ExpireThread(t), "expireTimer") \/ frame' = g
    BY <1>3 DEF StartRace
  <2> HIDE DEF g, x
  <2>4. \A y \in Greenlets : frame'[y].pc \in Critical => frame'[y].pc = g[y].pc
    BY <1>1, <2>1, <2>3 DEF Spawn, Frames, Critical
  <2>5. Settles(x)
    BY <2>2, <2>4 DEF Settles
  <2> QED
    BY <2>5 DEF x
<1> QED
  BY <1>2, <1>3 DEF Starting

LEMMA ExpiringSettles ==
  ASSUME TypeOK, NEW t \in StageIds, Expiring(t)
  PROVE  Settles(ExpireThread(t))
<1> DEFINE x == ExpireThread(t)
<1>1. x \in Greenlets
  BY ThreadGreenlets
<1>2. Goto(x, "expireDrain") \/ Goto(x, "expireGrace") \/ Goto(x, "stop") \/ Return(x)
  BY DEF Expiring, ExpireTimer, ExpireDrain, ExpireGrace
<1> HIDE DEF x
<1>3. Settles(x)
  BY <1>1, <1>2, ReturnSettles, GotoSettles DEF Critical
<1> QED
  BY <1>3 DEF x

\* The steps that do not belong to a greenlet that runs wait for a free cpu.
LEMMA FreeSteps ==
  ASSUME \/ Requests \/ FireSchedule \/ Passing
         \/ \E d \in Delayed, k \in Calls : FireLater(d, k)
  PROVE  cpu = Free
BY DEF Requests, StageRequest, StopRequest, SaveRequest, DiscardRequest, Request, Arrives,
       SetHeat, Schedule, CancelSchedule, FireSchedule, FireLater, Passing, BeginCrossing,
       EndCrossing, TakePass, EndPass

\* A greenlet that steps has the cpu or takes it, and keeps it or frees it.
LEMMA GreenletSteps ==
  ASSUME NEW x
  PROVE  /\ Staging(x) \/ Stopping(x) \/ Saving(x)
              => cpu \in {x, Free} /\ cpu' \in {x, Free} /\ frame[x].pc # "startRace"
         /\ \A t : x = ExpireThread(t) /\ Expiring(t)
              => cpu \in {x, Free} /\ cpu' \in {x, Free} /\ frame[x].pc # "startRace"
         /\ \A t : x = StartThread(t) /\ Starting(t)
              => cpu \in {x, Free} /\ cpu' \in {x, Free}
         /\ \A t : x = StartThread(t) /\ StartWait(t)
              => frame[x].pc # "startRace"
<1> USE DEF On, KeepRunning, Yield, YieldIf, ReturnRunning, ReturnMaybeYield
<1>1. Staging(x) => cpu \in {x, Free} /\ cpu' \in {x, Free} /\ frame[x].pc # "startRace"
  BY DEF Staging, StageEntry, StagePrep, StageCheck, StageClear, StageLaunch
<1>2. Stopping(x) => cpu \in {x, Free} /\ cpu' \in {x, Free} /\ frame[x].pc # "startRace"
  BY DEF Stopping, Stop, DoStop, Drain, StopEnd, StopSave
<1>3. Saving(x) => cpu \in {x, Free} /\ cpu' \in {x, Free} /\ frame[x].pc # "startRace"
  BY DEF Saving, Save, SaveWrite, SaveClear, Advance, Discard, Clear
<1>4. ASSUME NEW t, x = ExpireThread(t), Expiring(t)
      PROVE  cpu \in {x, Free} /\ cpu' \in {x, Free} /\ frame[x].pc # "startRace"
  BY <1>4 DEF Expiring, ExpireTimer, ExpireDrain, ExpireGrace
<1>5. ASSUME NEW t, x = StartThread(t), Starting(t)
      PROVE  cpu \in {x, Free} /\ cpu' \in {x, Free}
  BY <1>5 DEF Starting, StartWait, StartRace
<1>6. ASSUME NEW t, x = StartThread(t), StartWait(t)
      PROVE  frame[x].pc # "startRace"
  BY <1>6 DEF StartWait
<1> QED
  BY <1>1, <1>2, <1>3, <1>4, <1>5, <1>6

\* The first part of ChecksHold for one greenlet.
CheckHolds(y) ==
  frame[y].pc \in Critical => IF cpu = y THEN Checked(y) ELSE LetsIn(frame[y].pc)

\* A step of x says nothing new of another greenlet at a critical place, which does not
\* have the cpu.
LEMMA OthersHold ==
  ASSUME ChecksHold, NEW x, cpu \in {x, Free}, cpu' \in {x, Free},
         NEW y \in Greenlets, y # x, frame'[y].pc \in Critical => frame'[y].pc = frame[y].pc
  PROVE  CheckHolds(y)'
<1>1. frame[y].pc \in Critical => LetsIn(frame[y].pc)
  BY GreenletsAssumption DEF ChecksHold
<1>2. cpu' # y
  BY GreenletsAssumption
<1>3. frame'[y].pc \in Critical => LetsIn(frame'[y].pc)
  BY <1>1
<1>4. LetsIn(frame[y].pc)' <=> LetsIn(frame'[y].pc)
  BY DEF LetsIn
<1> QED
  BY <1>2, <1>3, <1>4 DEF CheckHolds

LEMMA SettlesHold ==
  ASSUME ChecksHold, NEW x, cpu \in {x, Free}, cpu' \in {x, Free}, Settles(x)
  PROVE  \A y \in Greenlets : CheckHolds(y)'
<1> SUFFICES ASSUME NEW y \in Greenlets PROVE CheckHolds(y)'
  OBVIOUS
<1>1. frame'[y].pc \in Critical => y # x /\ frame'[y].pc = frame[y].pc
  BY DEF Settles
<1>2. CASE frame'[y].pc \notin Critical
  BY <1>2 DEF CheckHolds
<1>3. CASE frame'[y].pc \in Critical
  BY <1>1, <1>3, OthersHold
<1> QED
  BY <1>2, <1>3

\* A check that succeeds goes to a critical place, with the cpu if it does not wait.
LEMMA StageCheckHolds ==
  ASSUME TypeOK, ChecksHold, NEW x \in Greenlets, StageCheck(x), status = "READY"
  PROVE  \A y \in Greenlets : CheckHolds(y)'
<1>1. /\ On(x, "stageCheck") /\ Goto(x, "stageClear") /\ UNCHANGED status
      /\ cpu' = IF NodeIOYields THEN Free ELSE x
  BY DEF StageCheck, YieldIf, race
<1>2. frame'[x].pc = "stageClear" /\ \A y \in Greenlets \ {x} : frame'[y] = frame[y]
  BY <1>1, GotoSettles
<1>3. CheckHolds(x)'
  BY <1>1, <1>2, GreenletsAssumption DEF CheckHolds, Checked, LetsIn, Critical
<1>4. ASSUME NEW y \in Greenlets, y # x PROVE CheckHolds(y)'
  BY <1>1, <1>2, <1>4, OthersHold DEF On
<1> QED
  BY <1>3, <1>4

LEMMA SavesHolds ==
  ASSUME TypeOK, ChecksHold, NEW x \in Greenlets, Saves(x)
  PROVE  \A y \in Greenlets : CheckHolds(y)'
<1>1. Goto(x, "discard") => frame'[x].pc # "saveWrite"
  BY GotoSettles
<1>2. ReturnRunning(x) => frame'[x].pc # "saveWrite"
  BY ReturnedType DEF ReturnRunning, Return, TypeOK, ReturnPlaces
<1>3. /\ On(x, "save") /\ startTime # 0 /\ ~dbId /\ UNCHANGED <<startTime, dbId>>
      /\ frame' = [frame EXCEPT ![x] = [@ EXCEPT !.pc = "saveWrite", !.heat = heat]]
      /\ cpu' = IF ~StoredResultsValid THEN Free ELSE x
  BY <1>1, <1>2 DEF Saves, Save, YieldIf, race
<1>4. \A y \in Greenlets \ {x} : frame'[y] = frame[y]
  BY <1>3 DEF TypeOK
<1>5. frame'[x].pc = "saveWrite"
  BY DEF Saves
<1>6. CheckHolds(x)'
  BY <1>3, <1>5, GreenletsAssumption DEF CheckHolds, Checked, LetsIn, Critical
<1>7. ASSUME NEW y \in Greenlets, y # x PROVE CheckHolds(y)'
  BY <1>3, <1>4, <1>7, OthersHold DEF On
<1> QED
  BY <1>6, <1>7

LEMMA BeginsHolds ==
  ASSUME TypeOK, ChecksHold, NEW t \in StageIds, Begins(t)
  PROVE  \A y \in Greenlets : CheckHolds(y)'
<1> DEFINE x == StartThread(t)
<1>1. x \in Greenlets
  BY ThreadGreenlets
<1>2. /\ On(x, "startWait") /\ Goto(x, "startRace") /\ status = "STAGING" /\ token = t
      /\ UNCHANGED <<status, token>>
      /\ cpu' = IF NodeIOYields /\ ForcedAtStart THEN Free ELSE x
  BY DEF Begins, StartWait, YieldIf
<1>3. \A u \in StageIds : x = StartThread(u) => token = u
  BY <1>2 DEF StartThread
<1> HIDE DEF x
<1>4. frame'[x].pc = "startRace" /\ \A y \in Greenlets \ {x} : frame'[y] = frame[y]
  BY <1>1, <1>2, GotoSettles
<1>5. CheckHolds(x)'
  BY <1>1, <1>2, <1>3, <1>4, GreenletsAssumption DEF CheckHolds, Checked, LetsIn, Critical
<1>6. ASSUME NEW y \in Greenlets, y # x PROVE CheckHolds(y)'
  BY <1>2, <1>4, <1>6, OthersHold DEF On
<1> QED
  BY <1>5, <1>6

\* What is not a step of a greenlet leaves the frames alone, but for the one it begins.
LEMMA FreeStepsHold ==
  ASSUME TypeOK, ChecksHold,
         \/ Requests \/ FireSchedule \/ Passing
         \/ \E d \in Delayed, k \in Calls : FireLater(d, k)
  PROVE  \A y \in Greenlets : CheckHolds(y)'
<1> DEFINE Hold == \A y \in Greenlets : CheckHolds(y)'
<1>1. cpu = Free
  BY FreeSteps
<1>2. ASSUME UNCHANGED <<frame, cpu>>
      PROVE  Hold
  <2> SUFFICES ASSUME NEW y \in Greenlets PROVE CheckHolds(y)'
    OBVIOUS
  <2>1. y # Free
    BY GreenletsAssumption
  <2> QED
    BY <1>1, <1>2, <2>1, OthersHold
<1>3. ASSUME NEW x \in Greenlets, NEW f, f.pc \notin Critical, cpu' = x,
             frame' = [frame EXCEPT ![x] = f]
      PROVE  Hold
  <2>1. Settles(x)
    BY <1>3 DEF TypeOK, Settles
  <2> QED
    BY <1>1, <1>3, <2>1, SettlesHold
<1>4. ASSUME NEW c \in Clients, NEW kind, NEW p, NEW doSave, Request(c, kind, p, doSave),
             p \notin Critical
      PROVE  Hold
  <2>1. [IdleFrame EXCEPT !.pc = p, !.doSave = doSave].pc \notin Critical
    BY <1>4 DEF IdleFrame
  <2> QED
    BY <1>3, <1>4, <2>1, ThreadGreenlets DEF Request
<1>5. Requests => Hold
  BY <1>2, <1>4 DEF Requests, StageRequest, StopRequest, SaveRequest, DiscardRequest,
     SetHeat, Schedule, CancelSchedule, Critical
<1>6. FireSchedule => Hold
  <2> SUFFICES ASSUME FireSchedule PROVE Hold
    OBVIOUS
  <2>1. Settles(Heartbeat) /\ cpu' = Heartbeat
    BY ThreadGreenlets, GotoSettles DEF FireSchedule, Critical
  <2> QED
    BY <1>1, <2>1, SettlesHold
<1>7. ASSUME NEW d \in Delayed, NEW k \in Calls, FireLater(d, k)
      PROVE  Hold
  <2> DEFINE p == IF k.fn = "save" THEN "save" ELSE "doStop"
             f == [IdleFrame EXCEPT !.pc = p, !.doSave = (k.fn = "stopSave")]
  <2>1. f.pc \notin Critical
    BY DEF IdleFrame, Critical
  <2>2. frame' = [frame EXCEPT ![d] = f] /\ cpu' = d /\ d \in Greenlets
    BY <1>7, ThreadGreenlets DEF FireLater
  <2> HIDE DEF f
  <2> QED
    BY <1>3, <2>1, <2>2
<1>8. Passing => Hold
  BY <1>2 DEF Passing, BeginCrossing, EndCrossing, TakePass, EndPass
<1> QED
  BY <1>5, <1>6, <1>7, <1>8

LEMMA PlacesHoldStep ==
  ASSUME TypeOK, ChecksHold, Next
  PROVE  \A y \in Greenlets : CheckHolds(y)'
<1> DEFINE Hold == \A y \in Greenlets : CheckHolds(y)'
<1>1. ASSUME NEW x \in Greenlets, Staging(x) \/ Stopping(x) \/ Saving(x)
      PROVE  Hold
  BY <1>1, GreenletSteps, StagingSettles, StoppingSettles, SavingSettles, SettlesHold,
     StageCheckHolds, SavesHolds
<1>2. ASSUME NEW t \in StageIds, Starting(t)
      PROVE  Hold
  BY <1>2, GreenletSteps, StartingSettles, SettlesHold, BeginsHolds
<1>3. ASSUME NEW t \in StageIds, Expiring(t)
      PROVE  Hold
  BY <1>3, GreenletSteps, ExpiringSettles, SettlesHold
<1> HIDE DEF Hold
<1>4. Hold
  <2>1. ASSUME \/ Requests \/ FireSchedule \/ Passing
               \/ \E d \in Delayed, k \in Calls : FireLater(d, k)
        PROVE  Hold
    BY <2>1, FreeStepsHold DEF Hold
  <2> QED
    BY <1>1, <1>2, <1>3, <2>1 DEF Next
<1> QED
  BY <1>4 DEF Hold

\* While node I/O does not yield a greenlet at startRace has the cpu, so its own step is
\* the only one.
LEMMA OnlyStarts ==
  ASSUME ChecksHold, ~NodeIOYields, NEW z \in Greenlets, frame[z].pc = "startRace", Next
  PROVE  \E t \in StageIds : StartRace(t)
<1>1. cpu = z /\ z # Free
  BY GreenletsAssumption DEF ChecksHold, LetsIn, Critical
<1>2. ~(\/ Requests \/ FireSchedule \/ Passing
        \/ \E d \in Delayed, k \in Calls : FireLater(d, k))
  BY <1>1, FreeSteps
<1>3. ASSUME NEW x \in Greenlets
      PROVE  ~(Staging(x) \/ Stopping(x) \/ Saving(x))
  BY <1>1, GreenletSteps
<1>4. ASSUME NEW t \in StageIds
      PROVE  ~Expiring(t) /\ ~StartWait(t)
  BY <1>1, GreenletSteps DEF Starting
<1> QED
  BY <1>2, <1>3, <1>4 DEF Next, Starting

LEMMA StartTimeHoldsStep ==
  ASSUME TypeOK, ChecksHold, ~NodeIOYields, Next
  PROVE  StartTimeHolds'
<1>1. ASSUME NEW t \in StageIds, StartRace(t)
      PROVE  StartTimeHolds'
  BY <1>1 DEF StartRace, StartTimeHolds
<1>2. ASSUME \A z \in Greenlets : frame[z].pc # "startRace"
      PROVE  StartTimeHolds'
  <2>1. startTime # 0 => status \in {"RACING", "DONE"}
    BY <1>2 DEF ChecksHold, StartTimeHolds
  <2>2. CASE UNCHANGED <<status, laps, startTime, saved>>
    BY <2>1, <2>2 DEF StartTimeHolds
  <2>3. ASSUME NEW x \in Greenlets, StageClear(x) \/ DoStop(x) \/ SaveWrite(x) \/ Clear(x)
        PROVE  StartTimeHolds'
    BY <2>1, <2>3 DEF StageClear, DoStop, SaveWrite, Clear, StartTimeHolds
  <2>4. ASSUME NEW t \in StageIds, StartWait(t)
        PROVE  StartTimeHolds'
    <3>1. StartThread(t) \in Greenlets
      BY ThreadGreenlets
    <3>2. CASE status = "STAGING" /\ token = t
      <4>1. frame'[StartThread(t)].pc = "startRace"
        BY <2>4, <3>1, <3>2, GotoSettles DEF StartWait
      <4> QED
        BY <3>1, <4>1 DEF StartTimeHolds
    <3>3. CASE ~(status = "STAGING" /\ token = t)
      BY <2>1, <2>4, <3>3 DEF StartWait, StartTimeHolds
    <3> QED
      BY <3>2, <3>3
  <2>5. CASE TakePass
    BY <2>1, <2>5 DEF TakePass, StartTimeHolds
  <2> QED
    BY <1>1, <2>2, <2>3, <2>4, <2>5, StepCases
<1> QED
  BY <1>1, <1>2, OnlyStarts

LEMMA ChecksHoldInit == Init => ChecksHold
BY DEF Init, ChecksHold, StartTimeHolds, IdleFrame, Critical

LEMMA ChecksHoldStep ==
  ASSUME TypeOK, ChecksHold, [Next]_vars
  PROVE  ChecksHold'
<1>1. CASE Next
  <2>1. \A y \in Greenlets : CheckHolds(y)'
    BY <1>1, PlacesHoldStep
  <2>2. NodeIOYields \/ StartTimeHolds'
    BY <1>1, StartTimeHoldsStep
  <2> QED
    BY <2>1, <2>2 DEF ChecksHold, CheckHolds
<1>2. CASE UNCHANGED vars
  BY <1>2 DEF ChecksHold, StartTimeHolds, Checked, LetsIn, vars, race
<1> QED
  BY <1>1, <1>2

\* For every setting: stage, race_start_thread and do_save_actions act on what they have
\* checked, except after the one wait that lies between their check and its use.
THEOREM ChecksSafe == Spec => []ChecksHold
<1>1. TypeOK /\ ChecksHold /\ [Next]_vars => ChecksHold'
  BY ChecksHoldStep
<1> QED
  BY <1>1, TypeCorrect, ChecksHoldInit, PTL DEF Spec

-----------------------------------------------------------------------------
(* The race control implements RaceLifecycle.                              *)

LEMMA LifecycleInit == Init => Lifecycle!Init
BY DEF Init, Lifecycle!Init

\* Every step is a step of the lifecycle or leaves it alone.
LEMMA LifecycleStep ==
  ASSUME TypeOK, NoLapsBeforeStart, ChecksHold, [Next]_vars
  PROVE  [Lifecycle!Next]_(Lifecycle!lifecycle)
<1> USE DEF Lifecycle!lifecycle, Lifecycle!Next, Lifecycle!Move
<1>1. CASE UNCHANGED <<status, laps, saved>>
  BY <1>1
<1>2. ASSUME NEW x \in Greenlets, StageClear(x)
      PROVE  Lifecycle!Stage \/ Lifecycle!LateStage
  <2>1. status = "READY" \/ NodeIOYields
    BY <1>2 DEF StageClear, On, ChecksHold, Checked, LetsIn, Critical
  <2> QED
    BY <1>2, <2>1 DEF StageClear, NoLapsBeforeStart, Lifecycle!Stage, Lifecycle!LateStage
<1>3. ASSUME NEW x \in Greenlets, DoStop(x)
      PROVE  \/ Lifecycle!Finish \/ Lifecycle!Abort \/ UNCHANGED <<status, laps, saved>>
  BY <1>3 DEF DoStop, Lifecycle!Finish, Lifecycle!Abort
<1>4. ASSUME NEW x \in Greenlets, SaveWrite(x)
      PROVE  Lifecycle!Archive \/ Lifecycle!LateArchive
  <2> DEFINE r == [start |-> startTime, heat |-> heat, classOf |-> frame[x].heat, laps |-> laps]
  <2>1. status \in {"RACING", "DONE"} \/ NodeIOYields \/ ~StoredResultsValid
    <3>1. CASE NodeIOYields \/ ~StoredResultsValid
      BY <3>1
    <3>2. CASE ~NodeIOYields /\ StoredResultsValid
      <4>1. cpu = x /\ x # Free /\ Checked(x) /\ frame[x].pc = "saveWrite"
        BY <1>4, <3>2, GreenletsAssumption
           DEF SaveWrite, On, ChecksHold, LetsIn, Critical
      <4>2. startTime # 0
        BY <4>1 DEF Checked
      <4>3. \A y \in Greenlets : frame[y].pc # "startRace"
        BY <3>2, <4>1 DEF ChecksHold, LetsIn, Critical
      <4> QED
        BY <3>2, <4>2, <4>3 DEF ChecksHold, StartTimeHolds
    <3> QED
      BY <3>1, <3>2
  <2>2. saved' = Append(saved, r) /\ UNCHANGED <<status, laps>>
    BY <1>4 DEF SaveWrite
  <2>3. saved \in Seq(SavedRaces) /\ r \in SavedRaces /\ r.laps = laps
    BY DEF TypeOK, SavedRaces, Frames
  <2> HIDE DEF r
  <2>4. Len(saved') = Len(saved) + 1 /\ saved'[Len(saved) + 1] = r
    BY <2>2, <2>3
  <2>5. Lifecycle!ArchiveLaps
    BY <2>2, <2>3, <2>4 DEF Lifecycle!ArchiveLaps
  <2>6. status \in {"READY", "STAGING", "RACING", "DONE"}
    BY DEF TypeOK, Statuses
  <2> QED
    BY <2>1, <2>5, <2>6 DEF Lifecycle!Archive, Lifecycle!LateArchive, NoLapsBeforeStart
<1>5. ASSUME NEW x \in Greenlets, Clear(x)
      PROVE  Lifecycle!Clear
  BY <1>5 DEF Clear, Lifecycle!Clear
<1>6. ASSUME NEW t \in StageIds, StartWait(t)
      PROVE  UNCHANGED <<status, laps, saved>>
  BY <1>6 DEF StartWait
<1>7. ASSUME NEW t \in StageIds, StartRace(t)
      PROVE  \/ Lifecycle!Start \/ Lifecycle!LateStart \/ UNCHANGED <<status, laps, saved>>
  <2>1. status = "STAGING" \/ NodeIOYields
    BY <1>7, ThreadGreenlets DEF StartRace, On, ChecksHold, Checked, LetsIn, Critical
  <2>2. status \in {"READY", "STAGING", "RACING", "DONE"}
    BY DEF TypeOK, Statuses
  <2> QED
    BY <1>7, <2>1, <2>2 DEF StartRace, Lifecycle!Start, Lifecycle!LateStart
<1>8. ASSUME TakePass
      PROVE  Lifecycle!Record \/ UNCHANGED <<status, laps, saved>>
  BY <1>8 DEF TakePass, Counts, Lifecycle!Record
<1>9. CASE Next
  BY <1>1, <1>2, <1>3, <1>4, <1>5, <1>6, <1>7, <1>8, <1>9, StepCases
<1>10. CASE UNCHANGED vars
  BY <1>10 DEF vars, race
<1> QED
  BY <1>9, <1>10

\* The race control keeps the promise of RaceLifecycle for any number of clients, heats,
\* requests and passes, and for every setting: where node I/O does not yield, no race is
\* staged or started late, and where neither it nor a results build does, none is saved so.
THEOREM LifecycleImplemented == Spec => ImplementsLifecycle
<1>1. TypeOK /\ NoLapsBeforeStart /\ ChecksHold /\ [Next]_vars
        => [Lifecycle!Next]_(Lifecycle!lifecycle)
  BY LifecycleStep
<1> QED
  BY <1>1, LifecycleInit, TypeCorrect, NoLapsSafe, ChecksSafe, PTL
     DEF Spec, ImplementsLifecycle, Lifecycle!Spec

-----------------------------------------------------------------------------
(***************************************************************************)
(* Proofs about the records of RaceSequence, for every value of its        *)
(* constants.  A lap is never later than the end of its race.  When neither *)
(* node I/O nor a results build lets another greenlet in between a check   *)
(* and its use, a lap is not earlier than the start of its race either,    *)
(* and no race is saved twice.                                             *)
(***************************************************************************)

-----------------------------------------------------------------------------
(* Which steps matter.                                                     *)

\* Only these steps change the clock, the race's times, its laps, the passes on
\* their way to it or the rows.
LEMMA RecordSteps ==
  ASSUME Next
  PROVE  \/ UNCHANGED <<status, token, startTime, startMono, endTime, dbId, laps,
                        passQ, crossing, clk, saved>>
         \/ \E x \in Greenlets : \/ StageClear(x) \/ StageLaunch(x) \/ DoStop(x)
                                 \/ SaveWrite(x) \/ Clear(x)
         \/ \E t \in StageIds : StartWait(t) \/ StartRace(t)
         \/ BeginCrossing \/ EndCrossing \/ TakePass
<1> DEFINE Same == UNCHANGED <<status, token, startTime, startMono, endTime, dbId, laps,
                               passQ, crossing, clk, saved>>
<1>1. Requests => Same
  BY DEF Requests, StageRequest, StopRequest, SaveRequest, DiscardRequest, Request,
         SetHeat, Schedule, CancelSchedule, race, node
<1>2. FireSchedule => Same
  BY DEF FireSchedule, race, node
<1>3. ASSUME NEW d \in Delayed, NEW k \in Calls, FireLater(d, k)
      PROVE  Same
  BY <1>3 DEF FireLater, race, node
<1>4. ASSUME NEW x \in Greenlets, Staging(x)
      PROVE  Same \/ StageClear(x) \/ StageLaunch(x)
  BY <1>4 DEF Staging, StageEntry, StagePrep, StageCheck, race, node
<1>5. ASSUME NEW x \in Greenlets, Stopping(x)
      PROVE  Same \/ DoStop(x)
  BY <1>5 DEF Stopping, Stop, Drain, StopEnd, StopSave, race, node
<1>6. ASSUME NEW x \in Greenlets, Saving(x)
      PROVE  Same \/ SaveWrite(x) \/ Clear(x)
  BY <1>6 DEF Saving, Save, SaveClear, Advance, Discard, race, node
<1>7. ASSUME NEW t \in StageIds, Expiring(t)
      PROVE  Same
  BY <1>7 DEF Expiring, ExpireTimer, ExpireDrain, ExpireGrace, race, node
<1>8. Passing => Same \/ BeginCrossing \/ EndCrossing \/ TakePass
  BY DEF Passing, EndPass, race
<1> HIDE DEF Same
<1>9. CASE Same
  BY <1>9 DEF Same
<1>10. CASE ~Same
  BY <1>1, <1>2, <1>3, <1>4, <1>5, <1>6, <1>7, <1>8, <1>10 DEF Next, Starting
<1> QED
  BY <1>9, <1>10

-----------------------------------------------------------------------------
(* Laps end with their race.                                               *)

\* What is recorded so far lies in the past, and a finished race has ended after
\* its laps.
PastHolds ==
  /\ crossing <= clk
  /\ \A i \in 1..Len(passQ) : passQ[i] <= clk
  /\ \A ts \in laps : ts <= clk
  /\ LapsBeforeEnd

LEMMA PastInit == Init => PastHolds
BY DEF Init, PastHolds, LapsBeforeEnd

LEMMA PastStep ==
  ASSUME TypeOK, NoLapsBeforeStart, PastHolds, Next
  PROVE  PastHolds'
<1> USE DEF LapsBeforeEnd
<1>0. clk \in Nat /\ crossing \in Nat /\ passQ \in Seq(Nat) /\ laps \subseteq Nat
      /\ startMono \in Nat /\ endTime \in Nat
  BY DEF TypeOK
<1>1. CASE UNCHANGED <<status, token, startTime, startMono, endTime, dbId, laps,
                       passQ, crossing, clk, saved>>
  BY <1>1 DEF PastHolds
<1>2. ASSUME NEW x \in Greenlets, StageClear(x) \/ SaveWrite(x) \/ Clear(x)
      PROVE  PastHolds'
  BY <1>2 DEF PastHolds, StageClear, SaveWrite, Clear, node
<1>3. ASSUME NEW x \in Greenlets, StageLaunch(x)
      PROVE  PastHolds'
  BY <1>3 DEF PastHolds, StageLaunch, node
<1>4. ASSUME NEW x \in Greenlets, DoStop(x)
      PROVE  PastHolds'
  BY <1>0, <1>4 DEF PastHolds, DoStop, NoLapsBeforeStart, node
<1>5. ASSUME NEW t \in StageIds, StartWait(t)
      PROVE  PastHolds'
  <2>1. clk' \in Nat /\ clk <= clk'
    BY <1>0, <1>5 DEF StartWait
  <2> QED
    BY <1>0, <1>5, <2>1 DEF PastHolds, StartWait, node
<1>6. ASSUME NEW t \in StageIds, StartRace(t)
      PROVE  PastHolds'
  BY <1>6 DEF PastHolds, StartRace, node
<1>7. CASE BeginCrossing
  BY <1>0, <1>7 DEF PastHolds, BeginCrossing, race
<1>8. CASE EndCrossing
  <2> PICK ts \in crossing..clk : passQ' = Append(passQ, ts)
    BY <1>8 DEF EndCrossing
  <2>1. \A i \in 1..Len(passQ') : passQ'[i] <= clk
    BY <1>0 DEF PastHolds
  <2> QED
    BY <1>0, <1>8, <2>1 DEF PastHolds, EndCrossing, race
<1>9. CASE TakePass
  <2>1. Len(passQ) \in Nat /\ Len(passQ) > 0 /\ Head(passQ) = passQ[1]
    BY <1>0, <1>9 DEF TakePass
  <2>2. Head(passQ) <= clk
    BY <2>1 DEF PastHolds
  <2>3. /\ Tail(passQ) \in Seq(Nat) /\ Len(Tail(passQ)) = Len(passQ) - 1
        /\ \A i \in 1..Len(Tail(passQ)) : Tail(passQ)[i] = passQ[i+1]
    BY <1>0, <2>1
  <2>4. \A i \in 1..Len(passQ') : passQ'[i] <= clk
    BY <1>9, <2>1, <2>3 DEF PastHolds, TakePass
  <2>5. /\ \A ts \in laps' : ts <= clk
        /\ status = "DONE" => \A ts \in laps' : ts < endTime
    BY <1>9, <2>2 DEF PastHolds, TakePass, Counts
  <2> QED
    BY <1>9, <2>4, <2>5 DEF PastHolds, TakePass
<1> QED
  BY <1>1, <1>2, <1>3, <1>4, <1>5, <1>6, <1>7, <1>8, <1>9, RecordSteps

\* No lap of a finished race is at or after its end, whatever calls yield and
\* however late its pass record is taken from the queue (RHRace.py:855).
THEOREM LapsEndWithRace == Spec => []LapsBeforeEnd
<1>1. TypeOK /\ NoLapsBeforeStart /\ PastHolds /\ [Next]_vars => PastHolds'
  <2>1. PastHolds /\ UNCHANGED vars => PastHolds'
    BY DEF PastHolds, LapsBeforeEnd, vars, race, node
  <2> QED
    BY <2>1, PastStep
<1>2. PastHolds => LapsBeforeEnd
  BY DEF PastHolds
<1> QED
  BY <1>1, <1>2, PastInit, TypeCorrect, NoLapsSafe, PTL DEF Spec

-----------------------------------------------------------------------------
(* Start threads that wait.                                                *)

\* The step sends no greenlet to the wait for the start.
NoNewWait ==
  \A y \in Greenlets : frame'[y].pc = "startWait" => frame[y].pc = "startWait"

LEMMA ReturnAway ==
  ASSUME TypeOK, NEW x \in Greenlets, Return(x)
  PROVE  NoNewWait
<1>1. frame'[x].pc # "startWait" /\ \A y \in Greenlets \ {x} : frame'[y] = frame[y]
  BY ReturnedType DEF TypeOK, Return, ReturnPlaces
<1> QED
  BY <1>1 DEF NoNewWait

LEMMA GotoAway ==
  ASSUME TypeOK, NEW x \in Greenlets, NEW p, p # "startWait", Goto(x, p)
  PROVE  NoNewWait
BY GotoSettles DEF NoNewWait

LEMMA CallAway ==
  ASSUME TypeOK, NEW x \in Greenlets, NEW p, p # "startWait", NEW q, Call(x, p, q)
  PROVE  NoNewWait
BY DEF TypeOK, Call, NoNewWait, Frames

\* A frame built anew is at the place it is given.
LEMMA FreshFrame ==
  ASSUME TypeOK, NEW x \in Greenlets, NEW p, p # "startWait", NEW doSave,
         frame' = [frame EXCEPT ![x] = [IdleFrame EXCEPT !.pc = p, !.doSave = doSave]]
  PROVE  NoNewWait
<1>1. [IdleFrame EXCEPT !.pc = p, !.doSave = doSave].pc = p
  BY DEF IdleFrame
<1> QED
  BY <1>1 DEF TypeOK, NoNewWait

\* Only stage() spawns a start thread, the one of the new token.
LEMMA WaitSteps ==
  ASSUME TypeOK, Next
  PROVE  NoNewWait \/ \E x \in Greenlets : StageLaunch(x)
<1> USE ReturnAway, GotoAway, CallAway, ThreadGreenlets
<1>1. CASE Requests
  <2>1. ASSUME NEW c \in Clients, NEW kind, NEW p, NEW doSave, Request(c, kind, p, doSave),
               p # "startWait"
        PROVE  NoNewWait
    BY <2>1, FreshFrame DEF Request
  <2>2. ASSUME UNCHANGED frame
        PROVE  NoNewWait
    BY <2>2 DEF NoNewWait
  <2> QED
    BY <1>1, <2>1, <2>2 DEF Requests, StageRequest, StopRequest, SaveRequest,
       DiscardRequest, SetHeat, Schedule, CancelSchedule
<1>2. CASE FireSchedule
  BY <1>2 DEF FireSchedule
<1>3. ASSUME NEW d \in Delayed, NEW k \in Calls, FireLater(d, k)
      PROVE  NoNewWait
  BY <1>3, FreshFrame DEF FireLater
<1>4. ASSUME NEW x \in Greenlets, Staging(x)
      PROVE  NoNewWait \/ StageLaunch(x)
  BY <1>4 DEF Staging, StageEntry, StagePrep, StageCheck, StageClear, ReturnRunning
<1>5. ASSUME NEW x \in Greenlets, Stopping(x)
      PROVE  NoNewWait
  BY <1>5 DEF Stopping, Stop, DoStop, Drain, StopEnd, StopSave, ReturnRunning,
              ReturnMaybeYield
<1>6. ASSUME NEW x \in Greenlets, Saving(x)
      PROVE  NoNewWait
  <2>1. ASSUME frame' = [frame EXCEPT ![x] = [@ EXCEPT !.pc = "saveWrite", !.heat = heat]]
        PROVE  NoNewWait
    BY <2>1 DEF TypeOK, Frames, NoNewWait
  <2> QED
    BY <1>6, <2>1 DEF Saving, Save, SaveWrite, SaveClear, Advance, Discard, Clear,
       ReturnRunning, ReturnMaybeYield
<1>7. ASSUME NEW t \in StageIds, StartWait(t) \/ Expiring(t)
      PROVE  NoNewWait
  BY <1>7 DEF StartWait, Expiring, ExpireTimer, ExpireDrain, ExpireGrace
<1>8. ASSUME NEW t \in StageIds, StartRace(t)
      PROVE  NoNewWait
  <2> DEFINE x == StartThread(t)
             g == [frame EXCEPT ![x] = IdleFrame]
  <2>1. g \in [Greenlets -> Frames] /\ ExpireThread(t) \in Greenlets
    BY IdleFrameType DEF TypeOK
  <2>2. \A y \in Greenlets : g[y].pc = "startWait" => frame[y].pc = "startWait"
    BY DEF TypeOK, IdleFrame
  <2>3. frame' = Spawn(g, ExpireThread(t), "expireTimer") \/ frame' = g
    BY <1>8 DEF StartRace
  <2> HIDE DEF g, x
  <2>4. \A y \in Greenlets : frame'[y].pc = "startWait" => g[y].pc = "startWait"
    BY <2>1, <2>3 DEF Spawn, Frames
  <2> QED
    BY <2>2, <2>4 DEF NoNewWait
<1>9. CASE Passing
  <2>1. UNCHANGED frame
    BY <1>9 DEF Passing, BeginCrossing, EndCrossing, TakePass, EndPass
  <2> QED
    BY <2>1 DEF NoNewWait
<1> QED
  BY <1>1, <1>2, <1>3, <1>4, <1>5, <1>6, <1>7, <1>8, <1>9 DEF Next, Starting

-----------------------------------------------------------------------------
(* No race is saved twice.                                                 *)

\* Node I/O does not yield and the stored results are valid.
Quiet == ~NodeIOYields /\ StoredResultsValid

\* Then whoever is between a check and its use has the cpu, and rows are written only for a
\* race that was started.
LEMMA QuietChecks ==
  ASSUME Quiet, ChecksHold
  PROVE  /\ \A x \in Greenlets : frame[x].pc \in Critical => cpu = x /\ Checked(x)
         /\ (\A x \in Greenlets : frame[x].pc # "startRace") /\ startTime # 0
              => status \in {"RACING", "DONE"}
         /\ \A x \in Greenlets : frame[x].pc = "saveWrite"
              => startTime # 0 /\ ~dbId /\ status \in {"RACING", "DONE"}
<1>1. \A x \in Greenlets : frame[x].pc \in Critical => cpu = x /\ Checked(x)
  BY DEF Quiet, ChecksHold, LetsIn
<1>2. (\A x \in Greenlets : frame[x].pc # "startRace") /\ startTime # 0
        => status \in {"RACING", "DONE"}
  BY DEF Quiet, ChecksHold, StartTimeHolds
<1>3. ASSUME NEW x \in Greenlets, frame[x].pc = "saveWrite"
      PROVE  startTime # 0 /\ ~dbId /\ status \in {"RACING", "DONE"}
  <2>1. Checked(x) /\ cpu = x
    BY <1>1, <1>3 DEF Critical
  <2>2. \A y \in Greenlets : frame[y].pc # "startRace"
    BY <1>1, <1>3, <2>1 DEF Critical
  <2> QED
    BY <1>2, <1>3, <2>1, <2>2 DEF Checked
<1> QED
  BY <1>1, <1>2, <1>3

\* A start thread that carries the token waits.
Waits == \E t \in StageIds : token = t /\ frame[StartThread(t)].pc = "startWait"

SavedAt(n) == \E i \in 1..Len(saved) : saved[i].start = n

\* What is saved lies in the past, and no start of a race that is to come is the
\* start of a saved one.
StartsHold ==
  /\ Waits => /\ clk <= startMono
              /\ status = "RACING" \/ SavedAt(clk) => clk < startMono
  /\ \A i \in 1..Len(saved) : saved[i].start <= clk
  /\ startTime <= clk
  /\ status = "DONE" /\ startTime # 0 => startTime < clk
  /\ startTime # 0 /\ ~dbId => ~SavedAt(startTime)

RecordsHold == StartsHold /\ SavedOnce

LEMMA RecordsInit == Init => RecordsHold
<1> SUFFICES ASSUME Init PROVE RecordsHold
  OBVIOUS
<1>1. \A x \in Greenlets : frame[x].pc = "idle"
  BY DEF Init, IdleFrame
<1>2. Len(saved) = 0
  BY DEF Init
<1> QED
  BY <1>1, <1>2, ThreadGreenlets
     DEF Init, RecordsHold, StartsHold, SavedOnce, Waits, SavedAt

\* Without a new start thread nobody begins to wait, unless the token changes.
LEMMA WaitsStep ==
  ASSUME TypeOK, NoNewWait, token' = token, Waits'
  PROVE  Waits
BY ThreadGreenlets DEF NoNewWait, Waits

LEMMA StartsHoldStep ==
  ASSUME Quiet, TypeOK, ChecksHold, RecordsHold, Next
  PROVE  StartsHold' /\ SavedOnce'
<1>0. /\ clk \in Nat /\ startTime \in Nat /\ startMono \in Nat /\ token \in Nat
      /\ saved \in Seq(SavedRaces)
      /\ \A i \in 1..Len(saved) : saved[i].start \in Nat
  <2>1. saved \in Seq(SavedRaces)
    BY DEF TypeOK
  <2>2. \A i \in 1..Len(saved) : saved[i] \in SavedRaces
    BY <2>1
  <2> QED
    BY <2>1, <2>2, BoundsAssumption DEF TypeOK, SavedRaces
<1>1. CASE /\ UNCHANGED <<status, token, startTime, startMono, dbId, clk, saved>>
           /\ NoNewWait
  BY <1>1, WaitsStep DEF RecordsHold, StartsHold, SavedOnce, SavedAt
<1>2. ASSUME NEW x \in Greenlets, StageLaunch(x)
      PROVE  StartsHold' /\ SavedOnce'
  <2>1. startMono' = clk + 1 /\ UNCHANGED <<status, startTime, dbId, clk, saved>>
    BY <1>2 DEF StageLaunch, node
  <2> QED
    BY <1>0, <2>1 DEF RecordsHold, StartsHold, SavedOnce, SavedAt
<1>3. ASSUME NoNewWait, NEW x \in Greenlets, StageClear(x) \/ Clear(x)
      PROVE  StartsHold' /\ SavedOnce'
  <2>1. /\ startTime' = 0 /\ status' \in {"STAGING", "READY"}
        /\ UNCHANGED <<token, startMono, clk, saved>>
    BY <1>3 DEF StageClear, Clear, node
  <2> QED
    BY <1>0, <1>3, <2>1, WaitsStep DEF RecordsHold, StartsHold, SavedOnce, SavedAt
<1>4. ASSUME NoNewWait, NEW x \in Greenlets, DoStop(x)
      PROVE  StartsHold' /\ SavedOnce'
  <2>1. UNCHANGED <<token, startMono, startTime, dbId, saved>>
    BY <1>4 DEF DoStop
  <2>2. CASE status = "RACING"
    <3>1. clk' = clk + 1 /\ status' = "DONE"
      BY <1>4, <2>2 DEF DoStop
    <3>2. ~SavedAt(clk + 1)
      BY <1>0 DEF RecordsHold, StartsHold, SavedAt
    <3>3. Waits' => clk < startMono
      BY <1>4, <2>1, <2>2, WaitsStep DEF RecordsHold, StartsHold
    <3>4. ~SavedAt(clk)'
      BY <2>1, <3>1, <3>2 DEF SavedAt
    <3>5. Waits' => /\ clk' <= startMono'
                    /\ status' = "RACING" \/ SavedAt(clk)' => clk' < startMono'
      BY <1>0, <2>1, <3>1, <3>3, <3>4
    <3>6. /\ \A i \in 1..Len(saved') : saved'[i].start <= clk'
          /\ startTime' < clk'
      BY <1>0, <2>1, <3>1 DEF RecordsHold, StartsHold
    <3>7. startTime' # 0 /\ ~dbId' => ~SavedAt(startTime)'
      BY <2>1 DEF RecordsHold, StartsHold, SavedAt
    <3> QED
      BY <1>0, <2>1, <3>1, <3>5, <3>6, <3>7 DEF RecordsHold, StartsHold, SavedOnce
  <2>3. CASE status # "RACING"
    <3>1. UNCHANGED clk /\ status' \in {"READY", "DONE"}
      BY <1>4, <2>3 DEF DoStop
    <3>2. status = "READY" => startTime = 0
      <4>1. cpu \in {x, Free} /\ frame[x].pc # "startRace"
        BY <1>4 DEF DoStop, On
      <4>2. \A y \in Greenlets : frame[y].pc # "startRace"
        BY <4>1, QuietChecks, GreenletsAssumption DEF Critical
      <4> QED
        BY <4>2, QuietChecks
    <3>3. status' = "DONE" => status \in {"READY", "DONE"}
      BY <1>4, <2>3 DEF DoStop
    <3> QED
      BY <1>0, <1>4, <2>1, <3>1, <3>2, <3>3, WaitsStep
         DEF RecordsHold, StartsHold, SavedOnce, SavedAt
  <2> QED
    BY <2>2, <2>3
<1>5. ASSUME NoNewWait, NEW x \in Greenlets, SaveWrite(x)
      PROVE  StartsHold' /\ SavedOnce'
  <2> DEFINE r == [start |-> startTime, heat |-> heat, classOf |-> frame[x].heat,
                   laps |-> laps]
  <2>1. startTime # 0 /\ ~dbId /\ status \in {"RACING", "DONE"}
    BY <1>5, QuietChecks DEF SaveWrite, On
  <2>2. /\ saved' = Append(saved, r) /\ r.start = startTime /\ dbId'
        /\ UNCHANGED <<status, token, startTime, startMono, clk>>
    BY <1>5, Zenon DEF SaveWrite, node
  <2> HIDE DEF r
  <2>3. /\ Len(saved) \in Nat /\ Len(saved') = Len(saved) + 1
        /\ saved'[Len(saved) + 1] = r
        /\ \A i \in 1..Len(saved) : saved'[i] = saved[i]
    BY <1>0, <2>2
  <2>4. ~SavedAt(startTime) /\ startTime <= clk
    BY <2>1 DEF RecordsHold, StartsHold
  <2>5. SavedOnce'
    BY <2>2, <2>3, <2>4 DEF RecordsHold, SavedOnce, SavedAt
  <2>6. \A i \in 1..Len(saved') : saved'[i].start <= clk
    BY <2>2, <2>3, <2>4 DEF RecordsHold, StartsHold
  <2>7. SavedAt(clk)' => SavedAt(clk) \/ startTime = clk
    BY <2>2, <2>3 DEF SavedAt
  <2>8. Waits' => clk <= startMono /\ (status = "RACING" \/ SavedAt(clk)' => clk < startMono)
    BY <1>0, <1>5, <2>1, <2>2, <2>7, WaitsStep DEF RecordsHold, StartsHold
  <2> QED
    BY <2>1, <2>2, <2>5, <2>6, <2>8 DEF RecordsHold, StartsHold, SavedAt
<1>6. ASSUME NoNewWait, NEW t \in StageIds, StartWait(t)
      PROVE  StartsHold' /\ SavedOnce'
  <2> DEFINE x == StartThread(t)
  <2>1. CASE status = "STAGING" /\ token = t
    <3>1. On(x, "startWait") /\ Goto(x, "startRace")
      BY <1>6, <2>1 DEF StartWait
    <3>2. Waits /\ clk <= startMono /\ (SavedAt(clk) => clk < startMono)
      BY <2>1, <3>1 DEF On, Waits, RecordsHold, StartsHold
    <3>3. clk' = startMono /\ startTime' = startMono
      BY <1>0, <1>6, <2>1, <3>2 DEF StartWait
    <3>4. UNCHANGED <<status, token, startMono, dbId, saved>>
      BY <1>6 DEF StartWait
    <3>5. ~Waits'
      <4>1. frame'[x].pc = "startRace"
        BY <3>1, GotoSettles, ThreadGreenlets
      <4> QED
        BY <2>1, <3>4, <4>1 DEF Waits
    <3>6. ~SavedAt(startMono)
      BY <1>0, <3>2 DEF RecordsHold, StartsHold, SavedAt
    <3> QED
      BY <1>0, <2>1, <3>2, <3>3, <3>4, <3>5, <3>6
         DEF RecordsHold, StartsHold, SavedOnce, SavedAt
  <2>2. CASE ~(status = "STAGING" /\ token = t)
    <3>1. UNCHANGED <<status, token, startTime, startMono, dbId, clk, saved>>
      BY <1>6, <2>2 DEF StartWait
    <3> QED
      BY <1>1, <1>6, <3>1
  <2> QED
    BY <2>1, <2>2
<1>7. ASSUME NEW t \in StageIds, StartRace(t)
      PROVE  StartsHold' /\ SavedOnce'
  <2> DEFINE x == StartThread(t)
  <2>1. /\ status' = "RACING" /\ frame[x].pc = "startRace"
        /\ UNCHANGED <<token, startTime, startMono, dbId, clk, saved>>
    BY <1>7 DEF StartRace, On, node
  <2>2. token = t
    <3>1. Checked(x) /\ x \in Greenlets
      BY <2>1, ThreadGreenlets, QuietChecks DEF Critical
    <3> QED
      BY <2>1, <3>1 DEF Checked
  <2>3. ~Waits'
    <3>1. frame'[x].pc = "idle"
      <4> DEFINE g == [frame EXCEPT ![x] = IdleFrame]
      <4>1. x \in Greenlets /\ x # ExpireThread(t) /\ g[x] = IdleFrame
        BY ThreadGreenlets DEF TypeOK, StartThread, ExpireThread
      <4>2. g \in [Greenlets -> Frames]
        BY <4>1, IdleFrameType DEF TypeOK
      <4>3. frame' = Spawn(g, ExpireThread(t), "expireTimer") \/ frame' = g
        BY <1>7 DEF StartRace
      <4> HIDE DEF g, x
      <4>4. frame'[x] = IdleFrame
        BY <4>1, <4>2, <4>3 DEF Spawn
      <4> QED
        BY <4>4 DEF IdleFrame
    <3> QED
      BY <2>1, <2>2, <3>1 DEF Waits
  <2> QED
    BY <1>0, <2>1, <2>3 DEF RecordsHold, StartsHold, SavedOnce, SavedAt
<1>8. ASSUME NoNewWait, BeginCrossing \/ EndCrossing \/ TakePass
      PROVE  StartsHold' /\ SavedOnce'
  <2>1. UNCHANGED <<status, token, startTime, startMono, dbId, clk, saved>>
    BY <1>8 DEF BeginCrossing, EndCrossing, TakePass, race
  <2> QED
    BY <1>1, <1>8, <2>1
<1>9. CASE NoNewWait
  BY <1>1, <1>2, <1>3, <1>4, <1>5, <1>6, <1>7, <1>8, <1>9, RecordSteps
<1> QED
  BY <1>2, <1>9, WaitSteps

LEMMA RecordsHoldStep ==
  ASSUME Quiet, TypeOK, ChecksHold, RecordsHold, [Next]_vars
  PROVE  RecordsHold'
<1>1. CASE Next
  BY <1>1, StartsHoldStep DEF RecordsHold
<1>2. CASE UNCHANGED vars
  BY <1>2 DEF RecordsHold, StartsHold, SavedOnce, Waits, SavedAt, vars, race
<1> QED
  BY <1>1, <1>2

LEMMA RecordsSafe ==
  ASSUME Quiet
  PROVE  Spec => []RecordsHold
<1>1. TypeOK /\ ChecksHold /\ RecordsHold /\ [Next]_vars => RecordsHold'
  BY RecordsHoldStep
<1> QED
  BY <1>1, TypeCorrect, ChecksSafe, RecordsInit, PTL DEF Spec

\* No race has two rows, however save requests, put-off saves and the scheduler
\* come together and however late a start thread of an earlier staging starts its
\* race (RHRace.py:652).
THEOREM SavedOnceSafe ==
  ASSUME Quiet
  PROVE  Spec => []SavedOnce
<1>1. RecordsHold => SavedOnce
  BY DEF RecordsHold
<1> QED
  BY <1>1, RecordsSafe, PTL

-----------------------------------------------------------------------------
(* Laps begin with their race.                                             *)

\* The race started no later than the time its passes are compared with.
LapsHold ==
  startTime # 0 => startTime <= startMono /\ \A ts \in laps : ts >= startTime

LEMMA LapsHoldStep ==
  ASSUME Quiet, TypeOK, NoLapsBeforeStart, ChecksHold, RecordsHold, LapsHold, Next
  PROVE  LapsHold'
<1>0. /\ clk \in Nat /\ startTime \in Nat /\ startMono \in Nat /\ laps \subseteq Nat
      /\ startTime <= clk
  BY DEF TypeOK, RecordsHold, StartsHold
<1>1. CASE UNCHANGED <<startTime, startMono, laps>>
  BY <1>1 DEF LapsHold
<1>2. ASSUME NEW x \in Greenlets, StageLaunch(x)
      PROVE  LapsHold'
  <2>1. startMono' = clk + 1 /\ UNCHANGED <<startTime, laps>>
    BY <1>2 DEF StageLaunch
  <2> QED
    BY <1>0, <2>1 DEF LapsHold
<1>3. ASSUME NEW x \in Greenlets, StageClear(x) \/ Clear(x)
      PROVE  LapsHold'
  BY <1>3 DEF StageClear, Clear, LapsHold
<1>4. ASSUME NEW t \in StageIds, StartWait(t)
      PROVE  LapsHold'
  <2>1. CASE status = "STAGING" /\ token = t
    <3>1. Waits
      BY <1>4, <2>1 DEF StartWait, On, Waits
    <3>2. startTime' = startMono /\ UNCHANGED <<startMono, laps>>
      BY <1>0, <1>4, <2>1, <3>1 DEF StartWait, RecordsHold, StartsHold
    <3> QED
      BY <1>0, <2>1, <3>2 DEF LapsHold, NoLapsBeforeStart
  <2>2. CASE ~(status = "STAGING" /\ token = t)
    BY <1>1, <1>4, <2>2 DEF StartWait
  <2> QED
    BY <2>1, <2>2
<1>5. CASE TakePass
  <2>1. passQ \in Seq(Nat) /\ passQ # <<>>
    BY <1>5 DEF TypeOK, TakePass
  <2>2. Head(passQ) \in Nat
    BY <2>1
  <2>3. \A ts \in laps' : ts \in laps \/ (ts \in Nat /\ ts >= startMono)
    BY <1>5, <2>2 DEF TakePass, Counts
  <2>4. UNCHANGED <<startTime, startMono>>
    BY <1>5 DEF TakePass
  <2>5. startTime # 0 => startTime <= startMono /\ \A u \in laps : u >= startTime
    BY DEF LapsHold
  <2>6. startTime # 0 => \A ts \in laps' : ts >= startTime
    <3>1. startTime \in Nat /\ startMono \in Nat
      BY DEF TypeOK
    <3>2. startTime # 0 => \A u \in Nat : u >= startMono => u >= startTime
      BY <2>5, <3>1
    <3> QED
      BY <2>3, <2>5, <3>2
  <2> QED
    BY <2>4, <2>5, <2>6 DEF LapsHold
<1>6. ASSUME \/ BeginCrossing \/ EndCrossing
             \/ \E x \in Greenlets : DoStop(x) \/ SaveWrite(x)
             \/ \E t \in StageIds : StartRace(t)
      PROVE  LapsHold'
  <2>1. UNCHANGED <<startTime, startMono, laps>>
    BY <1>6 DEF BeginCrossing, EndCrossing, DoStop, SaveWrite, StartRace, race
  <2> QED
    BY <1>1, <2>1
<1> QED
  BY <1>1, <1>2, <1>3, <1>4, <1>5, <1>6, RecordSteps

\* Every lap of a race lies between its start and its end, whatever passes of
\* earlier races are still queued when it starts and when it ends.
THEOREM LapsWithinRaceSafe ==
  ASSUME Quiet
  PROVE  Spec => []LapsWithinRace
<1>1. Init => LapsHold
  BY DEF Init, LapsHold
<1>2. /\ TypeOK /\ NoLapsBeforeStart /\ ChecksHold /\ RecordsHold /\ LapsHold
      /\ [Next]_vars
      => LapsHold'
  <2>1. LapsHold /\ UNCHANGED vars => LapsHold'
    BY DEF LapsHold, vars, race
  <2> QED
    BY <2>1, LapsHoldStep
<1>3. LapsHold /\ LapsBeforeEnd => LapsWithinRace
  BY DEF LapsHold, LapsWithinRace
<1> QED
  BY <1>1, <1>2, <1>3, TypeCorrect, NoLapsSafe, ChecksSafe, RecordsSafe, LapsEndWithRace,
     PTL DEF Spec
=============================================================================
