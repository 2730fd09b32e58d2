------------------------------ MODULE RaceLaps ------------------------------
(***************************************************************************)
(* The laps of a running race and its winner (RHRace.py): passes are       *)
(* reported when a crossing ends and wait in a queue; its worker adds the  *)
(* lap and puts off the check for a winner to a second job; the greenlet   *)
(* of the race time, the one that stops the race and the race director,    *)
(* who deletes and restores laps, check for a winner as well.              *)
(*                                                                         *)
(* The timer of the race, the states before it and saving are in           *)
(* RaceSequence.  Results are built whenever they are asked for; their     *)
(* building does not interleave here (see ResultsCaches).                  *)
(***************************************************************************)
EXTENDS RaceResults

CONSTANTS
  Nodes,      \* seats, all with a pilot
  Team,       \* the team of each seat
  Formats,    \* race formats to choose from; see RaceResults, and minLap, minFirst, behavior
  Peaks,      \* peaks of passes
  Editable,   \* whether the race director deletes and restores laps, and while racing
  MaxTime,    \* bound: the last time at which someone crosses
  MaxPasses,  \* bound: passes of a seat
  Crowded,    \* bound: formats in which a pilot may cross with a pass or second job queued
  MaxEdits    \* bound: deleted and restored laps

ASSUME FormatsAssumption ==
  Formats \subseteq
    [mode : {"individual", "team", "coop"},
     win : {"none", "progress", "laps", "first_to_x", "fastest", "consecutive", "overtime"},
     start : {"holeshot", "first_lap", "staggered"}, limited : BOOLEAN,
     time : Nat, grace : Nat \cup {None}, laps : Nat,
     minLap : Nat, minFirst : Nat, behavior : 0..2]

ASSUME LapsAssumption ==
  /\ Nodes \subseteq Nat /\ IsFiniteSet(Nodes) /\ Peaks \subseteq Nat
  /\ Editable \in {"never", "done", "always"}
  /\ MaxTime \in Nat /\ MaxPasses \in Nat /\ MaxEdits \in Nat

VARIABLES
  format,
  now,
  status,    \* race_status: racing or done
  up,        \* the race time is over (timer_running is false)
  end,       \* end_time
  crossing,  \* crossing[n]: since when node n is in a crossing, or None
  flag,      \* flag[n]: pass_crossing_flag
  queue,     \* pass_invoke_func_queue: passes and second jobs
  worker,    \* when the worker awakes that sleeps in a check, or None
  laps,      \* node_laps
  seen,      \* the active laps at the last build of the results
  finished, effect, waiting,  \* node_has_finished, node_finished_effect, and the wait count
  win,       \* win_status and race_winner_name
  expiry,    \* the greenlet of the race time: its place and when it goes on
  stopper,   \* the one that stops the race
  editing,   \* the race director waits for the queue
  edits, told, final  \* ghosts: edits so far; RACE_PILOT_DONE events; whether a verdict was
                      \* given after the race, and whether a lap has come in since, or a
                      \* pilot has crossed with a pass still in the queue

race == <<status, up, end>>
flags == <<finished, effect, waiting, told>>
vars == <<format, now, race, crossing, flag, queue, worker, laps, seen, flags, win,
          expiry, stopper, editing, edits, final>>

-----------------------------------------------------------------------------
(* Laps.                                                                   *)

Active(s) == SelectSeq(s, LAMBDA l : ~l.deleted)

\* The active laps before an index, and those with the late ones.
ActiveBefore(s, i) == {j \in 1..i-1 : ~s[j].deleted}
ShownBefore(s, i) == {j \in 1..i-1 : ~s[j].deleted \/ s[j].late}

\* When the last of these laps was flown; the start of the race is 0.
LastAt(s, places) == IF places = {} THEN 0 ELSE s[Max(places)].at

\* calc_lap_times: numbers and times of the active laps from an index on.
CalcTimes(s, from) ==
  [i \in DOMAIN s |->
     IF s[i].deleted \/ i < from THEN s[i]
     ELSE [s[i] EXCEPT !.num = Cardinality(ActiveBefore(s, i)),
                       !.time = s[i].at - LastAt(s, ActiveBefore(s, i))]]

\* filter_within_min_lap_by_peak: of the laps within the minimum time of the last one, the
\* first with the highest peak is kept.
FilterByPeak(s, minLap) ==
  LET at == Last(s).at
      far == {i \in DOMAIN s : at >= s[i].at + minLap}
      from == IF far = {} THEN 1 ELSE Max(far) + 1
      near == {i \in from..Len(s) : ~s[i].deleted}
      peak == Max({s[i].peak : i \in near} \cup {0})
      best == Min({i \in near : s[i].peak = peak})
  IN IF ~\E i \in from..Len(s)-1 : ~s[i].deleted THEN s
     ELSE CalcTimes([i \in DOMAIN s |-> IF i \in near THEN [s[i] EXCEPT !.deleted = i # best]
                                        ELSE s[i]], from)

-----------------------------------------------------------------------------
(* The check for a winner.                                                 *)

LastLaps(s) == SubSeq(s, Max({1, Len(s) - Consecutives + 1}), Len(s))

Seats == SetToSortSeq(Nodes, <)

\* The race as check_win_condition_result sees it, with the results of counted.
Seen(counted, done, isUp, fin, flg, all) ==
  LET lines == [i \in DOMAIN Seats |-> Line(format, Seats[i], Team[Seats[i]], counted[Seats[i]])]
  IN [format |-> format, lines |-> lines, board |-> ByRaceTime(lines), done |-> done,
      up |-> isUp, finished |-> fin, crossing |-> flg,
      recent |-> [n \in Nodes |-> IF all[n] = <<>> THEN None ELSE Last(all[n]).at],
      count |-> [n \in Nodes |-> Len(all[n])],
      lastTimes |-> [n \in Nodes |-> TimesOf(LastLaps(all[n]))]]

NoWin == [status |-> "none", name |-> None]

HasCondition == format.mode = "coop" \/ format.win # "none"

\* The new state of a verdict v, and how long the check sleeps before it forces one.
Outcome(v, deleted) ==
  IF deleted /\ v.status = "none" /\ win.status # "none"
  THEN [win |-> NoWin, wait |-> None]
  ELSE [win |-> [status |-> v.status,
                 name |-> IF v.status = "declared" /\ format.mode # "coop"
                          THEN v.winner ELSE win.name],
        wait |-> v.wait]

\* check_win_condition.
Check(r, forced, atFinish, deleted) ==
  IF HasCondition /\ (win.status \in {"none", "pending", "overtime"} \/ deleted)
  THEN Outcome(Judged(r, forced, atFinish), deleted)
  ELSE [win |-> win, wait |-> None]

\* A verdict given after the race is the last one.
Given(w) ==
  IF final = "open" /\ status = "done" /\ w.status \in {"declared", "tie"} THEN "given"
  ELSE final

-----------------------------------------------------------------------------
(* Time and crossings.                                                     *)

Idle == queue = <<>> /\ worker = None

\* waitForQueueEmpty: it also returns after three seconds.
Drained == Idle \/ worker # None

Due(at) == at # None /\ at <= now
\* Steps whose time has come are not put off, and time passes only while it matters.
Tick ==
  /\ now < MaxTime /\ (status = "racing" \/ expiry.at # None \/ worker # None)
  /\ ~Due(expiry.at) /\ ~Due(worker) /\ stopper # "asked"
  /\ Drained => expiry.place # "drain" /\ stopper # "drain" /\ ~editing
  /\ now' = now + 1
  /\ UNCHANGED <<format, race, crossing, flag, queue, worker, laps, seen, flags, win,
                 expiry, stopper, editing, edits, final>>

\* No two passes are at the same time, none is at the time of the expiry but after it, and
\* passes at or after the end do not count.
Enter(n) ==
  /\ status = "racing" /\ now > 0 /\ crossing[n] = None
  /\ Len(laps[n]) + Cardinality({i \in DOMAIN queue : queue[i].kind = "pass"
                                                      /\ queue[i].node = n}) < MaxPasses
  /\ up => now > format.time
  /\ format \in Crowded \/ \A i \in DOMAIN queue : queue[i].node # n
  /\ \A m \in Nodes : now \notin {crossing[m]} \cup {laps[m][i].at : i \in DOMAIN laps[m]}
  /\ \A i \in DOMAIN queue : queue[i].at # now
  /\ crossing' = [crossing EXCEPT ![n] = now]
  /\ flag' = [flag EXCEPT ![n] = TRUE]
  /\ final' = IF \E i \in DOMAIN queue : queue[i].kind = "pass" /\ queue[i].node = n
              THEN "overtaken" ELSE final
  /\ UNCHANGED <<format, now, race, queue, worker, laps, seen, flags, win,
                 expiry, stopper, editing, edits>>

Job(kind, n, at, done) == [kind |-> kind, node |-> n, at |-> at, done |-> done]

\* The crossing ends, by itself or forced at the stop, and the pass is reported.
Leave(n) ==
  /\ crossing[n] # None
  /\ queue' = Append(queue, Job("pass", n, crossing[n], FALSE))
  /\ crossing' = [crossing EXCEPT ![n] = None]
  /\ UNCHANGED <<format, now, race, flag, worker, laps, seen, flags, win,
                 expiry, stopper, editing, edits, final>>

-----------------------------------------------------------------------------
(* The worker of the queue.                                                *)

Counts(at) == status = "racing" \/ at < end

TooLate(at) == format.limited /\ format.grace > None /\ at > format.time + format.grace

Valid(num, at, time) ==
  \/ num = 0 /\ time >= format.minFirst
  \/ num # 0 /\ time > 0 /\ (format.behavior = 1 => time >= format.minLap) /\ ~TooLate(at)

Announced(num) == IF format.start = "first_lap" THEN num + 1 ELSE num

\* A mutated form: the lap on which the time ends is not the last.
CompletesAll(num, at) == format.win = "first_to_x" /\ Announced(num) >= format.laps
Completes(num, at) ==
  \/ format.limited /\ at > format.time
  \/ format.win = "first_to_x" /\ Announced(num) >= format.laps

DoneLap(n, num, at) == format.mode = "individual" /\ ~finished[n] /\ Completes(num, at)

LateLap(n) ==
  CASE format.mode = "individual" -> finished[n]
    [] format.mode = "team" -> /\ win.status = "declared" /\ ~format.limited
                               /\ format.win = "first_to_x"
    [] OTHER -> win.status = "declared"

\* A mutated form: the difference the wrong way round.
NewLapReversed(n, at, peak) ==
  LET s == laps[n]
      num == Cardinality(ActiveBefore(s, Len(s) + 1)) IN
  [at |-> at, time |-> IF num = 0 THEN at ELSE LastAt(s, ShownBefore(s, Len(s) + 1)) - at,
   num |-> num, peak |-> peak, invalid |-> FALSE, late |-> LateLap(n), deleted |-> LateLap(n)]
NewLap(n, at, peak) ==
  LET s == laps[n]
      num == Cardinality(ActiveBefore(s, Len(s) + 1))
      time == at - IF num = 0 THEN 0 ELSE LastAt(s, ShownBefore(s, Len(s) + 1))
      ok == Valid(num, at, time)
  IN [at |-> at, time |-> time, num |-> num, peak |-> peak, invalid |-> ~ok,
      late |-> ok /\ LateLap(n), deleted |-> ~ok \/ LateLap(n)]

WithLap(s, l) ==
  IF format.behavior = 2 /\ ~l.invalid THEN FilterByPeak(Append(s, l), format.minLap)
  ELSE Append(s, l)

ActiveLaps(ls) == [n \in Nodes |-> Active(ls[n])]

\* add_lap.  Only a lap that counts builds results and is followed by a second job.
AddLap ==
  /\ queue # <<>> /\ worker = None
  /\ LET job == Head(queue)
         n == job.node
     IN /\ job.kind = "pass"
        /\ flag' = [flag EXCEPT ![n] = FALSE]
        /\ \E peak \in IF format.behavior = 2 THEN Peaks ELSE {Max(Peaks)} :
             LET l == NewLap(n, job.at, peak)
                 all == [laps EXCEPT ![n] = WithLap(@, l)]
             IN IF ~Counts(job.at)
                THEN queue' = Tail(queue) /\ UNCHANGED <<laps, seen, final>>
                ELSE /\ laps' = all
                     /\ seen' = IF l.invalid THEN seen ELSE ActiveLaps(all)
                     /\ queue' = IF l.invalid \/ Announced(l.num) = 0 THEN Tail(queue)
                                 ELSE Append(Tail(queue),
                                             Job("finish", n, job.at,
                                                 DoneLap(n, l.num, job.at)))
                     /\ final' = IF final = "open" THEN "open" ELSE "overtaken"
  /\ UNCHANGED <<format, now, race, crossing, worker, flags, win,
                 expiry, stopper, editing, edits>>

JustDone(job) == job.done /\ ~finished[job.node]

\* A mutated form: those who waited are forgotten.
ToTellOne(job, fin, verdict) ==
  IF verdict # "pending" /\ JustDone(job) THEN {job.node} ELSE {}

\* The pilots whose RACE_PILOT_DONE is triggered by a second job, given the verdict.
ToTell(job, fin, verdict) ==
  LET now1 == IF JustDone(job) THEN {job.node} ELSE {} IN
  IF verdict = "pending" THEN {}
  ELSE IF verdict = "declared" /\ waiting > 0
  THEN now1 \cup {n \in Nodes : fin[n] /\ ~effect[n]}
  ELSE now1

\* finish_add_lap_processing.
Finish ==
  /\ queue # <<>> /\ worker = None
  /\ LET job == Head(queue)
         fin == [finished EXCEPT ![job.node] = @ \/ JustDone(job)]
     IN /\ job.kind = "finish"
        /\ finished' = fin
        /\ \E c \in {Check(Seen(seen, status = "done", up, fin, flag, laps), FALSE, FALSE, FALSE)} :
             LET tell == ToTell(job, fin, c.win.status)
                 waited == tell \ (IF JustDone(job) THEN {job.node} ELSE {})
             IN /\ win' = c.win /\ final' = Given(c.win)
                /\ worker' = IF c.wait = None THEN None ELSE now + c.wait
                /\ told' = [n \in Nodes |-> told[n] + IF n \in tell THEN 1 ELSE 0]
                /\ effect' = [n \in Nodes |-> effect[n] \/ n \in tell]
                /\ waiting' = IF c.win.status = "pending"
                              THEN waiting + IF JustDone(job) THEN 1 ELSE 0
                              ELSE waiting - Cardinality(waited)
        /\ queue' = Tail(queue)
  /\ UNCHANGED <<format, now, race, crossing, flag, laps, seen,
                 expiry, stopper, editing, edits>>

\* Without a start token nothing follows the sleep.
Awake ==
  /\ Due(worker) /\ worker' = None
  /\ UNCHANGED <<format, now, race, crossing, flag, queue, laps, seen, flags, win,
                 expiry, stopper, editing, edits, final>>

-----------------------------------------------------------------------------
(* race_expire_thread.                                                     *)

Expiry(place, at) == [place |-> place, at |-> at]

Expire ==
  /\ expiry.place = "time" /\ Due(expiry.at)
  /\ IF status = "racing" THEN up' = TRUE /\ expiry' = Expiry("drain", None)
     ELSE up' = up /\ expiry' = Expiry("over", None)
  /\ UNCHANGED <<format, now, status, end, crossing, flag, queue, worker, laps, seen, flags,
                 win, stopper, editing, edits, final>>

ToGrace == IF format.grace > None THEN Expiry("grace", format.time + format.grace)
           ELSE Expiry("over", None)

\* The check at the finish; after its sleep it forces one.
FinishCheck ==
  /\ expiry.place = "drain" /\ Drained
  /\ \E c \in {Check(Seen(seen, status = "done", up, finished, flag, laps), FALSE, TRUE, FALSE)} :
       /\ win' = c.win
       /\ expiry' = IF c.wait = None THEN ToGrace ELSE Expiry("considering", now + c.wait)
  /\ final' = Given(win')
  /\ UNCHANGED <<format, now, race, crossing, flag, queue, worker, laps, seen, flags,
                 stopper, editing, edits>>

ForcedCheck ==
  /\ expiry.place = "considering" /\ Due(expiry.at)
  /\ win' = Check(Seen(seen, status = "done", up, finished, flag, laps),
                  TRUE, FALSE, FALSE).win
  /\ expiry' = ToGrace
  /\ final' = Given(win')
  /\ UNCHANGED <<format, now, race, crossing, flag, queue, worker, laps, seen, flags,
                 stopper, editing, edits>>

\* stop: with crossings to be ended, the rest of it comes half a second later.
Stopping ==
  IF status = "racing" /\ stopper = "no"
  THEN IF \E n \in Nodes : crossing[n] # None
       THEN stopper' = "asked" /\ UNCHANGED <<status, end>>
       ELSE stopper' = "drain" /\ status' = "done" /\ end' = now
  ELSE UNCHANGED <<stopper, status, end>>

Grace ==
  /\ expiry.place = "grace" /\ Due(expiry.at)
  /\ Stopping
  /\ expiry' = Expiry("over", None)
  /\ UNCHANGED <<format, now, up, crossing, flag, queue, worker, laps, seen, flags, win,
                 editing, edits, final>>

Stop ==
  /\ stopper = "no" /\ Stopping
  /\ UNCHANGED <<format, now, up, crossing, flag, queue, worker, laps, seen, flags, win,
                 expiry, editing, edits, final>>

\* do_stop_race_actions.
DoStop ==
  /\ stopper = "asked"
  /\ stopper' = "drain" /\ status' = "done" /\ end' = now
  /\ UNCHANGED <<format, now, up, crossing, flag, queue, worker, laps, seen, flags, win,
                 expiry, editing, edits, final>>

FinalCheck ==
  /\ stopper = "drain" /\ Drained
  /\ win' = Check(Seen(seen, TRUE, up, finished, flag, laps), FALSE, FALSE, FALSE).win
  /\ stopper' = "over"
  /\ final' = IF final = "open" THEN "given" ELSE final
  /\ UNCHANGED <<format, now, race, crossing, flag, queue, worker, laps, seen, flags,
                 expiry, editing, edits>>

-----------------------------------------------------------------------------
(* The race director.                                                      *)

MayEdit ==
  ~editing /\ edits < MaxEdits /\ (Editable = "always" \/ (Editable = "done" /\ status = "done"))

\* Whether the pilot is done, as delete_lap decides it for the lap with that number.
RecheckDone(num, at) ==
  \/ format.limited /\ at > format.time
  \/ format.win = "first_to_x" /\ num >= format.laps

\* The laps without that one, numbered anew; those after the one with which the pilot is done
\* are late.  (Deleted mutated into this: the next lap keeps its time.)
Renumbered(s, i) ==
  LET gone == [s EXCEPT ![i].deleted = TRUE]
      num(j) == Cardinality(ActiveBefore(gone, j))
      done(j) == ~gone[j].deleted /\ RecheckDone(num(j), gone[j].at)
  IN [j \in DOMAIN s |->
        IF gone[j].deleted THEN [gone[j] EXCEPT !.num = None]
        ELSE [gone[j] EXCEPT !.num = num(j), !.late = \E k \in 1..j-1 : done(k)]]

\* delete_lap up to the wait: the next lap shown takes over the time.
Deleted(s, i) ==
  LET rest == Renumbered(s, i)
      shown == {j \in DOMAIN s : ~rest[j].deleted \/ rest[j].late}
      next == {j \in shown : s[j].at > s[i].at}
      prev == {j \in shown : s[j].at < s[i].at}
  IN IF next = {} THEN rest
     ELSE [rest EXCEPT ![Min(next)].time = s[Min(next)].at - LastAt(s, prev)]

IsDone(s) == \E i \in DOMAIN s : ~s[i].deleted /\ RecheckDone(s[i].num, s[i].at)

DeleteLap(n, i) ==
  /\ MayEdit /\ ~laps[n][i].deleted
  /\ laps' = [laps EXCEPT ![n] = Deleted(@, i)]
  /\ finished' = [finished EXCEPT ![n] = IsDone(laps'[n])]
  /\ editing' = TRUE /\ edits' = edits + 1
  /\ UNCHANGED <<format, now, race, crossing, flag, queue, worker, seen, effect, waiting,
                 told, win, expiry, stopper, final>>

\* restore_deleted_lap; invalid laps are not shown, so they cannot be restored.
RestoreLap(n, i) ==
  /\ MayEdit /\ laps[n][i].deleted /\ ~laps[n][i].invalid
  /\ laps' = [laps EXCEPT ![n] =
                CalcTimes([@ EXCEPT ![i].deleted = FALSE, ![i].late = FALSE], i)]
  /\ editing' = TRUE /\ edits' = edits + 1
  /\ UNCHANGED <<format, now, race, crossing, flag, queue, worker, seen, flags,
                 win, expiry, stopper, final>>

\* Both, after the wait: results are built and the winner is checked anew.
EditCheck ==
  /\ editing /\ Drained
  /\ seen' = ActiveLaps(laps)
  /\ win' = Check(Seen(seen', status = "done", up, finished, flag, laps),
                  FALSE, FALSE, TRUE).win
  /\ editing' = FALSE
  /\ final' = Given(win')
  /\ UNCHANGED <<format, now, race, crossing, flag, queue, worker, laps, flags,
                 expiry, stopper, edits>>

-----------------------------------------------------------------------------

Init ==
  /\ format \in Formats /\ now = 0 /\ status = "racing" /\ up = FALSE /\ end = 0
  /\ crossing = [n \in Nodes |-> None] /\ flag = [n \in Nodes |-> FALSE]
  /\ queue = <<>> /\ worker = None
  /\ laps = [n \in Nodes |-> <<>>] /\ seen = [n \in Nodes |-> <<>>]
  /\ finished = [n \in Nodes |-> FALSE] /\ effect = [n \in Nodes |-> FALSE] /\ waiting = 0
  /\ win = NoWin
  /\ expiry = IF format.limited THEN Expiry("time", format.time) ELSE Expiry("over", None)
  /\ stopper = "no" /\ editing = FALSE
  /\ edits = 0 /\ told = [n \in Nodes |-> 0] /\ final = "open"

Edit == \E n \in Nodes : \E i \in DOMAIN laps[n] : DeleteLap(n, i) \/ RestoreLap(n, i)

Next ==
  \/ Tick \/ AddLap \/ Finish \/ Awake
  \/ \E n \in Nodes : Enter(n) \/ Leave(n)
  \/ Expire \/ FinishCheck \/ ForcedCheck \/ Grace \/ Stop \/ DoStop \/ FinalCheck
  \/ Edit \/ EditCheck

Spec == Init /\ [][Next]_vars

-----------------------------------------------------------------------------
(* Properties.                                                             *)

WinStatus == {"none", "pending", "tie", "overtime", "declared"}

\* Types; no lap has a time below zero, whatever was deleted and restored.
Typed ==
  /\ format \in Formats /\ now \in 0..MaxTime /\ status \in {"racing", "done"}
  /\ up \in BOOLEAN /\ end \in 0..MaxTime
  /\ crossing \in [Nodes -> 0..MaxTime \cup {None}] /\ flag \in [Nodes -> BOOLEAN]
  /\ \A i \in DOMAIN queue : queue[i].kind \in {"pass", "finish"} /\ queue[i].node \in Nodes
  /\ \A n \in Nodes : \A i \in DOMAIN laps[n] :
       LET l == laps[n][i] IN
       /\ l.at \in 0..MaxTime /\ l.time \in 0..l.at /\ l.num \in {None} \cup 0..i-1
       /\ l.deleted \in BOOLEAN /\ l.late \in BOOLEAN /\ l.invalid \in BOOLEAN
  /\ finished \in [Nodes -> BOOLEAN] /\ effect \in [Nodes -> BOOLEAN]
  /\ waiting \in Int /\ win.status \in WinStatus
  /\ stopper \in {"no", "asked", "drain", "over"} /\ editing \in BOOLEAN

TypeOK ==
  /\ Typed
  /\ worker \in Nat \cup {None}
  /\ waiting \in -Cardinality(Nodes)..Cardinality(Nodes)

Settled ==
  /\ stopper = "over" /\ expiry.place = "over" /\ Idle /\ ~editing
  /\ \A n \in Nodes : crossing[n] = None

\* The winner is the one that the final laps have.
VerdictFinal ==
  HasCondition =>
    \E v \in {Judged(Seen(ActiveLaps(laps), TRUE, up, finished, flag, laps), FALSE, FALSE)} :
      /\ win.status = v.status
      /\ win.status = "declared" /\ format.mode # "coop" => win.name = v.winner

\* Whenever the winner was called, early, at the stop or after an edit, once all is settled
\* it is the one that the final laps have: what is called while racing cannot be overtaken by
\* the passes still in a crossing or in the queue, if no pilot ever has two of them there
\* (the first takes back the flag that a check waits for, pass_crossing_flag).  (A verdict given
\* after the race can: the second job of one pass does not wait for other passes, and what it
\* declares stands.  Neither does the verdict on the fastest lap wait for crossings, and that
\* on teams counts on one more lap of each pilot, who may fly more.)
VerdictKept ==
  Settled /\ final # "overtaken" /\ format.mode # "team" /\ format.win # "fastest"
    => VerdictFinal

\* A pilot may finish the lap during which the time ends, but no more: unless laps are edited,
\* a lap after the time counts only if it is the pilot's first, or if the second job of each
\* earlier one, which will note that the pilot is done, still waits in the queue (add_lap,
\* finish_add_lap_processing).  A hole shot that is no lap of its format does not count.
Overtime(n) ==
  {i \in DOMAIN laps[n] :
     LET l == laps[n][i] IN ~l.deleted /\ l.at > format.time /\ Announced(l.num) > 0}
DoneWaits(n, at) ==
  \E i \in DOMAIN queue :
    LET job == queue[i] IN job.kind = "finish" /\ job.node = n /\ job.at = at /\ job.done
LapEndsRace ==
  edits' = 0 /\ format.mode = "individual" /\ format.limited =>
    \A n \in Nodes : \/ Overtime(n)' \subseteq Overtime(n)
                    \/ \A i \in Overtime(n) : DoneWaits(n, laps[n][i].at)
OneLapAfterTime == [][LapEndsRace]_vars

\* The active laps of a pilot are numbered without a gap, whatever is edited, and each one's
\* time is that since the last active lap, or the last late one, unless laps are edited more
\* than once (a deletion moves its lap's time to the next lap shown, which may be a late one,
\* though a lap after that has been restored).
LapsTrue ==
  \A n \in Nodes : \A i \in DOMAIN laps[n] : ~laps[n][i].deleted =>
    LET s == laps[n]
        since(places) == s[i].at - LastAt(s, places)
    IN /\ s[i].num = Cardinality(ActiveBefore(s, i))
       /\ edits <= 1 => s[i].time \in {since(ActiveBefore(s, i)), since(ShownBefore(s, i))}

\* Until laps are edited, a pilot has had RACE_PILOT_DONE once if its effect is noted and never
\* otherwise, and node_fin_effect_wait_count counts those who are done and have not had it.
WaitCounted ==
  edits = 0 =>
    /\ \A n \in Nodes : told[n] = (IF effect[n] THEN 1 ELSE 0) /\ (effect[n] => finished[n])
    /\ waiting = Cardinality({n \in Nodes : finished[n] /\ ~effect[n]})

\* The events are counted as WaitCounted says, and while the race runs, once a winner is declared
\* and the queue is done, every pilot who is done has had the RACE_PILOT_DONE that waited for
\* crossings; unless laps were edited or rejected: a check waits for a crossing whose pass may
\* be rejected, and then no second job resumes it.  (The check at the stop triggers no event
\* either: who waits then is not told.)
Rejected == \E n \in Nodes : \E i \in DOMAIN laps[n] : laps[n][i].invalid
DoneTold ==
  /\ WaitCounted
  /\ edits = 0 /\ ~Rejected /\ status = "racing" /\ win.status = "declared" /\ Idle =>
       \A n \in Nodes : finished[n] => told[n] = 1

\* The time of a deleted lap is moved to the next lap: a pilot's laps add up to the time of
\* the last one.
TimesAddUp ==
  \A n \in Nodes :
    LET s == Active(laps[n]) IN s # <<>> => TimesOf(s) = Last(s).at
=============================================================================
