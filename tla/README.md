# RotorHazard race server: TLA+ models, checks and proofs

RotorHazard times drone races. Receiver nodes measure signal strength at the
gate, a Python server turns passes into laps, keeps the race sequence, builds
results, plans heats and talks to browsers, plugins, video receivers and further
timers. This directory models the server's own logic and the firmware it polls in
TLA+, checks it with TLC on small instances and proves the main facts with TLAPS
for every instance. Paths below are relative to the repository's `src/src`.

## 1. Inventory

The server is one OS thread of gevent greenlets (`server/server.py:53-54`): a
greenlet runs until it sleeps, waits or does I/O. So most hard behaviours of
the system are questions of where a greenlet yields and what others do before
it goes on; the rest are questions of what gets lost between machines, and of
long sequences of edits.

| Component | State | Operations | Hard behaviour | Correct when | Modules |
|---|---|---|---|---|---|
| Race control (`server/RHRace.py`) | status, start token, start and end time, laps, saved id, heat | stage, start thread, expire thread, stop, save, discard, set heat | checks followed by yields, put-off calls, stale threads | laps belong to their race, a race is saved once, a race that is staged starts or goes back to READY, and ends | `RaceSequence`, `RaceLifecycle` |
| Scheduler (`RHRace.schedule`, heartbeat in `server.py`) | scheduled, force-save flag | schedule, cancel, fire | fires in any race status | saves or gives up, then stages | `RaceSequence` |
| Pass queue (`server/util/InvokeFuncQueue.py`) | queue, in-progress flag | put, worker, wait for empty | the wait gives up after 3 s; put blocks when full | passes are handled in order, none for the wrong race | `RaceSequence` |
| Pass processing (`RHRace.add_lap`, `finish_add_lap_processing`, `check_win_condition`) | laps per node, finished flags, verdict | pass, second job, stop, deletion and restoration of laps | late laps, crossings that are waited for, verdicts from three greenlets | laps are numbered and timed from the passes, the winner is the one of the final laps | `RaceLaps` |
| Leaderboards and win conditions (`server/Results.py`) | none | lines, sort, places, judge | ties, overtime, grace | the winner is first of the board | `RaceResults` |
| Results caches (`RHRace.get_results`, `RHData.*_results_*`) | results, data and build version | get, set, clear | data change during a build that yields, sessions that hold old rows | a valid result is that of the current data | `ResultsCaches` |
| Page cache (`server/PageCache.py`) | page, valid flag, build flag | get, update, invalidate | data change during a build | a valid page shows the current data | `ResultsCaches` |
| Cluster (`server/ClusterNodeSet.py`, `util/SendAckQueue.py`) | queues, connection state, splits | put, emit, acknowledge, resend, reconnect, join, race requests | lost and doubled messages, restarts | passes arrive in order, none is acknowledged and lost, connected secondaries take part | `Cluster`, `PassChannel` |
| Node interface (`interface/*.py`) | node records, index of the current node, lowered levels | poll, retry, write, restore | lost requests and replies, writes between two reads | each pass is reported once with its time, the history was measured | `NodeInterface` |
| Node firmware (`node/*.cpp`) | RSSI, crossing, peaks and nadirs, pass record | sample, crossing begin and end, commands | extremums merged, kept and taken | what is sent was measured | `RssiNode` |
| Heat automation (`server/heat_automation.py`, `server/HeatGenerator.py`, bundled generators) | heats, slots, seats | seed, assign seats, generate | unfinished sources, unknown frequencies, tables of brackets | no pilot or seat twice, pilots keep their frequency, the brackets eliminate as they should | `HeatSeeding`, `HeatPlans`, `EventData` |
| Class ranking (`bundled_plugins/rh_class_rank_*`) | none | rank a class | missing races, ties | the order that heats are seeded from | `ClassRanking` |
| Event data (`server/RHData.py`) | pilots, formats, classes, heats, slots, saved races, current heat | add, alter, delete, duplicate, reassign, next heat | edits of what other rows refer to | saved races follow their heats, rounds are dense, seats credit their pilots | `EventTables`, `EventData` |
| Calibration and profiles (`server/calibration.py`, `server.py`) | profiles, levels, frequencies of the nodes | change, marshal, calibrate | three copies of the same settings | nodes have what the profile says, levels come from the pilot's own races | `SeatTuning`, `EventData` |
| User interface and remote API (`server/RHUI.py`, `server/RHAPI.py`) | none | requests, messages | - | - | its race requests in `RaceSequence` |
| Events and filters, configuration, languages, import and export, LEDs, video receivers, sensors | handlers, files, devices | input and output | handler threads that replace one another | - | none |

How the parts interact: the firmware measures and ends passes; the node interface
polls it, stamps the passes and puts them in the pass queue; its worker calls
`add_lap`, which looks at the race's status and times and leaves the question for a
winner to a second job. A secondary timer sends its passes to the primary's
`SecondaryNode` objects, which store them as splits. Clients, plugins and the heartbeat
thread call the race control directly, each in a greenlet of its own. A saved race
writes rows, clears the results that depend on them and leaves the rebuilding of
the page to a spawned thread; marshaling does the same from another socket handler.
The event data tell which heat is next, seed it from stored results and calibrate
the nodes for it. Everything is announced through events, whose handlers may run in
greenlets again. `PROJECT.json` lists all parts with what is left out of each
(`components`) and every hazard at its line (`hazards`).

## 2. Modules and plan

| Module | About | Uses | State |
|---|---|---|---|
| `RaceSequence` | race control, scheduler, pass queue and their greenlets | - | checked, safety proved |
| `RaceLifecycle` | what the race control promises, without greenlets | refined by `RaceSequence` | refinement proved |
| `RaceResults` | leaderboards and win conditions as operators | - | used |
| `RaceLaps` | laps from the pass to the winner | `RaceResults` | checked, safety partly proved |
| `ResultsCaches` | stored results, their builds and the results page | - | checked, safety proved |
| `Cluster` | secondaries, their queues and connections | - | checked, safety proved |
| `PassChannel` | what pass records can rely on | refined by `Cluster` | refinement proved |
| `RssiNode` | the firmware of a node as operators | - | proved |
| `NodeInterface` | polling, link, writes | `RssiNode` | checked, safety proved |
| `HeatPlans`, `ClassRanking`, `HeatSeeding`, `EventTables`, `SeatTuning` | generators, rankings, seeding, tables and profiles as operators | one another | used |
| `EventData` | an event as its director runs it | the five above | checked, safety partly proved |
| `SequenceFacts` | lemmas about sequences, their elements, and numbers in finite sets | - | proved |
| `MC*` | instances for TLC | | |

The operators of `RaceResults`, `HeatPlans` and their like are not checked for
themselves but where they decide: the verdicts of `RaceLaps` against those of the
final laps, and brackets, rankings and seeding in the events of `EventData`.

Left for later, in this order: the reassignment of a race in `ResultsCaches`; the handler threads of `eventmanager.py`; an abstract cache that is
either empty or current; action-mode secondaries.

## 3. The models

### `RaceSequence`: the race control

**Greenlets.** `cpu` is the greenlet that runs, or `Free`; an action of greenlet
`x` is enabled when `x` has the processor or nobody has it. A step that yields sets
`cpu` to `Free`; only then can requests arrive, put-off calls begin, nodes report
and others go on. So a sequence of steps without a yield is atomic, as in gevent.
`frame[x]` holds where `x` goes on (`pc`), where calls return to (`ret`), and two
arguments. Each staging has a start thread and an expire thread, indexed by the
token it drew; socket handlers, the greenlets of `spawn_later` and the heartbeat
are slots.

**Where the code yields.** Sleeps and waits always yield. `emit_current_leaderboard`
yields if the results have to be built (`Results.calc_leaderboard` sleeps): always
after the laps were cleared, possibly otherwise. Node I/O yields on hardware but
not on mock nodes (`NodeIOYields`). Fetching stored results yields if they are
stale (`StoredResultsValid`). Waiting for the pass queue yields if it is not empty.

| State | Code |
|---|---|
| `status`, `token`, `timerRunning`, `startTime`, `startMono`, `endTime`, `dbId`, `laps` | fields of `RHRace`; `laps` are the time stamps in `node_laps` |
| `heat`, `scheduled`, `forceSave` | `current_heat`, `scheduled`, `scheduler_forcing_save` |
| `crossing`, `passQ`, `adding` | a node's crossing, `pass_invoke_func_queue_obj` and its in-progress flag |
| `saved` | the `SavedRaceMeta` rows |
| `later` | calls waiting in `gevent.spawn_later`; the token in them is only for `PutOffStopHitsItsRace`, the code has none |
| `clk` | `monotonic()`, moved where a race starts or ends |

| Actions | Code |
|---|---|
| `StageEntry`, `StagePrep`, `StageCheck`, `StageClear`, `StageLaunch` | `stage()`, cut where it yields or calls |
| `StartWait`, `StartRace` | `race_start_thread()` |
| `ExpireTimer`, `ExpireDrain`, `ExpireGrace` | `race_expire_thread()` |
| `Stop`, `DoStop`, `Drain`, `StopEnd`, `StopSave` | `stop()`, `do_stop_race_actions()` |
| `Save`, `SaveWrite`, `SaveClear`, `Advance` | `do_save_actions()` |
| `Discard`, `Clear` | `discard_laps()`, `clear_laps()` |
| `SetHeat`, `Schedule`, `CancelSchedule`, `FireSchedule` | `set_heat()`, `schedule()`, the heartbeat |
| `BeginCrossing`, `EndCrossing`, `TakePass`, `EndPass` | interface, queue worker, the first part of `add_lap()` |

**Time** is logical: what matters to the code is on which side of the start and of
the end a time stamp lies. A sleep may last any time, so every order in which
threads wake up is explored, more than the delays of a real race allow.

`RaceLifecycle` is the abstract race: READY, STAGING, RACING, DONE, laps recorded
only while a race runs or after it, a race archived with the laps it has at that
moment, and no staging while there are laps to lose. Where the code lets others in
between a check and what it allows, a step may come late: `LateStage` clears a race
that goes on, `LateStart` starts one that was stopped, `LateArchive` saves one that was
cleared. Two constants switch these on. `ImplementsLifecycle` maps the variables to
`status`, `laps` and `saved`, and the constants to the waits that cause them: staging and
starting are late only if node I/O yields, saving only if that or a results build does.

One yield is left out: on a secondary that has joined a primary, `emit_pass_record` waits up
to a second while its message queue is full, before the lap is appended (`TakePass`).

### `RaceLaps` and `RaceResults`: laps and winners

`RaceResults` has the leaderboard of `Results.py` as operators on the crossings of each
seat: the lines, the orders of all win conditions, places, the boards of teams and
of co-op races, and the verdicts, one operator per win condition (`ProgressVerdict`,
`LapsVerdict`, `FirstToXVerdict`, those of teams). Averages are integers scaled by `Scale`.

`RaceLaps` is a race from the start on. `Enter` and `Leave` are crossings; passes wait
in `queue`; the worker adds a lap (`AddLap`) and puts the second job (`Finish`) at the
end of the same queue, as `RHRace.py:1100-1140` does. The greenlet of the race time
(`Expire`, its grace period), the one that stops the race (drain, then a last check)
and the race director, who deletes and restores laps, judge as well. `flag[n]` is
`pass_crossing_flag`, `waiting` the count of pilots whose RACE_PILOT_DONE waits for a
crossing, `win` the verdict. Time is discrete, and all actors of one instant may come in any order:
in the formats of `Crowded`, a bound of the instance, a pilot may cross again while his pass or its
second job is still in the queue. `final` is a ghost that remembers when a verdict cannot be held to
the final laps.

### `ResultsCaches`: results, builds and the page

A stored result has the token of its data (`ver`) and of the data it was built from
(`built`); it is valid when they are equal. Its content is abstracted to the set
of pairs of a race and the version of that race's laps it was computed from, which
is what "current" means.

**Requests are programs.** `prog[w]` is the list of instructions greenlet `w` has
still to run: the calls that `do_save_actions`, `on_resave_laps`,
`build_atomic_results` and the page make, in their order, with the sleeps between
them. Threads spawned at the end of a request go on in the same slot. `calls[w]` is
the stack of `get_results_*` calls in progress, because the build of the event
builds heats, and that of a heat builds races. `Hit`, `Miss`, `StartCalc`,
`WaitForCalc`, `ReadLaps`, `Rank`, `Finish` are these functions, cut at their sleeps.

**Sessions.** The database session is scoped to the greenlet and does not expire
rows on commit (`server/Database.py:474-475`), so a row that a greenlet has loaded
and still refers to is not read again: `copies[w]` are those rows. The event's
result is in the options cache all greenlets share. Rows are loaded when a
function queries them and dropped when its references end (`held`, `Keep`, `Drop`).

`calc` is the global flag of `calc_leaderboard`, `updating` that of the page cache.
`clean` is a history variable: it stays TRUE as long as laps are only written while
no other greenlet is in the middle of reading (no build in progress, no rows held,
no results kept for later).

### `Cluster` and `PassChannel`: secondary timers

Each secondary has a `SendAckQueue` (`queue`, `waiting`, `retries`, `expects`, `notify`),
a race status and a connection (`link`: up, dead but not noticed, closing, down) with
the messages under way in both directions; the primary has a `SecondaryNode` for it
(`contact`, `known`, `running`) and the race with its splits. `Pass` is a pass at the
gate; `Send`, `Notified` and `Timeout` are the queue's worker (send, wait for an ack, send
again, give up after `MaxRetries`); `SecondaryReceives`, `ReceiveAck` and `PrimaryReceives`
are the handlers of both sides; `Break`, `Closed`, `QueryTimeout`, `Restart`, `Connect` and
`GiveUp` make and notice the faults. Messages of one connection keep their
order, as socket.io promises, and are lost together when it breaks. `seen`, `last` and
`dropped` are history: passes that arrived, the latest of them, and those given up.

`PassChannel` is what a pass record can rely on: it may be lost and may arrive more than
once, but never before an earlier one of the same secondary.

### `RssiNode` and `NodeInterface`: nodes and polling

`RssiNode` is the firmware as operators on the record of a node: `Process` takes a
filtered value (`RssiNode::rssiProcess` and what it calls: crossing, pass peak,
peaks and nadirs of the history with their one-place send buffers), `Write` and
`PassStats`, `Extremums`, `ExtremumsRead` are the commands. Durations and ages have the
width of the code, two bytes (`MaxDuration`, `TwoBytes`); lap ids wrap (`LapIds`).

`NodeInterface` composes `Count` such nodes of one processor with the server: `cur` is the
firmware's current node, `holder` the index the server believes it to be; `poll` is the
update loop at its first or second block, `todo[g]` what a greenlet has yet to write.
`Sample` is a round of the firmware's loop, which may come between any two steps;
`ReadFails`, `WriteFails` and `...GivenUp` lose a request or a reply at any point, the retry
comes later. `stray`, `late` and `missed` record the events after which nothing is
claimed: a change of the node index that was given up half done, an extremum
read so late that two bytes do not hold its age, and (only for levels) a write of the update
loop given up for good, after which the code clears the flag of a node that is still lowered.

### The event: `EventData` and its operators

`EventTables` has what `RHData` does to pilots, formats, classes, heats, slots and saved
races as operators from tables to tables; `SeatTuning` profiles, the nodes they are
sent to and the calibration; `HeatPlans` the plans of the bundled generators, all
seven brackets, ladders, fills and balanced heats; `ClassRanking` the bundled
ranking methods; `HeatSeeding` the pilots of a heat from results and both rules of
automatic frequencies.

`EventData` is an event: `Stage`, `Save`, `Discard`, the director's requests (one action
per kind of request) and a restart. A request is one step, because its handler does
not yield; the race itself and the building of stored results are in the modules
above. Where the code shuffles, the operators return the set of outcomes. A reset of the formats
leaves one stock format (`StockFormats`; the code adds its list of them). Used frequencies are numbers: their
bands and channels, which the code compares too, are names of them and left out. Loops over rows of
a table whose body alters the tables (the slots of a copied heat, the heats of a class) are
folds over the ids in their order (`InTurn`).

## 4. Runs

| Run | Instance | Shows |
|---|---|---|
| *control* | two clients, all nine requests and the scheduler, real nodes, valid stored results, secondary format without time limit, 2 stagings, 1 pass, 3 requests | types; a race that did not start has no laps; a race is saved once; its laps lie between start and end; checks are stale only where node I/O waits; `RaceLifecycle` is implemented |
| *progress* | fair, 3 stagings, 3 requests, 1 pass | a race with a live expire thread ends; no race stays in STAGING |
| *caches_shared* | two greenlets, two races of one heat (one saved at the start), 3 requests, 2 versions | types; with no overlapping write valid results are current, and so is the page; each flag has exactly one holder |
| *cluster* | two gates, one unreliable with two passes and the other joined, 1 request, 1 fault, queue of 2, 1 retry; fair | types; records are handled, queued or given up, and arrive in order; splits are consecutive; connected secondaries take part; queues drain |
| *nodes* | two nodes of a processor, two courses of the RSSI, 4 ms, 1 request (off, an enter level, lowering both levels, ending a crossing), 1 fault; fair | types; the server knows the current node; passes are reported once, in order, with their times; the history was measured; the last pass is noticed; lowered levels come back, both of them |
| *laps* | two pilots, seven formats, two peaks, 4 instants, 2 passes each (in one format both may wait in the queue together), 1 edit | types; laps are numbered and timed; a further lap after the time counts only while the second job of the one before it waits; a verdict is the one of the final laps; pilots who are done are told |
| *event* | nine events on two seats, 2 or 3 requests each between races | types; races follow their heats, rounds are dense; seats credit their pilots; nodes have the profile; confirmed heats stay; levels come from the pilot's own races |
| *rounds* | four seats: seven brackets of 16 to 64 pilots in several orders of strength, small classes under each setting, ladders, fills and rankings in all orders of finish; fair | heats are seated; sources are flown before; brackets eliminate as they should; pilots keep their frequency; the event ends |
| *raceEnds*, *stale*, *lowered*, *deleted* | a small instance that shows each | the findings below |

**Why the bounds are enough.** `StageLaunch` cannot be taken once `MaxStages` tokens
are drawn, so a run in which that bound is reached shows less; in *progress*, the
run of the liveness properties, there is no scheduler, each staging needs a request,
and `MaxStages` is as large as `MaxRequests`, so the bound stops nothing there. Two
stagings are enough to confuse a thread with the race after its own; a pass can
begin before, during or after each race and wait in the queue over all of them; one
greenlet for put-off calls suffices because such a call waits in `later` for as long
as one likes. *control* has node I/O that yields and stored results that are valid: where results have to be
built two saves may write one race (see below).
In `ResultsCaches` three requests are two readers and a writer, or two
writers and a reader; each race is marshaled at most once. In *cluster* two passes make
a record that overtakes or follows another; one fault is a break, a restart or an
unanswered query at any point, and each is followed by its reconnection. In *nodes* the course
of one node passes the gate twice, so that one pass can hide another, and the lap id
wraps; the other node is there for the index to be wrong. The request that lowers levels in *nodes* is followed by the two writes that restore them, of which the
fault may take one; in *lowered* a second request lowers them between these writes. In *laps* two
passes of each of two pilots are a win by one lap, a tie, a crossing during a verdict, and two laps
after the time that wait together. *event* bounds the
requests, not what is in the event: each of its nine events has another set of them.

Deadlock is not checked except in *rounds*: at the end of its requests an instance
stops, as does a server nobody talks to.

**Fairness.** *progress* and *raceEnds*: strong fairness for every thread and slot, for
put-off calls and for the scheduler. gevent's loop runs every greenlet that is
ready and every timer that is due, in turn; strong, because a ready greenlet is
disabled for as long as another has the processor. Nothing is assumed of clients or
nodes: requests and passes may never come. *cluster*: weak fairness of each queue's worker,
an endless loop with bounded waits (`SendAckQueue.py:59-110`); nothing is assumed of
connections. *nodes* and *lowered*: weak fairness of the update loop, which is entered again whatever
an update raises, of the restoring of lowered levels, and of each greenlet that has a
write to finish; faults are bounded. *rounds*: a race that was staged is saved in the end
and a plan that is shown is confirmed, and the director stages again: that is what a
director does who goes through an event, not a promise of the code.

**Findings.** Four runs end in a violation, each of a claim of a document or a comment:
- *raceEnds* (`doc/User Guide.md:143`): stage, stop, stage: the first start thread may start
  the race before the second staging draws its token. The expire thread then finds
  another token and gives up: the race has no end. *progress* shows the complement: a race
  whose expire thread has the current token always ends.
- *stale* (`RHRace.py:255`, 462): two clients find READY and wait for their nodes; when the race of
  the first runs, the second clears it and sets STAGING. The same property, that races are staged from
  READY and start from STAGING, fails in `race_start_thread`, which looks at status and token and then
  waits for nodes to end a crossing: a race that is stopped or discarded meanwhile is started all the
  same. *control* and the theorems show the complement: where node I/O does not wait this cannot be.
- *lowered* (`doc/Tuning Parameters.md:60`): between the writes that restore the levels of a node and
  the clearing of its flag the next race may lower them again: the flag is cleared, the levels stay
  low. `LevelsRestored` is the complement: unless levels are lowered in that window they come back.
- *deleted* (`server.py:1278`): when the last heat but one is deleted the remaining one is to be renumbered
  to 1, against its foreign keys; the current heat then does not exist.

Further claims of comments and documents are stated in the modules and refuted by TLC,
but are in no run: `HeatResultsCurrent` (`doc/RHAPI.md:517`: a build of a heat's results that overlaps a
write stores an outdated result as valid, because its session compares its token with its own old copy of
the row), `PassesEndCrossings` (`RssiNode.cpp:517`: a node ends its crossing after the server has read it;
the server's FORCE_END_CROSSING then counts a second pass at the old peak), `SavedOnce` where stored results have to be built (two saves both find `db_id`
unset, at `RHRace.py:652`, while the other one builds), `PutOffStopHitsItsRace` (a stop that waits for forced crossings has
no token and stops whatever race there is), `ForcedScheduleSavesStopped`
(`doc/RHAPI.md:1374`: `stage()` saves a race that is not stopped), `PageEventCurrent` (a page
fetched while a marshaled race is recalculated is marked valid with the old event
result), `TimesAddUp` (the time of a deleted lap goes to a late lap, which does not count), and
`VerdictKept` for a pilot with two passes in the queue (the first takes back the flag
`pass_crossing_flag` that a check waits for, so that a winner is called whom the second overtakes;
`final` excludes it).

Met while reading and modelling, in prose only:
- *Race.* The start time saved with a race is not unique: a race started in the window of
  *raceEnds* by an old thread is saved under the new token. `doc/RHAPI.md:1371` on scheduling
  while a race is not READY and 1387 on clearing a race that runs say otherwise than the code.
- *Laps.* After the stop a second job may declare a winner without regard to passes that
  are still queued, and what it declares stands. A pass that is deleted between its two
  jobs makes the count of waiting crossings -1. An awaited pass that is rejected leaves the
  verdict open. Pilots of a team never get the flag that they are done. The call of the
  fastest lap ignores crossings; the comparison of consecutive laps compares a time with a
  count. A worker that puts a second job into a full queue waits for itself.
- *Nodes.* The duration of a merged extremum and the ages sent to the server wrap after
  65.5 s. A level that cannot be written back after all retries is taken for restored.
- *Event.* A seat given late: if a heat has more pilots than seats that are on, a pilot flies without a
  seat; when it is confirmed again, or its automation switched off after a seat was switched
  on, he gets one, also if the heat has been flown. The races saved credit that seat to nobody, and
  the heat shows other seats than those it was flown with (TLC shows it on an event with
  such steps; the events of *event* do not switch seats on again in a flown heat). Regrouping after a reassignment can delete the current heat; reassigning to a
  heat without a class raises if that heat has races; the default format of a class that
  is edited does not reach the current race. Deleting a class with heats, or the format of
  a class, is refused by the database after the code said yes. Seeds are no foreign keys
  and ids are used again, so a slot may be seeded from an unrelated heat. A bracket for
  more places than there are seats loses pilots; generators fail for more than 26 ladder
  heats and for no qualifiers. A saved race is committed before its pilots. Marshaling
  during a race calibrates the nodes of the race that runs. `doc/User Guide.md:98` calls a heat
  planned where `is_dynamic` ignores automatic frequencies.

## 5. Mutants

Every property of a passing run has a mutant in `PROJECT.json`: a definition of the
model changed as a plausible bug would change the code, with which the same run finds
the property violated. The changed forms stand before their originals in the modules,
each under a comment that begins "A mutated form", "Mutant" or "Another".

## 6. Proofs

TLAPS checks the proofs for every value of the constants that satisfies the named
assumptions of the modules: bounds are natural numbers, greenlets, nodes and secondaries
are distinct, levels lie in their range. TLC evaluates these assumptions on every instance.

| Theorem | States | Assumes |
|---|---|---|
| `RaceSequence_proofs!TypeCorrect` | `[]TypeOK` | - |
| `RaceSequence_proofs!NoLapsSafe` | `[]NoLapsBeforeStart` | - |
| `RaceSequence_proofs!ChecksSafe` | `[]ChecksHold` | - |
| `RaceSequence_proofs!LifecycleImplemented` | `ImplementsLifecycle` | - |
| `RaceSequence_proofs!LapsEndWithRace` | `[]LapsBeforeEnd` | - |
| `RaceSequence_proofs!LapsWithinRaceSafe` | `[]LapsWithinRace` | `Quiet` |
| `RaceSequence_proofs!SavedOnceSafe` | `[]SavedOnce` | `Quiet` |
| `Cluster_proofs!TypeCorrect`, `AckedArrivedSafe`, `SplitsSafe`, `TakePartSafe` | `[]TypeOK`, `[]AckedArrived`, `[]SplitsConsecutive`, `[]SecondariesTakePart` | - |
| `Cluster_proofs!OrderSafe`, `ChannelImplemented` | `[]OrderHolds`, `InOrder` | - |
| `RssiNode_proofs!ProcessHolds` | a value that is processed keeps `HistoryHolds` | - |
| `NodeInterface_proofs!TypeCorrect`, `HolderSafe`, `HistorySafe`, `PassesSafe` | `[]TypeOK`, `[]HolderTrue`, `[]HistoryTrue`, `[]PassesTrue` | - |
| `RaceLaps_proofs!TypesKept` | `[]Typed`, `TypeOK` but for the names of the worker and the bounds of `waiting` | - |
| `RaceLaps_proofs!LapsTrueSafe` | `[]LapsTrue` | - |
| `RaceLaps_proofs!OneLapSafe` | `OneLapAfterTime` | - |
| `RaceLaps_proofs!WaitCountedSafe`, `AllToldSafe` | `[]WaitCounted`, the half of `DoneTold` that counts; `AllTold`, its other half for the second job | - |
| `EventData_proofs!ProfileSafe`, `RacesFollowSafe` | `[]ProfileApplied`, `[]RacesFollowHeats` | the event starts so |
| `EventData_proofs!SeatsApartSafe`, `LockedKeptSafe` | `[]SeatsApart`, the half of `SeatsCredited` about slots; `LockedKept` | the event starts so |
| `ResultsCaches_proofs!TypeCorrect`, `FlagsSafe`, `StoredSafe`, `PageSafe` | `[]TypeOK`, `[]FlagsHeld`, `[]StoredCurrent`, `[]PageCurrent` | - |

The theorems of `EventData` assume of the events it starts from (`ScenariosAssumption`) that the
profile was sent to the nodes, that saved races follow their heats and that no two slots of a heat
have the same seat: an event starts from nothing, or from a database that such a program has left.
`Quiet` is that node I/O and the building of results do not yield (`~NodeIOYields /\
StoredResultsValid`): mock nodes, and stored results that are valid. Only `LapsWithinRaceSafe` and
`SavedOnceSafe` assume it: with yields two saves can find the same race unsaved, and the start
time may belong to a staging whose thread was overtaken by a late one.

**No laps before the start** is inductive by itself. `StepCases` names the only
ways `status` and `laps` change together; each either leaves the laps empty or
leaves READY and STAGING. The argument does not use the tokens or the
processor, which is why it holds with node I/O that yields.

**Checks hold.** A greenlet that stands between a check and its use and has the processor must
have what it checked still true; one that stands there without the processor must be there for the
one wait the code has at that place (`LetsIn`). Nothing is assumed about yields: where there are none
the second case cannot occur and checks are never stale; where there are some the theorem says which
check can be. It is inductive with `TypeOK`: a step of a greenlet that has the processor, or takes it,
leaves every other one at a critical place waiting as before (`OthersHold`), and settles (`Settles`) or
has just checked (`StageCheckHolds`, `SavesHolds`, `BeginsHolds`). `StartTimeHolds`, that a
race with a start time runs, is over or is about to run, is part of it on mock nodes, for saving.

**The lifecycle.** Initial states map to initial states; with the invariants above, every
step is a step of `RaceLifecycle` or leaves its variables alone, by `StepCases`. Where node I/O does
not yield, staging is from READY with no laps, starting from STAGING, saving after the start, because
checks hold. Where it does, the same steps are among `LateStage`, `LateStart` and `LateArchive`.

**Laps and saved races.** `LapsWithinRace` needs how the clock, the start and the end of a race
and the time stamps in the queue lie to each other (`PastHolds`, `LapsHold`), and which
thread stands at a critical place with which token (`CriticalHolds`, `StartsHold`). `SavedOnce`
adds that a race with a saved id keeps it until its start time is cleared.

**The cluster.** `AckedArrived` is inductive with `AckInv`: each ack under way, and each
that was received but not yet looked at, names a pass that arrived, and the worker drops
the head of its queue only for such an ack. `SecondariesTakePart` needs `PartHolds`: of the
requests under way to a secondary the last one that counts asks for the race that the
primary has. `OrderHolds` says that what is under way and what is queued are sorted by
the number of the pass, the first before the second, between the latest that arrived
and the latest that was put, copies allowed and the answer to a join anywhere;
`PassChannel` is then implemented step by step.

**The nodes.** `HistoryHolds(n, trace, t)` is what the firmware of one node holds: its current
and buffered extremums were measured, at their first time and, if two bytes can say it, at
their last; buffered ones are not younger than current ones; and a current extremum that has
the value just measured lasts until now. Each operation of the firmware keeps it, whatever is
merged, dropped or taken (`ProcessHolds`, `WriteHolds`, `ReadHolds`). `NodeInterface` is inductive
with `IInv`, the types, `HistoryHolds` of every node, `HolderTrue` and `HistoryTrue`: what a block
adds to the history is the firmware's extremum (`SentMeasured`), for the node that was meant
unless `stray`.

**The flags of the caches.** `FlagsHeld` is inductive with `Structure`: each greenlet is in what
is left of the program of one request (`FormsHold`); the builds it is in are stacked, each a
part of the next, and only the innermost is past its parts (`CallsHold`), so at most that
one holds the flag of `calc_leaderboard`; and laps are about to be written by one greenlet only
(`DueHolds`).

**Results are current.** `StoredCurrent` and `PageCurrent` hold while `clean` does: laps are only written
while no other greenlet is in a build, holds rows or has fetched results. That is a history
variable of the model, not something the code ensures: otherwise what a greenlet has read may be
stored or shown after the laps changed (`HeatResultsCurrent`, section 4). The invariant `Kept` is `Structure` and
`clean => Truth`, where `Truth` says of each place that can hold a result what it is worth:
- a stored result or a session's copy that is valid is current, that of the event unless a thread of
  `on_resave_laps` is on its way to clear it, and a copy has the token that is stored, so a comparison
  with a copy is as good as one with the row (`DbCurrent`, `CopiesCurrent`);
- what a build has merged, with the current results of the parts it has still to ask for, is the
  current result of its node (`BuildsCurrent`), and the outermost build is for the node that the
  request asks for (`AskersHold`);
- what a request has fetched goes by the number of steps it has left (`StagesHold`): one that saves a
  race has the results of before until it has written the race, then those to which the race is
  to be added, of the event only if nobody took a newer token; one that builds the page has every
  result, current, or has it still to fetch;
- a valid page is current unless a greenlet is on its way to invalidate it (`ShownCurrent`);
- tokens are not of the future (`TimeHolds`), so a new one differs from all that were read.

A write keeps it because whoever writes is alone: the others have nothing (`OthersWritten`), and what
the writer has fetched becomes what it may add to (`WriteStage`). Every other step leaves the laps as
they are, and `BuildsStep`, `RowsStep`, `ShownStep`, `SelfStage` and `OthersStage` take the parts in turn.

**Passes are reported once.** `PassInv` relates three places: what the firmware has of its passes
(`PassesHeld`: the record is that of the last pass that ended, its age is exact while two bytes can
hold it), what the poll has read and not yet handled (`PollTrue`), and what was reported. The
updates of a round are reported in one of the orders of their times (`InOrder`), which repeats and
loses none. All that the server knows is
claimed unless `stray`.

**Laps.** `LapsInv` has four parts: the shapes; laps numbered by the active ones before them, whatever
is edited (`LapsHold`); passes in the order of time, a queued one later than the laps of its node and
a crossing later than both (`OrderHolds`); and times measured from the lap before, exact while at most
one edit was made (`TimesHold`): a deletion moves the time of its lap to the next lap, and
a second edit may bring back a lap between them. `OneLapAfterTime` needs also, without assumptions on the order of passes, that a lap after
the time either has its second job in the queue, or its pilot has the flag (`DoneOrSoon`, `DoneHolds`);
a pass of a pilot with the flag does not count, so a further lap needs all the second jobs
of the earlier ones still to wait (`DoneStep`). `WaitCounted` is inductive with `LapsInv`: each second job tells its own pilot, or all
who wait, or adds its own to them (`FinishTells`).

**The event.** `ProfileInv` says that the nodes have the frequencies and levels of the profile in use
and that it exists. Most operations leave profiles and nodes alone (`Keeps`); the others send what
they change. `RacesInv` says of the tables that ids are numbers in finite sets, that heats and
races have their fields, and `RacesFollow`: each race has its heat and its class, and the rounds of a heat
are those of its races in their order. Operations that only add heats or leave the classes
of the present ones keep it (`Grows`); moving a race renumbers the rounds of the two heats; the loops over the
heats of a class keep it turn by turn (`FoldExists`, `FoldHolds`).

**Seats.** `RacesInv` says also that the slots of each heat have seats of their own. What gives out seats
looks at which are free: bare slots get the first free numbers in turn (`UpTo`, `Nth`), an edit of a slot
swaps seats, and the automation grants seats one at a time, from a set of free ones that shrinks with
each grant (`SeatingKept`; `GrantsEnd`: what each grant keeps holds where no rule applies any
more), and fills the rest from what is left (`FilledIs`), for any rules and any luck.

**Locked heats.** Each step but an edit of a heat or of the pilots is `Crewed`: who is in a heat that
is fixed before and after it, stays on his seat. Seeding settles one heat and leaves the slots of the
others (`SettlesOne`), and does nothing to one that is locked; a plan taken back or confirmed changes
at most slots without a seat; grouping and moving races leave slots alone; heats that come have
new numbers.

**Lemmas** about sequences and their sets of elements, numbers in finite sets, and least and greatest ones
are in `SequenceFacts`.

**Only model-checked.**
- The liveness properties (`ExpiryEndsRace`, `StagingEnds`, `QueueDrains`, `PassesNoticed`, `LevelsRestored`,
  `EventFinishes`): liveness under fairness and ENABLED are out of the prover's reach.
- `RaceLaps`: `VerdictKept`, because the boards are sorted and folded over with operator
  parameters, which the provers cannot instantiate; of `DoneTold`, that the events come once a
  winner is declared, whatever check declared it; of `TypeOK`, the bounds named above.
- `EventData`: `TypeOK`, which lists the shape of every row; `Seated`, `SourcesFlown` and
  `BracketFair`, which depend on what sorted boards, rankings and brackets contain; `TunedForPilot`,
  `KeptFrequency`, and of `SeatsCredited` that races credit who is shown. This half holds for the events
  of the runs and not for every event: see "a seat given late" in section 4. For the same reason
  `LockedKept` lets a pilot without a seat get one.
- Induction over data: the library's induction theorems take an operator, so what the model's folds
  over tables compute is not proved by them. Where a theorem needs such a fold (`InTurn`, `UpTo`), the
  induction is made over the numbers of a set named for the statement (`NumbersAll`).

## 7. Not modelled

Files, formatting, languages, LEDs, video receivers and sensors have no state of their
own that others wait for: they are input and output. The handler threads of
`eventmanager.py` and the filters are left for later. Within the modelled parts the
following is left out, each with its reason in `components`:
- *Race*: early returns of `stage()` that change nothing of this state, staging tones and
  delays, the copy of the last race, replaced laps, announcements of leaders and gaps.
- *Results*: classes (one more level of the same code between heat and event), stored
  rankings, the clears that follow edits of heats, classes and formats, the reassignment
  of a race, exceptions in a build, and the five-minute limit of the waits for a flag, far
  longer than a build.
- *Cluster*: action-mode timers, speeds and callouts, mirrored events, clock differences.
- *Nodes*: the filter, the receiver chip, EEPROM, I2C (the same commands), captures of levels,
  scans, the bootloader, the mock interface.
- *Event*: attributes, options, backups, migration, bands and channels, names, best
  consecutive laps as a ranking, plugins of others.
