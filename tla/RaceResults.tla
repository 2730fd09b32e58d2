---------------------------- MODULE RaceResults ----------------------------
(***************************************************************************)
(* Leaderboards of a race and the win conditions (Results.py) as operators *)
(* on the laps of its pilots.                                              *)
(*                                                                         *)
(* A format is a record: mode (individual, team, coop), win (a win         *)
(* condition), start (holeshot, first_lap, staggered), limited, time,      *)
(* grace, laps.  crossings[n] is the sequence of active laps of node n, of *)
(* which the first one is the hole shot.  Averages are integers, Scale     *)
(* times the real ones and rounded down.                                   *)
(***************************************************************************)
EXTENDS Integers, SequencesExt

CONSTANTS
  Consecutives,  \* the option consecutivesCount (3)
  Scale,         \* bound: precision of averages
  Infinite       \* bound: larger than any time or average

ASSUME ResultsAssumption ==
  Consecutives \in Nat \ {0} /\ Scale \in Nat \ {0} /\ Infinite \in Nat

None == -1

Total(s, F(_)) == FoldLeft(LAMBDA sum, x : sum + F(x), 0, s)
TimesOf(laps) == Total(laps, LAMBDA l : l.time)
Min2(a, b) == IF a < b THEN a ELSE b
Max2(a, b) == IF a > b THEN a ELSE b

-----------------------------------------------------------------------------
(* Lines of a leaderboard.                                                 *)

Counted(f, laps) == IF f.start = "first_lap" \/ laps = <<>> THEN laps ELSE Tail(laps)

Fastest(laps) == FoldLeft(LAMBDA best, l : Min2(best, l.time), Infinite, laps)

\* The best time of that many laps in a row.
BestWindow(laps) ==
  FoldLeft(Min2, Infinite,
           [i \in 1..Len(laps) - Consecutives + 1 |->
              TimesOf(SubSeq(laps, i, i + Consecutives - 1))])

Line(f, node, team, crossings) ==
  LET laps  == Counted(f, crossings)
      lapsTime == TimesOf(laps)
      all == Len(laps) >= Consecutives
      none == laps = <<>>
  IN [node  |-> node, team |-> team,
      laps  |-> Len(laps), starts |-> IF crossings = <<>> THEN 0 ELSE 1,
      lapsTime |-> lapsTime,
      total |-> IF f.start = "staggered" THEN lapsTime ELSE TimesOf(crossings),
      last  |-> IF none THEN None ELSE Last(laps).time,
      average |-> IF none THEN 0 ELSE (Scale * lapsTime) \div Len(laps),
      fastest |-> IF none THEN 0 ELSE Fastest(laps),
      base  |-> IF all THEN Consecutives ELSE Len(laps),
      consecutive |-> IF none THEN None ELSE IF all THEN BestWindow(laps) ELSE lapsTime]

-----------------------------------------------------------------------------
(* Order and rank.                                                         *)

Late(x) == IF x > 0 THEN x ELSE Infinite

\* Keys of the boards' lines: the smaller tuple comes first.
RaceTimeKey(l) == <<-l.laps, Late(l.total)>>
FastestKey(l) == <<Late(l.fastest), Late(l.total)>>
ConsecutiveKey(l) == <<-l.base, Late(l.consecutive), -l.laps, Late(l.total)>>

Before(k, m) == \E i \in DOMAIN k : k[i] < m[i] /\ \A j \in 1..i-1 : k[j] = m[j]

\* Python's sort: lines with equal keys stay in order.
Sorted(lines, Key(_)) ==
  LET first(i, j) == Before(Key(lines[i]), Key(lines[j]))
                     \/ (Key(lines[i]) = Key(lines[j]) /\ i < j)
      order == SetToSortSeq(DOMAIN lines, first)
  IN  [i \in DOMAIN lines |-> lines[order[i]]]

\* The place of each line: that of the line before if it ties with it; none without a time.
Places(lines, Ties(_, _)) ==
  LET place[i \in DOMAIN lines] ==
        IF lines[i].total = 0 THEN None
        ELSE IF i > 1 /\ Ties(lines[i-1], lines[i]) THEN place[i-1] ELSE i
  IN place

RaceTimeTies(a, b) == a.laps = b.laps /\ a.total = b.total
FastestTies(a, b) == a.fastest = b.fastest
ConsecutiveTies(a, b) ==
  a.consecutive = b.consecutive /\ (b.laps < Consecutives => RaceTimeTies(a, b))

ByRaceTime(lines) == Sorted(lines, RaceTimeKey)
ByFastest(lines) == Sorted(lines, FastestKey)
ByConsecutives(lines) == Sorted(lines, ConsecutiveKey)

\* The board that a win condition goes by.
Primary(win, lines) ==
  CASE win = "consecutive" -> ByConsecutives(lines)
    [] win = "fastest" -> ByFastest(lines)
    [] OTHER -> ByRaceTime(lines)

-----------------------------------------------------------------------------
(* Merging the results of races.                                           *)

\* A mutated form: a time of 0, of a race without laps, is the fastest.
FastestOfZero(a, b) == Min2(a, b)
FastestOf(a, b) == IF a = 0 \/ (b # 0 /\ b < a) THEN b ELSE a

MoreConsecutive(new, old) ==
  new.base # 0 /\ (new.base > old.base
                   \/ (new.base = old.base /\ new.consecutive < old.consecutive))

MergedLine(old, new) ==
  LET laps == old.laps + new.laps
      time == old.lapsTime + new.lapsTime
      best == IF MoreConsecutive(new, old) THEN new ELSE old
  IN [old EXCEPT !.laps = laps, !.starts = @ + new.starts, !.total = @ + new.total,
                 !.lapsTime = time,
                 !.average = IF laps # 0 THEN (Scale * time) \div laps ELSE @,
                 !.fastest = FastestOf(@, new.fastest),
                 !.base = best.base, !.consecutive = best.consecutive]

\* The lines of more that are of a node in board are merged, the others added.
MergeBoards(board, more) ==
  LET lineOf(lines, node) == SelectSeq(lines, LAMBDA l : l.node = node) IN
  [i \in DOMAIN board |->
     LET new == lineOf(more, board[i].node) IN
     IF new = <<>> THEN board[i] ELSE MergedLine(board[i], new[1])]
  \o SelectSeq(more, LAMBDA l : lineOf(board, l.node) = <<>>)

-----------------------------------------------------------------------------
(* Teams.                                                                  *)

Contributes(f, l) == IF f.win = "consecutive" THEN l.laps >= Consecutives ELSE l.laps > 0

Share(sum, n) == IF n = 0 THEN 0 ELSE sum \div n

TeamLine(f, team, lines) ==
  LET mine == SelectSeq(lines, LAMBDA l : l.team = team)
      contributing == Len(SelectSeq(mine, LAMBDA l : Contributes(f, l)))
      whole == SelectSeq(mine, LAMBDA l : l.consecutive > 0 /\ l.base >= Consecutives)
      first == IF Head(mine).consecutive > 0 /\ Head(mine).base < Consecutives
               THEN Head(mine).consecutive ELSE 0
  IN [team |-> team, members |-> Len(mine), contributing |-> contributing,
      amount |-> (Scale * contributing) \div Len(mine),
      laps |-> Total(mine, LAMBDA l : l.laps), total |-> Total(mine, LAMBDA l : l.total),
      average |-> Share(Total(mine, LAMBDA l : l.average), contributing),
      fastest |-> Share(Scale * Total(mine, LAMBDA l : l.fastest), contributing),
      \* the first line counts even with fewer laps
      consecutive |-> Share(Scale * (first + Total(whole, LAMBDA l : l.consecutive)),
                            contributing)]

TeamKey(l) == <<-l.laps, Late(l.average)>>
TeamFastestKey(l) == <<-l.amount, Late(l.fastest), -l.laps>>
TeamConsecutiveKey(l) == <<-l.amount, Late(l.consecutive), -l.laps>>

\* The teams in the order of their first lines.
TeamLines(f, lines) ==
  LET names == FoldLeft(LAMBDA s, l : IF Contains(s, l.team) THEN s ELSE Append(s, l.team),
                        <<>>, lines)
  IN  [i \in DOMAIN names |-> TeamLine(f, names[i], lines)]
\* The board that the win condition of a format goes by.
TeamBoard(f, lines) ==
  Sorted(TeamLines(f, lines),
         LAMBDA l : CASE f.win = "fastest" -> TeamFastestKey(l)
                      [] f.win = "consecutive" -> TeamConsecutiveKey(l)
                      [] OTHER -> TeamKey(l))

\* The laps of a co-op group.
GroupLaps(lines) == Total(lines, LAMBDA l : l.laps)

-----------------------------------------------------------------------------
(* Win conditions.  r is the race: its format, board (by race time) and    *)
(* lines of the pilots, done (race_status), up (the timer has run out),    *)
(* finished[n], crossing[n], and recent[n], the time of the last lap of    *)
(* node n, of any kind, or None.                                           *)

Verdict(status, winner, wait) == [status |-> status, winner |-> winner, wait |-> wait]
Open == Verdict("none", None, None)
Waiting == Verdict("pending", None, None)
Tie == Verdict("tie", None, None)
Declared(winner) == Verdict("declared", winner, None)
\* No verdict for that time, then a forced one.
Consider(wait) == Verdict("none", None, wait)

AllFinished(r) == \A n \in DOMAIN r.finished : r.finished[n]
Over(r) == r.done \/ AllFinished(r)
Running(r) == ~r.done /\ r.up

Below(board) == {board[i] : i \in 2..Len(board)}
\* A mutated form: crossings are not waited for.
CrossingsIgnored(r) == FALSE
\* Someone below the leader is crossing and may come onto its lap.
CrossingOntoLead(r) ==
  \E l \in Below(r.board) : l.laps >= r.board[1].laps - 1 /\ r.crossing[l.node]
MustWait(r) == ~r.done /\ CrossingOntoLead(r)

HasLead(r) == Len(r.board) > 1 /\ r.board[1].laps > 0

\* The final call, by the first two lines.
Call(r, Tied(_, _)) ==
  IF ~HasLead(r) THEN Open
  ELSE IF MustWait(r) THEN Waiting
  ELSE IF Tied(r.board[1], r.board[2]) THEN Tie ELSE Declared(r.board[1].node)

SameLaps(a, b) == a.laps = b.laps

CallProgress(r) == Call(r, RaceTimeTies)
CallLaps(r) == Call(r, SameLaps)

Unfinished(r, l) == ~r.finished[l.node]

\* check_win_laps_and_time: after the time, no one else on the lead lap has a lap to go.
ProgressVerdict(r, forced) ==
  IF Over(r) \/ forced THEN CallProgress(r)
  ELSE IF ~Running(r) \/ ~HasLead(r) THEN Open
  ELSE IF CrossingOntoLead(r) THEN Waiting
  ELSE IF \E l \in Below(r.board) : l.laps >= r.board[1].laps /\ Unfinished(r, l)
  THEN Open ELSE CallProgress(r)

\* check_win_most_laps.
LapsVerdict(r, forced) ==
  LET lead == r.board[1].laps
      pass == \E l \in Below(r.board) : l.laps >= lead /\ Unfinished(r, l)
      tie  == \E l \in Below(r.board) : l.laps = lead - 1 /\ Unfinished(r, l)
      tied == \E l \in Below(r.board) : l.laps >= lead
  IN IF Over(r) \/ forced THEN CallLaps(r)
     ELSE IF ~Running(r) \/ ~HasLead(r) THEN Open
     ELSE IF CrossingOntoLead(r) THEN Waiting
     ELSE IF pass THEN Open
     ELSE IF (~tied /\ ~tie) \/ (tied /\ r.finished[r.board[1].node]) THEN CallLaps(r)
     ELSE Open

AfterTime(r) == \E i \in DOMAIN r.board : r.board[i].total > r.format.time

InOvertime(r, v) == IF v.status = "tie" /\ ~r.done THEN [v EXCEPT !.status = "overtime"] ELSE v

\* check_win_laps_and_overtime.
OvertimeVerdict(r, forced, atFinish) ==
  IF ~(Running(r) \/ r.done \/ atFinish) \/ r.board = <<>> THEN Open
  ELSE IF AfterTime(r) THEN ProgressVerdict(r, forced)
  ELSE InOvertime(r, LapsVerdict(r, TRUE))

\* check_win_first_to_x.
FirstToXVerdict(r) ==
  IF HasLead(r) /\ r.format.laps # 0 /\ r.board[1].laps >= r.format.laps
  THEN CallProgress(r) ELSE Open

\* check_win_fastest_lap: at the finish, how long someone may yet beat the lap.
FastestVerdict(r, forced, atFinish) ==
  LET b == ByFastest(r.lines)
      lap == b[1].fastest
      toGo(n) == IF r.recent[n] = None THEN 0 ELSE lap - (r.format.time - r.recent[n])
      last == FoldLeft(LAMBDA m, l : Max2(m, toGo(l.node)), 0, r.lines)
  IN IF Len(b) < 2 \/ lap = 0 THEN Open
     ELSE IF Over(r) \/ forced
     THEN IF b[2].fastest = lap THEN Tie ELSE Declared(b[1].node)
     ELSE IF atFinish THEN Consider(Min2(lap, last)) ELSE Open

\* check_win_fastest_consecutive: the time in ms is always more than the number of laps it
\* is compared with, so a pilot with fewer laps may win.
ConsecutiveVerdict(r, forced, atFinish) ==
  LET b == ByConsecutives(r.lines)
      best == b[1].consecutive
      last == FoldLeft(LAMBDA m, l : IF r.count[l.node] >= Consecutives - 1
                                     THEN Max2(m, best - r.lastTimes[l.node]) ELSE m,
                       0, r.lines)
  IN IF Len(b) < 2 \/ best <= 0 THEN Open
     ELSE IF Over(r) \/ forced
     THEN IF b[2].consecutive = best THEN Tie ELSE Declared(b[1].node)
     ELSE IF atFinish THEN Consider(last) ELSE Open

-----------------------------------------------------------------------------
(* Win conditions of teams: t is TeamBoard.                                *)

TeamMembersDone(r, team) ==
  Len(SelectSeq(r.lines, LAMBDA l : l.team = team /\ r.finished[l.node]))
Potential(r, t) == t.laps + t.members - TeamMembersDone(r, t.team)
TeamOf(t, name) == CHOOSE i \in DOMAIN t : t[i].team = name
TeamCrossing(r, t) ==
  \E i \in DOMAIN r.lines :
    r.crossing[r.lines[i].node] /\ t[TeamOf(t, r.lines[i].team)].laps >= t[1].laps - 1
TeamHasLead(t) == Len(t) > 1 /\ t[1].laps > 0

TeamCall(r, t, Tied(_, _)) ==
  IF ~TeamHasLead(t) THEN Open
  ELSE IF ~r.done /\ TeamCrossing(r, t) THEN Waiting
  ELSE IF Tied(t[1], t[2]) THEN Tie ELSE Declared(t[1].team)

\* A leading team that is done: how long another may need for its laps.
TeamWait(r, t) ==
  FoldLeft(LAMBDA m, i : Max2(m, (t[1].total - t[i].total)
                                 * (t[i].members - TeamMembersDone(r, t[i].team))),
           0, SetToSeq({i \in 2..Len(t) : t[1].laps > Potential(r, t[i])}))

\* check_win_team_laps_and_time.
TeamProgressVerdict(r, t, forced, overtime) ==
  LET leaderDone == TeamMembersDone(r, t[1].team) = t[1].members
  IN IF Over(r) \/ forced THEN TeamCall(r, t, RaceTimeTies)
     ELSE IF ~Running(r) \/ ~TeamHasLead(t) THEN Open
     ELSE IF TeamCrossing(r, t) THEN Waiting
     ELSE IF \/ overtime /\ TeamMembersDone(r, t[1].team) > 0
             \/ \A i \in 2..Len(t) : t[1].laps > Potential(r, t[i])
     THEN TeamCall(r, t, RaceTimeTies)
     ELSE IF leaderDone THEN Consider(TeamWait(r, t)) ELSE Open

\* check_win_team_most_laps: an early call is one by laps and time.
TeamLapsVerdict(r, t, forced) ==
  LET others == {t[i] : i \in 2..Len(t)}
      pass == \E o \in others : t[1].laps < Potential(r, o)
      tie  == \E o \in others : t[1].laps = Potential(r, o)
      tied == \E o \in others : t[1].laps = o.laps
      leaderDone == TeamMembersDone(r, t[1].team) = t[1].members
  IN IF Over(r) \/ forced THEN TeamCall(r, t, SameLaps)
     ELSE IF ~Running(r) \/ ~TeamHasLead(t) THEN Open
     ELSE IF TeamCrossing(r, t) THEN Waiting
     ELSE IF pass THEN Open
     ELSE IF (~tie /\ ~tied) \/ (tied /\ leaderDone) THEN TeamCall(r, t, RaceTimeTies)
     ELSE Open

\* check_win_team_laps_and_overtime: forced before anyone crossed after the time, it
\* ends in an exception.
TeamOvertimeVerdict(r, t, forced, atFinish) ==
  IF ~(Running(r) \/ r.done \/ atFinish) \/ r.board = <<>> THEN Open
  ELSE IF AfterTime(r) THEN TeamProgressVerdict(r, t, forced, TRUE)
  ELSE IF forced THEN Open
  ELSE InOvertime(r, TeamLapsVerdict(r, t, TRUE))

\* check_win_team_first_to_x: any crossing is waited for.
TeamFirstToXVerdict(r, t) ==
  IF ~TeamHasLead(t) \/ r.format.laps = 0 \/ t[1].laps < r.format.laps THEN Open
  ELSE IF ~r.done /\ \E n \in DOMAIN r.crossing : r.crossing[n] THEN Waiting
  ELSE IF SameLaps(t[1], t[2]) THEN Tie ELSE Declared(t[1].team)

TeamSpent(r, team) ==
  Total(SelectSeq(r.lines, LAMBDA l : l.team = team /\ r.recent[l.node] # None),
        LAMBDA l : r.format.time - r.recent[l.node])

\* check_win_team_fastest_lap: the wait returned is that of the first team.
TeamFastestVerdict(r, t, forced, atFinish) ==
  LET wait == (t[1].fastest * t[1].members) \div Scale - TeamSpent(r, t[1].team)
  IN IF ~TeamHasLead(t) THEN Open
     ELSE IF Over(r) \/ forced
     THEN IF t[1].amount = t[2].amount /\ t[1].fastest = t[2].fastest
          THEN Tie ELSE Declared(t[1].team)
     ELSE IF atFinish /\ t[1].fastest > 0 THEN Consider(Max2(0, wait)) ELSE Open

\* check_win_team_fastest_consecutive.
TeamConsecutiveVerdict(r, t, forced, atFinish) ==
  LET enough == IF r.format.start = "first_lap" THEN Consecutives - 1 ELSE Consecutives
      times(i) == Total(SelectSeq(r.lines, LAMBDA l : l.team = t[i].team
                                                      /\ r.count[l.node] >= 2),
                        LAMBDA l : r.lastTimes[l.node])
      left(i) == (t[1].consecutive \div Scale)
                 - (times(i) \div t[i].members) \div t[i].members
  IN IF Len(t) < 2 THEN Open
     ELSE IF Over(r) \/ forced
     THEN IF t[1].laps <= enough THEN Open
          ELSE IF t[1].amount = t[2].amount /\ t[1].consecutive = t[2].consecutive
          THEN Tie ELSE Declared(t[1].team)
     ELSE IF atFinish /\ t[1].consecutive > 0
     THEN Consider(FoldLeft(LAMBDA m, i : Max2(m, left(i)), 0, [i \in 1..Len(t)-1 |-> i+1]))
     ELSE Open

\* check_win_coop_first_to_x and check_win_coop_most_laps.
CoopVerdict(r, atFinish) ==
  LET laps == GroupLaps(r.board) IN
  IF IF r.format.win = "first_to_x" THEN r.format.laps # 0 /\ laps >= r.format.laps
     ELSE (Running(r) \/ r.done \/ atFinish) /\ laps > 0
  THEN Declared("group") ELSE Open

TeamVerdict(r, t, forced, atFinish) ==
  LET w == r.format.win IN
  CASE w = "progress" -> TeamProgressVerdict(r, t, forced, FALSE)
    [] w = "laps" -> TeamLapsVerdict(r, t, forced)
    [] w = "first_to_x" -> TeamFirstToXVerdict(r, t)
    [] w = "fastest" -> TeamFastestVerdict(r, t, forced, atFinish)
    [] w = "consecutive" -> TeamConsecutiveVerdict(r, t, forced, atFinish)
    [] w = "overtime" -> TeamOvertimeVerdict(r, t, forced, atFinish)

PilotVerdict(r, forced, atFinish) ==
  LET w == r.format.win IN
  CASE w = "progress" -> ProgressVerdict(r, forced)
    [] w = "laps" -> LapsVerdict(r, forced)
    [] w = "first_to_x" -> FirstToXVerdict(r)
    [] w = "fastest" -> FastestVerdict(r, forced, atFinish)
    [] w = "consecutive" -> ConsecutiveVerdict(r, forced, atFinish)
    [] w = "overtime" -> OvertimeVerdict(r, forced, atFinish)

\* check_win_condition_result; no verdict at all without a win condition.
Judged(r, forced, atFinish) ==
  CASE r.format.mode = "coop" -> CoopVerdict(r, atFinish)
    [] r.format.mode = "team" ->
         TeamVerdict(r, TeamBoard(r.format, r.board), forced, atFinish)
    [] OTHER -> PilotVerdict(r, forced, atFinish)
=============================================================================
