---------------------------- MODULE EventTables ----------------------------
(***************************************************************************)
(* The tables of an event and what RHData does to them: pilots, race       *)
(* formats, classes, heats with their slots, and saved races.              *)
(*                                                                         *)
(* An operation takes the tables s, together with the current race of      *)
(* RHRace that some of them update, and returns them as they are after it. *)
(* Names, colours, descriptions and stored results (ResultsCaches) are     *)
(* left out; a heat keeps the number its automatic name ends in, because   *)
(* regrouping finds the heats that belong together by it.                  *)
(***************************************************************************)
EXTENDS Integers, Sequences, FiniteSets, SequencesExt

CONSTANT N          \* nodes of the timer; a seat is a node
ASSUME NAssumption == N \in Nat \ {0}

None == 0           \* a null id, and no seat
Seats == 1 .. N

NewId(table) == 1 + Max(DOMAIN table \cup {0})
Added(table, id, row) ==
  [x \in DOMAIN table \cup {id} |-> IF x = id THEN row ELSE table[x]]
Without(table, id) == [x \in DOMAIN table \ {id} |-> table[x]]

IdsWhere(table, P(_)) == {x \in DOMAIN table : P(table[x])}

\* The elements of a set, sorted by a strict total order.
InOrder(set, Less(_, _)) ==
  SortSeq(FoldSet(LAMBDA x, seq : Append(seq, x), <<>>, set), Less)
ById(ids) == InOrder(ids, <)

\* How many numbers of a set are up to x, and which of them is the n-th.
UpTo(set, x) == Cardinality({y \in set : y <= x})
Nth(set, n) == CHOOSE x \in set : UpTo(set, x) = n

\* Op is done to the tables s for each of some ids, in their order.
InTurn(Op(_, _), s, ids) ==
  MapThenFoldSet(LAMBDA id, t : Op(t, id), s, LAMBDA id : id,
                 LAMBDA set : Max(set), ids)

-----------------------------------------------------------------------------
(* Queries                                                                 *)

HeatsOf(s, c) == IdsWhere(s.heats, LAMBDA h : h.class = c)
RacesOf(s, h) == IdsWhere(s.races, LAMBDA r : r.heat = h)
ClassRaces(s, c) == IdsWhere(s.races, LAMBDA r : r.class = c)
MaxRound(s, h) == Max({s.races[r].round : r \in RacesOf(s, h)} \cup {0})

Dynamic(heat) ==
  \E k \in DOMAIN heat.slots : heat.slots[k].method \in {"heat", "class"}

Holder(heat, seat) ==
  LET at == {k \in DOMAIN heat.slots : heat.slots[k].seat = seat}
  IN IF at = {} THEN None ELSE heat.slots[CHOOSE k \in at : TRUE].pilot

\* Who finished race r, in this order: .finish holds the seats.
Finishers(s, r) ==
  SelectSeq([k \in DOMAIN s.races[r].finish |->
               s.races[r].seats[s.races[r].finish[k]]], LAMBDA p : p # None)

Placings(s, ids) ==
  UNION {{[pilot |-> Finishers(s, r)[k], race |-> r, place |-> k] :
            k \in DOMAIN Finishers(s, r)} : r \in ids}

\* A leaderboard over saved races: who flew more races is ahead, then who
\* finished better in them.  A race stands for one lap of every pilot.
Line(placings, p) ==
  LET own == {x \in placings : x.pilot = p}
  IN [pilot |-> p, races |-> Cardinality(own),
      places |-> MapThenSumSet(LAMBDA x : x.place, own)]
Ahead(a, b) ==
  \/ a.races > b.races
  \/ a.races = b.races /\ a.places < b.places
  \/ a.races = b.races /\ a.places = b.places /\ a.pilot < b.pilot
Board(s, ids) ==
  InOrder(UNION {{Line(placings, x.pilot) : x \in placings} :
                 placings \in {Placings(s, ids)}}, Ahead)

HeatBoard(s, h) == Board(s, RacesOf(s, h))
ClassBoard(s, c) == Board(s, ClassRaces(s, c))

-----------------------------------------------------------------------------
(* Heats                                                                   *)

\* The smallest number no other heat of the class (of the group) bears.
Label(s, h) ==
  LET heat == s.heats[h]
      others == {x \in HeatsOf(s, heat.class) \ {h} :
                   s.classes[heat.class].grouped
                      => s.heats[x].group = heat.group}
      taken == {s.heats[x].label : x \in others}
  IN IF heat.class = None THEN 0
     ELSE Min((1 .. Cardinality(taken) + 1) \ taken)
Relabelled(s, h) == [s EXCEPT !.heats[h].label = Label(s, h)]

Slot(seat, pilot, method) ==
  [seat |-> seat, pilot |-> pilot, method |-> method, seed |-> None,
   rank |-> None]
NewHeat(class, auto, slots) ==
  [class |-> class, group |-> 0, label |-> 0, confirmed |-> FALSE,
   active |-> TRUE, auto |-> auto, slots |-> slots]

InsertHeat(s, row) ==
  LET id == NewId(s.heats)
  IN Relabelled([s EXCEPT !.heats = Added(s.heats, id, row)], id)

AddHeat(s, class, group, auto, method) ==
  InsertHeat(s, [NewHeat(class, auto, [k \in Seats |-> Slot(k, None, method)])
                   EXCEPT !.group = group])

\* Slots keep their seats, pilots and seeds; the copy is not confirmed.
DuplicateHeat(s, h, class, group) ==
  InsertHeat(s, [s.heats[h] EXCEPT !.class = class, !.group = group,
                                   !.confirmed = FALSE, !.active = TRUE])

\* Slots without a seat get the seats no slot has, lowest first.
Resolved(slots) ==
  LET bare == {k \in DOMAIN slots : slots[k].seat = None}
      used == {slots[k].seat : k \in DOMAIN slots}
      free == (1 .. Len(slots) + N) \ used
  IN [k \in DOMAIN slots |->
        IF k \in bare THEN [slots[k] EXCEPT !.seat = Nth(free, UpTo(bare, k))]
        ELSE slots[k]]
ResolveSeats(s, h) ==
  [s EXCEPT !.heats[h].slots = Resolved(s.heats[h].slots)]

\* What alter_heat does to the slot d names: the pilot first, then the
\* method, which drops the seed, then the seed if it suits the method.
Reslotted(slot, d) ==
  LET p == IF "pilot" \notin DOMAIN d THEN slot
           ELSE [slot EXCEPT !.pilot = d.pilot,
                   !.method = IF d.pilot = None /\ @ = "assign" THEN "none"
                              ELSE @]
      m == IF "method" \notin DOMAIN d THEN p
           ELSE [p EXCEPT !.method = d.method, !.seed = None]
  IN [m EXCEPT !.seed = IF "seedHeat" \in DOMAIN d /\ m.method = "heat"
                          THEN d.seedHeat
                        ELSE IF "seedClass" \in DOMAIN d /\ m.method = "class"
                          THEN d.seedClass ELSE @,
               !.rank = IF "rank" \in DOMAIN d THEN d.rank ELSE @]

Given(d, field, default) == IF field \in DOMAIN d THEN d[field] ELSE default

AlteredHeat(heat, d) ==
  LET row == [heat EXCEPT !.class = Given(d, "class", @),
                          !.group = Given(d, "group", @),
                          !.auto = Given(d, "auto", @),
                          !.confirmed = Given(d, "confirmed", @),
                          !.active = Given(d, "active", @)]
      slots == IF ~Given(d, "auto", TRUE) THEN Resolved(row.slots)
               ELSE row.slots
  IN [row EXCEPT !.slots =
        IF "slot" \in DOMAIN d
        THEN [slots EXCEPT ![d.slot] = Reslotted(slots[d.slot], d)] ELSE slots]

\* A mutated form: saved races keep their pilots.
RacesKeepPilots(s, h, d) ==
  [r \in DOMAIN s.races |->
     IF s.races[r].heat # h THEN s.races[r]
     ELSE [s.races[r] EXCEPT !.class = Given(d, "class", @)]]

\* Saved races follow: their class, and who flew on the seat of the slot.
AlteredRaces(s, h, d) ==
  LET Renamed(seats) ==
        IF "pilot" \notin DOMAIN d THEN seats
        ELSE [x \in DOMAIN seats |->
                IF x = s.heats[h].slots[d.slot].seat THEN d.pilot ELSE seats[x]]
  IN [r \in DOMAIN s.races |->
        IF s.races[r].heat # h THEN s.races[r]
        ELSE [s.races[r] EXCEPT !.class = Given(d, "class", @),
                                !.seats = Renamed(@)]]

NobodyUp == [x \in Seats |-> None]

\* Practice mode: the part of finalize_heat_set for no heat.
Practice(s) ==
  IF s.race.flown THEN s
  ELSE [s EXCEPT !.race.heat = None, !.race.pilots = NobodyUp, !.option = None]

\* The end of alter_heat: the current race takes the slots over, or loses
\* its heat.  Only the latter waits for the race to be over.
FollowCurrent(s, h) ==
  LET heat == s.heats[h] IN
  IF s.race.heat # h THEN s
  ELSE IF ~heat.active \/ (Dynamic(heat) /\ ~heat.confirmed) THEN Practice(s)
  ELSE [s EXCEPT !.race.pilots = [x \in Seats |-> Holder(heat, x)]]

AlterHeat(s, h, d) ==
  FollowCurrent(
    Relabelled([s EXCEPT !.heats[h] = AlteredHeat(s.heats[h], d),
                         !.races = AlteredRaces(s, h, d)], h), h)

\* A heat that was raced, or that is being raced, stays.  When one heat is
\* left it should become heat 1: that is refused by the database, since the
\* slots refer to the heat, but the current race has moved to heat 1 by then.
MayDelete(s, h) ==
  /\ RacesOf(s, h) = {}
  /\ ~(s.race.heat = h /\ s.race.flown)
DeleteHeat(s, h) ==
  LET rest == [s EXCEPT !.heats = Without(s.heats, h)]
      left == DOMAIN rest.heats
  IN IF ~MayDelete(s, h) THEN s
     ELSE IF /\ Cardinality(left) = 1 /\ 1 \notin left
             /\ \A x \in left : RacesOf(s, x) = {}
             /\ ~s.race.flown
          THEN [rest EXCEPT !.race.heat = 1]
          ELSE rest

-----------------------------------------------------------------------------
(* Which heat is next                                                      *)

ClassesInOrder(s) ==
  InOrder(DOMAIN s.classes, LAMBDA c, d :
    \/ s.classes[c].order < s.classes[d].order
    \/ s.classes[c].order = s.classes[d].order /\ c < d)

ActiveHeats(s, c) == {h \in HeatsOf(s, c) : s.heats[h].active}
FirstHeat(s, c) == Min(ActiveHeats(s, c))

\* A mutated form: a class is left out.
NextClassButOne(s, c) ==
  LET seq == ClassesInOrder(s)
      here == CHOOSE k \in DOMAIN seq : seq[k] = c
      ahead == {k \in here + 2 .. Len(seq) : ActiveHeats(s, seq[k]) # {}}
  IN IF ahead = {} THEN None ELSE FirstHeat(s, seq[Min(ahead)])

NextClassHeat(s, c) ==
  LET seq == ClassesInOrder(s)
      here == CHOOSE k \in DOMAIN seq : seq[k] = c
      ahead == {k \in here + 1 .. Len(seq) : ActiveHeats(s, seq[k]) # {}}
  IN IF ahead = {} THEN None ELSE FirstHeat(s, seq[Min(ahead)])

InGroups(s, c) ==
  InOrder(ActiveHeats(s, c), LAMBDA g, h :
    \/ s.heats[g].group < s.heats[h].group
    \/ s.heats[g].group = s.heats[h].group /\ g < h)

NextInGroups(s, h, regrouped) ==
  LET c == s.heats[h].class
      seq == InGroups(s, c)
  IN IF s.classes[c].advance = "none" THEN None
     ELSE IF s.classes[c].advance = "round" /\ regrouped # None THEN regrouped
     ELSE IF seq = <<>> \/ Last(seq) = h THEN NextClassHeat(s, c)
     ELSE Head(seq)

\* A mutated form: heats are skipped.
NextSkipping(s, h) ==
  LET seq == ById(ActiveHeats(s, s.heats[h].class))
  IN IF Last(seq) # h THEN Last(seq) ELSE NextClassHeat(s, s.heats[h].class)

NextByHeat(s, h) ==
  LET c == s.heats[h].class
      rounds == s.classes[c].rounds
      seq == ById(ActiveHeats(s, c))
      here == {k \in DOMAIN seq : seq[k] = h}
  IN IF s.classes[c].advance = "none" THEN h
     ELSE IF s.classes[c].advance = "round" /\ MaxRound(s, h) < rounds THEN h
     ELSE IF seq = <<>> THEN NextClassHeat(s, c)
     ELSE IF Last(seq) # h
          THEN IF here = {} THEN None ELSE seq[Min(here) + 1]
     ELSE IF rounds > 0 /\ MaxRound(s, h) >= rounds THEN NextClassHeat(s, c)
     ELSE Head(seq)

NextHeat(s, h, regrouped) ==
  LET c == s.heats[h].class
  IN IF c = None THEN h
     ELSE IF s.classes[c].grouped THEN NextInGroups(s, h, regrouped)
     ELSE NextByHeat(s, h)

\* The heat a started server takes up: the stored one, or the first active
\* one that is confirmed or has nothing to be seeded.
InitialHeat(s) ==
  LET active == IdsWhere(s.heats, LAMBDA h : h.active)
      ready == {h \in active : \/ s.heats[h].confirmed
                               \/ ~s.heats[h].auto /\ ~Dynamic(s.heats[h])}
  IN IF s.option \in active THEN s.option
     ELSE IF ready = {} THEN None ELSE Min(ready)

-----------------------------------------------------------------------------
(* Saved races move between heats; grouped classes                         *)

\* A mutated form: only the heat that got the race is numbered anew.
RenumberedInto(races, heats) ==
  [r \in DOMAIN races |->
     IF races[r].heat # Max(heats) THEN races[r]
     ELSE [races[r] EXCEPT !.round =
             Cardinality({x \in 1 .. r : races[x].heat = races[r].heat})]]

\* Rounds are numbered in the order the races were started in.
Renumbered(races, heats) ==
  [r \in DOMAIN races |->
     IF races[r].heat \notin heats THEN races[r]
     ELSE [races[r] EXCEPT !.round =
             Cardinality({x \in DOMAIN races :
                            x <= r /\ races[x].heat = races[r].heat})]]

Grouped(s, c) == c # None /\ s.classes[c].grouped

\* Refused within a heat and into a grouped heat that has a race; for a heat
\* with races and without a class the code raises before it writes.
MayReassign(s, r, h) ==
  /\ s.races[r].heat # h
  /\ RacesOf(s, h) # {} => s.heats[h].class # None /\ ~Grouped(s, s.heats[h].class)

FormatOfClass(s, c, default) ==
  IF c = None THEN default ELSE s.classes[c].format

MovedRace(s, r, h) ==
  LET race == s.races[r]
      class == s.heats[h].class
      HasSeat(x) == \E k \in DOMAIN s.heats[h].slots :
                       s.heats[h].slots[k].seat = x
  IN [race EXCEPT
        !.heat = h, !.class = class,
        !.format = FormatOfClass(s, class,
                     FormatOfClass(s, s.heats[race.heat].class, @)),
        !.seats = [x \in DOMAIN @ |->
                     IF HasSeat(x) THEN Holder(s.heats[h], x) ELSE @[x]]]

\* The laps of seat x in a saved race are replaced, which gives another order
\* of finish, and so is the level that says when it was passed.
Remarshaled(s, r, x, finish, level) ==
  [s EXCEPT !.races[r].finish = finish, !.races[r].tuned[x].level = level]

\* In a grouped class the heat that got the race is copied into the next
\* group, and the raceless heats that bear the label of the one that lost it
\* are deleted.
WithoutIdle(s, old) ==
  LET class == s.heats[old].class
      idle == {x \in HeatsOf(s, class) \ {old} :
                 s.heats[x].label = s.heats[old].label /\ RacesOf(s, x) = {}}
  IN IF ~Grouped(s, class) THEN s ELSE InTurn(DeleteHeat, s, idle)
WithNextGroup(s, h) ==
  LET class == s.heats[h].class
  IN IF ~Grouped(s, class) THEN s
     ELSE DuplicateHeat(s, h, class, s.heats[h].group + 1)
Reassign(s, r, h) ==
  LET old == s.races[r].heat
      races == Renumbered([s.races EXCEPT ![r] = MovedRace(s, r, h)], {old, h})
      moved == [s EXCEPT !.races = races,
                         !.heats[old].active = @ \/ Grouped(s, s.heats[old].class),
                         !.heats[h].active = IF s.heats[h].class = None THEN @
                                             ELSE ~Grouped(s, s.heats[h].class)]
  IN IF ~MayReassign(s, r, h) THEN s ELSE WithoutIdle(WithNextGroup(moved, h), old)

\* Every race of a heat but the first gets a heat of its own.
ExpandHeat(s, h) ==
  LET races == RacesOf(s, h)
      class == s.heats[h].class
      Split(t, r) ==
        Reassign(DuplicateHeat(t, h, class, Cardinality({x \in races : x < r})),
                 r, NewId(t.heats))
  IN IF Cardinality(races) <= 1 THEN s
     ELSE DuplicateHeat(InTurn(Split, s, races \ {Min(races)}),
                        h, class, Cardinality(races))
Expanded(s, c) == InTurn(ExpandHeat, s, HeatsOf(s, c))

Stripped(s, c) ==
  InTurn(LAMBDA t, h : AlterHeat(t, h, [group |-> 0]), s, HeatsOf(s, c))

LastGroup(s, c) == Max({s.heats[h].group : h \in HeatsOf(s, c)} \cup {-1})
Primed(s, c) ==
  LET last == LastGroup(s, c)
      flown == {h \in HeatsOf(s, c) :
                  s.heats[h].group = last /\ RacesOf(s, h) # {}}
  IN IF ~Grouped(s, c) \/ last + 1 >= s.classes[c].rounds THEN s
     ELSE InTurn(LAMBDA t, h : DuplicateHeat(t, h, c, last + 1), s, flown)

-----------------------------------------------------------------------------
(* Classes                                                                 *)

NewClass ==
  [format |-> None, rounds |-> 0, advance |-> "heat", grouped |-> FALSE,
   order |-> 0, ranking |-> "results", rankRounds |-> 0]
AddClass(s) == [s EXCEPT !.classes = Added(s.classes, NewId(s.classes), NewClass)]

DuplicateClass(s, c) ==
  LET id == NewId(s.classes)
      row == [s.classes[c] EXCEPT !.order = 0, !.rankRounds = 0]
  IN InTurn(LAMBDA t, h : DuplicateHeat(t, h, id, t.heats[h].group),
            [s EXCEPT !.classes = Added(s.classes, id, row)], HeatsOf(s, c))

\* The steps of alter_raceClass once the row is written: heats get groups
\* or lose them, rounds are filled, races take the format, heats new labels.
GroupsSplit(s, c, d) ==
  CASE "grouped" \notin DOMAIN d -> s
    [] s.classes[c].grouped ->
         [Expanded(s, c) EXCEPT !.classes[c].advance = IF @ = "none" THEN "heat" ELSE @]
    [] OTHER -> Stripped(s, c)
RoundsFilled(s, c, d) == IF "rounds" \in DOMAIN d THEN Primed(s, c) ELSE s
Formatted(s, c, d) ==
  [s EXCEPT !.races =
     [r \in DOMAIN @ |-> IF Given(d, "format", None) # None /\ @[r].class = c
                         THEN [@[r] EXCEPT !.format = d.format] ELSE @[r]]]
RelabelledAll(s, c) == InTurn(Relabelled, s, HeatsOf(s, c))

\* Setting the rounds of a grouped class without heats raises, and nothing
\* is written.
AlterClass(s, c, d) ==
  LET row == [s.classes[c] EXCEPT !.format = Given(d, "format", @),
                                  !.rounds = Given(d, "rounds", @),
                                  !.advance = Given(d, "advance", @),
                                  !.grouped = Given(d, "grouped", @),
                                  !.order = Given(d, "order", @),
                                  !.ranking = Given(d, "ranking", @),
                                  !.rankRounds = Given(d, "rankRounds",
                                    IF "ranking" \in DOMAIN d THEN 0 ELSE @)]
  IN IF /\ "rounds" \in DOMAIN d /\ row.grouped
        /\ row.rounds > 0 /\ HeatsOf(s, c) = {}
     THEN s
     ELSE RelabelledAll(
            Formatted(
              RoundsFilled(GroupsSplit([s EXCEPT !.classes[c] = row], c, d), c, d), c, d), c)

\* The heats lose their class in the same transaction that deletes it; the
\* session orders the two writes at will, and with the deletion first the
\* database refuses both.
DeleteClass(s, c) ==
  LET heats == HeatsOf(s, c)
      done == [s EXCEPT
        !.classes = Without(s.classes, c),
        !.heats = [h \in DOMAIN @ |-> IF h \in heats
                                      THEN [@[h] EXCEPT !.class = None]
                                      ELSE @[h]]]
  IN IF ClassRaces(s, c) # {} THEN {s}
     ELSE IF heats = {} THEN {done} ELSE {s, done}

-----------------------------------------------------------------------------
(* Pilots and formats                                                      *)

AddPilot(s) ==
  LET id == 1 + Max(s.pilots \cup {0})
  IN [s EXCEPT !.pilots = @ \cup {id}, !.used = Added(@, id, <<>>)]

\* A mutated form: only the last race is looked at.
InLastRace(s, p) == s.races # <<>> /\ p \in Range(Last(s.races).seats)
InRaces(s, p) ==
  \E r \in DOMAIN s.races : p \in Range(s.races[r].seats)
Vacated(slots, p) ==
  [k \in DOMAIN slots |-> IF slots[k].pilot # p THEN slots[k]
                          ELSE [slots[k] EXCEPT !.pilot = None]]
DeletePilot(s, p) ==
  IF InRaces(s, p) THEN s
  ELSE [s EXCEPT
    !.pilots = @ \ {p}, !.used = Without(@, p),
    !.heats = [h \in DOMAIN s.heats |->
                 [s.heats[h] EXCEPT !.slots = Vacated(@, p)]]]

\* The newest frequency is the last; each is kept once.  (Band and channel, which the code
\* compares as well, are left out.)
WithFrequency(history, f) ==
  Append(SelectSeq(history, LAMBDA g : g # f), f)

\* A format stands for whether it awards points by position.
DuplicateFormat(s, f) ==
  [s EXCEPT !.formats = Added(@, NewId(@), s.formats[f])]

\* The current race keeps its format while it is on.
SetFormat(s, f) == IF s.race.flown THEN s ELSE [s EXCEPT !.race.format = f]

\* To alter a format, current or not, makes it the format of the race; that
\* of a race that is on stays as it is.
AlterFormat(s, f, points) ==
  IF s.race.format = f /\ s.race.flown THEN s
  ELSE SetFormat([s EXCEPT !.formats[f] = points], f)

\* delete_raceFormat says yes although the database refuses to delete the
\* format of a class; the current race changes its format either way.
MayDeleteFormat(s, f) ==
  /\ ~(s.race.format = f /\ s.race.flown)
  /\ \A r \in DOMAIN s.races : s.races[r].format # f
  /\ DOMAIN s.formats # {f}
DeleteFormat(s, f) ==
  LET kept == IF \E c \in DOMAIN s.classes : s.classes[c].format = f
              THEN s.formats ELSE Without(s.formats, f)
      t == [s EXCEPT !.formats = kept]
  IN IF ~MayDeleteFormat(s, f) THEN s
     ELSE IF s.race.format # f THEN t
     ELSE SetFormat(t, IF f - 1 \in DOMAIN kept THEN f - 1 ELSE Min(DOMAIN kept))

-----------------------------------------------------------------------------
(* Resets                                                                  *)

ClearRaces(s) ==
  [s EXCEPT !.races = <<>>,
            !.heats = [h \in DOMAIN @ |-> [@[h] EXCEPT !.active = TRUE,
                                                       !.confirmed = FALSE]],
            !.used = [p \in DOMAIN @ |-> <<>>]]
ClearHeats(s) == [s EXCEPT !.heats = <<>>, !.race.heat = None, !.option = None]
ClearClasses(s) == [s EXCEPT !.classes = <<>>]
ClearPilots(s) == [s EXCEPT !.pilots = {}, !.used = <<>>]

\* The formats are those that come with the program, for which the first one stands, and
\* which becomes that of the race; classes lose theirs.
StockFormats(s) ==
  [s EXCEPT !.classes = [c \in DOMAIN s.classes |-> [s.classes[c] EXCEPT !.format = None]],
            !.formats = <<FALSE>>]

Reset(s, kind) ==
  CASE kind = "races" -> ClearRaces(s)
    [] kind = "heats" -> ClearHeats(ClearRaces(s))
    [] kind = "classes" -> ClearClasses(ClearHeats(ClearRaces(s)))
    [] kind = "pilots" -> ClearPilots(ClearHeats(ClearRaces(s)))
    [] kind = "all" -> ClearPilots(ClearClasses(ClearHeats(ClearRaces(s))))
    [] kind = "formats" -> SetFormat(StockFormats(ClearRaces(s)), 1)
=============================================================================
