----------------------------- MODULE EventData -----------------------------
(***************************************************************************)
(* An event as its race director runs it: the requests of the web pages    *)
(* that edit pilots, classes, formats and heats, that seed, confirm and    *)
(* choose a heat, and that save or reassign its races; and what they leave *)
(* in the database and in the current race.                                *)
(*                                                                         *)
(* Each request is one step: the handlers of the server do not yield, but  *)
(* for the building of stored results (ResultsCaches) and the steps of a   *)
(* race (RaceSequence), which are left to their modules.                   *)
(***************************************************************************)
EXTENDS HeatSeeding

CONSTANTS
  MaxPilots, MaxHeats, MaxClasses, MaxFormats, MaxRaces,
  MaxProfiles, MaxLevel,  \* bounds of the tables, and of levels
  Scenarios   \* events to start from, each with the requests made in it

\* Each node has the frequency and the levels of the profile in use.
Applied(s) ==
  \A x \in Seats :
    /\ s.tuning.nodes[x].freq = Profile(s).freq[x]
    /\ Profile(s).level[x] \in {Unset, s.tuning.nodes[x].level}

\* The class of a saved race is that of its heat; its round says how many
\* races of the heat there are up to it.
RacesFollow(s) ==
  \A r \in DOMAIN s.races :
    LET h == s.races[r].heat
    IN /\ h \in DOMAIN s.heats /\ s.races[r].class = s.heats[h].class
       /\ s.races[r].round = Cardinality({x \in RacesOf(s, h) : x <= r})

\* No two slots have the same seat.
Apart(slots) ==
  \A j, k \in DOMAIN slots :
    j # k /\ slots[j].seat # None => slots[j].seat # slots[k].seat

\* An event starts with its profile sent to the nodes (init_race_state), with
\* seats of their own for the slots of a heat, and with saved races that
\* follow their heats.
ASSUME ScenariosAssumption ==
  /\ MaxProfiles \in Nat /\ MaxHeats \in Nat
  /\ \A sc \in Scenarios :
       LET t == sc.event.tuning
       IN /\ DOMAIN t.profiles \subseteq 1 .. MaxProfiles
          /\ t.profile \in DOMAIN t.profiles
          /\ \A id \in DOMAIN t.profiles :
               t.profiles[id] \in [freq : [Seats -> Nat], level : [Seats -> Nat]]
          /\ t.nodes \in [Seats -> [freq : Nat, level : Nat]]
          /\ DOMAIN t = {"profiles", "profile", "nodes", "adaptive"}
          /\ Applied(sc.event)
  /\ \A sc \in Scenarios :
       LET e == sc.event
       IN /\ DOMAIN e.heats \subseteq 1 .. MaxHeats
          /\ \A h \in DOMAIN e.heats :
               LET slots == e.heats[h].slots
               IN /\ {"class", "slots", "confirmed"} \subseteq DOMAIN e.heats[h]
                  /\ Len(slots) \in Nat /\ slots \in [1 .. Len(slots) -> Range(slots)]
                  /\ Apart(slots)
                  /\ \A k \in DOMAIN slots :
                       {"seat", "pilot"} \subseteq DOMAIN slots[k] /\ slots[k].seat \in Nat
          /\ e.races \in Seq(Range(e.races))
          /\ \A r \in DOMAIN e.races :
               {"heat", "class", "round"} \subseteq DOMAIN e.races[r]
          /\ RacesFollow(e)

VARIABLES
  pilots, used,      \* pilots, and the frequencies each has flown on
  formats, classes, heats, races,
  option,            \* the stored current heat
  tuning,            \* profiles and nodes (SeatTuning)
  race,              \* heat, pilots by seat and format of the current race;
                     \* flown from staging until it is saved or discarded
  dialog,            \* the heat whose plan the director is shown
  scenario,          \* [event, requests, edits, lucky, order, knockout] as
                     \* in Scenarios
  edits              \* requests made so far that are not part of a race

tables == <<pilots, used, formats, classes, heats, races, option, tuning,
            race>>
vars == <<tables, dialog, scenario, edits>>

Now == [pilots |-> pilots, used |-> used, formats |-> formats,
        classes |-> classes, heats |-> heats, races |-> races,
        option |-> option, tuning |-> tuning, race |-> race]

\* The tables but profiles, and the current race, become those of s.
BecomeRows(s) ==
  /\ DOMAIN s.heats \subseteq 1 .. MaxHeats
  /\ DOMAIN s.classes \subseteq 1 .. MaxClasses
  /\ s.pilots \subseteq 1 .. MaxPilots
  /\ DOMAIN s.formats \subseteq 1 .. MaxFormats
  /\ Len(s.races) <= MaxRaces
  /\ pilots' = s.pilots /\ used' = s.used /\ formats' = s.formats
  /\ classes' = s.classes /\ heats' = s.heats /\ races' = s.races
  /\ option' = s.option /\ race' = s.race

\* So do the profiles and the nodes.
Become(s) ==
  /\ BecomeRows(s)
  /\ DOMAIN s.tuning.profiles \subseteq 1 .. MaxProfiles /\ tuning' = s.tuning

Init ==
  /\ scenario \in Scenarios
  /\ LET s == scenario.event
     IN /\ pilots = s.pilots /\ used = s.used /\ formats = s.formats
        /\ classes = s.classes /\ heats = s.heats /\ races = s.races
        /\ option = s.option /\ tuning = s.tuning /\ race = s.race
  /\ dialog = None
  /\ edits = 0

-----------------------------------------------------------------------------
(* Choosing a heat                                                         *)

\* finalize_heat_set: nothing while a race is on.  The nodes are calibrated
\* for the new heat.
Finalized(s, h) ==
  IF h = None \/ s.race.flown THEN Practice(s)
  ELSE LET format == FormatOfClass(s, s.heats[h].class, None)
       IN Calibrated([s EXCEPT !.option = h,
             !.race = [@ EXCEPT
               !.heat = h,
               !.pilots = [x \in Seats |-> Holder(s.heats[h], x)],
               !.format = IF format = None THEN s.race.format ELSE format]])

\* set_heat: an inactive heat first drops the current one, and is then
\* taken for what its seeding says all the same.
Taken(s, h) ==
  {CASE Verdict(s, h) = "safe" -> Finalized(t, h)
     [] Verdict(s, h) = "no-heat" -> Practice(t)
     [] OTHER -> t : t \in CalcHeat(s, h, <<>>, scenario.lucky)}
SetHeat(s, h) ==
  Taken(IF h \in DOMAIN s.heats /\ ~s.heats[h].active THEN Practice(s) ELSE s, h)

\* The director is shown the plan of a heat that is not safe to take.
Shown(s, h) == IF Verdict(s, h) = "unsafe" THEN h ELSE None

May(kind) == kind \in scenario.requests /\ edits < scenario.edits
Edit(kind) == May(kind) /\ edits' = edits + 1 /\ UNCHANGED scenario
Quietly(kind) == Edit(kind) /\ UNCHANGED dialog

SetCurrentHeat ==
  /\ Edit("setHeat")
  /\ \E h \in DOMAIN heats \cup {None} :
       /\ \E t \in SetHeat(Now, h) : Become(t)
       /\ dialog' = Shown(Now, h)

\* calc_pilots asks for a plan again; the page may ask for seats for slots,
\* for each slot another one.
CalcPilots ==
  /\ Edit("calc")
  /\ \E h \in DOMAIN heats :
       /\ \E ks \in {set \in SUBSET DOMAIN heats[h].slots : Cardinality(set) <= 2} :
            \E pre \in {f \in [ks -> SeatsOn(Now)] : IsInjective(f)} :
              \E t \in CalcHeat(Now, h, pre, scenario.lucky) : Become(t)
       /\ dialog' = Shown(Now, h)

Confirmed(s, h) == ResolveSeats(AlterHeat(s, h, [confirmed |-> TRUE]), h)

\* From the Run page the plan is confirmed and its heat becomes the current
\* one, unless a race is on.
ConfirmPlan ==
  /\ "confirm" \in scenario.requests
  /\ dialog # None /\ dialog \in DOMAIN heats
  /\ \E s \in {Confirmed(Now, dialog)} :
       IF race.flown THEN Become(s)
       ELSE \E t \in UNION {SetHeat(u, dialog) : u \in {Finalized(s, dialog)}} :
              Become(t)
  /\ dialog' = None
  /\ UNCHANGED <<scenario, edits>>

\* From the Format page any heat is confirmed, and none becomes current.
ConfirmHeat ==
  /\ Quietly("confirmHeat")
  /\ \E h \in DOMAIN heats : Become(Confirmed(Now, h))

-----------------------------------------------------------------------------
(* The race                                                                *)

\* Shown a plan, a director may all the same race the current heat again.
Stage ==
  /\ ~race.flown
  /\ dialog = None \/ "restage" \in scenario.requests
  /\ Len(races) < MaxRaces
  /\ Become([Now EXCEPT !.race.flown = TRUE])
  /\ UNCHANGED <<dialog, scenario, edits>>

Cleared(s) == [s EXCEPT !.race.flown = FALSE]

Discard ==
  /\ race.flown
  /\ Quietly("discard")
  /\ Become(Cleared(Now))

\* The orders in which the seats with a pilot may finish: any, or the one in
\* which the pilots stand in the scenario.
Finishes(s, h) ==
  LET up == {x \in SeatsOn(s) : Holder(s.heats[h], x) # None}
      place(x) == CHOOSE k \in DOMAIN scenario.order :
                    scenario.order[k] = Holder(s.heats[h], x)
  IN IF scenario.order = <<>> THEN SetToSeqs(up)
     ELSE {InOrder(up, LAMBDA x, y : place(x) < place(y))}

\* The saved race credits each seat that is on to the pilot whose slot has
\* it; each pilot has flown on the frequency of the seat.
SavedRace(s, h, finish) ==
  [heat |-> h, class |-> s.heats[h].class, round |-> MaxRound(s, h) + 1,
   format |-> s.race.format,
   seats |-> [x \in SeatsOn(s) |-> Holder(s.heats[h], x)],
   tuned |-> [x \in SeatsOn(s) |-> s.tuning.nodes[x]],
   finish |-> finish]
FlownOn(s, h) ==
  [p \in DOMAIN s.used |->
     LET xs == {x \in SeatsOn(s) : Holder(s.heats[h], x) = p}
     IN FoldLeft(LAMBDA hist, x : WithFrequency(hist, Profile(s).freq[x]),
                 s.used[p], ById(xs))]

\* A grouped heat goes on in a copy of it in the next group, if there are
\* rounds left, and is not flown again.
Regroups(s, h) ==
  LET c == s.heats[h].class
  IN /\ Grouped(s, c)
     /\ \/ s.classes[c].rounds = 0
        \/ s.heats[h].group + 1 < s.classes[c].rounds
Regrouped(s, h) ==
  IF ~Regroups(s, h) THEN s
  ELSE DuplicateHeat(s, h, s.heats[h].class, s.heats[h].group + 1)
Retired(s, h) ==
  IF Grouped(s, s.heats[h].class) THEN AlterHeat(s, h, [active |-> FALSE])
  ELSE s

RaceSaved(s, h, finish) ==
  Retired(Regrouped(Cleared(
    [s EXCEPT !.races = Append(@, SavedRace(s, h, finish)),
              !.used = FlownOn(s, h)]), h), h)

\* do_save_actions, for a race that is over.  Practice races are discarded;
\* the heat must be there, or the save dies with its race.
Save ==
  /\ race.flown
  /\ UNCHANGED <<scenario, edits>>
  /\ \/ race.heat = None /\ Become(Cleared(Now)) /\ UNCHANGED dialog
     \/ /\ race.heat \in DOMAIN heats
        /\ LET h == race.heat IN
           \E finish \in Finishes(Now, h) :
             \E s \in {RaceSaved(Now, h, finish)} :
               \E next \in {NextHeat(s, h, IF Regroups(Now, h)
                                          THEN NewId(heats) ELSE None)} :
                 IF next = h THEN Become(s) /\ UNCHANGED dialog
                 ELSE /\ \E t \in SetHeat(s, next) : Become(t)
                      /\ dialog' = Shown(s, next)

\* Marshaling moves a saved race to another heat.
ReassignRace ==
  /\ Quietly("reassign")
  /\ \E r \in DOMAIN races, h \in DOMAIN heats :
       MayReassign(Now, r, h) /\ BecomeRows(Reassign(Now, r, h))
  /\ UNCHANGED tuning

\* Marshaling replaces the laps of a seat in a saved race, which may move
\* its pilot to another place, and the level that it says was right.  The
\* nodes are calibrated anew, even while another race is on.
Marshal ==
  /\ Quietly("marshal")
  /\ \E r \in DOMAIN races, level \in 1 .. MaxLevel :
       \E x \in DOMAIN races[r].seats, finish \in SetToSeqs(Range(races[r].finish)) :
         /\ SelectSeq(finish, LAMBDA y : y # x)
              = SelectSeq(races[r].finish, LAMBDA y : y # x)
         /\ Become(Calibrated(Remarshaled(Now, r, x, finish, level)))

-----------------------------------------------------------------------------
(* Editing heats                                                           *)

\* What the Format page sends for a slot: one field at a time.
SlotRequests(h) ==
  UNION {[slot : {k}, pilot : pilots \cup {None}]
           \cup [slot : {k}, method : {"none", "assign", "heat", "class"}]
           \cup [slot : {k}, seedHeat : DOMAIN heats \ {h}]
           \cup [slot : {k}, seedClass : DOMAIN classes]
           \cup [slot : {k}, rank : Seats] : k \in DOMAIN heats[h].slots}
HeatRequests ==
  [class : DOMAIN classes \cup {None}] \cup [auto : BOOLEAN]
    \cup [group : 0 .. 1]

\* on_alter_heat: the current heat is set anew once it was altered, silently.
OnAlterHeat(s, h, d) ==
  LET t == AlterHeat(s, h, d)
  IN IF t.race.heat = h THEN SetHeat(t, h) ELSE {t}

\* The page of a heat: its slots, its class, group and automation, and the
\* button that takes the plan back.
AlterOneHeat(kind) ==
  /\ Quietly(kind)
  /\ \E h \in DOMAIN heats :
       \E d \in CASE kind = "alterSlot" -> SlotRequests(h)
                  [] kind = "alterHeat" -> HeatRequests
                  [] kind = "revert" -> {[confirmed |-> FALSE]} :
         \E t \in OnAlterHeat(Now, h, d) : Become(t)

\* Activating and deactivating do not set the current heat anew.
Activate ==
  /\ Quietly("activate")
  /\ \E h \in DOMAIN heats, on \in BOOLEAN :
       Become(AlterHeat(Now, h, [active |-> on]))

InsertOneHeat ==
  /\ Quietly("addHeat")
  /\ \/ \E c \in DOMAIN classes \cup {None} :
          Become(AddHeat(Now, c, 0, FALSE, "assign"))
     \/ \E h \in DOMAIN heats :
          Become(DuplicateHeat(Now, h, heats[h].class, heats[h].group))

\* on_delete_heat drops to practice mode if the heat was the current one.
DropHeat ==
  /\ Quietly("deleteHeat")
  /\ \E h \in DOMAIN heats :
       /\ MayDelete(Now, h)
       /\ LET s == DeleteHeat(Now, h)
          IN Become(IF s.race.heat = h THEN Practice(s) ELSE s)

-----------------------------------------------------------------------------
(* Editing pilots, classes, formats and profiles                           *)

EditPilots ==
  /\ Quietly("pilots")
  /\ \/ Become(AddPilot(Now))
     \/ \E p \in pilots : Become(DeletePilot(Now, p))

ClassRequests ==
  [format : DOMAIN formats \cup {None}] \cup [rounds : 0 .. 2]
    \cup [advance : {"none", "heat", "round"}] \cup [grouped : BOOLEAN]
    \cup [order : 0 .. 1] \cup [ranking : {"results", "lastHeat"}]

EditClasses ==
  /\ Quietly("classes")
  /\ \/ BecomeRows(AddClass(Now))
     \/ \E c \in DOMAIN classes :
          \/ BecomeRows(DuplicateClass(Now, c))
          \/ \E d \in ClassRequests : BecomeRows(AlterClass(Now, c, d))
          \/ \E t \in DeleteClass(Now, c) : BecomeRows(t)
  /\ UNCHANGED tuning

EditFormats ==
  /\ Quietly("formats")
  /\ \E f \in DOMAIN formats :
          \/ Become(DuplicateFormat(Now, f))
          \/ Become(DeleteFormat(Now, f))
          \/ Become(SetFormat(Now, f))
          \/ \E points \in BOOLEAN : Become(AlterFormat(Now, f, points))

\* A preset gives the seats the frequencies of a list, or all that of the
\* first.
Presets == {[x \in Seats |-> x], [x \in Seats |-> Profile(Now).freq[1]]}

EditProfiles ==
  /\ Quietly("profiles")
  /\ \/ \E x \in Seats :
          \/ \E f \in {Off} \cup Seats : Become(SetFrequency(Now, x, f))
          \/ \E level \in {Unset} \cup 1 .. MaxLevel : Become(SetLevel(Now, x, level))
     \/ \E freq \in Presets : Become(SetAllFrequencies(Now, freq))
     \/ \E id \in DOMAIN tuning.profiles : Become(SetProfile(Now, id))
     \/ Become(AddProfile(Now))
     \/ Become(DeleteProfile(Now))

Plans(s, input) ==
  LET total == TotalPilots(s, input)
  IN {Ladder(kind, given, Cardinality(SeatsOn(s)), total, 0) :
        kind \in {"ladder", "fill"}, given \in [q : 0 .. 1, a : 0 .. 1]}
       \cup {Balanced(Cardinality(SeatsOn(s)), order, 0) :
               order \in {[k \in 1 .. total |-> k],
                          [k \in 1 .. total |-> total + 1 - k]}}

Generate ==
  /\ Quietly("generate")
  /\ \E input, output \in DOMAIN classes \cup {None} :
       \E plan \in Plans(Now, input) \ {NoPlan},
          pool \in SetToSeqs(Pool(Now, input)) :
         Become(Apply(Now, plan, input, output, pool))

-----------------------------------------------------------------------------
(* Restarts and resets                                                     *)

Forced(s) ==
  LET h == InitialHeat(s) IN SetHeat(Finalized([s EXCEPT !.option = h], h), h)

\* The race is lost with the process; the stored current heat and the
\* profile in use are not.
Restart ==
  /\ Edit("restart")
  /\ \E t \in Forced(SetProfile(
                 [Now EXCEPT !.race.flown = FALSE, !.race.heat = None,
                             !.race.pilots = NobodyUp], tuning.profile)) :
       Become(t)
  /\ dialog' = None

ResetDatabase ==
  /\ Edit("reset")
  /\ \E kind \in {"races", "heats", "classes", "pilots", "all", "formats"} :
       \E t \in Forced(Reset(Cleared(Now), kind)) : Become(t)
  /\ dialog' = None

Next ==
  \/ SetCurrentHeat \/ CalcPilots \/ ConfirmPlan \/ ConfirmHeat
  \/ Stage \/ Discard \/ Save \/ ReassignRace \/ Marshal
  \/ \E kind \in {"alterSlot", "alterHeat", "revert"} : AlterOneHeat(kind)
  \/ Activate \/ InsertOneHeat \/ DropHeat
  \/ EditPilots \/ EditClasses \/ EditFormats \/ EditProfiles \/ Generate
  \/ Restart \/ ResetDatabase

Spec == Init /\ [][Next]_vars

\* The race director goes on: he races, saves, and confirms the plan he is
\* shown.  The last two are WF_vars(Save) and WF_vars(ConfirmPlan), put in a
\* form that TLC checks without looking for such steps: each Save ends the
\* race, and each ConfirmPlan clears the dialog.
FairSpec ==
  /\ Spec /\ WF_vars(Stage)
  /\ []<>(~race.flown \/ race.heat \notin DOMAIN heats \cup {None})
  /\ []<>(dialog \notin DOMAIN heats)

-----------------------------------------------------------------------------
(* Properties                                                              *)

Ids(table) == DOMAIN table \cup {None}

\* Every reference but the seed of a slot, which may outlive its heat or
\* class, and the format of a race: what the columns of Database.py declare.
TypeOK ==
  /\ pilots = DOMAIN used /\ DOMAIN formats # {}
  /\ tuning.profile \in DOMAIN tuning.profiles
  /\ \A p \in pilots : IsInjective(used[p])
  /\ \A c \in DOMAIN classes : classes[c].format \in Ids(formats)
  /\ \A h \in DOMAIN heats :
       /\ heats[h].class \in Ids(classes)
       /\ \A k \in DOMAIN heats[h].slots :
            LET slot == heats[h].slots[k]
            IN /\ slot.pilot \in pilots \cup {None}
               /\ slot.method = "assign" => slot.pilot # None \/ slot.seed = None
  /\ \A r \in DOMAIN races :
       /\ races[r].heat \in DOMAIN heats
       /\ Range(races[r].seats) \subseteq pilots \cup {None}
       /\ \A k \in DOMAIN races[r].finish : races[r].finish[k] \in DOMAIN races[r].seats
  /\ dialog \in Nat /\ edits <= scenario.edits

\* A saved race is counted for the class its heat is in now, so that the
\* results of the class are made from it and the class cannot be deleted, and
\* the rounds of a heat are numbered 1, 2, .. in the order they were flown,
\* however heats, classes and races were moved about since.
RacesFollowHeats == RacesFollow(Now)

\* No two slots of a heat have the same seat, whatever was edited, planned,
\* seeded and given out by frequencies.
SeatsApart == \A h \in DOMAIN heats : Apart(heats[h].slots)

\* Seats are apart, and whom a heat shows on a seat is credited with what was
\* flown on it, in each of its saved races, when heats were edited and races
\* were moved.  (Only a pilot who flew without a seat may be given one later,
\* when his heat is confirmed again.)
SeatsCredited ==
  /\ SeatsApart
  /\ \A r \in DOMAIN races : \A k \in DOMAIN heats[races[r].heat].slots :
       LET slot == heats[races[r].heat].slots[k]
       IN slot.pilot # None /\ slot.seat \in DOMAIN races[r].seats
            => races[r].seats[slot.seat] = slot.pilot

\* The pilots of the slots stay, each on the seat he has; who has none may
\* get one.
SameCrew(old, new) ==
  /\ DOMAIN new = DOMAIN old
  /\ \A k \in DOMAIN old :
       new[k].pilot = old[k].pilot /\ old[k].seat \in {None, new[k].seat}

\* What ought to keep the crew of a heat.
Fixed(s, h) == s.heats[h].confirmed \/ RacesOf(s, h) # {}

\* Who flies in a heat that is confirmed or flown, and where, changes only by
\* an edit of a heat or of the pilots: not by seeding, by choosing, saving
\* or moving races, nor by what becomes of its class or of its groups, and no
\* other heat takes its number.
LockedKept ==
  [][ \A h \in DOMAIN heats \cap DOMAIN heats' :
        \/ ~Fixed(Now, h) \/ ~Fixed(Now', h)
        \/ SameCrew(heats[h].slots, heats'[h].slots)
        \/ \E kind \in {"alterSlot", "alterHeat"} : AlterOneHeat(kind)
        \/ EditPilots ]_vars

\* Each node has the frequency and the levels of the profile in use, so
\* that a race is timed as the profile says, whoever changed it last: the
\* director, another profile, or the calibration.
ProfileApplied == Applied(Now)

\* With adaptive calibration, when another heat becomes current each pilot of
\* it who has flown on his seat and its frequency before gets a level from
\* one of those races, and not from the race of somebody else.
TunedForPilot ==
  [][ tuning.adaptive /\ race'.heat \notin {None, race.heat} =>
        \A x \in SeatsOn(Now') :
          LET up == Holder(heats'[race'.heat], x)
              own == {r \in Tuned(Now', x) : races'[r].seats[x] = up}
          IN up # None /\ own # {} =>
               tuning'.nodes[x].level \in {races'[r].tuned[x].level : r \in own} ]_vars

\* The heat that is current is one of the event.
CurrentExists == race.heat \in Ids(heats)

Kept(s, slots, k) ==
  LET history == s.used[slots[k].pilot]
      home == {x \in SeatsOn(s) : Profile(s).freq[x] = Last(history)}
      rivals == {j \in DOMAIN slots \ {k} :
                   /\ slots[j].pilot # None
                   /\ Last(history) \in Range(s.used[slots[j].pilot])}
  IN history # <<>> /\ Lone(home) /\ rivals = {} => slots[k].seat \in home

\* A pilot whose last frequency is that of one seat, and who has no rival for
\* it in the heat, keeps it when the heat is planned.
KeptFrequency ==
  [][ dialog' \notin {None, dialog} =>
        \A k \in DOMAIN heats'[dialog'].slots :
          heats'[dialog'].slots[k].pilot # None
            => Kept(Now', heats'[dialog'].slots, k) ]_vars

\* The heat that is raced has nobody twice, and everybody in it has a seat
\* of his own that is on, as long as there are seats.
Seated ==
  race.flown /\ race.heat # None =>
    LET slots == heats[race.heat].slots
        up == {k \in DOMAIN slots : slots[k].pilot # None}
    IN /\ \A j, k \in up : j # k => slots[j].pilot # slots[k].pilot
       /\ Cardinality(up) <= Cardinality(SeatsOn(Now))
            => /\ \A k \in up : slots[k].seat \in SeatsOn(Now)
               /\ \A j, k \in up : j # k => slots[j].seat # slots[k].seat

\* The heats a slot is seeded from are raced before the heat of the slot.
SourcesFlown ==
  race.heat # None =>
    \A k \in DOMAIN heats[race.heat].slots :
      LET slot == heats[race.heat].slots[k]
      IN slot.method = "heat" /\ slot.seed \in DOMAIN heats
           => RacesOf(Now, slot.seed) # {}

\* All rounds of a class were flown.
Complete(s, c) ==
  /\ \A h \in ActiveHeats(s, c) : MaxRound(s, h) >= s.classes[c].rounds
  /\ Grouped(s, c) => LastGroup(s, c) + 1 >= s.classes[c].rounds

\* In a bracket of n eliminations those and only those pilots who lost fewer
\* than n heats, by finishing third or fourth, get to the last heat.
BracketFair ==
  LET bracket == Max(DOMAIN classes)
      flown == ClassRaces(Now, bracket)
      final == RacesOf(Now, Max(DOMAIN heats))
      Lost(p) == {r \in flown \ final : p \in Range(SubSeq(Finishers(Now, r), 3, N))}
      At(ids) == UNION {Range(Finishers(Now, r)) : r \in ids}
  IN scenario.knockout # 0 /\ final # {} =>
       \A p \in At(flown) :
         p \in At(final) <=> Cardinality(Lost(p)) < scenario.knockout

\* A director who only confirms and races gets through all classes.
EventFinishes ==
  scenario.requests \subseteq {"confirm"} =>
    <>(\A c \in DOMAIN classes : HeatsOf(Now, c) # {} => Complete(Now, c))
=============================================================================
