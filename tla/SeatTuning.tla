---------------------------- MODULE SeatTuning -----------------------------
(***************************************************************************)
(* Profiles, which hold a frequency and a level for each seat, the nodes   *)
(* they are sent to, and the adaptive calibration, which takes the levels  *)
(* of a seat from saved races.                                             *)
(*                                                                         *)
(* s.tuning is [profiles, profile, nodes, adaptive]: the rows, the one in  *)
(* use, what each node is set to, and the calibration mode.  A level       *)
(* stands for the enter-at and the exit-at level, which the code treats    *)
(* alike; bands and channels are left out.                                 *)
(***************************************************************************)
EXTENDS EventTables

Off == 0      \* the frequency of a seat that is not in use
Unset == 0    \* no level in a profile; from a client: the one of the node

Profile(s) == s.tuning.profiles[s.tuning.profile]
SeatsOn(s) == {x \in Seats : Profile(s).freq[x] # Off}

-----------------------------------------------------------------------------
(* Profiles                                                                *)

SetFrequency(s, x, f) ==
  [s EXCEPT !.tuning.profiles[s.tuning.profile].freq[x] = f,
            !.tuning.nodes[x].freq = f]

\* A preset gives every seat its frequency.
SetAllFrequencies(s, freq) ==
  [s EXCEPT !.tuning.profiles[s.tuning.profile].freq = freq,
            !.tuning.nodes = [x \in Seats |-> [@[x] EXCEPT !.freq = freq[x]]]]

SetLevel(s, x, level) ==
  LET l == IF level = Unset THEN s.tuning.nodes[x].level ELSE level
  IN [s EXCEPT !.tuning.profiles[s.tuning.profile].level[x] = l,
               !.tuning.nodes[x].level = l]

\* A level that the profile lacks is taken over from the node.
Completed(s, level) ==
  [x \in Seats |-> IF level[x] = Unset THEN s.tuning.nodes[x].level ELSE level[x]]
SetProfile(s, id) ==
  LET row == s.tuning.profiles[id]
      level == Completed(s, row.level)
  IN [s EXCEPT !.tuning.profile = id, !.tuning.profiles[id].level = level,
               !.tuning.nodes = [x \in Seats |-> [freq |-> row.freq[x],
                                                  level |-> level[x]]]]

AddProfile(s) ==
  LET id == NewId(s.tuning.profiles)
  IN SetProfile([s EXCEPT !.tuning.profiles = Added(@, id, Profile(s))], id)

\* A mutated form: the nodes keep what the deleted profile had.
DeleteProfileOnly(s) ==
  LET left == Without(s.tuning.profiles, s.tuning.profile)
  IN IF DOMAIN left = {} THEN s
     ELSE [s EXCEPT !.tuning.profiles = left,
                    !.tuning.profile = Min(DOMAIN left)]

\* The last profile stays.
DeleteProfile(s) ==
  LET left == Without(s.tuning.profiles, s.tuning.profile)
  IN IF DOMAIN left = {} THEN s
     ELSE SetProfile([s EXCEPT !.tuning.profiles = left], Min(DOMAIN left))

-----------------------------------------------------------------------------
(* Calibration                                                             *)

\* The saved races in which seat x had the frequency that its node has now.
Tuned(s, x) ==
  {r \in DOMAIN s.races : /\ x \in DOMAIN s.races[r].tuned
                          /\ s.races[r].tuned[x].freq = s.tuning.nodes[x].freq}

Newest(ids) == IF ids = {} THEN {} ELSE {Max(ids)}

\* A mutated form: whose race it was is not looked at.
HintsBlindly(s, x) ==
  <<Newest(RacesOf(s, s.race.heat)) \cap Tuned(s, x), Tuned(s, x)>>

\* Where the levels of seat x may come from, best first: the newest race of
\* the heat, of the class if the pilot flew it there, any race the pilot
\* flew there, any race.
Hints(s, x) ==
  LET heat == s.race.heat
      own == {r \in Tuned(s, x) : s.races[r].seats[x] = Holder(s.heats[heat], x)}
  IN <<Newest(RacesOf(s, heat)) \cap Tuned(s, x),
       Newest(ClassRaces(s, s.heats[heat].class)) \cap own,
       own, Tuned(s, x)>>

BestLevel(s, x) ==
  LET hints == Hints(s, x)
      given == {k \in DOMAIN hints : hints[k] # {}}
  IN IF \/ Holder(s.heats[s.race.heat], x) = None
        \/ s.tuning.nodes[x].freq = Off \/ given = {}
     THEN s.tuning.nodes[x].level
     ELSE s.races[Max(hints[Min(given)])].tuned[x].level

\* auto_calibrate, if the mode is adaptive and there is a current heat: the
\* seats whose best level is not that of the node get it.
WithLevels(s, best) ==
  [s EXCEPT
     !.tuning.profiles[s.tuning.profile].level =
       [x \in Seats |-> IF best[x] = s.tuning.nodes[x].level THEN @[x] ELSE best[x]],
     !.tuning.nodes = [x \in Seats |-> [@[x] EXCEPT !.level = best[x]]]]
Calibrated(s) ==
  IF ~s.tuning.adaptive \/ s.race.heat \notin DOMAIN s.heats THEN s
  ELSE WithLevels(s, [x \in Seats |-> BestLevel(s, x)])
=============================================================================
