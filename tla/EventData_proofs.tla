-------------------------- MODULE EventData_proofs --------------------------
(***************************************************************************)
(* Proofs that in every event the nodes are set as the profile in use says,*)
(* that saved races follow their heats, that no seat is given twice in a   *)
(* heat, and that a plan that ought to stay does.                          *)
(*                                                                         *)
(* ProfileSafe: most operations on the tables leave profiles and nodes     *)
(* alone (Keeps); each of the others keeps both in step (Good).            *)
(*                                                                         *)
(* RacesFollowSafe, SeatsApartSafe: most operations leave races alone and  *)
(* only add heats (Grows); each of the others keeps the tables Tidy.  What *)
(* moves races in turn, groups a class or copies one is a fold over heats  *)
(* or races; by induction over how many there are, what one turn keeps the *)
(* fold keeps (FoldHolds).                                                 *)
(*                                                                         *)
(* LockedKeptSafe: every step but an edit of a heat or of the pilots is    *)
(* Crewed: whoever is in a heat that is fixed before and after it, stays.  *)
(***************************************************************************)
EXTENDS EventData, SequenceFacts, TLAPS

\* The tables have a part with profiles and nodes, each with a value for
\* every seat, and one of the profiles is in use.
IsRow(row) ==
  /\ DOMAIN row = {"freq", "level"}
  /\ DOMAIN row.freq = Seats /\ DOMAIN row.level = Seats
IsTuning(t) ==
  /\ DOMAIN t = {"profiles", "profile", "nodes", "adaptive"}
  /\ \A id \in DOMAIN t.profiles : IsRow(t.profiles[id])
  /\ DOMAIN t.nodes = Seats
  /\ \A x \in Seats : DOMAIN t.nodes[x] = {"freq", "level"}
Sound(s) ==
  "tuning" \in DOMAIN s /\ IsTuning(s.tuning)

Good(s) ==
  Sound(s) /\ s.tuning.profile \in DOMAIN s.tuning.profiles /\ Applied(s)

\* The inductive invariant.
ProfileInv == Good(Now) /\ DOMAIN tuning.profiles \subseteq Nat

\* Profiles and nodes are left alone.
Keeps(s, t) ==
  "tuning" \in DOMAIN s => "tuning" \in DOMAIN t /\ t.tuning = s.tuning

-----------------------------------------------------------------------------
(* Operations that leave profiles and nodes alone                          *)

LEMMA KeptGood ==
  ASSUME NEW s, NEW t, Good(s), Keeps(s, t)
  PROVE  Good(t)
BY DEF Good, Sound, Keeps, Applied, Profile

LEMMA KeptTwice ==
  ASSUME NEW s, NEW t, NEW u, Keeps(s, t), Keeps(t, u)
  PROVE  Keeps(s, u)
BY DEF Keeps

LEMMA RelabelledKeeps == \A s, h : Keeps(s, Relabelled(s, h))
BY DEF Keeps, Relabelled

LEMMA InsertKeeps == \A s, row : Keeps(s, InsertHeat(s, row))
<1> SUFFICES ASSUME NEW s, NEW row PROVE Keeps(s, InsertHeat(s, row))
  OBVIOUS
<1> DEFINE id == NewId(s.heats)
           t == [s EXCEPT !.heats = Added(s.heats, id, row)]
<1>1. Keeps(s, t)
  BY DEF Keeps
<1>2. InsertHeat(s, row) = Relabelled(t, id)
  BY DEF InsertHeat
<1> QED
  BY <1>1, <1>2, RelabelledKeeps, KeptTwice

LEMMA AddHeatKeeps ==
  \A s, class, group, auto, method : Keeps(s, AddHeat(s, class, group, auto, method))
BY InsertKeeps DEF AddHeat

LEMMA DuplicateKeeps ==
  \A s, h, class, group : Keeps(s, DuplicateHeat(s, h, class, group))
BY InsertKeeps DEF DuplicateHeat

LEMMA ResolveKeeps == \A s, h : Keeps(s, ResolveSeats(s, h))
BY DEF Keeps, ResolveSeats

LEMMA PracticeKeeps == \A s : Keeps(s, Practice(s))
BY DEF Keeps, Practice

LEMMA FollowKeeps == \A s, h : Keeps(s, FollowCurrent(s, h))
<1> SUFFICES ASSUME NEW s, NEW h PROVE Keeps(s, FollowCurrent(s, h))
  OBVIOUS
<1>1. Keeps(s, s)
  BY DEF Keeps
<1>2. Keeps(s, [s EXCEPT !.race.pilots = [x \in Seats |-> Holder(s.heats[h], x)]])
  BY DEF Keeps
<1> QED
  BY <1>1, <1>2, PracticeKeeps DEF FollowCurrent

LEMMA AlterHeatKeeps == \A s, h, d : Keeps(s, AlterHeat(s, h, d))
<1> SUFFICES ASSUME NEW s, NEW h, NEW d PROVE Keeps(s, AlterHeat(s, h, d))
  OBVIOUS
<1> DEFINE t == [s EXCEPT !.heats[h] = AlteredHeat(s.heats[h], d),
                          !.races = AlteredRaces(s, h, d)]
<1>1. Keeps(s, t)
  BY DEF Keeps
<1>2. Keeps(s, Relabelled(t, h))
  BY <1>1, RelabelledKeeps, KeptTwice
<1>3. AlterHeat(s, h, d) = FollowCurrent(Relabelled(t, h), h)
  BY DEF AlterHeat
<1> QED
  BY <1>2, <1>3, FollowKeeps, KeptTwice

LEMMA DeleteHeatKeeps == \A s, h : Keeps(s, DeleteHeat(s, h))
<1> SUFFICES ASSUME NEW s, NEW h PROVE Keeps(s, DeleteHeat(s, h))
  OBVIOUS
<1> DEFINE rest == [s EXCEPT !.heats = Without(s.heats, h)]
<1>1. Keeps(s, s) /\ Keeps(s, rest)
  BY DEF Keeps
<1>2. Keeps(s, [rest EXCEPT !.race.heat = 1])
  BY DEF Keeps
<1> QED
  BY <1>1, <1>2 DEF DeleteHeat

LEMMA RemarshaledKeeps ==
  \A s, r, x, finish, level : Keeps(s, Remarshaled(s, r, x, finish, level))
BY DEF Keeps, Remarshaled

LEMMA PilotsKeep ==
  \A s, p : Keeps(s, AddPilot(s)) /\ Keeps(s, DeletePilot(s, p))
<1> SUFFICES ASSUME NEW s, NEW p
             PROVE  Keeps(s, AddPilot(s)) /\ Keeps(s, DeletePilot(s, p))
  OBVIOUS
<1>1. Keeps(s, AddPilot(s))
  BY DEF Keeps, AddPilot
<1>2. Keeps(s, DeletePilot(s, p))
  BY DEF Keeps, DeletePilot
<1> QED
  BY <1>1, <1>2

LEMMA SetFormatKeeps == \A s, f : Keeps(s, SetFormat(s, f))
BY DEF Keeps, SetFormat

LEMMA FormatsKeep ==
  \A s, f, points : /\ Keeps(s, DuplicateFormat(s, f))
                    /\ Keeps(s, AlterFormat(s, f, points))
                    /\ Keeps(s, DeleteFormat(s, f))
<1> SUFFICES ASSUME NEW s, NEW f, NEW points
             PROVE  /\ Keeps(s, DuplicateFormat(s, f))
                    /\ Keeps(s, AlterFormat(s, f, points))
                    /\ Keeps(s, DeleteFormat(s, f))
  OBVIOUS
<1>1. Keeps(s, DuplicateFormat(s, f))
  BY DEF Keeps, DuplicateFormat
<1>2. Keeps(s, s) /\ Keeps(s, [s EXCEPT !.formats[f] = points])
  BY DEF Keeps
<1>3. Keeps(s, AlterFormat(s, f, points))
  BY <1>2, SetFormatKeeps, KeptTwice DEF AlterFormat
<1>4. ASSUME NEW kept PROVE Keeps(s, [s EXCEPT !.formats = kept])
  BY DEF Keeps
<1>5. Keeps(s, DeleteFormat(s, f))
  <2> DEFINE kept == IF \E c \in DOMAIN s.classes : s.classes[c].format = f
                     THEN s.formats ELSE Without(s.formats, f)
             t == [s EXCEPT !.formats = kept]
  <2>1. Keeps(s, t)
    BY <1>4
  <2>2. \A g : Keeps(s, SetFormat(t, g))
    BY <2>1, SetFormatKeeps, KeptTwice
  <2> QED
    BY <1>2, <2>1, <2>2 DEF DeleteFormat
<1> QED
  BY <1>1, <1>3, <1>5

LEMMA ResetKeeps ==
  ASSUME NEW s, NEW kind \in {"races", "heats", "classes", "pilots", "all", "formats"}
  PROVE  Keeps(s, Reset(s, kind))
<1>1. \A t : Keeps(t, ClearRaces(t))
  BY DEF Keeps, ClearRaces
<1>2. \A t : Keeps(t, ClearHeats(t))
  BY DEF Keeps, ClearHeats
<1>3. \A t : Keeps(t, ClearClasses(t))
  BY DEF Keeps, ClearClasses
<1>4. \A t : Keeps(t, ClearPilots(t))
  BY DEF Keeps, ClearPilots
<1>5. Keeps(s, ClearHeats(ClearRaces(s)))
  BY <1>1, <1>2, KeptTwice
<1>6. Keeps(s, ClearClasses(ClearHeats(ClearRaces(s))))
  BY <1>3, <1>5, KeptTwice
<1>7. \A t : Keeps(t, StockFormats(t))
  BY DEF Keeps, StockFormats
<1>8. \A t : Keeps(t, SetFormat(t, 1))
  BY DEF Keeps, SetFormat
<1>9. Keeps(s, SetFormat(StockFormats(ClearRaces(s)), 1))
  BY <1>1, <1>7, <1>8, KeptTwice
<1> QED
  BY <1>1, <1>4, <1>5, <1>6, <1>9, KeptTwice DEF Reset

LEMMA SeededKeeps == \A s, h : Keeps(s, Seeded(s, h))
BY DEF Keeps, Seeded

LEMMA CalcHeatKeeps ==
  \A s, h, pre, lucky : \A t \in CalcHeat(s, h, pre, lucky) : Keeps(s, t)
<1> SUFFICES ASSUME NEW s, NEW h, NEW pre, NEW lucky,
                    NEW t \in CalcHeat(s, h, pre, lucky)
             PROVE  Keeps(s, t)
  OBVIOUS
<1>1. Keeps(s, s)
  BY DEF Keeps
<1>2. \A u : \A v \in AutoFrequency(u, h, pre, lucky) : Keeps(u, v)
  BY DEF Keeps, AutoFrequency
<1>3. t = s \/ t \in AutoFrequency(Seeded(s, h), h, pre, lucky)
  BY DEF CalcHeat
<1> QED
  BY <1>1, <1>2, <1>3, SeededKeeps, KeptTwice

LEMMA ApplyKeeps ==
  \A s, plan, input, output, pool : Keeps(s, Apply(s, plan, input, output, pool))
<1> SUFFICES ASSUME NEW s, NEW plan, NEW input, NEW output, NEW pool
             PROVE  Keeps(s, Apply(s, plan, input, output, pool))
  OBVIOUS
<1>1. \A t, table : Keeps(t, [t EXCEPT !.heats = table])
  BY DEF Keeps
<1>2. Keeps(s, s) /\ Keeps(s, AddClass(s))
  BY DEF Keeps, AddClass
<1> DEFINE t == IF output = None THEN AddClass(s) ELSE s
<1>3. Keeps(s, t)
  BY <1>2
<1>4. \E table : Apply(s, plan, input, output, pool) = [t EXCEPT !.heats = table]
  BY Zenon DEF Apply
<1> QED
  BY <1>1, <1>3, <1>4, KeptTwice

\* A save writes the race, and in a grouped class another heat.
LEMMA RaceSavedKeeps == \A s, h, finish : Keeps(s, RaceSaved(s, h, finish))
<1> SUFFICES ASSUME NEW s, NEW h, NEW finish PROVE Keeps(s, RaceSaved(s, h, finish))
  OBVIOUS
<1>1. \A t : Keeps(t, t) /\ Keeps(t, Cleared(t))
  BY DEF Keeps, Cleared
<1>2. \A t, row, flown : Keeps(t, [t EXCEPT !.races = Append(t.races, row), !.used = flown])
  BY DEF Keeps
<1>3. \A t : Keeps(t, Regrouped(t, h))
  BY <1>1, DuplicateKeeps DEF Regrouped
<1>4. \A t : Keeps(t, Retired(t, h))
  BY <1>1, AlterHeatKeeps DEF Retired
<1> DEFINE t == [s EXCEPT !.races = Append(s.races, SavedRace(s, h, finish)),
                          !.used = FlownOn(s, h)]
<1>5. Keeps(s, t)
  BY <1>2
<1>6. Keeps(s, Regrouped(Cleared(t), h))
  BY <1>1, <1>3, <1>5, KeptTwice
<1>7. RaceSaved(s, h, finish) = Retired(Regrouped(Cleared(t), h), h)
  BY DEF RaceSaved
<1> QED
  BY <1>4, <1>6, <1>7, KeptTwice

-----------------------------------------------------------------------------
(* Operations on profiles and nodes                                        *)

\* What Good says of a tuning part made of rows and nodes.
LEMMA GoodOf ==
  ASSUME NEW s, "tuning" \in DOMAIN s,
         DOMAIN s.tuning = {"profiles", "profile", "nodes", "adaptive"},
         s.tuning.profile \in DOMAIN s.tuning.profiles,
         \A id \in DOMAIN s.tuning.profiles : IsRow(s.tuning.profiles[id]),
         DOMAIN s.tuning.nodes = Seats,
         \A x \in Seats :
           /\ DOMAIN s.tuning.nodes[x] = {"freq", "level"}
           /\ s.tuning.nodes[x].freq = s.tuning.profiles[s.tuning.profile].freq[x]
           /\ s.tuning.profiles[s.tuning.profile].level[x]
                \in {Unset, s.tuning.nodes[x].level}
  PROVE  Good(s)
BY DEF Good, Sound, IsTuning, Applied, Profile

LEMMA SetFrequencyGood ==
  ASSUME NEW s, Good(s), NEW x \in Seats, NEW f
  PROVE  Good(SetFrequency(s, x, f))
<1> DEFINE t == SetFrequency(s, x, f)
           p == s.tuning.profile
<1>1. /\ "tuning" \in DOMAIN t
      /\ DOMAIN t.tuning = {"profiles", "profile", "nodes", "adaptive"}
      /\ t.tuning.profile = p /\ DOMAIN t.tuning.profiles = DOMAIN s.tuning.profiles
      /\ DOMAIN t.tuning.nodes = Seats
  BY ZenonT(30) DEF SetFrequency, Good, Sound, IsTuning
<1>2. /\ \A id \in DOMAIN s.tuning.profiles : id # p => t.tuning.profiles[id] = s.tuning.profiles[id]
      /\ t.tuning.profiles[p] = [s.tuning.profiles[p] EXCEPT !.freq[x] = f]
      /\ t.tuning.nodes = [s.tuning.nodes EXCEPT ![x].freq = f]
  BY ZenonT(30) DEF SetFrequency, Good, Sound, IsTuning
<1>3. /\ \A id \in DOMAIN s.tuning.profiles : IsRow(s.tuning.profiles[id])
      /\ p \in DOMAIN s.tuning.profiles
      /\ DOMAIN s.tuning.nodes = Seats
      /\ \A y \in Seats :
           /\ DOMAIN s.tuning.nodes[y] = {"freq", "level"}
           /\ s.tuning.nodes[y].freq = s.tuning.profiles[p].freq[y]
           /\ s.tuning.profiles[p].level[y] \in {Unset, s.tuning.nodes[y].level}
  BY DEF Good, Sound, IsTuning, Applied, Profile
<1> HIDE DEF t, p
<1>4. /\ IsRow(t.tuning.profiles[p])
      /\ t.tuning.profiles[p].level = s.tuning.profiles[p].level
      /\ \A y \in Seats : t.tuning.profiles[p].freq[y]
                            = IF y = x THEN f ELSE s.tuning.profiles[p].freq[y]
  BY <1>2, <1>3 DEF IsRow
<1>5. \A y \in Seats :
        /\ DOMAIN t.tuning.nodes[y] = {"freq", "level"}
        /\ t.tuning.nodes[y].freq = IF y = x THEN f ELSE s.tuning.nodes[y].freq
        /\ t.tuning.nodes[y].level = s.tuning.nodes[y].level
  BY <1>2, <1>3, SMTT(30)
<1>6. \A id \in DOMAIN t.tuning.profiles : IsRow(t.tuning.profiles[id])
  BY <1>1, <1>2, <1>3, <1>4
<1>7. \A y \in Seats :
        /\ t.tuning.nodes[y].freq = t.tuning.profiles[t.tuning.profile].freq[y]
        /\ t.tuning.profiles[t.tuning.profile].level[y] \in {Unset, t.tuning.nodes[y].level}
  BY <1>1, <1>3, <1>4, <1>5
<1>8. Good(t)
  BY <1>1, <1>3, <1>5, <1>6, <1>7, GoodOf
<1> QED
  BY <1>8 DEF t

LEMMA SetAllFrequenciesGood ==
  ASSUME NEW s, Good(s), NEW freq, DOMAIN freq = Seats
  PROVE  Good(SetAllFrequencies(s, freq))
<1> DEFINE t == SetAllFrequencies(s, freq)
           p == s.tuning.profile
<1>1. /\ "tuning" \in DOMAIN t
      /\ DOMAIN t.tuning = {"profiles", "profile", "nodes", "adaptive"}
      /\ t.tuning.profile = p /\ DOMAIN t.tuning.profiles = DOMAIN s.tuning.profiles
      /\ DOMAIN t.tuning.nodes = Seats
  BY ZenonT(30) DEF SetAllFrequencies, Good, Sound, IsTuning
<1>2. /\ \A id \in DOMAIN s.tuning.profiles : id # p => t.tuning.profiles[id] = s.tuning.profiles[id]
      /\ t.tuning.profiles[p] = [s.tuning.profiles[p] EXCEPT !.freq = freq]
      /\ \A y \in Seats : t.tuning.nodes[y] = [s.tuning.nodes[y] EXCEPT !.freq = freq[y]]
  BY ZenonT(30) DEF SetAllFrequencies, Good, Sound, IsTuning
<1>3. /\ \A id \in DOMAIN s.tuning.profiles : IsRow(s.tuning.profiles[id])
      /\ p \in DOMAIN s.tuning.profiles
      /\ DOMAIN s.tuning.nodes = Seats
      /\ \A y \in Seats :
           /\ DOMAIN s.tuning.nodes[y] = {"freq", "level"}
           /\ s.tuning.profiles[p].level[y] \in {Unset, s.tuning.nodes[y].level}
  BY DEF Good, Sound, IsTuning, Applied, Profile
<1> HIDE DEF t, p
<1>4. /\ IsRow(t.tuning.profiles[p])
      /\ t.tuning.profiles[p].level = s.tuning.profiles[p].level
      /\ t.tuning.profiles[p].freq = freq
  BY <1>2, <1>3 DEF IsRow
<1>5. \A y \in Seats :
        /\ DOMAIN t.tuning.nodes[y] = {"freq", "level"}
        /\ t.tuning.nodes[y].freq = freq[y]
        /\ t.tuning.nodes[y].level = s.tuning.nodes[y].level
  BY <1>2, <1>3, ZenonT(60)
<1>6. \A id \in DOMAIN t.tuning.profiles : IsRow(t.tuning.profiles[id])
  BY <1>1, <1>2, <1>3, <1>4
<1>7. Good(t)
  BY <1>1, <1>3, <1>4, <1>5, <1>6, GoodOf, SMTT(30)
<1> QED
  BY <1>7 DEF t

LEMMA SetLevelGood ==
  ASSUME NEW s, Good(s), NEW x \in Seats, NEW level
  PROVE  Good(SetLevel(s, x, level))
<1> DEFINE t == SetLevel(s, x, level)
           p == s.tuning.profile
           l == IF level = Unset THEN s.tuning.nodes[x].level ELSE level
<1>1. /\ "tuning" \in DOMAIN t
      /\ DOMAIN t.tuning = {"profiles", "profile", "nodes", "adaptive"}
      /\ t.tuning.profile = p /\ DOMAIN t.tuning.profiles = DOMAIN s.tuning.profiles
      /\ DOMAIN t.tuning.nodes = Seats
  BY ZenonT(30) DEF SetLevel, Good, Sound, IsTuning
<1>2. /\ \A id \in DOMAIN s.tuning.profiles : id # p => t.tuning.profiles[id] = s.tuning.profiles[id]
      /\ t.tuning.profiles[p] = [s.tuning.profiles[p] EXCEPT !.level[x] = l]
      /\ t.tuning.nodes = [s.tuning.nodes EXCEPT ![x].level = l]
  BY ZenonT(30) DEF SetLevel, Good, Sound, IsTuning
<1>3. /\ \A id \in DOMAIN s.tuning.profiles : IsRow(s.tuning.profiles[id])
      /\ p \in DOMAIN s.tuning.profiles
      /\ DOMAIN s.tuning.nodes = Seats
      /\ \A y \in Seats :
           /\ DOMAIN s.tuning.nodes[y] = {"freq", "level"}
           /\ s.tuning.nodes[y].freq = s.tuning.profiles[p].freq[y]
           /\ s.tuning.profiles[p].level[y] \in {Unset, s.tuning.nodes[y].level}
  BY DEF Good, Sound, IsTuning, Applied, Profile
<1> HIDE DEF t, p, l
<1>4. /\ IsRow(t.tuning.profiles[p])
      /\ t.tuning.profiles[p].freq = s.tuning.profiles[p].freq
      /\ \A y \in Seats : t.tuning.profiles[p].level[y]
                            = IF y = x THEN l ELSE s.tuning.profiles[p].level[y]
  BY <1>2, <1>3 DEF IsRow
<1>5. \A y \in Seats :
        /\ DOMAIN t.tuning.nodes[y] = {"freq", "level"}
        /\ t.tuning.nodes[y].freq = s.tuning.nodes[y].freq
        /\ t.tuning.nodes[y].level = IF y = x THEN l ELSE s.tuning.nodes[y].level
  BY <1>2, <1>3
<1>6. \A id \in DOMAIN t.tuning.profiles : IsRow(t.tuning.profiles[id])
  BY <1>1, <1>2, <1>3, <1>4
<1>7. \A y \in Seats :
        /\ t.tuning.nodes[y].freq = t.tuning.profiles[t.tuning.profile].freq[y]
        /\ t.tuning.profiles[t.tuning.profile].level[y] \in {Unset, t.tuning.nodes[y].level}
  BY <1>1, <1>3, <1>4, <1>5
<1>8. Good(t)
  BY <1>1, <1>3, <1>5, <1>6, <1>7, GoodOf
<1> QED
  BY <1>8 DEF t

\* A profile may be set whatever the nodes had.
LEMMA SetProfileGood ==
  ASSUME NEW s, Sound(s), NEW id \in DOMAIN s.tuning.profiles
  PROVE  Good(SetProfile(s, id))
<1> DEFINE t == SetProfile(s, id)
           row == s.tuning.profiles[id]
           level == Completed(s, row.level)
<1>1. /\ "tuning" \in DOMAIN t
      /\ DOMAIN t.tuning = {"profiles", "profile", "nodes", "adaptive"}
      /\ t.tuning.profile = id /\ DOMAIN t.tuning.profiles = DOMAIN s.tuning.profiles
      /\ DOMAIN t.tuning.nodes = Seats
  BY ZenonT(30) DEF SetProfile, Sound, IsTuning
<1>2. /\ \A i \in DOMAIN s.tuning.profiles : i # id => t.tuning.profiles[i] = s.tuning.profiles[i]
      /\ t.tuning.profiles[id] = [row EXCEPT !.level = level]
      /\ t.tuning.nodes = [x \in Seats |-> [freq |-> row.freq[x], level |-> level[x]]]
  BY ZenonT(30) DEF SetProfile, Sound, IsTuning
<1>3. \A i \in DOMAIN s.tuning.profiles : IsRow(s.tuning.profiles[i])
  BY DEF Sound, IsTuning
<1>4. DOMAIN level = Seats
  BY DEF Completed
<1> HIDE DEF t, level
<1>5. /\ IsRow(t.tuning.profiles[id])
      /\ t.tuning.profiles[id].freq = row.freq
      /\ t.tuning.profiles[id].level = level
  BY <1>2, <1>3, <1>4 DEF IsRow
<1>6. \A y \in Seats :
        /\ DOMAIN t.tuning.nodes[y] = {"freq", "level"}
        /\ t.tuning.nodes[y].freq = row.freq[y]
        /\ t.tuning.nodes[y].level = level[y]
  BY <1>2
<1>7. \A i \in DOMAIN t.tuning.profiles : IsRow(t.tuning.profiles[i])
  BY <1>1, <1>2, <1>3, <1>5
<1>8. Good(t)
  BY <1>1, <1>5, <1>6, <1>7, GoodOf
<1> QED
  BY <1>8 DEF t

LEMMA AddProfileGood ==
  ASSUME NEW s, Good(s)
  PROVE  Good(AddProfile(s))
<1> DEFINE id == NewId(s.tuning.profiles)
           t == [s EXCEPT !.tuning.profiles = Added(@, id, Profile(s))]
<1>1. /\ Sound(s) /\ IsRow(Profile(s))
  BY DEF Good, Sound, IsTuning, Profile
<1> HIDE DEF id
<1>2. /\ "tuning" \in DOMAIN t
      /\ DOMAIN t.tuning = DOMAIN s.tuning /\ t.tuning.nodes = s.tuning.nodes
      /\ t.tuning.profiles = Added(s.tuning.profiles, id, Profile(s))
  BY <1>1 DEF Sound, IsTuning
<1>3. /\ id \in DOMAIN t.tuning.profiles
      /\ \A i \in DOMAIN t.tuning.profiles : IsRow(t.tuning.profiles[i])
  BY <1>1, <1>2 DEF Added, Sound, IsTuning
<1>4. Sound(t)
  BY <1>1, <1>2, <1>3 DEF Sound, IsTuning
<1>5. AddProfile(s) = SetProfile(t, id)
  BY DEF AddProfile, id
<1> QED
  BY <1>3, <1>4, <1>5, SetProfileGood

\* The profile that is taken up when another is deleted is one that is left.
LEMMA DeleteProfileGood ==
  ASSUME NEW s, Good(s), DOMAIN s.tuning.profiles \subseteq Nat
  PROVE  Good(DeleteProfile(s))
<1> DEFINE left == Without(s.tuning.profiles, s.tuning.profile)
           t == [s EXCEPT !.tuning.profiles = left]
<1>1. CASE DOMAIN left = {}
  BY <1>1 DEF DeleteProfile
<1>2. CASE DOMAIN left # {}
  <2>1. DOMAIN left \subseteq DOMAIN s.tuning.profiles
    BY DEF Without
  <2>2. Min(DOMAIN left) \in DOMAIN left
    BY <1>2, <2>1, MinOfSome
  <2>3. \A i \in DOMAIN left : IsRow(left[i])
    BY DEF Without, Good, Sound, IsTuning
  <2> HIDE DEF left
  <2>4. /\ "tuning" \in DOMAIN t
        /\ DOMAIN t.tuning = DOMAIN s.tuning /\ t.tuning.nodes = s.tuning.nodes
        /\ t.tuning.profiles = left
    BY DEF Good, Sound, IsTuning
  <2>5. Sound(t)
    BY <2>3, <2>4 DEF Good, Sound, IsTuning
  <2>6. DeleteProfile(s) = SetProfile(t, Min(DOMAIN left))
    BY <1>2, SMTT(30) DEF DeleteProfile, left
  <2> QED
    BY <2>2, <2>4, <2>5, <2>6, SetProfileGood
<1> QED
  BY <1>1, <1>2

\* The calibration gives node and profile the same level, if it gives one.
LEMMA WithLevelsGood ==
  ASSUME NEW s, Good(s), NEW best, DOMAIN best = Seats
  PROVE  Good(WithLevels(s, best))
<1> DEFINE t == WithLevels(s, best)
           p == s.tuning.profile
<1>1. /\ "tuning" \in DOMAIN t
      /\ DOMAIN t.tuning = {"profiles", "profile", "nodes", "adaptive"}
      /\ t.tuning.profile = p /\ DOMAIN t.tuning.profiles = DOMAIN s.tuning.profiles
      /\ DOMAIN t.tuning.nodes = Seats
  BY ZenonT(30) DEF WithLevels, Good, Sound, IsTuning
<1>2. /\ \A id \in DOMAIN s.tuning.profiles : id # p => t.tuning.profiles[id] = s.tuning.profiles[id]
      /\ t.tuning.profiles[p] =
           [s.tuning.profiles[p] EXCEPT !.level =
              [x \in Seats |-> IF best[x] = s.tuning.nodes[x].level
                               THEN s.tuning.profiles[p].level[x] ELSE best[x]]]
      /\ \A y \in Seats : t.tuning.nodes[y] = [s.tuning.nodes[y] EXCEPT !.level = best[y]]
  BY ZenonT(30) DEF WithLevels, Good, Sound, IsTuning, IsRow
<1>3. /\ \A id \in DOMAIN s.tuning.profiles : IsRow(s.tuning.profiles[id])
      /\ p \in DOMAIN s.tuning.profiles
      /\ DOMAIN s.tuning.nodes = Seats
      /\ \A y \in Seats :
           /\ DOMAIN s.tuning.nodes[y] = {"freq", "level"}
           /\ s.tuning.nodes[y].freq = s.tuning.profiles[p].freq[y]
           /\ s.tuning.profiles[p].level[y] \in {Unset, s.tuning.nodes[y].level}
  BY SMTT(30) DEF Good, Sound, IsTuning, Applied, Profile
<1> HIDE DEF t, p
<1>4. /\ IsRow(t.tuning.profiles[p])
      /\ t.tuning.profiles[p].freq = s.tuning.profiles[p].freq
      /\ \A y \in Seats : t.tuning.profiles[p].level[y]
                            = IF best[y] = s.tuning.nodes[y].level
                              THEN s.tuning.profiles[p].level[y] ELSE best[y]
  BY <1>2, <1>3 DEF IsRow
<1>5. \A y \in Seats :
        /\ DOMAIN t.tuning.nodes[y] = {"freq", "level"}
        /\ t.tuning.nodes[y].freq = s.tuning.nodes[y].freq
        /\ t.tuning.nodes[y].level = best[y]
  BY <1>2, <1>3, ZenonT(60)
<1>6. \A id \in DOMAIN t.tuning.profiles : IsRow(t.tuning.profiles[id])
  BY <1>1, <1>2, <1>3, <1>4
<1>7. \A y \in Seats :
        /\ t.tuning.nodes[y].freq = t.tuning.profiles[t.tuning.profile].freq[y]
        /\ t.tuning.profiles[t.tuning.profile].level[y] \in {Unset, t.tuning.nodes[y].level}
  BY <1>1, <1>3, <1>4, <1>5
<1>8. Good(t)
  BY <1>1, <1>3, <1>5, <1>6, <1>7, GoodOf
<1> QED
  BY <1>8 DEF t

LEMMA CalibratedGood ==
  ASSUME NEW s, Good(s)
  PROVE  Good(Calibrated(s))
<1>1. Good(WithLevels(s, [x \in Seats |-> BestLevel(s, x)]))
  BY WithLevelsGood
<1> QED
  BY <1>1 DEF Calibrated

-----------------------------------------------------------------------------
(* Choosing a heat                                                         *)

LEMMA FinalizedGood ==
  ASSUME NEW s, NEW h, Good(s)
  PROVE  Good(Finalized(s, h))
<1>1. Good(Practice(s))
  BY PracticeKeeps, KeptGood
<1> DEFINE format == FormatOfClass(s, s.heats[h].class, None)
           t == [s EXCEPT !.option = h,
             !.race = [@ EXCEPT
               !.heat = h,
               !.pilots = [x \in Seats |-> Holder(s.heats[h], x)],
               !.format = IF format = None THEN s.race.format ELSE format]]
<1>2. Keeps(s, t)
  BY DEF Keeps
<1>3. Good(Calibrated(t))
  BY <1>2, KeptGood, CalibratedGood
<1> QED
  BY <1>1, <1>3 DEF Finalized

LEMMA SetHeatGood ==
  ASSUME NEW s, NEW h, Good(s), NEW t \in SetHeat(s, h)
  PROVE  Good(t)
<1>1. ASSUME NEW u, Good(u), NEW v \in Taken(u, h)
      PROVE  Good(v)
  <2>1. PICK w \in CalcHeat(u, h, <<>>, scenario.lucky) :
          v = CASE Verdict(u, h) = "safe" -> Finalized(w, h)
                [] Verdict(u, h) = "no-heat" -> Practice(w)
                [] OTHER -> w
    BY <1>1 DEF Taken
  <2>2. Good(w)
    BY <1>1, CalcHeatKeeps, KeptGood
  <2>3. Good(Finalized(w, h)) /\ Good(Practice(w))
    BY <2>2, FinalizedGood, PracticeKeeps, KeptGood
  <2> QED
    BY <2>1, <2>2, <2>3
<1>2. Good(Practice(s))
  BY PracticeKeeps, KeptGood
<1> QED
  BY <1>1, <1>2 DEF SetHeat

-----------------------------------------------------------------------------
(* The steps                                                               *)

\* What is left when the tables become good ones.
LEMMA Became ==
  ASSUME NEW t, Good(t), Become(t)
  PROVE  ProfileInv'
<1>1. tuning' = t.tuning /\ DOMAIN t.tuning.profiles \subseteq Nat
  BY ScenariosAssumption DEF Become
<1>2. Now'.tuning = tuning' /\ "tuning" \in DOMAIN Now'
  BY DEF Now
<1>3. Keeps(t, Now')
  BY <1>1, <1>2 DEF Keeps
<1>4. Good(Now')
  BY <1>3, KeptGood
<1> QED
  BY <1>1, <1>4 DEF ProfileInv

LEMMA BecameKept ==
  ASSUME NEW t, Good(Now), Keeps(Now, t), Become(t)
  PROVE  ProfileInv'
BY KeptGood, Became

\* The profiles stay as they are.
LEMMA StayedGood ==
  ASSUME ProfileInv, UNCHANGED tuning
  PROVE  ProfileInv'
<1>1. Now.tuning = tuning /\ Now'.tuning = tuning' /\ "tuning" \in DOMAIN Now'
  BY DEF Now
<1>2. Keeps(Now, Now')
  BY <1>1 DEF Keeps
<1>3. Good(Now')
  BY <1>2, KeptGood DEF ProfileInv
<1> QED
  BY <1>3 DEF ProfileInv

LEMMA NowTuning == Now.tuning = tuning
BY DEF Now

\* Choosing a heat, making and confirming plans.
LEMMA PlanSteps ==
  ASSUME ProfileInv, SetCurrentHeat \/ CalcPilots \/ ConfirmPlan \/ ConfirmHeat
  PROVE  ProfileInv'
<1>1. Good(Now)
  BY DEF ProfileInv
<1>2. CASE SetCurrentHeat
  <2>1. PICK h, t : t \in SetHeat(Now, h) /\ Become(t)
    BY <1>2 DEF SetCurrentHeat
  <2> QED
    BY <1>1, <2>1, SetHeatGood, Became
<1>3. CASE CalcPilots
  <2>1. PICK h, pre, t : t \in CalcHeat(Now, h, pre, scenario.lucky) /\ Become(t)
    BY <1>3 DEF CalcPilots
  <2> QED
    BY <1>1, <2>1, CalcHeatKeeps, BecameKept
<1>4. \A h : Keeps(Now, Confirmed(Now, h))
  BY AlterHeatKeeps, ResolveKeeps, KeptTwice DEF Confirmed
<1>5. CASE ConfirmPlan
  <2>1. PICK s : /\ s = Confirmed(Now, dialog)
                 /\ IF race.flown THEN Become(s)
                    ELSE \E t \in UNION {SetHeat(u, dialog) : u \in {Finalized(s, dialog)}} :
                           Become(t)
    BY <1>5 DEF ConfirmPlan
  <2>2. Good(s)
    BY <1>1, <1>4, <2>1, KeptGood
  <2>3. CASE race.flown
    BY <2>1, <2>2, <2>3, Became
  <2>4. CASE ~race.flown
    <3>1. PICK t : t \in SetHeat(Finalized(s, dialog), dialog) /\ Become(t)
      BY <2>1, <2>4
    <3>2. Good(Finalized(s, dialog))
      BY <2>2, FinalizedGood
    <3> QED
      BY <3>1, <3>2, SetHeatGood, Became
  <2> QED
    BY <2>3, <2>4
<1>6. CASE ConfirmHeat
  <2>1. PICK h : Become(Confirmed(Now, h))
    BY <1>6 DEF ConfirmHeat
  <2> QED
    BY <1>1, <1>4, <2>1, BecameKept
<1> QED
  BY <1>2, <1>3, <1>5, <1>6

\* Racing, saving, marshaling.
LEMMA RaceSteps ==
  ASSUME ProfileInv, Stage \/ Discard \/ Save \/ ReassignRace \/ Marshal
  PROVE  ProfileInv'
<1>1. Good(Now)
  BY DEF ProfileInv
<1>2. Keeps(Now, [Now EXCEPT !.race.flown = TRUE]) /\ Keeps(Now, Cleared(Now))
  BY DEF Keeps, Cleared
<1>3. CASE Stage
  BY <1>1, <1>2, <1>3, BecameKept DEF Stage
<1>4. CASE Discard
  BY <1>1, <1>2, <1>4, BecameKept DEF Discard
<1>5. CASE Save
  <2>1. CASE Become(Cleared(Now))
    BY <1>1, <1>2, <2>1, BecameKept
  <2>2. CASE ~Become(Cleared(Now))
    <3>1. PICK finish \in Finishes(Now, race.heat) :
            \E s \in {RaceSaved(Now, race.heat, finish)} :
              Become(s) \/ \E next : \E t \in SetHeat(s, next) : Become(t)
      BY <1>5, <2>2 DEF Save
    <3>2. PICK s : /\ s = RaceSaved(Now, race.heat, finish)
                   /\ Become(s) \/ \E next : \E t \in SetHeat(s, next) : Become(t)
      BY <3>1
    <3>3. Good(s)
      BY <1>1, <3>2, RaceSavedKeeps, KeptGood
    <3> QED
      BY <3>2, <3>3, SetHeatGood, Became
  <2> QED
    BY <2>1, <2>2
<1>6. CASE ReassignRace
  BY <1>6, StayedGood DEF ReassignRace
<1>7. CASE Marshal
  <2>1. PICK r, x, finish, level : Become(Calibrated(Remarshaled(Now, r, x, finish, level)))
    BY <1>7 DEF Marshal
  <2>2. Good(Calibrated(Remarshaled(Now, r, x, finish, level)))
    BY <1>1, RemarshaledKeeps, KeptGood, CalibratedGood
  <2> QED
    BY <2>1, <2>2, Became
<1> QED
  BY <1>3, <1>4, <1>5, <1>6, <1>7

\* Editing heats.
LEMMA HeatSteps ==
  ASSUME ProfileInv,
         \/ \E kind \in {"alterSlot", "alterHeat", "revert"} : AlterOneHeat(kind)
         \/ Activate \/ InsertOneHeat \/ DropHeat
  PROVE  ProfileInv'
<1>1. Good(Now)
  BY DEF ProfileInv
<1>2. ASSUME NEW kind, AlterOneHeat(kind)
      PROVE  ProfileInv'
  <2>1. PICK h, d, t : t \in OnAlterHeat(Now, h, d) /\ Become(t)
    BY <1>2 DEF AlterOneHeat
  <2>2. Good(AlterHeat(Now, h, d))
    BY <1>1, AlterHeatKeeps, KeptGood
  <2>3. Good(t)
    BY <2>1, <2>2, SetHeatGood DEF OnAlterHeat
  <2> QED
    BY <2>1, <2>3, Became
<1>3. CASE Activate
  BY <1>1, <1>3, AlterHeatKeeps, BecameKept DEF Activate
<1>4. CASE InsertOneHeat
  BY <1>1, <1>4, AddHeatKeeps, DuplicateKeeps, BecameKept DEF InsertOneHeat
<1>5. CASE DropHeat
  <2>1. PICK h : Become(IF DeleteHeat(Now, h).race.heat = h
                        THEN Practice(DeleteHeat(Now, h)) ELSE DeleteHeat(Now, h))
    BY <1>5 DEF DropHeat
  <2>2. Good(DeleteHeat(Now, h))
    BY <1>1, DeleteHeatKeeps, KeptGood
  <2>3. Good(Practice(DeleteHeat(Now, h)))
    BY <2>2, PracticeKeeps, KeptGood
  <2> QED
    BY <2>1, <2>2, <2>3, Became
<1> QED
  BY <1>2, <1>3, <1>4, <1>5

\* Editing the other tables.
LEMMA TableSteps ==
  ASSUME ProfileInv, EditPilots \/ EditClasses \/ EditFormats \/ EditProfiles \/ Generate
  PROVE  ProfileInv'
<1>1. Good(Now)
  BY DEF ProfileInv
<1>2. CASE EditPilots
  BY <1>1, <1>2, PilotsKeep, BecameKept DEF EditPilots
<1>3. CASE EditClasses
  BY <1>3, StayedGood DEF EditClasses
<1>4. CASE EditFormats
  BY <1>1, <1>4, FormatsKeep, SetFormatKeeps, BecameKept DEF EditFormats
<1>5. CASE EditProfiles
  <2>1. PICK s : s = Now
    OBVIOUS
  <2>2. Good(s) /\ DOMAIN s.tuning.profiles \subseteq Nat
    BY <1>1, <2>1, NowTuning DEF ProfileInv
  <2>3. ASSUME NEW x \in Seats, NEW f, Become(SetFrequency(s, x, f))
        PROVE  ProfileInv'
    BY <2>2, <2>3, SetFrequencyGood, Became
  <2>4. ASSUME NEW x \in Seats, NEW level, Become(SetLevel(s, x, level))
        PROVE  ProfileInv'
    BY <2>2, <2>4, SetLevelGood, Became
  <2>5. ASSUME NEW freq \in Presets, Become(SetAllFrequencies(s, freq))
        PROVE  ProfileInv'
    <3>1. DOMAIN freq = Seats
      BY <2>5 DEF Presets
    <3> QED
      BY <2>2, <2>5, <3>1, SetAllFrequenciesGood, Became
  <2>6. ASSUME NEW id \in DOMAIN tuning.profiles, Become(SetProfile(s, id))
        PROVE  ProfileInv'
    <3>1. id \in DOMAIN s.tuning.profiles /\ Sound(s)
      BY <2>1, <2>2, <2>6, NowTuning DEF Good
    <3> QED
      BY <2>6, <3>1, SetProfileGood, Became
  <2>7. CASE Become(AddProfile(s))
    BY <2>2, <2>7, AddProfileGood, Became
  <2>8. CASE Become(DeleteProfile(s))
    BY <2>2, <2>8, DeleteProfileGood, Became
  <2> QED
    BY <1>5, <2>1, <2>3, <2>4, <2>5, <2>6, <2>7, <2>8 DEF EditProfiles
<1>6. CASE Generate
  <2>1. PICK plan, input, output, pool : Become(Apply(Now, plan, input, output, pool))
    BY <1>6 DEF Generate
  <2> QED
    BY <1>1, <2>1, ApplyKeeps, BecameKept
<1> QED
  BY <1>2, <1>3, <1>4, <1>5, <1>6

LEMMA ForcedGood ==
  ASSUME NEW s, Good(s), NEW t \in Forced(s)
  PROVE  Good(t)
<1> DEFINE h == InitialHeat(s)
           u == [s EXCEPT !.option = h]
<1>1. Keeps(s, u)
  BY DEF Keeps
<1>2. Good(Finalized(u, h))
  BY <1>1, KeptGood, FinalizedGood
<1>3. t \in SetHeat(Finalized(u, h), h)
  BY DEF Forced
<1> QED
  BY <1>2, <1>3, SetHeatGood

\* A restarted server sends the profile in use again.
LEMMA StartSteps ==
  ASSUME ProfileInv, Restart \/ ResetDatabase
  PROVE  ProfileInv'
<1>1. Good(Now)
  BY DEF ProfileInv
<1>2. CASE Restart
  <2> DEFINE s == [Now EXCEPT !.race.flown = FALSE, !.race.heat = None,
                              !.race.pilots = NobodyUp]
  <2>1. PICK t : t \in Forced(SetProfile(s, tuning.profile)) /\ Become(t)
    BY <1>2 DEF Restart
  <2>2. Keeps(Now, s)
    BY DEF Keeps
  <2>3. Good(s)
    BY <1>1, <2>2, KeptGood
  <2>4. s.tuning = tuning
    BY DEF Now
  <2>5. tuning.profile \in DOMAIN s.tuning.profiles /\ Sound(s)
    BY <2>3, <2>4 DEF Good
  <2>6. Good(SetProfile(s, tuning.profile))
    BY <2>5, SetProfileGood
  <2> QED
    BY <2>1, <2>6, ForcedGood, Became
<1>3. CASE ResetDatabase
  <2>1. PICK kind \in {"races", "heats", "classes", "pilots", "all", "formats"} :
          \E t \in Forced(Reset(Cleared(Now), kind)) : Become(t)
    BY <1>3 DEF ResetDatabase
  <2>2. Good(Cleared(Now))
    <3>1. Keeps(Now, Cleared(Now))
      BY DEF Keeps, Cleared
    <3> QED
      BY <1>1, <3>1, KeptGood
  <2>3. Good(Reset(Cleared(Now), kind))
    BY <2>2, ResetKeeps, KeptGood
  <2> QED
    BY <2>1, <2>3, ForcedGood, Became
<1> QED
  BY <1>2, <1>3

LEMMA ProfileStart ==
  ASSUME Init
  PROVE  ProfileInv
<1>1. PICK e : scenario \in Scenarios /\ e = scenario.event /\ tuning = e.tuning
  BY DEF Init
<1>2. /\ MaxProfiles \in Nat /\ Applied(e)
      /\ DOMAIN e.tuning = {"profiles", "profile", "nodes", "adaptive"}
      /\ DOMAIN e.tuning.profiles \subseteq 1 .. MaxProfiles
      /\ e.tuning.profile \in DOMAIN e.tuning.profiles
      /\ \A id \in DOMAIN e.tuning.profiles :
           e.tuning.profiles[id] \in [freq : [Seats -> Nat], level : [Seats -> Nat]]
      /\ e.tuning.nodes \in [Seats -> [freq : Nat, level : Nat]]
  BY <1>1, ScenariosAssumption
<1>3. IsTuning(e.tuning)
  BY <1>2 DEF IsTuning, IsRow
<1>4. Now.tuning = e.tuning /\ "tuning" \in DOMAIN Now
  BY <1>1, SMTT(30) DEF Now
<1>5. Good(Now)
  BY <1>2, <1>3, <1>4 DEF Good, Sound, Applied, Profile
<1> QED
  BY <1>1, <1>2, <1>5 DEF ProfileInv

\* Each node has the frequency and the levels of the profile in use, in every
\* event and whoever changed the profile or the levels last.
THEOREM ProfileSafe == Spec => []ProfileApplied
<1>1. Init => ProfileInv
  BY ProfileStart
<1>2. ProfileInv /\ [Next]_vars => ProfileInv'
  <2> SUFFICES ASSUME ProfileInv, [Next]_vars PROVE ProfileInv'
    OBVIOUS
  <2>1. CASE UNCHANGED vars
    BY <2>1, StayedGood DEF vars, tables
  <2>2. CASE Next
    BY <2>2, PlanSteps, RaceSteps, HeatSteps, TableSteps, StartSteps DEF Next
  <2> QED
    BY <2>1, <2>2
<1>3. ProfileInv => ProfileApplied
  BY DEF ProfileInv, Good, ProfileApplied
<1> QED
  BY <1>1, <1>2, <1>3, PTL DEF Spec
-----------------------------------------------------------------------------
(* The seats of slots                                                      *)

LEMMA FirstNumbers ==
  ASSUME NEW n \in Nat
  PROVE  IsFiniteSet(1 .. n) /\ Cardinality(1 .. n) = n
<1>1. /\ IsFiniteSet(1 .. n)
      /\ Cardinality(1 .. n) = IF 1 > n THEN 0 ELSE n - 1 + 1
  BY FS_Interval
<1> QED
  BY <1>1

LEMMA UpToIs ==
  ASSUME NEW set \in SUBSET Nat, IsFiniteSet(set), NEW x \in set
  PROVE  /\ UpTo(set, x) \in 1 .. Cardinality(set)
         /\ \A y \in set : x < y => UpTo(set, x) < UpTo(set, y)
<1> DEFINE Low(y) == {z \in set : z <= y}
<1>1. \A y \in set : /\ IsFiniteSet(Low(y)) /\ Cardinality(Low(y)) \in Nat
                     /\ Cardinality(Low(y)) <= Cardinality(set)
  BY FS_Subset, FS_CardinalityType
<1>2. Cardinality(set) \in Nat
  BY FS_CardinalityType
<1>3. Cardinality(Low(x)) # 0
  <2>1. Low(x) # {}
    BY x <= x
  <2> QED
    BY <1>1, <2>1, FS_EmptySet
<1>4. ASSUME NEW y \in set, x < y PROVE Cardinality(Low(x)) < Cardinality(Low(y))
  <2>1. Low(x) \subseteq Low(y) /\ y \in Low(y) /\ y \notin Low(x)
    <3>1. ASSUME NEW z \in Nat, z <= x PROVE z <= y
      BY <1>4, <3>1
    <3>2. ~(y <= x) /\ y <= y
      BY <1>4
    <3> QED
      BY <3>1, <3>2, Zenon
  <2>2. Low(x) \in SUBSET Low(y) /\ Low(x) # Low(y)
    BY <2>1
  <2>3. PICK A, B : A = Low(x) /\ B = Low(y)
    OBVIOUS
  <2>4. IsFiniteSet(B) /\ A \in SUBSET B /\ A # B
    BY <1>1, <2>2, <2>3
  <2>5. Cardinality(A) <= Cardinality(B) /\ Cardinality(A) # Cardinality(B)
    BY <2>4, FS_Subset
  <2> QED
    BY <1>1, <2>3, <2>5
<1>5. \A y : UpTo(set, y) = Cardinality(Low(y))
  BY DEF UpTo
<1> HIDE DEF Low
<1> QED
  BY <1>1, <1>2, <1>3, <1>4, <1>5

LEMMA NthIs ==
  ASSUME NEW set \in SUBSET Nat, IsFiniteSet(set), NEW n \in 1 .. Cardinality(set)
  PROVE  Nth(set, n) \in set /\ UpTo(set, Nth(set, n)) = n
<1> DEFINE T == {m \in Nat : m < Cardinality(set) => \E x \in set : UpTo(set, x) = m + 1}
<1>1. Cardinality(set) \in Nat /\ set # {}
  BY FS_CardinalityType, FS_EmptySet
<1>2. 0 \in T
  <2>1. Min(set) \in set /\ \A y \in set : Min(set) <= y
    BY <1>1, MinOfSome
  <2>2. PICK x \in set : \A y \in set : x <= y
    BY <2>1
  <2>3. {y \in set : y <= x} = {x}
    <3>1. ASSUME NEW y \in set PROVE y <= x <=> y = x
      BY <2>2
    <3> QED
      BY <3>1, Zenon
  <2>4. UpTo(set, x) = 1
    BY <2>3, FS_Singleton, Zenon DEF UpTo
  <2> QED
    BY <2>4
<1>3. ASSUME NEW m \in Nat, m \in T PROVE m + 1 \in T
  <2> SUFFICES ASSUME m + 1 < Cardinality(set)
               PROVE  \E x \in set : UpTo(set, x) = (m + 1) + 1
    OBVIOUS
  <2>1. PICK x \in set : UpTo(set, x) = m + 1
    BY <1>1, <1>3
  <2> DEFINE Low == {y \in set : y <= x}
  <2>2. IsFiniteSet(Low) /\ Cardinality(Low) = m + 1 /\ Low \subseteq set
    BY <2>1, FS_Subset DEF UpTo
  <2>3. PICK z \in set : z \notin Low /\ \A y \in set \ Low : z <= y
    <3>1. set \ Low # {}
      BY <1>1, <2>2
    <3>2. set \ Low \in SUBSET Nat
      OBVIOUS
    <3> HIDE DEF Low
    <3> QED
      BY <3>1, <3>2, MinOfSome
  <2>4. {y \in set : y <= z} = Low \cup {z}
    <3>1. ~(z <= x)
      BY <2>3
    <3>2. ASSUME NEW y \in set PROVE y <= z <=> y \in Low \/ y = z
      <4>1. CASE y <= x
        BY <3>1, <4>1
      <4>2. CASE ~(y <= x)
        <5>1. z <= y
          BY <2>3, <4>2
        <5>2. y <= z <=> y = z
          BY <5>1
        <5> QED
          BY <4>2, <5>2
      <4> QED
        BY <4>1, <4>2
    <3> QED
      BY <3>2, Zenon
  <2> HIDE DEF Low
  <2>5. Cardinality(Low \cup {z}) = (m + 1) + 1
    BY <2>2, <2>3, FS_AddElement
  <2> QED
    BY <2>4, <2>5 DEF UpTo
<1> HIDE DEF T
<1>4. Nat \subseteq T
  BY <1>2, <1>3, NumbersAll
<1>5. n - 1 \in T
  BY <1>1, <1>4
<1>6. \E x \in set : UpTo(set, x) = n
  BY <1>1, <1>5 DEF T
<1> QED
  BY <1>6 DEF Nth

\* The slots of a heat: each has a seat, or None, and no two the same.
SlotTable(slots) ==
  /\ \E S : slots \in Seq(S)
  /\ \A k \in DOMAIN slots :
       {"seat", "pilot"} \subseteq DOMAIN slots[k] /\ slots[k].seat \in Nat

LEMMA TableMapped ==
  ASSUME NEW q, \E S : q \in Seq(S), NEW f, f = [r \in DOMAIN q |-> f[r]]
  PROVE  \E S : f \in Seq(S)
<1>1. Len(q) \in Nat /\ DOMAIN q = 1 .. Len(q)
  OBVIOUS
<1> DEFINE S == {f[r] : r \in 1 .. Len(q)}
<1>2. f \in [1 .. Len(q) -> S]
  BY <1>1
<1>3. f \in Seq(S)
  BY <1>1, <1>2
<1> QED
  BY <1>3

\* A slot without a seat gets one that no other slot has.
LEMMA ResolvedApart ==
  ASSUME NEW slots, SlotTable(slots), Apart(slots)
  PROVE  SlotTable(Resolved(slots)) /\ Apart(Resolved(slots))
<1> DEFINE bare == {k \in DOMAIN slots : slots[k].seat = None}
           given == {slots[k].seat : k \in DOMAIN slots}
           free == (1 .. Len(slots) + N) \ given
           placed == DOMAIN slots \ bare
           t == [k \in DOMAIN slots |->
                   IF k \in bare THEN [slots[k] EXCEPT !.seat = Nth(free, UpTo(bare, k))]
                   ELSE slots[k]]
<1>1. Resolved(slots) = t
  BY DEF Resolved
<1>2. Len(slots) \in Nat /\ DOMAIN slots = 1 .. Len(slots) /\ N \in Nat
  BY NAssumption DEF SlotTable
<1>3. \A k \in DOMAIN slots : /\ {"seat", "pilot"} \subseteq DOMAIN slots[k]
                             /\ slots[k].seat \in Nat
  BY DEF SlotTable
<1>4. PICK n \in Nat : n = Len(slots)
  BY <1>2
<1>5. DOMAIN slots = 1 .. n /\ IsFiniteSet(1 .. n) /\ Cardinality(1 .. n) = n
  BY <1>2, <1>4, FirstNumbers
<1>6. /\ IsFiniteSet(bare) /\ bare \in SUBSET Nat /\ IsFiniteSet(placed)
      /\ Cardinality(bare) \in Nat /\ Cardinality(placed) \in Nat
      /\ Cardinality(placed) = n - Cardinality(bare)
  <2>1. bare \subseteq 1 .. n /\ placed = (1 .. n) \ bare
    BY <1>5
  <2> HIDE DEF bare, placed
  <2>2. IsFiniteSet(bare) /\ IsFiniteSet(placed)
    BY <1>5, <2>1, FS_Subset
  <2>3. (1 .. n) \cap bare = bare
    BY <2>1
  <2>4. Cardinality(placed) = n - Cardinality(bare)
    <3>1. Cardinality((1 .. n) \ bare) = Cardinality(1 .. n) - Cardinality((1 .. n) \cap bare)
      BY <1>5, FS_Difference
    <3> QED
      BY <1>5, <2>1, <2>3, <3>1
  <2> QED
    BY <2>1, <2>2, <2>4, FS_CardinalityType
<1>7. /\ IsFiniteSet(free) /\ free \in SUBSET Nat /\ Cardinality(free) \in Nat
      /\ Cardinality(bare) <= Cardinality(free)
  <2> DEFINE all == 1 .. n + N
             f == [k \in placed |-> slots[k].seat]
             taken == {f[k] : k \in placed}
  <2>1. IsFiniteSet(all) /\ Cardinality(all) = n + N /\ all \subseteq Nat
    BY <1>2, FirstNumbers
  <2>2. f \in Surjection(placed, taken)
    BY DEF Surjection
  <2>3. IsFiniteSet(taken) /\ Cardinality(taken) <= Cardinality(placed)
    <3> HIDE DEF f, taken, placed
    <3> QED
      BY <1>6, <2>2, FS_Surjection
  <2>4. given \subseteq taken \cup {None}
    BY DEF None
  <2>5. free = all \ taken
    <3>1. \A x \in all : x \in given <=> x \in taken
      <4>1. taken \subseteq given
        OBVIOUS
      <4>2. None \notin all
        BY <1>2 DEF None
      <4> QED
        BY <2>4, <4>1, <4>2
    <3>2. free = all \ given
      BY <1>4
    <3> QED
      BY <3>1, <3>2
  <2> HIDE DEF all, taken, free, placed, bare
  <2>6. /\ IsFiniteSet(all \cap taken) /\ Cardinality(all \cap taken) \in Nat
        /\ Cardinality(all \cap taken) <= Cardinality(taken)
    BY <2>3, FS_Subset, FS_CardinalityType
  <2>7. IsFiniteSet(free) /\ Cardinality(free) = n + N - Cardinality(all \cap taken)
    <3>1. PICK rest, both : rest = all \ taken /\ both = all \cap taken
      OBVIOUS
    <3>2. IsFiniteSet(rest) /\ Cardinality(rest) = Cardinality(all) - Cardinality(both)
      BY <2>1, <3>1, FS_Difference
    <3>3. free = rest
      BY <2>5, <3>1
    <3> QED
      BY <1>2, <2>1, <2>6, <3>1, <3>2, <3>3
  <2>8. Cardinality(free) \in Nat /\ free \subseteq Nat
    BY <2>1, <2>5, <2>7, FS_CardinalityType
  <2>9. Cardinality(taken) \in Nat
    BY <2>3, FS_CardinalityType
  <2> QED
    BY <1>2, <1>6, <2>3, <2>6, <2>7, <2>8, <2>9
<1>8. ASSUME NEW k \in bare
      PROVE  /\ UpTo(bare, k) \in 1 .. Cardinality(bare)
             /\ t[k].seat \in free /\ UpTo(free, t[k].seat) = UpTo(bare, k)
             /\ DOMAIN t[k] = DOMAIN slots[k]
  <2>1. k \in DOMAIN slots
    OBVIOUS
  <2>2. /\ t[k].seat = Nth(free, UpTo(bare, k)) /\ DOMAIN t[k] = DOMAIN slots[k]
    <3>1. "seat" \in DOMAIN slots[k]
      BY <1>3, <2>1
    <3> HIDE DEF free, bare
    <3> QED
      BY <2>1, <1>8, <3>1
  <2> HIDE DEF free, bare, t
  <2>3. UpTo(bare, k) \in 1 .. Cardinality(bare)
    BY <1>6, UpToIs
  <2>4. UpTo(bare, k) \in 1 .. Cardinality(free)
    BY <1>6, <1>7, <2>3
  <2> QED
    BY <1>7, <2>2, <2>3, <2>4, NthIs
<1>9. \A k \in DOMAIN slots : k \notin bare => t[k] = slots[k]
  OBVIOUS
<1>10. DOMAIN t = DOMAIN slots /\ t = [k \in DOMAIN slots |-> t[k]]
  OBVIOUS
<1>11. \A k \in DOMAIN slots : k \notin bare => slots[k].seat \in given \ {None}
  OBVIOUS
<1>12. free \cap given = {} /\ None \notin free
  BY DEF None
<1>13. bare \subseteq DOMAIN slots
  OBVIOUS
<1>14. \A j, k \in bare : j # k => UpTo(bare, j) # UpTo(bare, k)
  <2> HIDE DEF bare
  <2> SUFFICES ASSUME NEW j \in bare, NEW k \in bare, j # k
               PROVE  UpTo(bare, j) # UpTo(bare, k)
    OBVIOUS
  <2>1. j < k \/ k < j
    BY <1>6
  <2>2. UpTo(bare, j) < UpTo(bare, k) \/ UpTo(bare, k) < UpTo(bare, j)
    BY <1>6, <2>1, UpToIs
  <2>3. UpTo(bare, j) \in Nat /\ UpTo(bare, k) \in Nat
    BY <1>6, UpToIs
  <2> QED
    BY <2>2, <2>3
<1> HIDE DEF t, free, bare, given
<1>15. SlotTable(t)
  <2>1. \E S : t \in Seq(S)
    BY <1>10, TableMapped DEF SlotTable
  <2>2. \A k \in DOMAIN t : /\ {"seat", "pilot"} \subseteq DOMAIN t[k]
                           /\ t[k].seat \in Nat
    BY <1>3, <1>7, <1>8, <1>9, <1>10
  <2> QED
    BY <2>1, <2>2 DEF SlotTable
<1>16. Apart(t)
  <2> SUFFICES ASSUME NEW j \in DOMAIN slots, NEW k \in DOMAIN slots, j # k, t[j].seat # None
               PROVE  t[j].seat # t[k].seat
    BY <1>10 DEF Apart
  <2>1. CASE j \in bare /\ k \in bare
    BY <1>8, <1>14, <2>1
  <2>2. CASE j \in bare /\ k \notin bare
    BY <1>8, <1>9, <1>11, <1>12, <2>2
  <2>3. CASE j \notin bare /\ k \in bare
    BY <1>8, <1>9, <1>11, <1>12, <2>3
  <2>4. CASE j \notin bare /\ k \notin bare
    BY <1>9, <2>4 DEF Apart
  <2> QED
    BY <2>1, <2>2, <2>3, <2>4
<1> QED
  BY <1>1, <1>15, <1>16

-----------------------------------------------------------------------------
(* The seats that automatic frequencies give                               *)

SeatingStates(slots) ==
  [at : [DOMAIN slots -> 0 .. N], free : SUBSET Seats, lost : SUBSET DOMAIN slots]

\* Who has a seat has one of his own, and nobody has one that is free.
Seating(slots, state) ==
  /\ \A j, k \in DOMAIN slots :
       j # k /\ state.at[j] # None => state.at[j] # state.at[k]
  /\ \A k \in DOMAIN slots : state.at[k] \notin state.free

LEMMA SeatNumbers ==
  N \in Nat /\ IsFiniteSet(Seats) /\ Cardinality(Seats) = N /\ Seats \subseteq Nat
<1>1. N \in Nat
  BY NAssumption
<1> QED
  BY <1>1, FirstNumbers DEF Seats

LEMMA RulesWithin ==
  ASSUME NEW match, NEW favour, NEW adaptive,
         \A x \in Seats : favour[x] \subseteq match[x],
         NEW rules, rules = Rules(match, favour, adaptive)
  PROVE  /\ DOMAIN rules \subseteq 1 .. 5 /\ 1 \in DOMAIN rules
         /\ \A r \in DOMAIN rules : \A x \in Seats : rules[r][x] \subseteq match[x]
         /\ \A x \in Seats : rules[1][x] = IF ~adaptive THEN Only(favour[x])
                                          ELSE IF favour[x] # {} THEN Only(match[x]) ELSE {}
<1> DEFINE a == [x \in Seats |-> IF favour[x] # {} THEN Only(match[x]) ELSE {}]
           b == [x \in Seats |-> Only(match[x])]
           c == [x \in Seats |-> Only(favour[x])]
<1>1. rules = IF adaptive THEN <<a, b, c, favour, match>> ELSE <<c, favour, b, match>>
  BY DEF Rules
<1>2. \A x \in Seats : /\ a[x] \subseteq match[x] /\ b[x] \subseteq match[x]
                       /\ c[x] \subseteq match[x]
  BY DEF Only
<1>3. \A x \in Seats : /\ a[x] = IF favour[x] # {} THEN Only(match[x]) ELSE {}
                       /\ c[x] = Only(favour[x])
  OBVIOUS
<1> HIDE DEF a, b, c
<1>4. CASE adaptive
  <2>1. /\ DOMAIN rules = 1 .. 5 /\ rules[1] = a /\ rules[2] = b /\ rules[3] = c
        /\ rules[4] = favour /\ rules[5] = match
    BY <1>1, <1>4
  <2>2. \A r \in 1 .. 5 : r = 1 \/ r = 2 \/ r = 3 \/ r = 4 \/ r = 5
    OBVIOUS
  <2>3. ASSUME NEW r \in DOMAIN rules, NEW x \in Seats PROVE rules[r][x] \subseteq match[x]
    <3>1. rules[r] \in {a, b, c, favour, match}
      BY <2>1, <2>2
    <3> QED
      BY <1>2, <3>1
  <2>4. 1 \in DOMAIN rules /\ DOMAIN rules \subseteq 1 .. 5
    BY <2>1
  <2> QED
    BY <1>3, <1>4, <2>1, <2>3, <2>4
<1>5. CASE ~adaptive
  <2>1. /\ DOMAIN rules = 1 .. 4 /\ rules[1] = c /\ rules[2] = favour /\ rules[3] = b
        /\ rules[4] = match
    BY <1>1, <1>5
  <2>2. \A r \in 1 .. 4 : r = 1 \/ r = 2 \/ r = 3 \/ r = 4
    OBVIOUS
  <2> QED
    BY <1>2, <1>3, <1>5, <2>1, <2>2
<1> QED
  BY <1>4, <1>5

\* A grant gives a free seat to one of the slots that have none, by the first
\* rule that gives a free seat to anybody.
LEMMA GrantIs ==
  ASSUME NEW s, NEW slots, NEW state, state.free \subseteq Seats
  PROVE  /\ \A g \in Grants(s, slots, state) :
              /\ g.seat \in state.free /\ g.takers # {}
              /\ g.takers \subseteq Matches(s, slots, state.at, g.seat)
              /\ g.losers = Matches(s, slots, state.at, g.seat)
         /\ \A y \in state.free :
              LET first(x) == IF ~s.tuning.adaptive
                              THEN Only(Favoured(s, slots, state.at, x))
                              ELSE IF Favoured(s, slots, state.at, x) # {}
                              THEN Only(Matches(s, slots, state.at, x)) ELSE {}
              IN first(y) # {} =>
                   /\ Grants(s, slots, state) # {}
                   /\ \A g \in Grants(s, slots, state) : g.takers = first(g.seat)
<1> DEFINE match == [x \in Seats |-> Matches(s, slots, state.at, x)]
           favour == [x \in Seats |-> Favoured(s, slots, state.at, x)]
           first(x) == IF ~s.tuning.adaptive
                       THEN Only(Favoured(s, slots, state.at, x))
                       ELSE IF Favoured(s, slots, state.at, x) # {}
                       THEN Only(Matches(s, slots, state.at, x)) ELSE {}
<1>1. PICK rules : rules = Rules(match, favour, s.tuning.adaptive)
  OBVIOUS
<1> DEFINE able == {r \in DOMAIN rules : \E x \in state.free : rules[r][x] # {}}
           rule == Min(able)
           seats == {x \in state.free : rules[rule][x] # {}}
           seat == Min(seats)
<1>2. Grants(s, slots, state)
        = IF able = {} THEN {}
          ELSE {[seat |-> seat, takers |-> rules[rule][seat], losers |-> match[seat]]}
  <2>1. Grants(s, slots, state) = Granted(match, rules, state.free)
    BY <1>1 DEF Grants
  <2> HIDE DEF match
  <2> QED
    BY <2>1 DEF Granted
<1>3. \A x \in Seats : favour[x] \subseteq match[x]
  BY DEF Favoured
<1>4. \A x \in Seats : /\ match[x] = Matches(s, slots, state.at, x)
                       /\ favour[x] = Favoured(s, slots, state.at, x)
  OBVIOUS
<1> HIDE DEF match, favour
<1>5. /\ DOMAIN rules \subseteq 1 .. 5 /\ 1 \in DOMAIN rules
      /\ \A r \in DOMAIN rules : \A x \in Seats : rules[r][x] \subseteq match[x]
      /\ \A x \in Seats : rules[1][x] = IF ~s.tuning.adaptive THEN Only(favour[x])
                                       ELSE IF favour[x] # {} THEN Only(match[x]) ELSE {}
  BY <1>1, <1>3, RulesWithin
<1>6. \A x \in Seats : rules[1][x] = first(x)
  BY <1>4, <1>5
<1> HIDE DEF first
<1>7. ASSUME able # {}
      PROVE  /\ rule \in able /\ \A r \in able : rule <= r
             /\ seat \in state.free /\ rules[rule][seat] # {}
  <2>1. able \in SUBSET Nat
    BY <1>5
  <2>2. rule \in able /\ \A r \in able : rule <= r
    <3> HIDE DEF able
    <3> QED
      BY <1>7, <2>1, MinOfSome
  <2> HIDE DEF rule
  <2>3. seats # {}
    BY <2>2
  <2>4. seats \in SUBSET Nat
    BY SeatNumbers
  <2>5. seat \in seats
    <3> HIDE DEF seats
    <3> QED
      BY <2>3, <2>4, MinOfSome
  <2> QED
    BY <2>2, <2>5
<1>8. able \subseteq DOMAIN rules
  OBVIOUS
<1>9. ASSUME NEW y \in state.free, first(y) # {} PROVE able # {} /\ rule = 1
  <2>1. 1 \in able
    BY <1>5, <1>6, <1>9
  <2>2. rule \in 1 .. 5 /\ rule <= 1
    <3> HIDE DEF able, rule
    <3> QED
      BY <1>5, <1>7, <1>8, <2>1
  <2> HIDE DEF able, rule
  <2> QED
    BY <2>1, <2>2
<1> HIDE DEF able, seat, rule
<1>10. ASSUME NEW g \in Grants(s, slots, state)
       PROVE  /\ able # {} /\ g.seat = seat /\ g.takers = rules[rule][seat]
              /\ g.losers = match[seat] /\ seat \in Seats
  BY <1>2, <1>7
<1>11. \A g \in Grants(s, slots, state) :
         /\ g.seat \in state.free /\ g.takers # {}
         /\ g.takers \subseteq Matches(s, slots, state.at, g.seat)
         /\ g.losers = Matches(s, slots, state.at, g.seat)
  BY <1>4, <1>5, <1>7, <1>8, <1>10
<1>12. \A y \in state.free : first(y) # {} =>
         /\ Grants(s, slots, state) # {}
         /\ \A g \in Grants(s, slots, state) : g.takers = first(g.seat)
  BY <1>2, <1>6, <1>9, <1>10
<1> QED
  BY <1>11, <1>12 DEF first

\* A seat that is granted is free no longer.
LEMMA SuccessorIs ==
  ASSUME NEW s, NEW slots, SlotTable(slots), NEW lucky,
         NEW state \in SeatingStates(slots), NEW t \in Successors(s, slots, lucky, state)
  PROVE  /\ t \in SeatingStates(slots)
         /\ IsFiniteSet(state.free) /\ Cardinality(state.free) \in Nat
         /\ Cardinality(t.free) = Cardinality(state.free) - 1
         /\ \E g \in Grants(s, slots, state) : \E k \in g.takers :
              /\ t = After(state, g, k)
              /\ k \in DOMAIN slots /\ state.at[k] = None
<1>1. state.free \subseteq Seats /\ state.at \in [DOMAIN slots -> 0 .. N]
      /\ state.lost \subseteq DOMAIN slots
  BY DEF SeatingStates
<1>2. PICK g \in Grants(s, slots, state) : t \in {After(state, g, k) : k \in Takers(g, lucky)}
  BY DEF Successors
<1>3. /\ g.seat \in state.free /\ g.takers # {}
      /\ g.takers \subseteq Matches(s, slots, state.at, g.seat)
      /\ g.losers = Matches(s, slots, state.at, g.seat)
  BY <1>1, GrantIs
<1>4. \A x : Matches(s, slots, state.at, x) \subseteq {k \in DOMAIN slots : state.at[k] = None}
  BY DEF Matches
<1>5. Takers(g, lucky) \subseteq g.takers
  <2>1. g.takers \in SUBSET Nat
    <3>1. DOMAIN slots \subseteq Nat
      BY DEF SlotTable
    <3> QED
      BY <1>3, <1>4, <3>1
  <2>2. Min(g.takers) \in g.takers
    BY <1>3, <2>1, MinOfSome
  <2> QED
    BY <2>2 DEF Takers
<1>6. PICK k \in g.takers : t = After(state, g, k)
  BY <1>2, <1>5
<1>7. k \in DOMAIN slots /\ state.at[k] = None
  BY <1>3, <1>4
<1>8. /\ t.at = [state.at EXCEPT ![k] = g.seat] /\ t.free = state.free \ {g.seat}
      /\ t = [at |-> t.at, free |-> t.free, lost |-> t.lost]
      /\ t.lost = state.lost \cup (g.losers \ {k})
  BY <1>6 DEF After
<1>9. g.seat \in 0 .. N
  BY <1>1, <1>3, SeatNumbers DEF Seats
<1>10. t \in SeatingStates(slots)
  <2>1. t.at \in [DOMAIN slots -> 0 .. N]
    BY <1>1, <1>7, <1>8, <1>9
  <2>2. t.free \in SUBSET Seats /\ t.lost \in SUBSET DOMAIN slots
    BY <1>1, <1>3, <1>4, <1>8
  <2> QED
    BY <1>8, <2>1, <2>2 DEF SeatingStates
<1>11. IsFiniteSet(state.free) /\ Cardinality(state.free) \in Nat
  BY <1>1, SeatNumbers, FS_Subset, FS_CardinalityType
<1>12. Cardinality(t.free) = Cardinality(state.free) - 1
  <2>1. PICK free, x : free = state.free /\ x = g.seat
    OBVIOUS
  <2>2. x \in free /\ IsFiniteSet(free)
    BY <1>3, <1>11, <2>1
  <2>3. Cardinality(free \ {x}) = Cardinality(free) - 1
    BY <2>2, FS_RemoveElement
  <2> QED
    BY <1>8, <2>1, <2>3
<1> QED
  BY <1>6, <1>7, <1>10, <1>11, <1>12

\* What granting seats comes to, given what it comes to after the next grant.
Reached(s, slots, lucky, g, state) ==
  LET next == Successors(s, slots, lucky, state)
  IN IF next = {} THEN {state} ELSE UNION {g[t] : t \in next}

LEMMA ReachedExists ==
  ASSUME NEW s, NEW slots, SlotTable(slots), NEW lucky
  PROVE  \E g : g = [state \in SeatingStates(slots) |-> Reached(s, slots, lucky, g, state)]
<1> DEFINE States == SeatingStates(slots)
           Upto(g, n) == \A state \in States : Cardinality(state.free) <= n =>
                           g[state] = Reached(s, slots, lucky, g, state)
           T == {n \in Nat : \E g : Upto(g, n)}
           Next1(state) == Successors(s, slots, lucky, state)
<1> HIDE DEF States
<1>1. ASSUME NEW state \in States
      PROVE  /\ Cardinality(state.free) \in Nat /\ Cardinality(state.free) <= N
             /\ \A t \in Next1(state) : /\ t \in States
                                       /\ Cardinality(t.free) = Cardinality(state.free) - 1
  <2>1. state.free \subseteq Seats
    BY DEF States, SeatingStates
  <2>2. Cardinality(state.free) \in Nat /\ Cardinality(state.free) <= N
    BY <2>1, SeatNumbers, FS_Subset, FS_CardinalityType
  <2>3. ASSUME NEW t \in Next1(state)
        PROVE  t \in States /\ Cardinality(t.free) = Cardinality(state.free) - 1
    BY SuccessorIs DEF States
  <2> QED
    BY <2>2, <2>3
<1>2. ASSUME NEW g, NEW g2, NEW state \in States, \A t \in Next1(state) : g[t] = g2[t]
      PROVE  Reached(s, slots, lucky, g, state) = Reached(s, slots, lucky, g2, state)
  <2>1. {g[t] : t \in Next1(state)} = {g2[t] : t \in Next1(state)}
    BY <1>2
  <2> QED
    BY <2>1 DEF Reached
<1> HIDE DEF Next1
<1>3. 0 \in T
  <2>1. PICK g : g = [state \in States |-> {state}]
    OBVIOUS
  <2>2. ASSUME NEW state \in States, Cardinality(state.free) <= 0
        PROVE  g[state] = Reached(s, slots, lucky, g, state)
    <3>1. Next1(state) = {}
      <4>1. ASSUME NEW t \in Next1(state) PROVE FALSE
        <5>1. Cardinality(t.free) \in Nat /\ Cardinality(t.free) = Cardinality(state.free) - 1
          BY <1>1
        <5> QED
          BY <1>1, <2>2, <5>1
      <4> QED
        BY <4>1
    <3> QED
      BY <2>1, <3>1 DEF Reached, Next1
  <2> QED
    BY <2>2
<1>4. ASSUME NEW n \in Nat, n \in T PROVE n + 1 \in T
  <2>1. PICK g : Upto(g, n)
    BY <1>4
  <2>2. PICK g2 : g2 = [state \in States |-> Reached(s, slots, lucky, g, state)]
    OBVIOUS
  <2>3. ASSUME NEW state \in States, Cardinality(state.free) <= n + 1
        PROVE  g2[state] = Reached(s, slots, lucky, g2, state)
    <3>1. ASSUME NEW t \in Next1(state) PROVE g[t] = g2[t]
      <4>1. t \in States /\ Cardinality(t.free) <= n
        BY <1>1, <2>3
      <4> QED
        BY <2>1, <2>2, <4>1
    <3> QED
      BY <1>2, <2>2, <3>1
  <2>4. Upto(g2, n + 1)
    BY <2>3
  <2> QED
    BY <2>4
<1> HIDE DEF T
<1>5. Nat \subseteq T
  BY <1>3, <1>4, NumbersAll
<1>6. PICK g : Upto(g, N)
  BY <1>5, SeatNumbers DEF T
<1>7. PICK g2 : g2 = [state \in States |-> g[state]]
  OBVIOUS
<1>8. ASSUME NEW state \in States PROVE g[state] = Reached(s, slots, lucky, g2, state)
  <2>1. g[state] = Reached(s, slots, lucky, g, state)
    BY <1>1, <1>6
  <2>2. \A t \in Next1(state) : g[t] = g2[t]
    BY <1>1, <1>7
  <2> QED
    BY <1>2, <2>1, <2>2
<1>9. g2 = [state \in States |-> Reached(s, slots, lucky, g2, state)]
  BY <1>7, <1>8
<1> QED
  BY <1>9 DEF States

\* What holds at the start, and still after each grant, holds in the end, when
\* there is nothing left to grant.
LEMMA GrantsEnd ==
  ASSUME NEW s, NEW slots, SlotTable(slots), NEW lucky, NEW start,
         NEW I \in SUBSET SeatingStates(slots),
         [at |-> start, free |-> SeatsOn(s) \ Range(start), lost |-> {}] \in I,
         \A state \in I : Successors(s, slots, lucky, state) \subseteq I,
         NEW e \in BestMatches(s, slots, start, lucky)
  PROVE  e \in I /\ Successors(s, slots, lucky, e) = {}
<1> DEFINE States == SeatingStates(slots)
           first == [at |-> start, free |-> SeatsOn(s) \ Range(start), lost |-> {}]
           Next1(state) == Successors(s, slots, lucky, state)
<1>1. PICK g : /\ g = [state \in States |-> Reached(s, slots, lucky, g, state)]
               /\ BestMatches(s, slots, start, lucky) = g[first]
  <2>1. BestMatches(s, slots, start, lucky)
          = (CHOOSE g : g = [state \in States |-> Reached(s, slots, lucky, g, state)])[first]
    BY Zenon DEF BestMatches, Reached, SeatingStates
  <2>2. \E g : g = [state \in States |-> Reached(s, slots, lucky, g, state)]
    BY ReachedExists
  <2> QED
    BY <2>1, <2>2
<1> DEFINE Good1(n) == \A state \in I : Cardinality(state.free) <= n =>
                        \A x \in g[state] : x \in I /\ Next1(x) = {}
           T == {n \in Nat : Good1(n)}
<1> HIDE DEF States, first
<1>2. ASSUME NEW state \in I
      PROVE  /\ Cardinality(state.free) \in Nat /\ Cardinality(state.free) <= N
             /\ \A t \in Next1(state) : /\ t \in I
                                       /\ Cardinality(t.free) = Cardinality(state.free) - 1
  <2>1. state.free \subseteq Seats /\ state \in SeatingStates(slots)
    BY DEF SeatingStates
  <2>2. Cardinality(state.free) \in Nat /\ Cardinality(state.free) <= N
    BY <2>1, SeatNumbers, FS_Subset, FS_CardinalityType
  <2>3. ASSUME NEW t \in Next1(state)
        PROVE  t \in I /\ Cardinality(t.free) = Cardinality(state.free) - 1
    BY <2>1, SuccessorIs
  <2> QED
    BY <2>2, <2>3
<1>3. ASSUME NEW state \in I
      PROVE  g[state] = IF Next1(state) = {} THEN {state}
                        ELSE UNION {g[t] : t \in Next1(state)}
  <2>1. state \in States
    BY DEF States
  <2>2. g[state] = Reached(s, slots, lucky, g, state)
    BY <1>1, <2>1
  <2> QED
    BY <2>2, Zenon DEF Reached
<1> HIDE DEF Next1
<1>4. 0 \in T
  <2>1. ASSUME NEW state \in I, Cardinality(state.free) <= 0, NEW x \in g[state]
        PROVE  x \in I /\ Next1(x) = {}
    <3>1. Next1(state) = {}
      <4>1. ASSUME NEW t \in Next1(state) PROVE FALSE
        <5>1. Cardinality(t.free) \in Nat /\ Cardinality(t.free) = Cardinality(state.free) - 1
          BY <1>2
        <5> QED
          BY <1>2, <2>1, <5>1
      <4> QED
        BY <4>1
    <3> QED
      BY <1>3, <2>1, <3>1
  <2> QED
    BY <2>1
<1>5. ASSUME NEW n \in Nat, n \in T PROVE n + 1 \in T
  <2>0. \A state \in I : Cardinality(state.free) <= n =>
          \A x \in g[state] : x \in I /\ Next1(x) = {}
    BY <1>5
  <2>1. ASSUME NEW state \in I, Cardinality(state.free) <= n + 1, NEW x \in g[state]
        PROVE  x \in I /\ Next1(x) = {}
    <3>1. CASE Next1(state) = {}
      BY <1>3, <2>1, <3>1
    <3>2. CASE Next1(state) # {}
      <4>0. g[state] = UNION {g[t] : t \in Next1(state)}
        BY <1>3, <3>2, Zenon
      <4>1. PICK t \in Next1(state) : x \in g[t]
        BY <2>1, <4>0, Zenon
      <4>2. t \in I /\ Cardinality(t.free) <= n
        BY <1>2, <2>1
      <4> QED
        BY <2>0, <4>1, <4>2
    <3> QED
      BY <3>1, <3>2
  <2>2. Good1(n + 1)
    BY <2>1
  <2> HIDE DEF Good1
  <2> QED
    BY <2>2
<1> HIDE DEF T
<1>6. Nat \subseteq T
  BY <1>4, <1>5, NumbersAll
<1>7. Good1(N)
  BY <1>6, SeatNumbers DEF T
<1>8. first \in I /\ e \in g[first]
  BY <1>1 DEF first
<1> QED
  BY <1>2, <1>7, <1>8 DEF Next1

\* No seat is given twice.
Placed(slots, at) ==
  /\ at \in [DOMAIN slots -> 0 .. N]
  /\ \A j, k \in DOMAIN slots : j # k /\ at[j] # None => at[j] # at[k]

\* Who has a seat keeps it, and others get one of the free seats each.
LEMMA FilledIs ==
  ASSUME NEW slots, SlotTable(slots), NEW state \in SeatingStates(slots),
         Seating(slots, state),
         NEW ks, \A k \in ks : k \in DOMAIN slots /\ state.at[k] = None, NEW lucky,
         NEW at \in Filled(state.at, state.free, ks, lucky)
  PROVE  /\ at \in [DOMAIN slots -> 0 .. N]
         /\ \A j, k \in DOMAIN slots : j # k /\ at[j] # None => at[j] # at[k]
         /\ \A k \in DOMAIN slots : state.at[k] # None => at[k] = state.at[k]
<1> DEFINE n == Min({Cardinality(ks), Cardinality(state.free)})
           draws == IF lucky THEN {[k \in 1 .. n |-> Nth(state.free, k)]}
                    ELSE {d \in [1 .. n -> state.free] : IsInjective(d)}
<1>1. /\ state.free \subseteq Seats /\ state.at \in [DOMAIN slots -> 0 .. N]
      /\ DOMAIN state.at = DOMAIN slots
  BY DEF SeatingStates
<1>2. PICK d \in draws :
        at = [k \in DOMAIN state.at |-> IF k \in ks /\ UpTo(ks, k) <= n THEN d[UpTo(ks, k)]
                                        ELSE state.at[k]]
  BY DEF Filled
<1>3. IsFiniteSet(state.free) /\ state.free \in SUBSET Nat /\ Cardinality(state.free) \in Nat
  BY <1>1, SeatNumbers, FS_Subset, FS_CardinalityType
<1>4. IsFiniteSet(ks) /\ ks \in SUBSET Nat /\ Cardinality(ks) \in Nat
  <2>1. PICK m \in Nat : DOMAIN slots = 1 .. m
    BY DEF SlotTable
  <2>2. IsFiniteSet(1 .. m)
    BY FirstNumbers
  <2>3. ks \subseteq 1 .. m /\ ks \in SUBSET Nat
    BY <2>1
  <2>4. IsFiniteSet(ks)
    BY <2>2, <2>3, FS_Subset
  <2> QED
    BY <2>3, <2>4, FS_CardinalityType
<1>5. n \in Nat /\ n <= Cardinality(state.free)
  <2> DEFINE T == {Cardinality(ks), Cardinality(state.free)}
  <2>1. T \in SUBSET Nat /\ T # {}
    BY <1>3, <1>4
  <2>2. Cardinality(state.free) \in T
    OBVIOUS
  <2> HIDE DEF T
  <2>3. Min(T) \in T /\ \A y \in T : Min(T) <= y
    BY <2>1, MinOfSome
  <2>4. Min(T) \in Nat /\ Min(T) <= Cardinality(state.free)
    BY <2>1, <2>2, <2>3
  <2> QED
    BY <2>4 DEF T
<1> HIDE DEF n
<1>6. \A i \in 1 .. n : d[i] \in state.free /\ \A j \in 1 .. n : d[i] = d[j] => i = j
  <2>1. CASE lucky
    <3>1. d = [k \in 1 .. n |-> Nth(state.free, k)]
      BY <1>2, <2>1
    <3>2. \A i \in 1 .. n : i \in 1 .. Cardinality(state.free)
      BY <1>3, <1>5
    <3>3. \A i \in 1 .. n : /\ d[i] = Nth(state.free, i)
                            /\ Nth(state.free, i) \in state.free
                            /\ UpTo(state.free, Nth(state.free, i)) = i
      BY <1>3, <3>1, <3>2, NthIs
    <3>4. \A i \in 1 .. n : d[i] \in state.free /\ UpTo(state.free, d[i]) = i
      BY <3>3
    <3> QED
      BY <3>4
  <2>2. CASE ~lucky
    <3>1. d \in [1 .. n -> state.free] /\ IsInjective(d)
      BY <1>2, <2>2
    <3> QED
      BY <3>1 DEF IsInjective
  <2> QED
    BY <2>1, <2>2
<1> HIDE DEF draws
<1>7. ASSUME NEW k \in ks
      PROVE  /\ UpTo(ks, k) \in Nat /\ UpTo(ks, k) >= 1
             /\ \A j \in ks : j # k => UpTo(ks, j) # UpTo(ks, k)
  <2>1. \A j \in ks : UpTo(ks, j) \in Nat /\ UpTo(ks, j) >= 1
    <3>1. \A j \in ks : UpTo(ks, j) \in 1 .. Cardinality(ks)
      BY <1>4, UpToIs
    <3> QED
      BY <1>4, <3>1
  <2>2. ASSUME NEW j \in ks, j # k PROVE UpTo(ks, j) # UpTo(ks, k)
    <3>1. j < k \/ k < j
      BY <1>4, <2>2
    <3>2. UpTo(ks, j) < UpTo(ks, k) \/ UpTo(ks, k) < UpTo(ks, j)
      BY <1>4, <3>1, UpToIs
    <3> QED
      BY <2>1, <3>2
  <2> QED
    BY <2>1, <2>2
<1> DEFINE gets(k) == k \in ks /\ UpTo(ks, k) <= n
<1>8. /\ at = [k \in DOMAIN slots |-> at[k]]
      /\ \A k \in DOMAIN slots :
           /\ gets(k) => /\ UpTo(ks, k) \in 1 .. n /\ at[k] = d[UpTo(ks, k)]
                         /\ at[k] \in state.free
           /\ ~gets(k) => at[k] = state.at[k]
  <2>1. \A k \in DOMAIN slots : at[k] = IF gets(k) THEN d[UpTo(ks, k)] ELSE state.at[k]
    BY <1>1, <1>2
  <2>2. at = [k \in DOMAIN slots |-> at[k]]
    BY <1>1, <1>2
  <2>3. \A k \in ks : UpTo(ks, k) <= n => UpTo(ks, k) \in 1 .. n
    BY <1>5, <1>7
  <2> QED
    BY <1>6, <2>1, <2>2, <2>3
<1>9. \A k \in DOMAIN slots : gets(k) => state.at[k] = None
  OBVIOUS
<1>10. \A j, k \in DOMAIN slots : gets(j) /\ gets(k) /\ j # k => at[j] # at[k]
  <2> SUFFICES ASSUME NEW j \in DOMAIN slots, NEW k \in DOMAIN slots, gets(j), gets(k), j # k
               PROVE  at[j] # at[k]
    OBVIOUS
  <2>1. UpTo(ks, j) \in 1 .. n /\ UpTo(ks, k) \in 1 .. n
        /\ at[j] = d[UpTo(ks, j)] /\ at[k] = d[UpTo(ks, k)]
    BY <1>8
  <2>2. UpTo(ks, j) # UpTo(ks, k)
    BY <1>7
  <2> QED
    BY <1>6, <2>1, <2>2
<1> HIDE DEF gets
<1>11. None \notin state.free /\ state.free \subseteq 0 .. N
  BY <1>1, SeatNumbers DEF Seats, None
<1>12. at \in [DOMAIN slots -> 0 .. N]
  <2>1. \A k \in DOMAIN slots : at[k] \in 0 .. N
    BY <1>1, <1>8, <1>11
  <2> QED
    BY <1>8, <2>1
<1>13. \A j, k \in DOMAIN slots : j # k /\ at[j] # None => at[j] # at[k]
  <2> SUFFICES ASSUME NEW j \in DOMAIN slots, NEW k \in DOMAIN slots, j # k, at[j] # None
               PROVE  at[j] # at[k]
    OBVIOUS
  <2>1. CASE gets(j) /\ gets(k)
    BY <1>10, <2>1
  <2>2. CASE gets(j) /\ ~gets(k)
    BY <1>8, <2>2 DEF Seating
  <2>3. CASE ~gets(j) /\ gets(k)
    BY <1>8, <2>3 DEF Seating
  <2>4. CASE ~gets(j) /\ ~gets(k)
    BY <1>8, <2>4 DEF Seating
  <2> QED
    BY <2>1, <2>2, <2>3, <2>4
<1>14. \A k \in DOMAIN slots : state.at[k] # None => at[k] = state.at[k]
  BY <1>8, <1>9
<1> QED
  BY <1>12, <1>13, <1>14

LEMMA SeatingKept ==
  ASSUME NEW s, NEW slots, SlotTable(slots), NEW lucky,
         NEW state \in SeatingStates(slots), Seating(slots, state),
         NEW t \in Successors(s, slots, lucky, state)
  PROVE  t \in SeatingStates(slots) /\ Seating(slots, t)
<1>1. state.free \subseteq Seats /\ state.at \in [DOMAIN slots -> 0 .. N]
  BY DEF SeatingStates
<1>2. PICK g \in Grants(s, slots, state) : \E k \in g.takers :
        t = After(state, g, k) /\ k \in DOMAIN slots /\ state.at[k] = None
  BY SuccessorIs
<1>3. PICK k \in g.takers :
        t = After(state, g, k) /\ k \in DOMAIN slots /\ state.at[k] = None
  BY <1>2
<1>4. g.seat \in state.free
  BY <1>1, GrantIs
<1>5. t.at = [state.at EXCEPT ![k] = g.seat] /\ t.free = state.free \ {g.seat}
  BY <1>3 DEF After
<1>6. /\ t.at[k] = g.seat
      /\ \A j \in DOMAIN slots : j # k => t.at[j] = state.at[j] /\ t.at[j] # g.seat
  BY <1>1, <1>3, <1>4, <1>5 DEF Seating
<1>7. Seating(slots, t)
  <2>1. \A i, j \in DOMAIN slots : i # j /\ t.at[i] # None => t.at[i] # t.at[j]
    BY <1>6 DEF Seating
  <2>2. \A j \in DOMAIN slots : t.at[j] \notin t.free
    BY <1>5, <1>6 DEF Seating
  <2> QED
    BY <2>1, <2>2 DEF Seating
<1> QED
  BY <1>7, SuccessorIs

\* What Seatings does from the state e in which the grants end.
LEMMA SeatingsOf ==
  ASSUME NEW s, NEW slots, NEW pre, NEW lucky, NEW at \in Seatings(s, slots, pre, lucky),
         NEW start, start = [k \in DOMAIN slots |-> IF k \in DOMAIN pre THEN pre[k] ELSE None]
  PROVE  \E e \in BestMatches(s, slots, start, lucky) :
           \E mid \in Filled(e.at, e.free, Unplaced(slots, e.at, e.lost), lucky) :
             at \in Filled(mid, SeatsOn(s) \ Range(mid), Unplaced(slots, mid, DOMAIN slots),
                          lucky)
<1> DEFINE Rest(m) == Filled(m, SeatsOn(s) \ Range(m), Unplaced(slots, m, DOMAIN slots), lucky)
           Lost(st) == Filled(st.at, st.free, Unplaced(slots, st.at, st.lost), lucky)
<1>1. Seatings(s, slots, pre, lucky)
        = UNION {UNION {Rest(m) : m \in Lost(st)} : st \in BestMatches(s, slots, start, lucky)}
  BY Zenon DEF Seatings
<1> HIDE DEF Rest, Lost
<1>2. PICK st \in BestMatches(s, slots, start, lucky) : at \in UNION {Rest(m) : m \in Lost(st)}
  BY <1>1, Zenon
<1>3. PICK m \in Lost(st) : at \in Rest(m)
  BY <1>2, Zenon
<1> QED
  BY <1>2, <1>3, Zenon DEF Rest, Lost

LEMMA FilledPlaced ==
  ASSUME NEW slots, SlotTable(slots), NEW state \in SeatingStates(slots),
         Seating(slots, state),
         NEW ks, \A k \in ks : k \in DOMAIN slots /\ state.at[k] = None, NEW lucky,
         NEW at \in Filled(state.at, state.free, ks, lucky)
  PROVE  Placed(slots, at)
<1>1. /\ at \in [DOMAIN slots -> 0 .. N]
      /\ \A j, k \in DOMAIN slots : j # k /\ at[j] # None => at[j] # at[k]
  BY FilledIs
<1> QED
  BY <1>1 DEF Placed

\* No two slots get the same seat.
LEMMA SeatingsApart ==
  ASSUME NEW s, NEW slots, SlotTable(slots), NEW pre, \A k \in DOMAIN pre : pre[k] \in Seats,
         IsInjective(pre), NEW lucky, NEW at \in Seatings(s, slots, pre, lucky)
  PROVE  /\ at \in [DOMAIN slots -> 0 .. N]
         /\ \A j, k \in DOMAIN slots : j # k /\ at[j] # None => at[j] # at[k]
<1>1. PICK start : start = [k \in DOMAIN slots |-> IF k \in DOMAIN pre THEN pre[k] ELSE None]
  OBVIOUS
<1>2. PICK e \in BestMatches(s, slots, start, lucky) :
        \E mid \in Filled(e.at, e.free, Unplaced(slots, e.at, e.lost), lucky) :
          at \in Filled(mid, SeatsOn(s) \ Range(mid), Unplaced(slots, mid, DOMAIN slots),
                       lucky)
  BY <1>1, SeatingsOf
<1>3. PICK mid \in Filled(e.at, e.free, Unplaced(slots, e.at, e.lost), lucky) :
        at \in Filled(mid, SeatsOn(s) \ Range(mid), Unplaced(slots, mid, DOMAIN slots), lucky)
  BY <1>2
<1>4. SeatsOn(s) \subseteq Seats /\ Seats \subseteq 0 .. N /\ None \in 0 .. N /\ None \notin Seats
  BY SeatNumbers DEF SeatsOn, Seats, None
<1> DEFINE first == [at |-> start, free |-> SeatsOn(s) \ Range(start), lost |-> {}]
           I == {st \in SeatingStates(slots) : Seating(slots, st)}
<1>5. first \in I
  <2>1. start \in [DOMAIN slots -> 0 .. N]
    BY <1>1, <1>4
  <2>2. first \in SeatingStates(slots)
    BY <1>4, <2>1 DEF SeatingStates
  <2>3. \A j, k \in DOMAIN slots : j # k /\ start[j] # None => start[j] # start[k]
    BY <1>1, <1>4 DEF IsInjective
  <2>4. \A k \in DOMAIN slots : start[k] \in Range(start)
    BY <1>1 DEF Range
  <2> QED
    BY <2>2, <2>3, <2>4 DEF Seating
<1>6. \A state \in I : Successors(s, slots, lucky, state) \subseteq I
  BY SeatingKept
<1>7. I \in SUBSET SeatingStates(slots)
  OBVIOUS
<1> HIDE DEF I
<1>8. e \in I
  BY <1>2, <1>5, <1>6, <1>7, GrantsEnd
<1>9. e \in SeatingStates(slots) /\ Seating(slots, e)
  BY <1>8 DEF I
<1>10. \A k \in Unplaced(slots, e.at, e.lost) : k \in DOMAIN slots /\ e.at[k] = None
  BY <1>9 DEF Unplaced, SeatingStates
<1>11. /\ mid \in [DOMAIN slots -> 0 .. N]
       /\ \A j, k \in DOMAIN slots : j # k /\ mid[j] # None => mid[j] # mid[k]
  <2>1. PICK ks : ks = Unplaced(slots, e.at, e.lost)
    OBVIOUS
  <2>2. mid \in Filled(e.at, e.free, ks, lucky)
    BY <1>3, <2>1
  <2>3. \A k \in ks : k \in DOMAIN slots /\ e.at[k] = None
    BY <1>10, <2>1
  <2> QED
    BY <1>9, <2>2, <2>3, FilledIs
<1>12. PICK state : state = [at |-> mid, free |-> SeatsOn(s) \ Range(mid), lost |-> {}]
  OBVIOUS
<1>13. state \in SeatingStates(slots) /\ state.at = mid /\ state.free = SeatsOn(s) \ Range(mid)
  BY <1>4, <1>11, <1>12 DEF SeatingStates
<1>14. Seating(slots, state)
  <2>1. \A k \in DOMAIN slots : mid[k] \in Range(mid)
    BY <1>11 DEF Range
  <2> QED
    BY <1>11, <1>13, <2>1 DEF Seating
<1>15. \A k \in Unplaced(slots, mid, DOMAIN slots) : k \in DOMAIN slots /\ state.at[k] = None
  BY <1>13 DEF Unplaced
<1>16. PICK ks : ks = Unplaced(slots, mid, DOMAIN slots)
  OBVIOUS
<1>17. at \in Filled(state.at, state.free, ks, lucky)
  BY <1>3, <1>13, <1>16
<1>18. \A k \in ks : k \in DOMAIN slots /\ state.at[k] = None
  BY <1>15, <1>16
<1>19. Placed(slots, at)
  BY <1>13, <1>14, <1>17, <1>18, FilledPlaced
<1> QED
  BY <1>19 DEF Placed

-----------------------------------------------------------------------------
(* Saved races and heats: shapes, and operations that only add heats       *)

SlotsFit(slots) == SlotTable(slots) /\ Apart(slots)
HeatRow(row) ==
  {"class", "slots", "confirmed"} \subseteq DOMAIN row /\ SlotsFit(row.slots)
HeatTable(table) ==
  /\ DOMAIN table \subseteq Nat /\ IsFiniteSet(DOMAIN table)
  /\ \A h \in DOMAIN table : HeatRow(table[h])
RaceTable(table) ==
  /\ \E S : table \in Seq(S)
  /\ \A r \in DOMAIN table : {"heat", "class", "round"} \subseteq DOMAIN table[r]
Shaped(s) ==
  {"heats", "races"} \subseteq DOMAIN s /\ HeatTable(s.heats) /\ RaceTable(s.races)

\* The inductive invariant.
Tidy(s) == Shaped(s) /\ RacesFollow(s)
RacesInv == Tidy(Now)

\* Races are left alone, and heats keep their class; there may be new ones.
Grows(s, t) ==
  Shaped(s) =>
    /\ Shaped(t) /\ t.races = s.races
    /\ \A h \in DOMAIN s.heats : /\ h \in DOMAIN t.heats
                                 /\ t.heats[h].class = s.heats[h].class

\* Heats that stay keep their slots, and new ones come after all others.
Stays(s, t) ==
  /\ \A h \in DOMAIN s.heats \cap DOMAIN t.heats :
       t.heats[h].slots = s.heats[h].slots /\ t.heats[h].confirmed = s.heats[h].confirmed
  /\ \A h \in DOMAIN t.heats \ DOMAIN s.heats : \A g \in DOMAIN s.heats : g < h

\* So does the last, or a later one, and no number is given again.
Follows(s, t) ==
  Stays(s, t) /\ \A g \in DOMAIN s.heats : \E h \in DOMAIN t.heats : g <= h

Extends(s, t) == Grows(s, t) /\ (Shaped(s) => Stays(s, t))

LEMMA RacesOfHeat ==
  \A s, h : RacesOf(s, h) = {r \in DOMAIN s.races : s.races[r].heat = h}
BY DEF RacesOf, IdsWhere

LEMMA HeatsOfClass ==
  \A s, c : HeatsOf(s, c) = {h \in DOMAIN s.heats : s.heats[h].class = c}
BY DEF HeatsOf, IdsWhere

LEMMA RaceNumbers ==
  ASSUME NEW s, Shaped(s)
  PROVE  /\ Len(s.races) \in Nat /\ DOMAIN s.races = 1 .. Len(s.races)
         /\ DOMAIN s.races \subseteq Nat /\ IsFiniteSet(DOMAIN s.races)
<1>1. PICK S : s.races \in Seq(S)
  BY DEF Shaped, RaceTable
<1>2. Len(s.races) \in Nat /\ DOMAIN s.races = 1 .. Len(s.races)
  BY <1>1
<1>3. IsFiniteSet(1 .. Len(s.races))
  BY <1>2, FS_Interval
<1> QED
  BY <1>2, <1>3

LEMMA HeatNumbers ==
  ASSUME NEW s, Shaped(s)
  PROVE  DOMAIN s.heats \subseteq Nat
BY DEF Shaped, HeatTable

LEMMA GrownTidy ==
  ASSUME NEW s, NEW t, Tidy(s), Grows(s, t)
  PROVE  Tidy(t)
<1>1. /\ Shaped(t) /\ t.races = s.races
      /\ \A h \in DOMAIN s.heats : /\ h \in DOMAIN t.heats
                                   /\ t.heats[h].class = s.heats[h].class
  BY DEF Tidy, Grows
<1>2. \A h : RacesOf(t, h) = RacesOf(s, h)
  BY <1>1, RacesOfHeat
<1> QED
  BY <1>1, <1>2 DEF Tidy, RacesFollow

LEMMA GrownTwice ==
  ASSUME NEW s, NEW t, NEW u, Grows(s, t), Grows(t, u)
  PROVE  Grows(s, u)
BY DEF Grows

LEMMA FollowsSelf ==
  ASSUME NEW s, NEW t, Shaped(s), t.heats = s.heats
  PROVE  Follows(s, t)
<1>1. \A g \in DOMAIN s.heats : g <= g
  BY HeatNumbers
<1> QED
  BY <1>1 DEF Follows, Stays

LEMMA FollowsTwice ==
  ASSUME NEW s, NEW t, NEW u, Shaped(s), Shaped(t), Shaped(u), Follows(s, t), Follows(t, u)
  PROVE  Follows(s, u)
<1>1. /\ DOMAIN s.heats \subseteq Nat /\ DOMAIN t.heats \subseteq Nat
      /\ DOMAIN u.heats \subseteq Nat
  BY HeatNumbers
<1>2. \A g \in DOMAIN s.heats : \E h \in DOMAIN u.heats : g <= h
  <2> TAKE g \in DOMAIN s.heats
  <2>1. PICK x \in DOMAIN t.heats : g <= x
    BY DEF Follows
  <2>2. PICK h \in DOMAIN u.heats : x <= h
    BY DEF Follows
  <2>3. g <= h
    BY <1>1, <2>1, <2>2
  <2> QED
    BY <2>3
<1>3. ASSUME NEW h \in DOMAIN s.heats, h \in DOMAIN u.heats
      PROVE  h \in DOMAIN t.heats
  <2>1. PICK x \in DOMAIN t.heats : h <= x
    BY DEF Follows
  <2>2. h \notin DOMAIN t.heats => x < h
    BY <1>3 DEF Follows, Stays
  <2> QED
    BY <1>1, <2>1, <2>2
<1>4. ASSUME NEW h \in DOMAIN u.heats, h \notin DOMAIN s.heats, NEW g \in DOMAIN s.heats
      PROVE  g < h
  <2>1. CASE h \in DOMAIN t.heats
    BY <1>4, <2>1 DEF Follows, Stays
  <2>2. CASE h \notin DOMAIN t.heats
    <3>1. PICK x \in DOMAIN t.heats : g <= x
      BY DEF Follows
    <3>2. x < h
      BY <1>4, <2>2 DEF Follows, Stays
    <3> QED
      BY <1>1, <3>1, <3>2
  <2> QED
    BY <2>1, <2>2
<1> QED
  BY <1>2, <1>3, <1>4 DEF Follows, Stays

LEMMA ExtendedFollows ==
  ASSUME NEW s, NEW t, Tidy(s), Extends(s, t)
  PROVE  /\ Tidy(t) /\ t.races = s.races /\ Stays(s, t) /\ Follows(s, t)
         /\ DOMAIN s.heats \subseteq DOMAIN t.heats
<1>1. /\ Tidy(t) /\ t.races = s.races /\ Stays(s, t) /\ Shaped(s)
      /\ DOMAIN s.heats \subseteq DOMAIN t.heats
  BY GrownTidy DEF Extends, Grows, Tidy
<1>2. \A g \in DOMAIN s.heats : g <= g
  BY <1>1, HeatNumbers
<1> QED
  BY <1>1, <1>2 DEF Follows

LEMMA ExtendedTwice ==
  ASSUME NEW s, NEW t, NEW u, Extends(s, t), Extends(t, u)
  PROVE  Extends(s, u)
<1>1. Grows(s, u)
  BY GrownTwice DEF Extends
<1>2. Shaped(s) => Stays(s, u)
  <2> SUFFICES ASSUME Shaped(s) PROVE Stays(s, u)
    OBVIOUS
  <2>1. /\ Stays(s, t) /\ Stays(t, u) /\ DOMAIN s.heats \subseteq DOMAIN t.heats
    BY DEF Extends, Grows
  <2> QED
    BY <2>1 DEF Stays
<1> QED
  BY <1>1, <1>2 DEF Extends

\* Heats that are added, and some that are taken away again.
LEMMA ExtendedStays ==
  ASSUME NEW s, NEW t, NEW u, Stays(s, t), Stays(t, u),
         DOMAIN s.heats \subseteq DOMAIN t.heats
  PROVE  Stays(s, u)
BY DEF Stays

\* The same heats and races.
LEMMA SameExtends ==
  ASSUME NEW s, NEW t,
         Shaped(s) => /\ {"heats", "races"} \subseteq DOMAIN t
                      /\ t.heats = s.heats /\ t.races = s.races
  PROVE  Extends(s, t)
BY DEF Extends, Stays, Grows, Shaped

\* The same races, and the same heats in the same classes.
LEMMA AlikeGrows ==
  ASSUME NEW s, NEW t,
         Shaped(s) => /\ {"heats", "races"} \subseteq DOMAIN t /\ t.races = s.races
                      /\ DOMAIN t.heats = DOMAIN s.heats
                      /\ \A h \in DOMAIN s.heats : /\ HeatRow(t.heats[h])
                                                   /\ t.heats[h].class = s.heats[h].class
  PROVE  Grows(s, t)
BY DEF Grows, Shaped, HeatTable

LEMMA RelabelledExtends == \A s, h : Extends(s, Relabelled(s, h))
<1> SUFFICES ASSUME NEW s, NEW h PROVE Extends(s, Relabelled(s, h))
  OBVIOUS
<1> DEFINE label == Label(s, h)
           t == [s EXCEPT !.heats[h].label = label]
<1> HIDE DEF label
<1>1. Shaped(s) => /\ {"heats", "races"} \subseteq DOMAIN t /\ t.races = s.races
                   /\ DOMAIN t.heats = DOMAIN s.heats
                   /\ \A g \in DOMAIN s.heats :
                        /\ {"class", "slots", "confirmed"} \subseteq DOMAIN t.heats[g]
                        /\ t.heats[g].class = s.heats[g].class
                        /\ t.heats[g].slots = s.heats[g].slots
                        /\ t.heats[g].confirmed = s.heats[g].confirmed
  BY DEF Shaped, HeatTable, HeatRow
<1>2. Relabelled(s, h) = t
  BY DEF Relabelled, label
<1> HIDE DEF t
<1>3. Shaped(s) => \A g \in DOMAIN s.heats : HeatRow(t.heats[g])
  BY <1>1 DEF Shaped, HeatTable, HeatRow
<1>4. Grows(s, t)
  BY <1>1, <1>3, AlikeGrows
<1>5. Shaped(s) => Stays(s, t)
  BY <1>1 DEF Stays
<1> QED
  BY <1>2, <1>4, <1>5 DEF Extends

\* A new row gets an id that comes after all others.
LEMMA NewIdFresh ==
  ASSUME NEW table, DOMAIN table \subseteq Nat, IsFiniteSet(DOMAIN table)
  PROVE  /\ NewId(table) \in Nat /\ NewId(table) \notin DOMAIN table
         /\ \A y \in DOMAIN table : y < NewId(table)
<1> DEFINE T == DOMAIN table \cup {0}
<1>1. T \in SUBSET Int /\ T # {} /\ T \subseteq Nat
  OBVIOUS
<1>2. IsFiniteSet(T)
  BY FS_AddElement
<1> HIDE DEF T
<1>3. Max(T) \in T /\ \A y \in T : y <= Max(T)
  BY <1>1, <1>2, MaxOfSome
<1>4. NewId(table) = 1 + Max(T)
  BY DEF NewId, T
<1>5. \A y \in DOMAIN table : y \in T
  BY DEF T
<1> DEFINE m == Max(T)
<1>6. m \in Nat /\ \A y \in DOMAIN table : y <= m
  BY <1>1, <1>3, <1>5
<1> HIDE DEF m
<1>7. 1 + m \in Nat /\ 1 + m \notin DOMAIN table /\ \A y \in DOMAIN table : y < 1 + m
  BY <1>6
<1> QED
  BY <1>4, <1>7, Zenon DEF m

LEMMA InsertExtends ==
  ASSUME NEW s, NEW row, HeatRow(row)
  PROVE  Extends(s, InsertHeat(s, row))
<1> DEFINE id == NewId(s.heats)
           t == [s EXCEPT !.heats = Added(s.heats, id, row)]
<1>1. Extends(s, t)
  <2> SUFFICES ASSUME Shaped(s)
               PROVE  /\ Shaped(t) /\ t.races = s.races
                      /\ \A h \in DOMAIN s.heats : /\ h \in DOMAIN t.heats
                                                   /\ t.heats[h].class = s.heats[h].class
                      /\ Stays(s, t)
    BY DEF Extends, Grows
  <2>1. id \in Nat /\ id \notin DOMAIN s.heats /\ \A y \in DOMAIN s.heats : y < id
    BY NewIdFresh DEF Shaped, HeatTable
  <2> HIDE DEF id
  <2>2. /\ {"heats", "races"} \subseteq DOMAIN t /\ t.races = s.races
        /\ t.heats = Added(s.heats, id, row)
    BY DEF Shaped
  <2>3. /\ DOMAIN t.heats = DOMAIN s.heats \cup {id} /\ t.heats[id] = row
        /\ \A h \in DOMAIN s.heats : t.heats[h] = s.heats[h]
    BY <2>1, <2>2 DEF Added
  <2>4. IsFiniteSet(DOMAIN s.heats \cup {id})
    BY FS_AddElement DEF Shaped, HeatTable
  <2> HIDE DEF t
  <2>5. HeatTable(t.heats)
    BY <2>1, <2>3, <2>4 DEF HeatTable, Shaped
  <2>6. Stays(s, t)
    BY <2>1, <2>3 DEF Stays
  <2> QED
    BY <2>2, <2>3, <2>5, <2>6 DEF Shaped
<1>2. InsertHeat(s, row) = Relabelled(t, id)
  BY DEF InsertHeat
<1> QED
  BY <1>1, <1>2, RelabelledExtends, ExtendedTwice

\* Slots of which each has the number of its seat.
LEMMA NumberedFit ==
  ASSUME NEW slots, slots = [k \in Seats |-> slots[k]],
         \A k \in Seats : {"seat", "pilot"} \subseteq DOMAIN slots[k] /\ slots[k].seat = k
  PROVE  SlotsFit(slots)
<1>1. N \in Nat /\ Seats = 1 .. N /\ DOMAIN slots = Seats
  BY NAssumption DEF Seats
<1> DEFINE S == {slots[k] : k \in Seats}
<1>2. slots \in [1 .. N -> S]
  BY <1>1
<1>3. slots \in Seq(S)
  BY <1>1, <1>2
<1>4. SlotTable(slots)
  BY <1>1, <1>3 DEF SlotTable
<1> QED
  BY <1>1, <1>4 DEF SlotsFit, Apart

LEMMA AddHeatExtends ==
  ASSUME NEW s, NEW class, NEW group, NEW auto, NEW method
  PROVE  Extends(s, AddHeat(s, class, group, auto, method))
<1> DEFINE slots == [k \in Seats |-> Slot(k, None, method)]
           row == [NewHeat(class, auto, slots) EXCEPT !.group = group]
<1>1. SlotsFit(slots)
  <2>1. \A k \in Seats : {"seat", "pilot"} \subseteq DOMAIN slots[k] /\ slots[k].seat = k
    BY DEF Slot
  <2>2. slots = [k \in Seats |-> slots[k]]
    OBVIOUS
  <2> HIDE DEF slots
  <2> QED
    BY <2>1, <2>2, NumberedFit
<1>2. AddHeat(s, class, group, auto, method) = InsertHeat(s, row)
  BY DEF AddHeat
<1> HIDE DEF slots
<1>3. HeatRow(row)
  BY <1>1 DEF NewHeat, HeatRow
<1> QED
  BY <1>2, <1>3, InsertExtends

LEMMA DuplicateExtends ==
  ASSUME NEW s, NEW h, h \in DOMAIN s.heats, NEW class, NEW group
  PROVE  Extends(s, DuplicateHeat(s, h, class, group))
<1> DEFINE row == [s.heats[h] EXCEPT !.class = class, !.group = group,
                                     !.confirmed = FALSE, !.active = TRUE]
<1>1. Shaped(s) => HeatRow(row)
  <2> SUFFICES ASSUME Shaped(s) PROVE HeatRow(row)
    OBVIOUS
  <2>1. HeatRow(s.heats[h])
    BY DEF Shaped, HeatTable
  <2>2. {"class", "slots", "confirmed"} \subseteq DOMAIN row /\ row.slots = s.heats[h].slots
    BY <2>1 DEF HeatRow
  <2> QED
    BY <2>1, <2>2 DEF HeatRow
<1>2. DuplicateHeat(s, h, class, group) = InsertHeat(s, row)
  BY DEF DuplicateHeat
<1> HIDE DEF row
<1>3. Shaped(s) => Extends(s, InsertHeat(s, row))
  BY <1>1, InsertExtends
<1> QED
  BY <1>2, <1>3 DEF Extends, Grows

\* A heat with other slots, and tables of which only one heat has them.
WithSlots(s, h, slots) == [s EXCEPT !.heats[h].slots = slots]
OnlySlots(s, h, t) ==
  /\ DOMAIN t.heats = DOMAIN s.heats
  /\ \A g \in DOMAIN s.heats : /\ t.heats[g].confirmed = s.heats[g].confirmed
                               /\ g # h => t.heats[g].slots = s.heats[g].slots

LEMMA SlotsGrow ==
  ASSUME NEW s, NEW h, NEW slots, Shaped(s) /\ h \in DOMAIN s.heats => SlotsFit(slots)
  PROVE  /\ Grows(s, WithSlots(s, h, slots))
         /\ Shaped(s) => /\ OnlySlots(s, h, WithSlots(s, h, slots))
                         /\ h \in DOMAIN s.heats =>
                              WithSlots(s, h, slots).heats[h].slots = slots
<1> DEFINE t == WithSlots(s, h, slots)
<1> USE DEF WithSlots
<1>1. Shaped(s) => /\ {"heats", "races"} \subseteq DOMAIN t /\ t.races = s.races
                   /\ DOMAIN t.heats = DOMAIN s.heats
                   /\ \A g \in DOMAIN s.heats :
                        /\ {"class", "slots", "confirmed"} \subseteq DOMAIN t.heats[g]
                        /\ t.heats[g].class = s.heats[g].class
                        /\ t.heats[g].confirmed = s.heats[g].confirmed
                        /\ t.heats[g].slots = IF g = h THEN slots ELSE s.heats[g].slots
  BY DEF Shaped, HeatTable, HeatRow
<1> HIDE DEF WithSlots
<1>2. Shaped(s) => \A g \in DOMAIN s.heats : SlotsFit(s.heats[g].slots)
  BY DEF Shaped, HeatTable, HeatRow
<1>3. Shaped(s) => \A g \in DOMAIN s.heats : HeatRow(t.heats[g])
  BY <1>1, <1>2 DEF HeatRow
<1>4. Grows(s, t)
  BY <1>1, <1>3, AlikeGrows
<1> QED
  BY <1>1, <1>4 DEF OnlySlots

\* Who has a seat keeps it when the others get theirs.
LEMMA ResolvedCrew ==
  ASSUME NEW slots, SlotsFit(slots)
  PROVE  SlotsFit(Resolved(slots)) /\ SameCrew(slots, Resolved(slots))
<1>1. SlotsFit(Resolved(slots))
  BY ResolvedApart DEF SlotsFit
<1> DEFINE bare == {k \in DOMAIN slots : slots[k].seat = None}
           seat(k) == Nth((1 .. Len(slots) + N) \ {slots[j].seat : j \in DOMAIN slots},
                          UpTo(bare, k))
<1>2. Resolved(slots) = [k \in DOMAIN slots |->
                           IF k \in bare THEN [slots[k] EXCEPT !.seat = seat(k)] ELSE slots[k]]
  BY DEF Resolved
<1> HIDE DEF seat
<1>3. \A k \in DOMAIN slots : {"seat", "pilot"} \subseteq DOMAIN slots[k]
  BY DEF SlotsFit, SlotTable
<1>4. \A k \in DOMAIN slots : slots[k].seat # None => Resolved(slots)[k] = slots[k]
  BY <1>2
<1>5. \A k \in DOMAIN slots : Resolved(slots)[k].pilot = slots[k].pilot
  BY <1>2, <1>3
<1>6. DOMAIN Resolved(slots) = DOMAIN slots
  BY <1>2
<1> QED
  BY <1>1, <1>4, <1>5, <1>6 DEF SameCrew

LEMMA ResolveGrows ==
  \A s, h : /\ Grows(s, ResolveSeats(s, h))
            /\ Shaped(s) => OnlySlots(s, h, ResolveSeats(s, h))
            /\ Shaped(s) => \A g \in DOMAIN s.heats :
                              SameCrew(s.heats[g].slots, ResolveSeats(s, h).heats[g].slots)
<1> SUFFICES ASSUME NEW s, NEW h
             PROVE  /\ Grows(s, ResolveSeats(s, h))
                    /\ Shaped(s) => OnlySlots(s, h, ResolveSeats(s, h))
                    /\ Shaped(s) => \A g \in DOMAIN s.heats :
                         SameCrew(s.heats[g].slots, ResolveSeats(s, h).heats[g].slots)
  OBVIOUS
<1>1. PICK slots : slots = Resolved(s.heats[h].slots)
  OBVIOUS
<1>2. PICK t : t = WithSlots(s, h, slots)
  OBVIOUS
<1>3. ResolveSeats(s, h) = t
  BY <1>1, <1>2 DEF ResolveSeats, WithSlots
<1>4. Shaped(s) => \A g \in DOMAIN s.heats : SlotsFit(s.heats[g].slots)
  BY DEF Shaped, HeatTable, HeatRow
<1>5. Shaped(s) /\ h \in DOMAIN s.heats => /\ SlotsFit(slots)
                                           /\ SameCrew(s.heats[h].slots, slots)
  BY <1>1, <1>4, ResolvedCrew
<1>6. /\ Grows(s, t)
      /\ Shaped(s) => /\ OnlySlots(s, h, t)
                      /\ h \in DOMAIN s.heats => t.heats[h].slots = slots
  BY <1>2, <1>5, SlotsGrow
<1>7. \A old : SameCrew(old, old)
  BY DEF SameCrew
<1> QED
  BY <1>3, <1>5, <1>6, <1>7 DEF OnlySlots

LEMMA SelfExtends == \A s : Extends(s, s)
BY DEF Extends, Grows, Stays

LEMMA PracticeSame == \A s : Shaped(s) => Practice(s).heats = s.heats
<1> SUFFICES ASSUME NEW s, Shaped(s) PROVE Practice(s).heats = s.heats
  OBVIOUS
<1>1. PICK t : t = [s EXCEPT !.race.heat = None, !.race.pilots = NobodyUp, !.option = None]
  OBVIOUS
<1>2. t.heats = s.heats
  BY <1>1 DEF Shaped
<1> QED
  BY <1>1, <1>2 DEF Practice

LEMMA PracticeExtends == \A s : Extends(s, Practice(s))
<1> SUFFICES ASSUME NEW s PROVE Extends(s, Practice(s))
  OBVIOUS
<1>1. PICK t : t = [s EXCEPT !.race.heat = None, !.race.pilots = NobodyUp, !.option = None]
  OBVIOUS
<1>2. Extends(s, t)
  <2>1. Shaped(s) => /\ {"heats", "races"} \subseteq DOMAIN t
                     /\ t.heats = s.heats /\ t.races = s.races
    BY <1>1 DEF Shaped
  <2> QED
    BY <2>1, SameExtends
<1> QED
  BY <1>1, <1>2, SelfExtends DEF Practice

LEMMA FollowExtends == \A s, h : Extends(s, FollowCurrent(s, h))
<1> SUFFICES ASSUME NEW s, NEW h PROVE Extends(s, FollowCurrent(s, h))
  OBVIOUS
<1>1. Extends(s, [s EXCEPT !.race.pilots = [x \in Seats |-> Holder(s.heats[h], x)]])
  BY SameExtends DEF Shaped
<1> QED
  BY <1>1, SelfExtends, PracticeExtends DEF FollowCurrent

-----------------------------------------------------------------------------
(* Heats that are seeded and seated                                        *)

\* Only a heat that is not confirmed and not flown gets other slots.
Reseated(s, t) ==
  /\ DOMAIN t.heats = DOMAIN s.heats
  /\ \A h \in DOMAIN s.heats :
       /\ t.heats[h].confirmed = s.heats[h].confirmed
       /\ Locked(s, h) => t.heats[h].slots = s.heats[h].slots
Settles(s, t) == Grows(s, t) /\ (Shaped(s) => Reseated(s, t))
SettlesOne(s, h, t) == Settles(s, t) /\ (Shaped(s) => OnlySlots(s, h, t))

LEMMA SettledTwice ==
  ASSUME NEW s, NEW t, NEW u, Settles(s, t), Settles(t, u)
  PROVE  Settles(s, u)
<1>1. Grows(s, u)
  BY GrownTwice DEF Settles
<1>2. Shaped(s) => \A h \in DOMAIN s.heats : Locked(s, h) => Locked(t, h)
  BY RacesOfHeat DEF Settles, Grows, Reseated, Locked
<1> QED
  BY <1>1, <1>2 DEF Settles, Grows, Reseated

LEMMA KeptSettles ==
  ASSUME NEW s, NEW t, Grows(s, t), Shaped(s) => t.heats = s.heats
  PROVE  Settles(s, t)
BY DEF Settles, Reseated

LEMMA SeededFit ==
  ASSUME NEW s, NEW h \in DOMAIN s.heats, Shaped(s)
  PROVE  SlotsFit([k \in DOMAIN s.heats[h].slots |->
           [s.heats[h].slots[k] EXCEPT !.pilot = SeededPilot(s, s.heats[h].slots[k])]])
<1>1. PICK slots : slots = s.heats[h].slots
  OBVIOUS
<1>2. SlotsFit(slots)
  BY <1>1 DEF Shaped, HeatTable, HeatRow
<1> DEFINE pilot(k) == SeededPilot(s, slots[k])
           new == [k \in DOMAIN slots |-> [slots[k] EXCEPT !.pilot = pilot(k)]]
<1> HIDE DEF pilot
<1>3. /\ DOMAIN new = DOMAIN slots /\ new = [k \in DOMAIN slots |-> new[k]]
      /\ \A k \in DOMAIN slots : /\ {"seat", "pilot"} \subseteq DOMAIN new[k]
                                 /\ new[k].seat = slots[k].seat
  BY <1>2 DEF SlotsFit, SlotTable
<1> HIDE DEF new
<1>4. \E S : new \in Seq(S)
  BY <1>2, <1>3, TableMapped DEF SlotsFit, SlotTable
<1>5. SlotTable(new)
  BY <1>2, <1>3, <1>4 DEF SlotsFit, SlotTable
<1>6. Apart(new)
  BY <1>2, <1>3 DEF SlotsFit, Apart
<1> QED
  BY <1>1, <1>5, <1>6 DEF SlotsFit, new, pilot

LEMMA SeatedFit ==
  ASSUME NEW slots, SlotsFit(slots), NEW at \in [DOMAIN slots -> 0 .. N],
         \A j, k \in DOMAIN slots : j # k /\ at[j] # None => at[j] # at[k]
  PROVE  SlotsFit([k \in DOMAIN slots |-> [slots[k] EXCEPT !.seat = at[k]]])
<1> DEFINE new == [k \in DOMAIN slots |-> [slots[k] EXCEPT !.seat = at[k]]]
<1>1. /\ DOMAIN new = DOMAIN slots /\ new = [k \in DOMAIN slots |-> new[k]]
      /\ \A k \in DOMAIN slots : /\ {"seat", "pilot"} \subseteq DOMAIN new[k]
                                 /\ new[k].seat = at[k]
  BY DEF SlotsFit, SlotTable
<1>2. \A k \in DOMAIN slots : at[k] \in Nat
  BY NAssumption
<1> HIDE DEF new
<1>3. \E S : new \in Seq(S)
  BY <1>1, TableMapped DEF SlotsFit, SlotTable
<1>4. SlotTable(new)
  BY <1>1, <1>2, <1>3 DEF SlotTable
<1>5. Apart(new)
  BY <1>1 DEF Apart
<1> QED
  BY <1>4, <1>5 DEF SlotsFit, new

\* Seats that are asked for: one for each slot, each another.
Wished(pre) == (\A k \in DOMAIN pre : pre[k] \in Seats) /\ IsInjective(pre)

LEMMA AutoGrows ==
  ASSUME NEW s, NEW h, NEW pre, Wished(pre), NEW lucky,
         NEW t \in AutoFrequency(s, h, pre, lucky)
  PROVE  Grows(s, t) /\ (Shaped(s) => OnlySlots(s, h, t))
<1>1. CASE t = s
  BY <1>1 DEF Grows, OnlySlots
<1>2. CASE t # s
  <2>1. PICK slots : slots = s.heats[h].slots
    OBVIOUS
  <2>2. PICK at \in Seatings(s, slots, pre, lucky) :
          t = [s EXCEPT !.heats[h].slots =
                 [k \in DOMAIN slots |-> [slots[k] EXCEPT !.seat = at[k]]]]
    BY <1>2, <2>1 DEF AutoFrequency
  <2>3. Shaped(s) /\ h \in DOMAIN s.heats =>
          SlotsFit([k \in DOMAIN slots |-> [slots[k] EXCEPT !.seat = at[k]]])
    <3> SUFFICES ASSUME Shaped(s), h \in DOMAIN s.heats
                 PROVE  SlotsFit([k \in DOMAIN slots |-> [slots[k] EXCEPT !.seat = at[k]]])
      OBVIOUS
    <3>1. SlotsFit(slots) /\ SlotTable(slots)
      BY <2>1 DEF Shaped, HeatTable, HeatRow, SlotsFit
    <3>2. /\ at \in [DOMAIN slots -> 0 .. N]
          /\ \A j, k \in DOMAIN slots : j # k /\ at[j] # None => at[j] # at[k]
      BY <3>1, SeatingsApart DEF Wished
    <3> QED
      BY <3>1, <3>2, SeatedFit
  <2>4. PICK new : new = [k \in DOMAIN slots |-> [slots[k] EXCEPT !.seat = at[k]]]
    OBVIOUS
  <2>5. t = WithSlots(s, h, new)
    BY <2>2, <2>4 DEF WithSlots
  <2>6. Shaped(s) /\ h \in DOMAIN s.heats => SlotsFit(new)
    BY <2>3, <2>4
  <2> QED
    BY <2>5, <2>6, SlotsGrow
<1> QED
  BY <1>1, <1>2

LEMMA CalcHeatSettles ==
  ASSUME NEW s, NEW h, NEW pre, Wished(pre), NEW lucky, NEW t \in CalcHeat(s, h, pre, lucky)
  PROVE  SettlesOne(s, h, t)
<1>1. CASE t = s
  BY <1>1 DEF SettlesOne, Settles, Grows, Reseated, OnlySlots
<1>2. CASE t # s
  <2>1. PICK u : u = Seeded(s, h)
    OBVIOUS
  <2>2. ~Locked(s, h) /\ h \in DOMAIN s.heats /\ t \in AutoFrequency(u, h, pre, lucky)
    BY <1>2, <2>1 DEF CalcHeat
  <2>3. PICK new : new = [k \in DOMAIN s.heats[h].slots |->
           [s.heats[h].slots[k] EXCEPT !.pilot = SeededPilot(s, s.heats[h].slots[k])]]
    OBVIOUS
  <2>4. u = WithSlots(s, h, new)
    BY <2>1, <2>3 DEF Seeded, WithSlots
  <2>5. Shaped(s) /\ h \in DOMAIN s.heats => SlotsFit(new)
    BY <2>3, SeededFit
  <2>6. Grows(s, u) /\ (Shaped(s) => OnlySlots(s, h, u))
    BY <2>4, <2>5, SlotsGrow
  <2>7. Grows(u, t) /\ (Shaped(u) => OnlySlots(u, h, t))
    BY <2>2, AutoGrows
  <2>8. Grows(s, t)
    BY <2>6, <2>7, GrownTwice
  <2>9. Shaped(s) => OnlySlots(s, h, t)
    BY <2>6, <2>7 DEF OnlySlots, Grows
  <2> QED
    BY <2>2, <2>8, <2>9 DEF SettlesOne, Settles, Reseated, OnlySlots
<1> QED
  BY <1>1, <1>2

LEMMA CalibratedExtends == \A s : Extends(s, Calibrated(s)) /\ (Shaped(s) => Calibrated(s).heats = s.heats)
<1> SUFFICES ASSUME NEW s
             PROVE  Extends(s, Calibrated(s)) /\ (Shaped(s) => Calibrated(s).heats = s.heats)
  OBVIOUS
<1>1. ASSUME NEW best
      PROVE  /\ Extends(s, WithLevels(s, best))
             /\ Shaped(s) => WithLevels(s, best).heats = s.heats
  <2>1. Shaped(s) => /\ {"heats", "races"} \subseteq DOMAIN WithLevels(s, best)
                     /\ WithLevels(s, best).heats = s.heats
                     /\ WithLevels(s, best).races = s.races
    BY DEF WithLevels, Shaped
  <2> QED
    BY <2>1, SameExtends
<1> QED
  BY <1>1, SelfExtends DEF Calibrated

LEMMA FinalizedExtends ==
  \A s, h : Extends(s, Finalized(s, h)) /\ (Shaped(s) => Finalized(s, h).heats = s.heats)
<1> SUFFICES ASSUME NEW s, NEW h
             PROVE  Extends(s, Finalized(s, h)) /\ (Shaped(s) => Finalized(s, h).heats = s.heats)
  OBVIOUS
<1> DEFINE format == FormatOfClass(s, s.heats[h].class, None)
<1>1. PICK t : t = [s EXCEPT !.option = h,
             !.race = [@ EXCEPT
               !.heat = h,
               !.pilots = [x \in Seats |-> Holder(s.heats[h], x)],
               !.format = IF format = None THEN s.race.format ELSE format]]
  OBVIOUS
<1>2. Extends(s, t) /\ (Shaped(s) => t.heats = s.heats)
  <2>1. Shaped(s) => /\ {"heats", "races"} \subseteq DOMAIN t
                     /\ t.heats = s.heats /\ t.races = s.races
    BY <1>1 DEF Shaped
  <2> QED
    BY <2>1, SameExtends
<1>3. Extends(s, Calibrated(t)) /\ (Shaped(s) => Calibrated(t).heats = s.heats)
  BY <1>2, CalibratedExtends, ExtendedTwice DEF Extends, Grows
<1> QED
  BY <1>1, <1>3, PracticeSame, PracticeExtends DEF Finalized

LEMMA NoWish == Wished(<<>>)
BY DEF Wished, IsInjective

LEMMA SetHeatSettles ==
  ASSUME NEW s, NEW h, NEW t \in SetHeat(s, h)
  PROVE  SettlesOne(s, h, t)
<1>1. \A u : /\ Settles(u, Practice(u)) /\ Settles(u, Finalized(u, h))
             /\ Shaped(u) => Practice(u).heats = u.heats /\ Finalized(u, h).heats = u.heats
  BY PracticeSame, FinalizedExtends, PracticeExtends, KeptSettles DEF Extends
<1>2. ASSUME NEW u, NEW v \in Taken(u, h)
      PROVE  SettlesOne(u, h, v)
  <2>1. PICK w \in CalcHeat(u, h, <<>>, scenario.lucky) :
          v = CASE Verdict(u, h) = "safe" -> Finalized(w, h)
                [] Verdict(u, h) = "no-heat" -> Practice(w)
                [] OTHER -> w
    BY <1>2 DEF Taken
  <2>2. SettlesOne(u, h, w)
    BY CalcHeatSettles, NoWish
  <2>3. v \in {w, Finalized(w, h), Practice(w)}
    BY <2>1
  <2>4. Settles(u, v)
    BY <1>1, <2>2, <2>3, SettledTwice DEF SettlesOne
  <2>5. Shaped(u) => OnlySlots(u, h, v)
    BY <1>1, <2>2, <2>3 DEF SettlesOne, Settles, Grows, OnlySlots
  <2> QED
    BY <2>4, <2>5 DEF SettlesOne
<1>3. PICK u : u = (IF h \in DOMAIN s.heats /\ ~s.heats[h].active THEN Practice(s) ELSE s)
  OBVIOUS
<1>4. SettlesOne(u, h, t)
  BY <1>2, <1>3 DEF SetHeat
<1>5. Settles(s, s)
  BY DEF Settles, Grows, Reseated
<1>6. Settles(s, u) /\ (Shaped(s) => Shaped(u) /\ u.heats = s.heats)
  BY <1>1, <1>3, <1>5 DEF Settles, Grows
<1>7. Settles(s, t)
  BY <1>4, <1>6, SettledTwice DEF SettlesOne
<1>8. Shaped(s) => OnlySlots(s, h, t)
  BY <1>4, <1>6 DEF SettlesOne, OnlySlots
<1> QED
  BY <1>7, <1>8 DEF SettlesOne
-----------------------------------------------------------------------------
(* Operations that change heats and races one by one                       *)

\* No race changes its heat or its round.
LEMMA StillTidy ==
  ASSUME NEW s, NEW t, Tidy(s), Shaped(t), DOMAIN t.races = DOMAIN s.races,
         \A r \in DOMAIN s.races :
           LET h == s.races[r].heat
           IN /\ t.races[r].heat = h /\ t.races[r].round = s.races[r].round
              /\ h \in DOMAIN t.heats /\ t.races[r].class = t.heats[h].class
  PROVE  Tidy(t)
<1>1. \A h : RacesOf(t, h) = RacesOf(s, h)
  BY RacesOfHeat
<1>2. ASSUME NEW r \in DOMAIN t.races
      PROVE  LET h == t.races[r].heat
             IN /\ h \in DOMAIN t.heats /\ t.races[r].class = t.heats[h].class
                /\ t.races[r].round = Cardinality({x \in RacesOf(t, h) : x <= r})
  <2> DEFINE h == s.races[r].heat
  <2>1. /\ t.races[r].heat = h /\ t.races[r].round = s.races[r].round
        /\ h \in DOMAIN t.heats /\ t.races[r].class = t.heats[h].class
    BY <1>2
  <2>2. s.races[r].round = Cardinality({x \in RacesOf(s, h) : x <= r})
    BY <1>2 DEF Tidy, RacesFollow
  <2>3. RacesOf(t, h) = RacesOf(s, h)
    BY <1>1
  <2> HIDE DEF h
  <2> QED
    BY <2>1, <2>2, <2>3
<1> QED
  BY <1>2 DEF Tidy, RacesFollow

\* What is asked for a slot leaves its seat alone.
LEMMA ReslottedFit ==
  ASSUME NEW slots, SlotsFit(slots), NEW k, NEW d
  PROVE  SlotsFit([slots EXCEPT ![k] = Reslotted(slots[k], d)])
<1> DEFINE row == Reslotted(slots[k], d)
           new == [slots EXCEPT ![k] = row]
<1>1. k \in DOMAIN slots => {"seat", "pilot"} \subseteq DOMAIN row /\ row.seat = slots[k].seat
  BY DEF Reslotted, SlotsFit, SlotTable
<1> HIDE DEF row
<1>2. /\ DOMAIN new = DOMAIN slots /\ new = [j \in DOMAIN slots |-> new[j]]
      /\ \A j \in DOMAIN slots : /\ {"seat", "pilot"} \subseteq DOMAIN new[j]
                                 /\ new[j].seat = slots[j].seat
  BY <1>1 DEF SlotsFit, SlotTable
<1> HIDE DEF new
<1>3. \E S : new \in Seq(S)
  BY <1>2, TableMapped DEF SlotsFit, SlotTable
<1>4. SlotTable(new)
  BY <1>2, <1>3 DEF SlotsFit, SlotTable
<1>5. Apart(new)
  BY <1>2 DEF SlotsFit, Apart
<1> QED
  BY <1>4, <1>5 DEF SlotsFit, new, row

LEMMA AlteredHeatRow ==
  ASSUME NEW heat, HeatRow(heat), NEW d
  PROVE  LET row == AlteredHeat(heat, d)
         IN /\ HeatRow(row)
            /\ row.class = Given(d, "class", heat.class)
            /\ row.confirmed = Given(d, "confirmed", heat.confirmed)
            /\ "auto" \notin DOMAIN d /\ "slot" \notin DOMAIN d => row.slots = heat.slots
<1>1. PICK new : new = [heat EXCEPT !.class = Given(d, "class", heat.class),
                                    !.group = Given(d, "group", heat.group),
                                    !.auto = Given(d, "auto", heat.auto),
                                    !.confirmed = Given(d, "confirmed", heat.confirmed),
                                    !.active = Given(d, "active", heat.active)]
  OBVIOUS
<1>2. /\ {"class", "slots", "confirmed"} \subseteq DOMAIN new
      /\ new.class = Given(d, "class", heat.class) /\ new.slots = heat.slots
      /\ new.confirmed = Given(d, "confirmed", heat.confirmed)
  BY <1>1 DEF HeatRow
<1>3. PICK slots : slots = IF ~Given(d, "auto", TRUE) THEN Resolved(new.slots) ELSE new.slots
  OBVIOUS
<1>4. SlotsFit(slots)
  BY <1>2, <1>3, ResolvedCrew DEF HeatRow
<1>5. PICK put : put = IF "slot" \in DOMAIN d
                       THEN [slots EXCEPT ![d.slot] = Reslotted(slots[d.slot], d)] ELSE slots
  OBVIOUS
<1>6. SlotsFit(put)
  BY <1>4, <1>5, ReslottedFit
<1>7. PICK row : row = [new EXCEPT !.slots = put]
  OBVIOUS
<1>8. AlteredHeat(heat, d) = row
  BY <1>1, <1>3, <1>5, <1>7 DEF AlteredHeat
<1>9. /\ {"class", "slots", "confirmed"} \subseteq DOMAIN row
      /\ row.class = new.class /\ row.slots = put /\ row.confirmed = new.confirmed
  BY <1>2, <1>7
<1>10. "auto" \notin DOMAIN d /\ "slot" \notin DOMAIN d => put = heat.slots
  BY <1>2, <1>3, <1>5 DEF Given
<1> QED
  BY <1>2, <1>6, <1>8, <1>9, <1>10 DEF HeatRow

\* Only one heat is altered, in what was asked for.
Alters(s, h, d, t) ==
  /\ DOMAIN t.heats = DOMAIN s.heats
  /\ \A g : RacesOf(t, g) = RacesOf(s, g)
  /\ \A g \in DOMAIN s.heats \ {h} : /\ t.heats[g].slots = s.heats[g].slots
                                    /\ t.heats[g].confirmed = s.heats[g].confirmed
  /\ t.heats[h].confirmed = Given(d, "confirmed", s.heats[h].confirmed)
  /\ DOMAIN d \cap {"auto", "slot"} = {} => t.heats[h].slots = s.heats[h].slots

LEMMA AlterHeatTidy ==
  ASSUME NEW s, Tidy(s), NEW h \in DOMAIN s.heats, NEW d
  PROVE  /\ Tidy(AlterHeat(s, h, d))
         /\ Alters(s, h, d, AlterHeat(s, h, d))
<1> DEFINE heat == s.heats[h]
           row == AlteredHeat(heat, d)
           races2 == AlteredRaces(s, h, d)
           t == [s EXCEPT !.heats[h] = row, !.races = races2]
<1>1. HeatRow(heat)
  BY DEF Tidy, Shaped, HeatTable
<1>2. /\ HeatRow(row) /\ row.class = Given(d, "class", heat.class)
      /\ row.confirmed = Given(d, "confirmed", heat.confirmed)
      /\ "auto" \notin DOMAIN d /\ "slot" \notin DOMAIN d => row.slots = heat.slots
  BY <1>1, AlteredHeatRow
<1>3. /\ DOMAIN races2 = DOMAIN s.races
      /\ races2 = [r \in DOMAIN s.races |-> races2[r]]
      /\ \A r \in DOMAIN s.races :
           /\ {"heat", "class", "round"} \subseteq DOMAIN races2[r]
           /\ races2[r].heat = s.races[r].heat /\ races2[r].round = s.races[r].round
           /\ races2[r].class = IF s.races[r].heat = h
                                THEN Given(d, "class", s.races[r].class)
                                ELSE s.races[r].class
  BY DEF AlteredRaces, Tidy, Shaped, RaceTable
<1> HIDE DEF row, races2
<1>4. /\ {"heats", "races"} \subseteq DOMAIN t /\ t.races = races2
      /\ DOMAIN t.heats = DOMAIN s.heats /\ t.heats[h] = row
      /\ \A g \in DOMAIN s.heats : g # h => t.heats[g] = s.heats[g]
  BY DEF Tidy, Shaped
<1>5. \E S : races2 \in Seq(S)
  BY <1>3, TableMapped DEF Tidy, Shaped, RaceTable
<1> HIDE DEF t
<1>6. RaceTable(t.races)
  BY <1>3, <1>4, <1>5 DEF RaceTable
<1>7. HeatTable(t.heats)
  BY <1>2, <1>4 DEF HeatTable, Tidy, Shaped
<1>8. Shaped(t)
  BY <1>4, <1>6, <1>7 DEF Shaped
<1>9. \A r \in DOMAIN s.races :
        LET g == s.races[r].heat
        IN /\ t.races[r].heat = g /\ t.races[r].round = s.races[r].round
           /\ g \in DOMAIN t.heats /\ t.races[r].class = t.heats[g].class
  <2> TAKE r \in DOMAIN s.races
  <2>1. /\ s.races[r].heat \in DOMAIN s.heats
        /\ s.races[r].class = s.heats[s.races[r].heat].class
    BY DEF Tidy, RacesFollow
  <2>2. CASE s.races[r].heat = h
    BY <1>2, <1>3, <1>4, <2>1, <2>2
  <2>3. CASE s.races[r].heat # h
    BY <1>3, <1>4, <2>1, <2>3
  <2> QED
    BY <2>2, <2>3
<1>10. Tidy(t)
  BY <1>3, <1>4, <1>8, <1>9, StillTidy
<1>11. PICK u : u = Relabelled(t, h)
  OBVIOUS
<1>12. PICK v : v = FollowCurrent(u, h)
  OBVIOUS
<1>13. AlterHeat(s, h, d) = v
  BY <1>11, <1>12 DEF AlterHeat, t, row, races2
<1>14. Extends(t, v) /\ DOMAIN v.heats = DOMAIN t.heats
  <2>1. Extends(t, u) /\ Extends(u, v)
    BY <1>11, <1>12, RelabelledExtends, FollowExtends
  <2>2. DOMAIN u.heats = DOMAIN t.heats
    BY <1>8, <1>11 DEF Relabelled, Shaped
  <2>3. "heats" \in DOMAIN u
    BY <1>8, <2>1 DEF Extends, Grows, Shaped
  <2>4. v.heats = u.heats
    BY <1>12, <2>3 DEF FollowCurrent, Practice
  <2> QED
    BY <2>1, <2>2, <2>4, ExtendedTwice
<1>15. Tidy(v) /\ v.races = t.races /\ Stays(t, v)
  BY <1>10, <1>14, ExtendedFollows
<1>16. \A g : RacesOf(v, g) = RacesOf(s, g)
  <2> TAKE g
  <2>1. RacesOf(v, g) = {r \in DOMAIN s.races : races2[r].heat = g}
    BY <1>3, <1>4, <1>15, RacesOfHeat
  <2>2. RacesOf(s, g) = {r \in DOMAIN s.races : s.races[r].heat = g}
    BY RacesOfHeat
  <2> QED
    BY <1>3, <2>1, <2>2
<1>17. /\ \A g \in DOMAIN s.heats \ {h} : /\ v.heats[g].slots = s.heats[g].slots
                                        /\ v.heats[g].confirmed = s.heats[g].confirmed
       /\ v.heats[h].confirmed = Given(d, "confirmed", heat.confirmed)
       /\ DOMAIN d \cap {"auto", "slot"} = {} => v.heats[h].slots = heat.slots
  BY <1>2, <1>4, <1>14, <1>15 DEF Stays
<1> QED
  BY <1>4, <1>13, <1>14, <1>15, <1>16, <1>17 DEF Alters

\* Without a word of its slots and of its plan, a heat keeps both.
LEMMA AlteredStays ==
  ASSUME NEW s, NEW h \in DOMAIN s.heats, NEW d, NEW t, Alters(s, h, d, t),
         DOMAIN d \cap {"auto", "slot", "confirmed"} = {}
  PROVE  Stays(s, t)
<1>1. /\ Given(d, "confirmed", s.heats[h].confirmed) = s.heats[h].confirmed
      /\ DOMAIN d \cap {"auto", "slot"} = {}
  BY DEF Given
<1> QED
  BY <1>1 DEF Alters, Stays

LEMMA DeleteHeatTidy ==
  ASSUME NEW s, Tidy(s), NEW h
  PROVE  LET t == DeleteHeat(s, h)
         IN /\ Tidy(t) /\ t.races = s.races
            /\ DOMAIN t.heats \subseteq DOMAIN s.heats /\ Stays(s, t)
<1>0. Stays(s, s)
  BY DEF Stays
<1> DEFINE rest == [s EXCEPT !.heats = Without(s.heats, h)]
<1>1. CASE RacesOf(s, h) = {}
  <2>1. /\ {"heats", "races"} \subseteq DOMAIN rest /\ rest.races = s.races
        /\ rest.heats = Without(s.heats, h)
    BY DEF Tidy, Shaped
  <2>2. /\ DOMAIN rest.heats = DOMAIN s.heats \ {h}
        /\ \A g \in DOMAIN rest.heats : rest.heats[g] = s.heats[g]
    BY <2>1 DEF Without
  <2>3. IsFiniteSet(DOMAIN s.heats \ {h})
    BY FS_Subset DEF Tidy, Shaped, HeatTable
  <2>4. \A r \in DOMAIN s.races : s.races[r].heat # h
    BY <1>1, RacesOfHeat
  <2>5. PICK u : u = [rest EXCEPT !.race.heat = 1]
    OBVIOUS
  <2>6. /\ {"heats", "races"} \subseteq DOMAIN u
        /\ u.races = rest.races /\ u.heats = rest.heats
    BY <2>1, <2>5
  <2>7. DeleteHeat(s, h) \in {s, rest, u}
    BY <2>5 DEF DeleteHeat
  <2> HIDE DEF rest
  <2>8. Shaped(rest)
    BY <2>1, <2>2, <2>3 DEF Shaped, Tidy, HeatTable
  <2>9. Tidy(rest)
    <3>1. \A g : RacesOf(rest, g) = RacesOf(s, g)
      BY <2>1, RacesOfHeat
    <3> QED
      BY <2>1, <2>2, <2>4, <2>8, <3>1, ZenonT(90) DEF Tidy, RacesFollow
  <2>10. Tidy(u)
    BY <2>6, <2>9, SameExtends, ExtendedFollows
  <2>11. Stays(s, rest) /\ Stays(s, u)
    BY <2>2, <2>6 DEF Stays
  <2> QED
    BY <1>0, <2>1, <2>2, <2>6, <2>7, <2>9, <2>10, <2>11
<1>2. CASE RacesOf(s, h) # {}
  BY <1>0, <1>2 DEF DeleteHeat, MayDelete
<1> QED
  BY <1>1, <1>2

\* A class with races, or with heats that the database will not let go, stays.
LEMMA DeleteClassTidy ==
  ASSUME NEW s, Tidy(s), NEW c, NEW t \in DeleteClass(s, c)
  PROVE  Tidy(t) /\ Stays(s, t)
<1>1. CASE t = s
  BY <1>1 DEF Stays
<1>2. CASE t # s
  <2> DEFINE table == [h \in DOMAIN s.heats |-> IF h \in HeatsOf(s, c)
                                                THEN [s.heats[h] EXCEPT !.class = None]
                                                ELSE s.heats[h]]
             without == Without(s.classes, c)
  <2>1. ClassRaces(s, c) = {} /\ t = [s EXCEPT !.classes = without, !.heats = table]
    BY <1>2 DEF DeleteClass
  <2>2. \A r \in DOMAIN s.races : s.races[r].class # c
    BY <2>1 DEF ClassRaces, IdsWhere
  <2>3. /\ DOMAIN table = DOMAIN s.heats
        /\ \A h \in DOMAIN s.heats :
             /\ {"class", "slots", "confirmed"} \subseteq DOMAIN table[h]
             /\ table[h].slots = s.heats[h].slots
             /\ table[h].confirmed = s.heats[h].confirmed
             /\ s.heats[h].class # c => table[h] = s.heats[h]
    BY HeatsOfClass DEF Tidy, Shaped, HeatTable, HeatRow
  <2> HIDE DEF table, without
  <2>4. /\ {"heats", "races"} \subseteq DOMAIN t /\ t.races = s.races /\ t.heats = table
    BY <2>1 DEF Tidy, Shaped
  <2>5. Shaped(t)
    BY <2>3, <2>4 DEF Tidy, Shaped, HeatTable, HeatRow
  <2>6. \A r \in DOMAIN s.races :
          LET g == s.races[r].heat
          IN /\ t.races[r].heat = g /\ t.races[r].round = s.races[r].round
             /\ g \in DOMAIN t.heats /\ t.races[r].class = t.heats[g].class
    BY <2>2, <2>3, <2>4 DEF Tidy, RacesFollow
  <2>7. Stays(s, t)
    BY <2>3, <2>4 DEF Stays
  <2> QED
    BY <2>4, <2>5, <2>6, <2>7, StillTidy
<1> QED
  BY <1>1, <1>2

LEMMA FormattedTidy ==
  ASSUME NEW s, Tidy(s), NEW c, NEW d
  PROVE  /\ Tidy(Formatted(s, c, d))
         /\ Formatted(s, c, d).heats = s.heats
<1> DEFINE table == [r \in DOMAIN s.races |->
                       IF Given(d, "format", None) # None /\ s.races[r].class = c
                       THEN [s.races[r] EXCEPT !.format = d.format] ELSE s.races[r]]
           t == [s EXCEPT !.races = table]
<1>1. /\ DOMAIN table = DOMAIN s.races /\ table = [r \in DOMAIN s.races |-> table[r]]
      /\ \A r \in DOMAIN s.races :
           /\ {"heat", "class", "round"} \subseteq DOMAIN table[r]
           /\ table[r].heat = s.races[r].heat /\ table[r].round = s.races[r].round
           /\ table[r].class = s.races[r].class
  BY DEF Tidy, Shaped, RaceTable
<1>2. Formatted(s, c, d) = t
  BY DEF Formatted
<1> HIDE DEF table
<1>3. {"heats", "races"} \subseteq DOMAIN t /\ t.heats = s.heats /\ t.races = table
  BY DEF Tidy, Shaped
<1>4. \E S : table \in Seq(S)
  BY <1>1, TableMapped DEF Tidy, Shaped, RaceTable
<1> HIDE DEF t
<1>5. Shaped(t)
  BY <1>1, <1>3, <1>4 DEF Tidy, Shaped, RaceTable
<1>6. \A r \in DOMAIN s.races :
        LET h == s.races[r].heat
        IN /\ t.races[r].heat = h /\ t.races[r].round = s.races[r].round
           /\ h \in DOMAIN t.heats /\ t.races[r].class = t.heats[h].class
  BY <1>1, <1>3, ZenonT(60) DEF Tidy, RacesFollow
<1>7. Tidy(t)
  BY <1>1, <1>3, <1>5, <1>6, StillTidy
<1> QED
  BY <1>2, <1>3, <1>7

LEMMA RemarshaledTidy ==
  ASSUME NEW s, Tidy(s), NEW r, NEW x, NEW finish, NEW level
  PROVE  LET t == Remarshaled(s, r, x, finish, level)
         IN Tidy(t) /\ t.heats = s.heats
<1>1. PICK u : u = [s.races EXCEPT ![r].finish = finish]
  OBVIOUS
<1>2. PICK table : table = [u EXCEPT ![r].tuned[x].level = level]
  OBVIOUS
<1>3. PICK t : t = Remarshaled(s, r, x, finish, level)
  OBVIOUS
<1>4. {"heats", "races"} \subseteq DOMAIN s
  BY DEF Tidy, Shaped
<1>5. {"heats", "races"} \subseteq DOMAIN t /\ t.heats = s.heats /\ t.races = table
  <2>1. PICK v : v = [s EXCEPT !.races[r].finish = finish]
    OBVIOUS
  <2>2. {"heats", "races"} \subseteq DOMAIN v /\ v.heats = s.heats /\ v.races = u
    BY <1>1, <1>4, <2>1
  <2>3. t = [v EXCEPT !.races[r].tuned[x].level = level]
    BY <1>3, <2>1 DEF Remarshaled
  <2> QED
    BY <1>2, <2>2, <2>3
<1>6. /\ DOMAIN table = DOMAIN s.races /\ table = [i \in DOMAIN s.races |-> table[i]]
      /\ \A i \in DOMAIN s.races :
           /\ {"heat", "class", "round"} \subseteq DOMAIN table[i]
           /\ table[i].heat = s.races[i].heat /\ table[i].round = s.races[i].round
           /\ table[i].class = s.races[i].class
  <2>1. /\ DOMAIN u = DOMAIN s.races
        /\ \A i \in DOMAIN s.races :
             /\ {"heat", "class", "round"} \subseteq DOMAIN u[i]
             /\ u[i].heat = s.races[i].heat /\ u[i].round = s.races[i].round
             /\ u[i].class = s.races[i].class
    BY <1>1 DEF Tidy, Shaped, RaceTable
  <2> QED
    BY <1>2, <2>1
<1>7. \E S : table \in Seq(S)
  BY <1>6, TableMapped DEF Tidy, Shaped, RaceTable
<1>8. Shaped(t)
  BY <1>5, <1>6, <1>7 DEF Tidy, Shaped, RaceTable
<1>9. \A i \in DOMAIN s.races :
        LET h == s.races[i].heat
        IN /\ t.races[i].heat = h /\ t.races[i].round = s.races[i].round
           /\ h \in DOMAIN t.heats /\ t.races[i].class = t.heats[h].class
  BY <1>5, <1>6, ZenonT(60) DEF Tidy, RacesFollow
<1>10. Tidy(t)
  BY <1>5, <1>6, <1>8, <1>9, StillTidy
<1> QED
  BY <1>3, <1>5, <1>10

LEMMA ResetTidy ==
  ASSUME NEW s, Tidy(s), NEW kind \in {"races", "heats", "classes", "pilots", "all", "formats"}
  PROVE  LET t == Reset(s, kind)
         IN /\ Tidy(t) /\ t.races = <<>>
            /\ \A h \in DOMAIN t.heats : ~t.heats[h].confirmed
<1> DEFINE Bare(t) == /\ Shaped(t) /\ t.races = <<>>
                      /\ \A h \in DOMAIN t.heats : ~t.heats[h].confirmed
<1>1. \A t : Bare(t) => /\ Tidy(t) /\ t.races = <<>>
                         /\ \A h \in DOMAIN t.heats : ~t.heats[h].confirmed
  BY DEF Tidy, RacesFollow
<1>2. Bare(ClearRaces(s))
  <2> DEFINE t == ClearRaces(s)
  <2>1. /\ {"heats", "races"} \subseteq DOMAIN t /\ t.races = <<>>
        /\ DOMAIN t.heats = DOMAIN s.heats
        /\ \A h \in DOMAIN s.heats :
             /\ {"class", "slots", "confirmed"} \subseteq DOMAIN t.heats[h]
             /\ t.heats[h].slots = s.heats[h].slots /\ ~t.heats[h].confirmed
    BY DEF ClearRaces, Tidy, Shaped, HeatTable, HeatRow
  <2> HIDE DEF t
  <2>2. <<>> \in Seq({}) /\ DOMAIN <<>> = {}
    OBVIOUS
  <2>3. RaceTable(t.races)
    BY <2>1, <2>2 DEF RaceTable
  <2>4. Bare(t)
    BY <2>1, <2>3 DEF Tidy, Shaped, HeatTable, HeatRow
  <2> QED
    BY <2>4 DEF t
<1>3. \A t : Bare(t) => Bare(ClearHeats(t))
  <2> SUFFICES ASSUME NEW t, Bare(t) PROVE Bare(ClearHeats(t))
    OBVIOUS
  <2>1. /\ {"heats", "races"} \subseteq DOMAIN ClearHeats(t)
        /\ ClearHeats(t).races = t.races /\ ClearHeats(t).heats = <<>>
    BY DEF ClearHeats, Shaped
  <2>2. DOMAIN <<>> = {} /\ IsFiniteSet({})
    BY FS_EmptySet
  <2>3. HeatTable(<<>>)
    BY <2>2 DEF HeatTable
  <2> QED
    BY <2>1, <2>3 DEF Shaped
<1>4. \A t : Bare(t) => Bare(ClearClasses(t)) /\ Bare(ClearPilots(t))
  BY DEF ClearClasses, ClearPilots, Shaped
<1>5. \A t : Bare(t) => Bare(StockFormats(t)) /\ Bare(SetFormat(t, 1))
  BY DEF StockFormats, SetFormat, Shaped
<1> HIDE DEF Bare
<1>6. Bare(SetFormat(StockFormats(ClearRaces(s)), 1))
  BY <1>2, <1>5
<1>7. Bare(Reset(s, kind))
  BY <1>2, <1>3, <1>4, <1>6 DEF Reset
<1> QED
  BY <1>1, <1>7

-----------------------------------------------------------------------------
(* Folds over heats and races                                              *)

\* What the folds of EventTables do to the tables t for one id.
Do(e, t, h) ==
  CASE e.do = "delete" -> DeleteHeat(t, h)
    [] e.do = "ungroup" -> AlterHeat(t, h, [group |-> 0])
    [] e.do = "duplicate" -> DuplicateHeat(t, h, e.class, e.group)
    [] e.do = "copy" -> DuplicateHeat(t, h, e.class, t.heats[h].group)
    [] e.do = "relabel" -> Relabelled(t, h)
    [] e.do = "expand" -> ExpandHeat(t, h)
    [] e.do = "split" ->
         Reassign(DuplicateHeat(t, e.heat, e.class, Cardinality({x \in e.races : x < h})),
                  h, NewId(t.heats))

\* What holds between two of them: the tables are tidy, and what the next
\* one relies on is still there.
Holds(e, t) ==
  /\ Tidy(t)
  /\ e.do = "delete" => /\ t.races = e.from.races /\ Stays(e.from, t)
                        /\ DOMAIN t.heats \subseteq DOMAIN e.from.heats
  /\ e.do \in {"duplicate", "copy", "relabel"} => Extends(e.from, t)
  /\ e.do = "ungroup" => Stays(e.from, t) /\ DOMAIN t.heats = DOMAIN e.from.heats
  /\ e.do \in {"expand", "split"} => Follows(e.from, t)
  /\ e.do = "split" => /\ DOMAIN t.races = DOMAIN e.from.races
                       /\ t.races[Min(e.races)].heat = e.heat

Turn(e, s, g, set) ==
  IF set = {} THEN s ELSE Do(e, g[set \ {Max(set)}], Max(set))

LEMMA LastOfSet ==
  ASSUME NEW set \in SUBSET Nat, IsFiniteSet(set), set # {}
  PROVE  /\ Max(set) \in set /\ Cardinality(set) \in Nat
         /\ Cardinality(set \ {Max(set)}) = Cardinality(set) - 1
<1>1. Max(set) \in set
  BY MaxOfSome
<1> DEFINE m == Max(set)
<1> HIDE DEF m
<1>2. m \in set
  BY <1>1 DEF m
<1>3. Cardinality(set \ {m}) = Cardinality(set) - 1 /\ Cardinality(set) \in Nat
  BY <1>2, FS_RemoveElement, FS_CardinalityType
<1> QED
  BY <1>2, <1>3 DEF m

\* There is a function that follows the fold: one that does so for sets of at
\* most n ids gives one for sets of n + 1.
LEMMA FoldExists ==
  ASSUME NEW e, NEW s, NEW ids \in SUBSET Nat, IsFiniteSet(ids)
  PROVE  \E g : g = [set \in SUBSET ids |-> Turn(e, s, g, set)]
<1> DEFINE Upto(g, n) == \A set \in SUBSET ids :
                           Cardinality(set) <= n => g[set] = Turn(e, s, g, set)
           T == {n \in Nat : \E g : Upto(g, n)}
<1>1. \A set \in SUBSET ids : /\ IsFiniteSet(set) /\ Cardinality(set) \in Nat
                              /\ Cardinality(set) <= Cardinality(ids)
  BY FS_Subset, FS_CardinalityType
<1>2. 0 \in T
  <2>1. PICK g : g = [set \in SUBSET ids |-> s]
    OBVIOUS
  <2>2. ASSUME NEW set \in SUBSET ids, Cardinality(set) <= 0
        PROVE  g[set] = Turn(e, s, g, set)
    <3>1. Cardinality(set) = 0
      BY <1>1, <2>2
    <3>2. set = {}
      BY <1>1, <3>1, FS_EmptySet
    <3> QED
      BY <2>1, <3>2 DEF Turn
  <2>3. Upto(g, 0)
    BY <2>2
  <2> QED
    BY <2>3
<1>3. ASSUME NEW n \in Nat, n \in T PROVE n + 1 \in T
  <2>1. PICK g : Upto(g, n)
    BY <1>3
  <2>2. PICK g2 : g2 = [set \in SUBSET ids |-> Turn(e, s, g, set)]
    OBVIOUS
  <2>3. ASSUME NEW set \in SUBSET ids, Cardinality(set) <= n + 1
        PROVE  g2[set] = Turn(e, s, g2, set)
    <3>1. CASE set = {}
      BY <2>2, <3>1 DEF Turn
    <3>2. CASE set # {}
      <4> DEFINE rest == set \ {Max(set)}
      <4>1. rest \in SUBSET ids
        OBVIOUS
      <4>2. Cardinality(rest) <= n
        BY <1>1, <2>3, <3>2, LastOfSet
      <4> HIDE DEF rest
      <4>3. g[rest] = Turn(e, s, g, rest) /\ g2[rest] = Turn(e, s, g, rest)
        BY <2>1, <2>2, <4>1, <4>2
      <4>4. g2[set] = Turn(e, s, g, set)
        BY <2>2
      <4> QED
        BY <3>2, <4>3, <4>4 DEF Turn, rest
    <3> QED
      BY <3>1, <3>2
  <2>4. Upto(g2, n + 1)
    BY <2>3
  <2> QED
    BY <2>4
<1> HIDE DEF T
<1>4. Nat \subseteq T
  BY <1>2, <1>3, NumbersAll
<1>5. Cardinality(ids) \in T
  BY <1>1, <1>4
<1>6. PICK g : Upto(g, Cardinality(ids))
  BY <1>5 DEF T
<1>7. PICK g2 : g2 = [set \in SUBSET ids |-> g[set]]
  OBVIOUS
<1>8. ASSUME NEW set \in SUBSET ids PROVE g[set] = Turn(e, s, g2, set)
  <2>1. g[set] = Turn(e, s, g, set)
    BY <1>1, <1>6
  <2>2. set \ {Max(set)} \in SUBSET ids
    OBVIOUS
  <2>3. g2[set \ {Max(set)}] = g[set \ {Max(set)}]
    BY <1>7, <2>2
  <2> QED
    BY <2>1, <2>3 DEF Turn
<1>9. g2 = [set \in SUBSET ids |-> Turn(e, s, g2, set)]
  BY <1>7, <1>8
<1> QED
  BY <1>9

LEMMA FoldHolds ==
  ASSUME NEW e, NEW s, NEW ids \in SUBSET Nat, IsFiniteSet(ids), Holds(e, s),
         \A t : \A h \in ids : Holds(e, t) => Holds(e, Do(e, t, h)),
         NEW g, g = [set \in SUBSET ids |-> Turn(e, s, g, set)]
  PROVE  Holds(e, g[ids])
<1> DEFINE For(n) == \A set \in SUBSET ids :
                       Cardinality(set) = n => Holds(e, g[set])
           T == {n \in Nat : For(n)}
<1>1. \A set \in SUBSET ids : IsFiniteSet(set) /\ Cardinality(set) \in Nat
  BY FS_Subset, FS_CardinalityType
<1>2. \A set \in SUBSET ids : g[set] = Turn(e, s, g, set)
  OBVIOUS
<1>3. 0 \in T
  <2>1. ASSUME NEW set \in SUBSET ids, Cardinality(set) = 0 PROVE Holds(e, g[set])
    <3>1. set = {}
      BY <1>1, <2>1, FS_EmptySet
    <3> QED
      BY <1>2, <3>1 DEF Turn
  <2> QED
    BY <2>1
<1>4. ASSUME NEW n \in Nat, n \in T PROVE n + 1 \in T
  <2>1. ASSUME NEW set \in SUBSET ids, Cardinality(set) = n + 1 PROVE Holds(e, g[set])
    <3>1. set # {}
      BY <2>1, FS_EmptySet
    <3>2. Max(set) \in set /\ Cardinality(set \ {Max(set)}) = n
      BY <1>1, <2>1, <3>1, LastOfSet
    <3>3. set \ {Max(set)} \in SUBSET ids /\ Max(set) \in ids
      BY <3>2
    <3>4. Holds(e, g[set \ {Max(set)}])
      BY <1>4, <3>2, <3>3
    <3>5. g[set] = Do(e, g[set \ {Max(set)}], Max(set))
      BY <1>2, <3>1 DEF Turn
    <3> QED
      BY <3>3, <3>4, <3>5
  <2>2. For(n + 1)
    BY <2>1
  <2> HIDE DEF For
  <2> QED
    BY <2>2
<1> HIDE DEF T
<1>5. Nat \subseteq T
  BY <1>3, <1>4, NumbersAll
<1>6. Cardinality(ids) \in T
  BY <1>1, <1>5
<1> QED
  BY <1>6 DEF T

\* The heats of a class, or some of them.
LEMMA HeatIds ==
  ASSUME NEW s, Shaped(s), NEW ids, ids \subseteq DOMAIN s.heats
  PROVE  ids \in SUBSET Nat /\ IsFiniteSet(ids)
BY FS_Subset DEF Shaped, HeatTable

LEMMA WithoutIdleTidy ==
  ASSUME NEW s, Tidy(s), NEW old
  PROVE  LET t == WithoutIdle(s, old)
         IN Tidy(t) /\ t.races = s.races /\ Stays(s, t)
<1> DEFINE class == s.heats[old].class
           ids == {x \in HeatsOf(s, class) \ {old} :
                     s.heats[x].label = s.heats[old].label /\ RacesOf(s, x) = {}}
<1>1. PICK e : e = [do |-> "delete", from |-> s]
  OBVIOUS
<1>2. \A t, h : Do(e, t, h) = DeleteHeat(t, h)
  BY <1>1 DEF Do
<1>3. ids \subseteq DOMAIN s.heats
  BY HeatsOfClass
<1>4. ids \in SUBSET Nat /\ IsFiniteSet(ids)
  BY <1>3, HeatIds DEF Tidy
<1> HIDE DEF ids
<1>5. Holds(e, s) /\ \A t : \A h \in ids : Holds(e, t) => Holds(e, Do(e, t, h))
  <2>1. \A t : Holds(e, t) <=> /\ Tidy(t) /\ t.races = s.races /\ Stays(s, t)
                               /\ DOMAIN t.heats \subseteq DOMAIN s.heats
    BY <1>1 DEF Holds
  <2>2. ASSUME NEW t, NEW h \in ids, Holds(e, t) PROVE Holds(e, Do(e, t, h))
    <3>1. PICK u : u = DeleteHeat(t, h)
      OBVIOUS
    <3>2. /\ Tidy(u) /\ u.races = t.races
          /\ DOMAIN u.heats \subseteq DOMAIN t.heats /\ Stays(t, u)
      BY <2>1, <2>2, <3>1, DeleteHeatTidy
    <3>3. Stays(s, u) /\ DOMAIN u.heats \subseteq DOMAIN s.heats
      BY <2>1, <2>2, <3>2 DEF Stays
    <3> QED
      BY <1>2, <2>1, <2>2, <3>1, <3>2, <3>3
  <2>3. Stays(s, s)
    BY DEF Stays
  <2> QED
    BY <2>1, <2>2, <2>3
<1>6. \A g : [set \in SUBSET ids |-> Turn(e, s, g, set)]
               = [set \in SUBSET ids |-> IF set = {} THEN s
                                         ELSE DeleteHeat(g[set \ {Max(set)}], Max(set))]
  BY <1>2 DEF Turn
<1>7. \E g : g = [set \in SUBSET ids |-> IF set = {} THEN s
                                      ELSE DeleteHeat(g[set \ {Max(set)}], Max(set))]
  <2>1. PICK g : g = [set \in SUBSET ids |-> Turn(e, s, g, set)]
    BY <1>4, FoldExists, ZenonT(90)
  <2> QED
    BY <1>6, <2>1
<1>8. PICK g : /\ g = [set \in SUBSET ids |-> IF set = {} THEN s
                                             ELSE DeleteHeat(g[set \ {Max(set)}], Max(set))]
               /\ InTurn(DeleteHeat, s, ids) = g[ids]
  <2>1. InTurn(DeleteHeat, s, ids)
          = (CHOOSE g : g = [set \in SUBSET ids |->
                               IF set = {} THEN s
                               ELSE DeleteHeat(g[set \ {Max(set)}], Max(set))])[ids]
    BY DEF InTurn, MapThenFoldSet
  <2> QED
    BY <1>7, <2>1
<1>9. g = [set \in SUBSET ids |-> Turn(e, s, g, set)]
  BY <1>6, <1>8
<1>10. Holds(e, g[ids])
  BY ONLY <1>4, <1>5, <1>9, FoldHolds
<1>11. WithoutIdle(s, old) \in {s, InTurn(DeleteHeat, s, ids)}
  BY DEF WithoutIdle, ids
<1>12. Stays(s, s)
  BY DEF Stays
<1> QED
  BY <1>1, <1>8, <1>11, <1>10, <1>12 DEF Holds

\* The heat a race was moved from, and the one it was moved to, are numbered
\* anew; the others are as they were.
Moves(s, r, h, t) ==
  /\ {"heats", "races"} \subseteq DOMAIN t /\ DOMAIN t.heats = DOMAIN s.heats
  /\ t.races = Renumbered([s.races EXCEPT ![r] = MovedRace(s, r, h)],
                          {s.races[r].heat, h})
  /\ \A g \in DOMAIN s.heats : /\ HeatRow(t.heats[g])
                                /\ t.heats[g].class = s.heats[g].class

LEMMA MovedTidy ==
  ASSUME NEW s, Tidy(s), NEW r \in DOMAIN s.races, NEW h \in DOMAIN s.heats,
         NEW t, Moves(s, r, h, t)
  PROVE  /\ Tidy(t) /\ DOMAIN t.races = DOMAIN s.races /\ t.races[r].heat = h
         /\ \A x \in DOMAIN s.races : x # r => t.races[x].heat = s.races[x].heat
<1>1. PICK both : both = {s.races[r].heat, h}
  OBVIOUS
<1>2. PICK row : row = MovedRace(s, r, h)
  OBVIOUS
<1>3. /\ {"heat", "class", "round"} \subseteq DOMAIN row
      /\ row.heat = h /\ row.class = s.heats[h].class
  BY <1>2 DEF MovedRace, Tidy, Shaped, RaceTable
<1>4. PICK put : put = [s.races EXCEPT ![r] = row]
  OBVIOUS
<1>5. /\ DOMAIN put = DOMAIN s.races
      /\ \A x \in DOMAIN s.races :
           /\ {"heat", "class", "round"} \subseteq DOMAIN put[x]
           /\ put[x] = IF x = r THEN row ELSE s.races[x]
  BY <1>3, <1>4 DEF Tidy, Shaped, RaceTable
<1>6. PICK table : table = Renumbered(put, both)
  OBVIOUS
<1>7. /\ {"heats", "races"} \subseteq DOMAIN t /\ DOMAIN t.heats = DOMAIN s.heats
      /\ \A g \in DOMAIN s.heats : /\ HeatRow(t.heats[g])
                                    /\ t.heats[g].class = s.heats[g].class
      /\ t.races = table
  BY <1>2, <1>4, <1>6, <1>1 DEF Moves
<1>8. /\ DOMAIN table = DOMAIN s.races /\ table = [x \in DOMAIN s.races |-> table[x]]
      /\ \A x \in DOMAIN s.races :
           /\ {"heat", "class", "round"} \subseteq DOMAIN table[x]
           /\ table[x].heat = put[x].heat /\ table[x].class = put[x].class
  BY <1>5, <1>6 DEF Renumbered
<1>9. \A x \in DOMAIN s.races : put[x].heat \notin both => table[x].round = put[x].round
  BY <1>5, <1>6 DEF Renumbered
<1>10. \A x \in DOMAIN s.races : put[x].heat \in both =>
         table[x].round = Cardinality({y \in DOMAIN put :
                                         y <= x /\ put[y].heat = put[x].heat})
  BY <1>5, <1>6 DEF Renumbered
<1>11. \E S : table \in Seq(S)
  BY <1>8, TableMapped DEF Tidy, Shaped, RaceTable
<1>12. Shaped(t)
  BY <1>7, <1>8, <1>11 DEF Shaped, Tidy, RaceTable, HeatTable
<1>13. \A g : RacesOf(t, g) = {x \in DOMAIN put : put[x].heat = g}
  BY <1>5, <1>7, <1>8, RacesOfHeat
<1>14. ASSUME NEW x \in DOMAIN t.races
       PROVE  LET g == t.races[x].heat
              IN /\ g \in DOMAIN t.heats /\ t.races[x].class = t.heats[g].class
                 /\ t.races[x].round = Cardinality({y \in RacesOf(t, g) : y <= x})
  <2>1. PICK g : g = put[x].heat
    OBVIOUS
  <2>2. x \in DOMAIN s.races /\ t.races[x].heat = g
    BY <1>7, <1>8, <1>14, <2>1
  <2>3. /\ s.races[x].heat \in DOMAIN s.heats
        /\ s.races[x].class = s.heats[s.races[x].heat].class
        /\ s.races[x].round = Cardinality({y \in RacesOf(s, s.races[x].heat) : y <= x})
    BY <2>2 DEF Tidy, RacesFollow
  <2>4. g \in DOMAIN t.heats /\ t.races[x].class = t.heats[g].class
    <3>1. t.races[x].class = put[x].class
      BY <1>7, <1>8, <2>2
    <3>2. CASE x = r
      <4>1. g = h /\ put[x].class = s.heats[h].class
        BY <1>3, <1>5, <2>1, <2>2, <3>2
      <4> QED
        BY <1>7, <3>1, <4>1
    <3>3. CASE x # r
      <4>1. g = s.races[x].heat /\ put[x].class = s.races[x].class
        BY <1>5, <2>1, <2>2, <3>3
      <4> QED
        BY <1>7, <2>3, <3>1, <4>1
    <3> QED
      BY <3>2, <3>3
  <2>5. CASE g \in both
    <3>1. t.races[x].round = Cardinality({y \in DOMAIN put : y <= x /\ put[y].heat = g})
      BY <1>7, <1>10, <2>1, <2>2, <2>5
    <3>2. {y \in DOMAIN put : y <= x /\ put[y].heat = g} = {y \in RacesOf(t, g) : y <= x}
      BY <1>13
    <3> QED
      BY <2>2, <2>4, <3>1, <3>2
  <2>6. CASE g \notin both
    <3>1. x # r /\ s.races[x].heat = g /\ t.races[x].round = s.races[x].round
      <4>1. x # r
        BY <1>3, <1>5, <1>1, <2>1, <2>2, <2>6
      <4>2. put[x] = s.races[x]
        BY <1>5, <2>2, <4>1
      <4>3. table[x].round = put[x].round
        BY <1>9, <2>1, <2>2, <2>6
      <4> QED
        BY <1>7, <2>1, <4>1, <4>2, <4>3
    <3>2. RacesOf(t, g) = RacesOf(s, g)
      <4>1. RacesOf(t, g) = {y \in DOMAIN s.races : put[y].heat = g}
        BY <1>5, <1>13
      <4>2. \A y \in DOMAIN s.races : put[y].heat = g <=> s.races[y].heat = g
        BY <1>3, <1>5, <1>1, <2>6
      <4>3. RacesOf(s, g) = {y \in DOMAIN s.races : s.races[y].heat = g}
        BY RacesOfHeat
      <4> QED
        BY <4>1, <4>2, <4>3
    <3> QED
      BY <2>2, <2>3, <2>4, <3>1, <3>2
  <2> QED
    BY <2>5, <2>6
<1>15. /\ t.races[r].heat = h
       /\ \A x \in DOMAIN s.races : x # r => t.races[x].heat = s.races[x].heat
  BY <1>3, <1>5, <1>7, <1>8
<1>16. Tidy(t)
  BY <1>12, <1>14 DEF Tidy, RacesFollow
<1> QED
  BY <1>7, <1>8, <1>15, <1>16

LEMMA ReassignTidy ==
  ASSUME NEW s, Tidy(s), NEW r \in DOMAIN s.races, NEW h \in DOMAIN s.heats
  PROVE  LET t == Reassign(s, r, h)
         IN /\ Tidy(t) /\ Stays(s, t) /\ h \in DOMAIN t.heats
            /\ DOMAIN t.races = DOMAIN s.races
            /\ \A x \in DOMAIN s.races : x # r => t.races[x].heat = s.races[x].heat
<1> DEFINE old == s.races[r].heat
           races2 == Renumbered([s.races EXCEPT ![r] = MovedRace(s, r, h)], {old, h})
           t == [s EXCEPT !.races = races2,
                          !.heats[old].active = @ \/ Grouped(s, s.heats[old].class),
                          !.heats[h].active = IF s.heats[h].class = None THEN @
                                              ELSE ~Grouped(s, s.heats[h].class)]
<1> HIDE DEF races2
<1>1. /\ {"heats", "races"} \subseteq DOMAIN t /\ t.races = races2
      /\ DOMAIN t.heats = DOMAIN s.heats
      /\ \A g \in DOMAIN s.heats : /\ {"class", "slots", "confirmed"} \subseteq DOMAIN t.heats[g]
                                   /\ t.heats[g].class = s.heats[g].class
                                   /\ t.heats[g].slots = s.heats[g].slots
                                   /\ t.heats[g].confirmed = s.heats[g].confirmed
  BY DEF Tidy, Shaped, HeatTable, HeatRow
<1>2. Reassign(s, r, h) \in {s, WithoutIdle(WithNextGroup(t, h), old)}
  BY DEF Reassign, races2
<1> HIDE DEF t
<1>3. t.races = Renumbered([s.races EXCEPT ![r] = MovedRace(s, r, h)], {old, h})
  BY <1>1 DEF races2
<1>4. Stays(s, t)
  BY <1>1 DEF Stays
<1>5. /\ Tidy(t) /\ DOMAIN t.races = DOMAIN s.races /\ t.races[r].heat = h
      /\ \A x \in DOMAIN s.races : x # r => t.races[x].heat = s.races[x].heat
  <2>1. {"heats", "races"} \subseteq DOMAIN t /\ DOMAIN t.heats = DOMAIN s.heats
    BY <1>1
  <2>2. \A g \in DOMAIN s.heats : /\ HeatRow(t.heats[g])
                                  /\ t.heats[g].class = s.heats[g].class
    BY <1>1 DEF Tidy, Shaped, HeatTable, HeatRow
  <2>3. Moves(s, r, h, t)
    BY <1>3, <2>1, <2>2 DEF Moves
  <2> QED
    BY <2>3, MovedTidy
<1>6. PICK v : v = WithNextGroup(t, h)
  OBVIOUS
<1>7. Extends(t, v)
  BY <1>1, <1>6, DuplicateExtends, SelfExtends DEF WithNextGroup
<1>8. /\ Tidy(v) /\ v.races = t.races /\ Stays(t, v)
      /\ DOMAIN t.heats \subseteq DOMAIN v.heats
  BY <1>5, <1>7, ExtendedFollows
<1>9. PICK u : u = WithoutIdle(v, old)
  OBVIOUS
<1>10. Tidy(u) /\ u.races = t.races /\ Stays(v, u)
  BY <1>8, <1>9, WithoutIdleTidy
<1>11. Stays(s, u)
  BY <1>1, <1>4, <1>8, <1>10, ExtendedStays
<1>12. h \in DOMAIN u.heats
  BY <1>5, <1>10 DEF Tidy, RacesFollow
<1>13. Reassign(s, r, h) \in {s, u}
  BY <1>2, <1>6, <1>9
<1>14. Stays(s, s)
  BY DEF Stays
<1> QED
  BY <1>5, <1>10, <1>11, <1>12, <1>13, <1>14

LEMMA DuplicateAdds ==
  ASSUME NEW s, Tidy(s), NEW h, NEW class, NEW group
  PROVE  /\ NewId(s.heats) \in DOMAIN DuplicateHeat(s, h, class, group).heats
         /\ \A g \in DOMAIN s.heats : g < NewId(s.heats)
<1> DEFINE row == [s.heats[h] EXCEPT !.class = class, !.group = group,
                                     !.confirmed = FALSE, !.active = TRUE]
           id == NewId(s.heats)
           t == [s EXCEPT !.heats = Added(s.heats, id, row)]
           label == Label(t, id)
<1>1. DuplicateHeat(s, h, class, group) = [t EXCEPT !.heats[id].label = label]
  BY DEF DuplicateHeat, InsertHeat, Relabelled
<1> HIDE DEF row, id, label
<1>2. "heats" \in DOMAIN t /\ id \in DOMAIN t.heats
  BY DEF Added, Tidy, Shaped
<1> HIDE DEF t
<1>3. id \in DOMAIN [t EXCEPT !.heats[id].label = label].heats
  BY <1>2
<1>4. \A g \in DOMAIN s.heats : g < NewId(s.heats)
  BY NewIdFresh DEF Tidy, Shaped, HeatTable
<1> QED
  BY <1>1, <1>3, <1>4 DEF id

LEMMA RelabelledAllTidy ==
  ASSUME NEW s, Tidy(s), NEW c
  PROVE  Tidy(RelabelledAll(s, c)) /\ Follows(s, RelabelledAll(s, c))
<1> DEFINE ids == HeatsOf(s, c)
<1>1. PICK e : e = [do |-> "relabel", from |-> s]
  OBVIOUS
<1>2. \A t, h : Do(e, t, h) = Relabelled(t, h)
  BY <1>1 DEF Do
<1>3. ids \in SUBSET Nat /\ IsFiniteSet(ids) /\ ids \subseteq DOMAIN s.heats
  <2>1. Shaped(s)
    BY DEF Tidy
  <2>2. ids \subseteq DOMAIN s.heats
    BY HeatsOfClass
  <2> HIDE DEF ids
  <2> QED
    BY <2>1, <2>2, HeatIds
<1> HIDE DEF ids
<1>4. Holds(e, s) /\ \A t : \A h \in ids : Holds(e, t) => Holds(e, Do(e, t, h))
  <2>1. \A t : Holds(e, t) <=> Tidy(t) /\ Extends(s, t)
    BY <1>1 DEF Holds
  <2>2. ASSUME NEW t, NEW h \in ids, Holds(e, t) PROVE Holds(e, Do(e, t, h))
    <3>1. Tidy(t) /\ Extends(s, t) /\ Extends(t, Relabelled(t, h))
      BY <2>1, <2>2, RelabelledExtends
    <3> QED
      BY <1>2, <2>1, <3>1, ExtendedTwice, ExtendedFollows
  <2> QED
    BY <2>1, <2>2, SelfExtends
<1>5. \A g : [set \in SUBSET ids |-> Turn(e, s, g, set)]
               = [set \in SUBSET ids |-> IF set = {} THEN s
                                         ELSE Relabelled(g[set \ {Max(set)}], Max(set))]
  BY <1>2 DEF Turn
<1>6. \E g : g = [set \in SUBSET ids |-> IF set = {} THEN s
                                      ELSE Relabelled(g[set \ {Max(set)}], Max(set))]
  <2>1. PICK g : g = [set \in SUBSET ids |-> Turn(e, s, g, set)]
    BY <1>3, FoldExists, ZenonT(90)
  <2>2. g = [set \in SUBSET ids |-> IF set = {} THEN s
                                    ELSE Relabelled(g[set \ {Max(set)}], Max(set))]
    BY <1>5, <2>1, Zenon
  <2> QED
    BY <2>2, Zenon
<1>7. PICK g : /\ g = [set \in SUBSET ids |-> IF set = {} THEN s
                                             ELSE Relabelled(g[set \ {Max(set)}], Max(set))]
               /\ RelabelledAll(s, c) = g[ids]
  <2>1. RelabelledAll(s, c)
          = (CHOOSE g : g = [set \in SUBSET ids |->
                               IF set = {} THEN s
                               ELSE Relabelled(g[set \ {Max(set)}], Max(set))])[ids]
    BY Zenon DEF InTurn, MapThenFoldSet, RelabelledAll, ids
  <2> QED
    BY <1>6, <2>1
<1>8. g = [set \in SUBSET ids |-> Turn(e, s, g, set)]
  BY <1>5, <1>7
<1>9. Holds(e, g[ids])
  BY ONLY <1>3, <1>4, <1>8, FoldHolds
<1>10. Tidy(g[ids]) /\ Extends(s, g[ids])
  BY <1>1, <1>9 DEF Holds
<1> QED
  BY <1>7, <1>10, ExtendedFollows

LEMMA StrippedTidy ==
  ASSUME NEW s, Tidy(s), NEW c
  PROVE  Tidy(Stripped(s, c)) /\ Follows(s, Stripped(s, c))
<1> DEFINE ids == HeatsOf(s, c)
           Ungroup(t, h) == AlterHeat(t, h, [group |-> 0])
<1> HIDE DEF Ungroup
<1>1. PICK e : e = [do |-> "ungroup", from |-> s]
  OBVIOUS
<1>2. \A t, h : Do(e, t, h) = Ungroup(t, h)
  BY <1>1 DEF Do, Ungroup
<1>3. ids \in SUBSET Nat /\ IsFiniteSet(ids) /\ ids \subseteq DOMAIN s.heats
  <2>1. Shaped(s)
    BY DEF Tidy
  <2>2. ids \subseteq DOMAIN s.heats
    BY HeatsOfClass
  <2> HIDE DEF ids
  <2> QED
    BY <2>1, <2>2, HeatIds
<1> HIDE DEF ids
<1>4. Holds(e, s) /\ \A t : \A h \in ids : Holds(e, t) => Holds(e, Do(e, t, h))
  <2>1. \A t : Holds(e, t) <=> Tidy(t) /\ Stays(s, t) /\ DOMAIN t.heats = DOMAIN s.heats
    BY <1>1 DEF Holds
  <2>2. ASSUME NEW t, NEW h \in ids, Holds(e, t) PROVE Holds(e, Do(e, t, h))
    <3>1. Tidy(t) /\ h \in DOMAIN t.heats /\ DOMAIN t.heats = DOMAIN s.heats /\ Stays(s, t)
      BY <1>3, <2>1, <2>2
    <3>2. PICK d : d = [group |-> 0]
      OBVIOUS
    <3>3. PICK u : u = AlterHeat(t, h, d)
      OBVIOUS
    <3>4. Tidy(u) /\ Alters(t, h, d, u)
      BY <3>1, <3>3, AlterHeatTidy
    <3>5. Stays(t, u) /\ DOMAIN u.heats = DOMAIN t.heats
      BY <3>1, <3>2, <3>4, AlteredStays DEF Alters
    <3>6. Stays(s, u)
      BY <3>1, <3>5 DEF Stays
    <3> QED
      BY <1>2, <2>1, <3>1, <3>2, <3>3, <3>4, <3>5, <3>6 DEF Ungroup
  <2>3. Stays(s, s)
    BY DEF Stays
  <2> QED
    BY <2>1, <2>2, <2>3
<1>5. \A g : [set \in SUBSET ids |-> Turn(e, s, g, set)]
               = [set \in SUBSET ids |-> IF set = {} THEN s
                                         ELSE Ungroup(g[set \ {Max(set)}], Max(set))]
  BY <1>2 DEF Turn
<1>6. \E g : g = [set \in SUBSET ids |-> IF set = {} THEN s
                                      ELSE Ungroup(g[set \ {Max(set)}], Max(set))]
  <2>1. PICK g : g = [set \in SUBSET ids |-> Turn(e, s, g, set)]
    BY <1>3, FoldExists, ZenonT(90)
  <2>2. g = [set \in SUBSET ids |-> IF set = {} THEN s
                                    ELSE Ungroup(g[set \ {Max(set)}], Max(set))]
    BY <1>5, <2>1, Zenon
  <2> QED
    BY <2>2, Zenon
<1>7. PICK g : /\ g = [set \in SUBSET ids |-> IF set = {} THEN s
                                             ELSE Ungroup(g[set \ {Max(set)}], Max(set))]
               /\ Stripped(s, c) = g[ids]
  <2>1. Stripped(s, c)
          = (CHOOSE g : g = [set \in SUBSET ids |->
                               IF set = {} THEN s
                               ELSE Ungroup(g[set \ {Max(set)}], Max(set))])[ids]
    BY Zenon DEF InTurn, MapThenFoldSet, Stripped, Ungroup, ids
  <2> QED
    BY <1>6, <2>1
<1>8. g = [set \in SUBSET ids |-> Turn(e, s, g, set)]
  BY <1>5, <1>7
<1>9. Holds(e, g[ids])
  BY ONLY <1>3, <1>4, <1>8, FoldHolds
<1>10. Tidy(g[ids]) /\ Stays(s, g[ids]) /\ DOMAIN g[ids].heats = DOMAIN s.heats
  BY <1>1, <1>9 DEF Holds
<1>11. \A x \in DOMAIN s.heats : x <= x
  BY HeatNumbers DEF Tidy
<1> QED
  BY <1>7, <1>10, <1>11 DEF Follows

LEMMA ExtendedIn ==
  ASSUME NEW s, NEW t, NEW h \in DOMAIN s.heats, Tidy(t), Tidy(s), Extends(s, t)
  PROVE  h \in DOMAIN t.heats
BY DEF Extends, Grows, Tidy

LEMMA PrimedTidy ==
  ASSUME NEW s, Tidy(s), NEW c
  PROVE  Tidy(Primed(s, c)) /\ Follows(s, Primed(s, c))
<1> DEFINE ids == {h \in HeatsOf(s, c) :
                     s.heats[h].group = LastGroup(s, c) /\ RacesOf(s, h) # {}}
           group == LastGroup(s, c) + 1
           Copy(t, h) == DuplicateHeat(t, h, c, group)
<1> HIDE DEF group, Copy
<1>1. PICK e : e = [do |-> "duplicate", from |-> s, class |-> c, group |-> group]
  OBVIOUS
<1>2. \A t, h : Do(e, t, h) = Copy(t, h)
  BY <1>1 DEF Do, Copy
<1>3. ids \in SUBSET Nat /\ IsFiniteSet(ids) /\ ids \subseteq DOMAIN s.heats
  <2>1. Shaped(s)
    BY DEF Tidy
  <2>2. ids \subseteq DOMAIN s.heats
    BY HeatsOfClass
  <2> HIDE DEF ids
  <2> QED
    BY <2>1, <2>2, HeatIds
<1> HIDE DEF ids
<1>4. Holds(e, s) /\ \A t : \A h \in ids : Holds(e, t) => Holds(e, Do(e, t, h))
  <2>1. \A t : Holds(e, t) <=> Tidy(t) /\ Extends(s, t)
    BY <1>1 DEF Holds
  <2>2. ASSUME NEW t, NEW h \in ids, Holds(e, t) PROVE Holds(e, Do(e, t, h))
    <3>1. Tidy(t) /\ Extends(s, t) /\ h \in DOMAIN t.heats
      BY <1>3, <2>1, <2>2, ExtendedIn
    <3>2. Extends(t, Copy(t, h))
      BY <3>1, DuplicateExtends DEF Copy
    <3> QED
      BY <1>2, <2>1, <3>1, <3>2, ExtendedTwice, ExtendedFollows
  <2> QED
    BY <2>1, <2>2, SelfExtends
<1>5. \A g : [set \in SUBSET ids |-> Turn(e, s, g, set)]
               = [set \in SUBSET ids |-> IF set = {} THEN s
                                         ELSE Copy(g[set \ {Max(set)}], Max(set))]
  BY <1>2 DEF Turn
<1>6. \E g : g = [set \in SUBSET ids |-> IF set = {} THEN s
                                      ELSE Copy(g[set \ {Max(set)}], Max(set))]
  <2>1. PICK g : g = [set \in SUBSET ids |-> Turn(e, s, g, set)]
    BY <1>3, FoldExists, ZenonT(90)
  <2>2. g = [set \in SUBSET ids |-> IF set = {} THEN s
                                    ELSE Copy(g[set \ {Max(set)}], Max(set))]
    BY <1>5, <2>1, Zenon
  <2> QED
    BY <2>2, Zenon
<1>7. PICK g : /\ g = [set \in SUBSET ids |-> IF set = {} THEN s
                                             ELSE Copy(g[set \ {Max(set)}], Max(set))]
               /\ Primed(s, c) # s => Primed(s, c) = g[ids]
  <2>1. Primed(s, c) # s => Primed(s, c)
          = (CHOOSE g : g = [set \in SUBSET ids |->
                               IF set = {} THEN s
                               ELSE Copy(g[set \ {Max(set)}], Max(set))])[ids]
    BY Zenon DEF InTurn, MapThenFoldSet, Primed, Copy, group, ids
  <2> QED
    BY <1>6, <2>1
<1>8. g = [set \in SUBSET ids |-> Turn(e, s, g, set)]
  BY <1>5, <1>7
<1>9. Holds(e, g[ids])
  BY ONLY <1>3, <1>4, <1>8, FoldHolds
<1>10. Tidy(g[ids]) /\ Extends(s, g[ids])
  BY <1>1, <1>9 DEF Holds
<1> QED
  BY <1>7, <1>10, ExtendedFollows, SelfExtends

LEMMA DuplicateClassTidy ==
  ASSUME NEW s, Tidy(s), NEW c
  PROVE  Tidy(DuplicateClass(s, c)) /\ Stays(s, DuplicateClass(s, c))
<1> DEFINE row == [s.classes[c] EXCEPT !.order = 0, !.rankRounds = 0]
           id == NewId(s.classes)
           u == [s EXCEPT !.classes = Added(s.classes, id, row)]
           ids == HeatsOf(s, c)
           Copy(t, h) == DuplicateHeat(t, h, id, t.heats[h].group)
<1> HIDE DEF row, id, Copy
<1>1. Tidy(u) /\ u.heats = s.heats
  <2>1. {"heats", "races"} \subseteq DOMAIN u /\ u.heats = s.heats /\ u.races = s.races
    BY DEF Tidy, Shaped
  <2> QED
    BY <2>1, SameExtends, ExtendedFollows
<1> HIDE DEF u
<1>2. PICK e : e = [do |-> "copy", from |-> u, class |-> id]
  OBVIOUS
<1>3. \A t, h : Do(e, t, h) = Copy(t, h)
  BY <1>2 DEF Do, Copy
<1>4. ids \in SUBSET Nat /\ IsFiniteSet(ids) /\ ids \subseteq DOMAIN u.heats
  <2>1. Shaped(u)
    BY <1>1 DEF Tidy
  <2>2. ids \subseteq DOMAIN u.heats
    BY <1>1, HeatsOfClass
  <2> HIDE DEF ids
  <2> QED
    BY <2>1, <2>2, HeatIds
<1> HIDE DEF ids
<1>5. Holds(e, u) /\ \A t : \A h \in ids : Holds(e, t) => Holds(e, Do(e, t, h))
  <2>1. \A t : Holds(e, t) <=> Tidy(t) /\ Extends(u, t)
    BY <1>2 DEF Holds
  <2>2. ASSUME NEW t, NEW h \in ids, Holds(e, t) PROVE Holds(e, Do(e, t, h))
    <3>1. Tidy(t) /\ Extends(u, t) /\ h \in DOMAIN t.heats
      BY <1>4, <1>1, <2>1, <2>2, ExtendedIn
    <3>2. Extends(t, Copy(t, h))
      BY <3>1, DuplicateExtends DEF Copy
    <3> QED
      BY <1>3, <2>1, <3>1, <3>2, ExtendedTwice, ExtendedFollows
  <2> QED
    BY <1>1, <2>1, <2>2, SelfExtends
<1>6. \A g : [set \in SUBSET ids |-> Turn(e, u, g, set)]
               = [set \in SUBSET ids |-> IF set = {} THEN u
                                         ELSE Copy(g[set \ {Max(set)}], Max(set))]
  BY <1>3 DEF Turn
<1>7. \E g : g = [set \in SUBSET ids |-> IF set = {} THEN u
                                      ELSE Copy(g[set \ {Max(set)}], Max(set))]
  <2>1. PICK g : g = [set \in SUBSET ids |-> Turn(e, u, g, set)]
    BY <1>4, FoldExists, ZenonT(90)
  <2>2. g = [set \in SUBSET ids |-> IF set = {} THEN u
                                    ELSE Copy(g[set \ {Max(set)}], Max(set))]
    BY <1>6, <2>1, Zenon
  <2> QED
    BY <2>2, Zenon
<1>8. PICK g : /\ g = [set \in SUBSET ids |-> IF set = {} THEN u
                                             ELSE Copy(g[set \ {Max(set)}], Max(set))]
               /\ DuplicateClass(s, c) = g[ids]
  <2>1. DuplicateClass(s, c)
          = (CHOOSE g : g = [set \in SUBSET ids |->
                               IF set = {} THEN u
                               ELSE Copy(g[set \ {Max(set)}], Max(set))])[ids]
    BY Zenon DEF InTurn, MapThenFoldSet, DuplicateClass, Copy, row, id, u, ids
  <2> QED
    BY <1>7, <2>1
<1>9. g = [set \in SUBSET ids |-> Turn(e, u, g, set)]
  BY <1>6, <1>8
<1>10. Holds(e, g[ids])
  BY ONLY <1>4, <1>5, <1>9, FoldHolds
<1>11. Tidy(g[ids]) /\ Extends(u, g[ids])
  BY <1>2, <1>10 DEF Holds
<1>12. Stays(u, g[ids])
  BY <1>1, <1>11, ExtendedFollows
<1> QED
  BY <1>1, <1>8, <1>11, <1>12 DEF Stays

LEMMA ExpandTidy ==
  ASSUME NEW s, Tidy(s), NEW h
  PROVE  Tidy(ExpandHeat(s, h)) /\ Follows(s, ExpandHeat(s, h))
<1>0. Follows(s, s)
  BY FollowsSelf DEF Tidy
<1>1. CASE Cardinality(RacesOf(s, h)) <= 1
  BY <1>0, <1>1 DEF ExpandHeat
<1> SUFFICES ASSUME ~(Cardinality(RacesOf(s, h)) <= 1)
             PROVE  Tidy(ExpandHeat(s, h)) /\ Follows(s, ExpandHeat(s, h))
  BY <1>1
<1> DEFINE all == RacesOf(s, h)
           class == s.heats[h].class
           first == Min(all)
           ids == all \ {first}
           Split(t, r) ==
             Reassign(DuplicateHeat(t, h, class, Cardinality({x \in all : x < r})),
                      r, NewId(t.heats))
<1> HIDE DEF class, Split
<1>2. /\ all \in SUBSET Nat /\ IsFiniteSet(all) /\ all # {}
       /\ all \subseteq DOMAIN s.races /\ \A r \in all : s.races[r].heat = h
  <2>1. all \subseteq DOMAIN s.races /\ \A r \in all : s.races[r].heat = h
    BY RacesOfHeat
  <2>2. DOMAIN s.races \subseteq Nat /\ IsFiniteSet(DOMAIN s.races)
    BY RaceNumbers DEF Tidy
  <2>3. IsFiniteSet(all)
    BY <2>1, <2>2, FS_Subset
  <2>4. all # {}
    BY FS_EmptySet
  <2> QED
    BY <2>1, <2>2, <2>3, <2>4
<1> HIDE DEF all
<1>3. first \in all
  BY <1>2, MinOfSome
<1>4. Min(all) = first
  OBVIOUS
<1> HIDE DEF first
<1>5. PICK e : e = [do |-> "split", from |-> s, heat |-> h, class |-> class,
                     races |-> all]
  OBVIOUS
<1>6. \A t, r : Do(e, t, r) = Split(t, r)
  BY <1>5 DEF Do, Split
<1>7. ids = all \ {first}
  OBVIOUS
<1> HIDE DEF ids
<1>8. ids \in SUBSET Nat /\ IsFiniteSet(ids)
  BY <1>7, <1>2, FS_Subset
<1>9. \A t : Holds(e, t) <=> /\ Tidy(t) /\ DOMAIN t.races = DOMAIN s.races
                              /\ t.races[first].heat = h /\ Follows(s, t)
  BY <1>4, <1>5 DEF Holds
<1>10. ASSUME NEW t, Holds(e, t) PROVE h \in DOMAIN t.heats
  <2>1. Tidy(t) /\ first \in DOMAIN t.races /\ t.races[first].heat = h
    BY <1>2, <1>3, <1>9, <1>10
  <2> QED
    BY <2>1 DEF Tidy, RacesFollow
<1>11. Holds(e, s) /\ \A t : \A r \in ids : Holds(e, t) => Holds(e, Do(e, t, r))
  <2>1. ASSUME NEW t, NEW r \in ids, Holds(e, t) PROVE Holds(e, Do(e, t, r))
    <3>1. PICK group : group = Cardinality({x \in all : x < r})
      OBVIOUS
    <3>2. PICK u : u = DuplicateHeat(t, h, class, group)
      OBVIOUS
    <3>3. Tidy(t) /\ h \in DOMAIN t.heats
      BY <1>9, <1>10, <2>1
    <3>4. Extends(t, u)
      BY <3>2, <3>3, DuplicateExtends
    <3>5. /\ Tidy(u) /\ u.races = t.races /\ Stays(t, u)
          /\ DOMAIN t.heats \subseteq DOMAIN u.heats
      BY <3>3, <3>4, ExtendedFollows
    <3>6. NewId(t.heats) \in DOMAIN u.heats /\ \A x \in DOMAIN t.heats : x < NewId(t.heats)
      BY <3>2, <3>3, DuplicateAdds
    <3>7. r \in DOMAIN u.races /\ first \in DOMAIN u.races /\ first # r
      BY <1>7, <1>2, <1>3, <1>9, <2>1, <3>5
    <3>8. PICK id : id = NewId(t.heats)
      OBVIOUS
    <3>9. PICK v : v = Reassign(u, r, id)
      OBVIOUS
    <3>10. id \in DOMAIN u.heats /\ \A x \in DOMAIN t.heats : x < id
      BY <3>6, <3>8
    <3>11. /\ Tidy(v) /\ DOMAIN v.races = DOMAIN u.races
           /\ Stays(u, v) /\ id \in DOMAIN v.heats
           /\ \A x \in DOMAIN u.races : x # r => v.races[x].heat = u.races[x].heat
      BY <3>5, <3>10, <3>7, <3>9, ReassignTidy
    <3>12. Follows(t, v)
      <4>1. Stays(t, v)
        BY <3>5, <3>11, ExtendedStays
      <4>2. DOMAIN t.heats \subseteq Nat /\ DOMAIN u.heats \subseteq Nat
        BY <3>3, <3>5, HeatNumbers DEF Tidy
      <4>3. \A x \in DOMAIN t.heats : x <= id
        BY <3>10, <4>2
      <4> QED
        BY <3>11, <4>1, <4>3 DEF Follows
    <3>13. Follows(s, t) /\ Shaped(s) /\ Shaped(t) /\ Shaped(v)
      BY <1>9, <2>1, <3>11 DEF Tidy
    <3>14. Follows(s, v)
      BY <3>12, <3>13, FollowsTwice
    <3>15. Holds(e, v)
      BY <1>9, <2>1, <3>5, <3>7, <3>11, <3>14
    <3>16. Do(e, t, r) = v
      BY <1>6, <3>1, <3>2, <3>8, <3>9 DEF Split
    <3> QED
      BY <3>15, <3>16
  <2>2. Holds(e, s)
    BY <1>0, <1>2, <1>3, <1>9
  <2> QED
    BY <2>1, <2>2
<1>12. \A g : [set \in SUBSET ids |-> Turn(e, s, g, set)]
               = [set \in SUBSET ids |-> IF set = {} THEN s
                                         ELSE Split(g[set \ {Max(set)}], Max(set))]
  BY <1>6 DEF Turn
<1>13. \E g : g = [set \in SUBSET ids |-> IF set = {} THEN s
                                      ELSE Split(g[set \ {Max(set)}], Max(set))]
  <2>1. PICK g : g = [set \in SUBSET ids |-> Turn(e, s, g, set)]
    BY <1>8, FoldExists, ZenonT(90)
  <2>2. g = [set \in SUBSET ids |-> IF set = {} THEN s
                                    ELSE Split(g[set \ {Max(set)}], Max(set))]
    BY <1>12, <2>1, Zenon
  <2> QED
    BY <2>2, Zenon
<1>14. PICK g : /\ g = [set \in SUBSET ids |-> IF set = {} THEN s
                                             ELSE Split(g[set \ {Max(set)}], Max(set))]
               /\ ExpandHeat(s, h) = DuplicateHeat(g[ids], h, class, Cardinality(all))
  <2>1. ExpandHeat(s, h)
          = DuplicateHeat((CHOOSE g : g = [set \in SUBSET ids |->
                               IF set = {} THEN s
                               ELSE Split(g[set \ {Max(set)}], Max(set))])[ids],
                          h, class, Cardinality(all))
    BY Zenon DEF InTurn, MapThenFoldSet, ExpandHeat, Split, all, class, first, ids
  <2> QED
    BY <1>13, <2>1
<1>15. g = [set \in SUBSET ids |-> Turn(e, s, g, set)]
  BY <1>12, <1>14
<1>16. Holds(e, g[ids])
  BY ONLY <1>8, <1>11, <1>15, FoldHolds
<1>17. PICK t : t = g[ids]
  OBVIOUS
<1>18. PICK u : u = DuplicateHeat(t, h, class, Cardinality(all))
  OBVIOUS
<1>19. Tidy(t) /\ Follows(s, t) /\ h \in DOMAIN t.heats
  BY <1>16, <1>17, <1>9, <1>10
<1>20. Extends(t, u)
  BY <1>18, <1>19, DuplicateExtends
<1>21. Tidy(u) /\ Follows(t, u)
  BY <1>19, <1>20, ExtendedFollows
<1>22. Follows(s, u)
  BY <1>19, <1>21, FollowsTwice DEF Tidy
<1> QED
  BY <1>14, <1>17, <1>18, <1>21, <1>22

LEMMA ExpandedTidy ==
  ASSUME NEW s, Tidy(s), NEW c
  PROVE  Tidy(Expanded(s, c)) /\ Follows(s, Expanded(s, c))
<1> DEFINE ids == HeatsOf(s, c)
<1>1. PICK e : e = [do |-> "expand", from |-> s]
  OBVIOUS
<1>2. \A t, h : Do(e, t, h) = ExpandHeat(t, h)
  BY <1>1 DEF Do
<1>3. ids \in SUBSET Nat /\ IsFiniteSet(ids) /\ ids \subseteq DOMAIN s.heats
  <2>1. Shaped(s)
    BY DEF Tidy
  <2>2. ids \subseteq DOMAIN s.heats
    BY HeatsOfClass
  <2> HIDE DEF ids
  <2> QED
    BY <2>1, <2>2, HeatIds
<1> HIDE DEF ids
<1>4. Holds(e, s) /\ \A t : \A h \in ids : Holds(e, t) => Holds(e, Do(e, t, h))
  <2>1. \A t : Holds(e, t) <=> Tidy(t) /\ Follows(s, t)
    BY <1>1 DEF Holds
  <2>2. ASSUME NEW t, NEW h \in ids, Holds(e, t) PROVE Holds(e, Do(e, t, h))
    <3>1. PICK u : u = ExpandHeat(t, h)
      OBVIOUS
    <3>2. Tidy(u) /\ Follows(t, u)
      BY <2>1, <2>2, <3>1, ExpandTidy
    <3>3. Follows(s, u)
      BY <2>1, <2>2, <3>2, FollowsTwice DEF Tidy
    <3> QED
      BY <1>2, <2>1, <3>1, <3>2, <3>3
  <2>3. Follows(s, s)
    BY FollowsSelf DEF Tidy
  <2> QED
    BY <2>1, <2>2, <2>3
<1>5. \A g : [set \in SUBSET ids |-> Turn(e, s, g, set)]
               = [set \in SUBSET ids |-> IF set = {} THEN s
                                         ELSE ExpandHeat(g[set \ {Max(set)}], Max(set))]
  BY <1>2 DEF Turn
<1>6. \E g : g = [set \in SUBSET ids |-> IF set = {} THEN s
                                      ELSE ExpandHeat(g[set \ {Max(set)}], Max(set))]
  <2>1. PICK g : g = [set \in SUBSET ids |-> Turn(e, s, g, set)]
    BY <1>3, FoldExists, ZenonT(90)
  <2>2. g = [set \in SUBSET ids |-> IF set = {} THEN s
                                    ELSE ExpandHeat(g[set \ {Max(set)}], Max(set))]
    BY <1>5, <2>1, Zenon
  <2> QED
    BY <2>2, Zenon
<1>7. PICK g : /\ g = [set \in SUBSET ids |-> IF set = {} THEN s
                                             ELSE ExpandHeat(g[set \ {Max(set)}], Max(set))]
               /\ Expanded(s, c) = g[ids]
  <2>1. Expanded(s, c)
          = (CHOOSE g : g = [set \in SUBSET ids |->
                               IF set = {} THEN s
                               ELSE ExpandHeat(g[set \ {Max(set)}], Max(set))])[ids]
    BY Zenon DEF InTurn, MapThenFoldSet, Expanded, ids
  <2> QED
    BY <1>6, <2>1
<1>8. g = [set \in SUBSET ids |-> Turn(e, s, g, set)]
  BY <1>5, <1>7
<1>9. Holds(e, g[ids])
  BY ONLY <1>3, <1>4, <1>8, FoldHolds
<1> QED
  BY <1>1, <1>7, <1>9 DEF Holds

-----------------------------------------------------------------------------
(* Classes, plans, and races that are saved                                *)

LEMMA AddClassExtends == \A s : Extends(s, AddClass(s))
<1> SUFFICES ASSUME NEW s PROVE Extends(s, AddClass(s))
  OBVIOUS
<1>1. PICK t : t = AddClass(s)
  OBVIOUS
<1>2. Shaped(s) => /\ {"heats", "races"} \subseteq DOMAIN t
                   /\ t.heats = s.heats /\ t.races = s.races
  BY <1>1 DEF AddClass, Shaped
<1> QED
  BY <1>1, <1>2, SameExtends

LEMMA AlterClassTidy ==
  ASSUME NEW s, Tidy(s), NEW c, NEW d
  PROVE  Tidy(AlterClass(s, c, d)) /\ Stays(s, AlterClass(s, c, d))
<1> DEFINE Later(t, u) == Tidy(u) /\ Follows(t, u)
<1>1. ASSUME NEW t, NEW u, Tidy(t), DOMAIN u = DOMAIN t,
             u.heats = t.heats, u.races = t.races
      PROVE  Later(t, u)
  <2>1. Shaped(t) => /\ {"heats", "races"} \subseteq DOMAIN u
                     /\ u.heats = t.heats /\ u.races = t.races
    BY <1>1 DEF Shaped
  <2> QED
    BY <1>1, <2>1, SameExtends, ExtendedFollows
<1>2. ASSUME NEW t, Tidy(t), NEW row PROVE Later(t, [t EXCEPT !.classes[c] = row])
  <2>1. PICK u : u = [t EXCEPT !.classes[c] = row]
    OBVIOUS
  <2>2. DOMAIN u = DOMAIN t /\ u.heats = t.heats /\ u.races = t.races
    BY <1>2, <2>1 DEF Tidy, Shaped
  <2> QED
    BY <1>1, <1>2, <2>1, <2>2
<1>3. ASSUME NEW t, NEW u, NEW v, Tidy(t), Later(t, u), Later(u, v) PROVE Later(t, v)
  BY <1>3, FollowsTwice DEF Tidy
<1>4. ASSUME NEW t, Tidy(t) PROVE Later(t, t)
  BY <1>4, FollowsSelf DEF Tidy
<1>5. ASSUME NEW t, Tidy(t) PROVE Later(t, GroupsSplit(t, c, d))
  <2>1. PICK v : v = Expanded(t, c)
    OBVIOUS
  <2>2. PICK u : u = [v EXCEPT !.classes[c].advance = IF @ = "none" THEN "heat" ELSE @]
    OBVIOUS
  <2>3. Later(t, v) /\ Later(t, Stripped(t, c))
    BY <1>5, <2>1, ExpandedTidy, StrippedTidy
  <2>4. DOMAIN u = DOMAIN v /\ u.heats = v.heats /\ u.races = v.races
    BY <2>2, <2>3 DEF Tidy, Shaped
  <2>5. Later(t, u)
    BY <1>1, <1>3, <1>5, <2>3, <2>4
  <2>6. GroupsSplit(t, c, d) \in {t, u, Stripped(t, c)}
    BY <2>1, <2>2 DEF GroupsSplit
  <2> QED
    BY <1>4, <1>5, <2>3, <2>5, <2>6
<1>6. ASSUME NEW t, Tidy(t) PROVE Later(t, RoundsFilled(t, c, d))
  BY <1>4, <1>6, PrimedTidy DEF RoundsFilled
<1>7. ASSUME NEW t, Tidy(t) PROVE Later(t, RelabelledAll(Formatted(t, c, d), c))
  <2>1. PICK u : u = Formatted(t, c, d)
    OBVIOUS
  <2>2. Later(t, u)
    BY <1>7, <2>1, FormattedTidy, FollowsSelf DEF Tidy
  <2>3. Later(u, RelabelledAll(u, c))
    BY <2>2, RelabelledAllTidy
  <2> QED
    BY <1>3, <1>7, <2>1, <2>2, <2>3
<1>8. \/ AlterClass(s, c, d) = s
      \/ \E row : AlterClass(s, c, d) =
           RelabelledAll(Formatted(RoundsFilled(GroupsSplit(
             [s EXCEPT !.classes[c] = row], c, d), c, d), c, d), c)
  BY Zenon DEF AlterClass
<1>9. Later(s, AlterClass(s, c, d))
  <2> SUFFICES ASSUME AlterClass(s, c, d) # s PROVE Later(s, AlterClass(s, c, d))
    BY <1>4
  <2>1. PICK row : AlterClass(s, c, d) =
           RelabelledAll(Formatted(RoundsFilled(GroupsSplit(
             [s EXCEPT !.classes[c] = row], c, d), c, d), c, d), c)
    BY <1>8
  <2>2. PICK t : t = [s EXCEPT !.classes[c] = row]
    OBVIOUS
  <2>3. PICK u : u = GroupsSplit(t, c, d)
    OBVIOUS
  <2>4. PICK v : v = RoundsFilled(u, c, d)
    OBVIOUS
  <2>5. AlterClass(s, c, d) = RelabelledAll(Formatted(v, c, d), c)
    BY <2>1, <2>2, <2>3, <2>4
  <2> HIDE DEF Later
  <2>6. \A x, y : Later(x, y) => Tidy(y)
    BY DEF Later
  <2>7. Later(s, t) /\ Later(s, u)
    BY <1>2, <1>3, <1>5, <2>2, <2>3, <2>6
  <2>8. Later(s, v)
    BY <1>3, <1>6, <2>4, <2>6, <2>7
  <2> QED
    BY <1>3, <1>7, <2>5, <2>6, <2>8
<1> QED
  BY <1>9 DEF Follows

\* A plan writes new heats only.
LEMMA ApplyTidy ==
  ASSUME NEW s, Tidy(s), NEW plan, \A h \in DOMAIN plan : h \in Nat \ {0},
         NEW input, NEW output, NEW pool,
         DOMAIN Apply(s, plan, input, output, pool).heats \subseteq 1 .. MaxHeats
  PROVE  /\ Tidy(Apply(s, plan, input, output, pool))
         /\ Stays(s, Apply(s, plan, input, output, pool))
<1> DEFINE class == IF output = None THEN NewId(s.classes) ELSE output
           t == IF output = None THEN AddClass(s) ELSE s
           first == NewId(t.heats) - 1
           taken == {t.heats[h].label : h \in {x \in HeatsOf(t, class) :
                                                 t.classes[class].grouped
                                                   => t.heats[x].group = 0}}
           free == ById((1 .. Cardinality(taken) + Len(plan)) \ taken)
           Row(h) == [PlannedHeat(t, plan, h, input, class, first, pool) EXCEPT
                        !.label = free[h]]
           ids == {first + h : h \in DOMAIN plan}
           table == [x \in DOMAIN t.heats \cup ids |->
                       IF x \in DOMAIN t.heats THEN t.heats[x] ELSE Row(x - first)]
           u == [t EXCEPT !.heats = table]
<1>1. Apply(s, plan, input, output, pool) = u
  BY DEF Apply
<1>2. Tidy(t) /\ Stays(s, t) /\ DOMAIN s.heats \subseteq DOMAIN t.heats
  BY AddClassExtends, SelfExtends, ExtendedFollows
<1>3. \A x \in DOMAIN t.heats : x <= first
  <2>1. PICK m : m = NewId(t.heats)
    OBVIOUS
  <2>2. m \in Nat /\ \A x \in DOMAIN t.heats : x < m
    BY <1>2, <2>1, NewIdFresh DEF Tidy, Shaped, HeatTable
  <2>3. DOMAIN t.heats \subseteq Nat
    BY <1>2, HeatNumbers DEF Tidy
  <2> QED
    BY <2>1, <2>2, <2>3
<1>4. first \in Int
  <2>1. NewId(t.heats) \in Nat
    BY <1>2, NewIdFresh DEF Tidy, Shaped, HeatTable
  <2> QED
    BY <2>1
<1> HIDE DEF first
<1>5. \A h : HeatRow(Row(h))
  <2> TAKE h
  <2> DEFINE slots == PlannedHeat(t, plan, h, input, class, first, pool).slots
  <2>1. \E drawn : slots = [k \in Seats |->
           IF k \in DOMAIN plan[h]
           THEN PlannedSlot(t, plan[h][k], k, input, first, drawn[k])
           ELSE Slot(k, None, "none")]
    <3> DEFINE Drawn(k) == LET n == DrawnBefore(plan, h, k) + 1
                           IN IF n <= Len(pool) THEN pool[n] ELSE None
    <3> HIDE DEF Drawn
    <3>1. PICK drawn : drawn = [k \in Seats |-> Drawn(k)]
      OBVIOUS
    <3>2. slots = [k \in Seats |->
             IF k \in DOMAIN plan[h]
             THEN PlannedSlot(t, plan[h][k], k, input, first, Drawn(k))
             ELSE Slot(k, None, "none")]
      BY DEF PlannedHeat, NewHeat, Drawn
    <3>3. \A k \in Seats : drawn[k] = Drawn(k)
      BY <3>1
    <3>4. slots = [k \in Seats |->
             IF k \in DOMAIN plan[h]
             THEN PlannedSlot(t, plan[h][k], k, input, first, drawn[k])
             ELSE Slot(k, None, "none")]
      BY <3>2, <3>3, Zenon
    <3> QED
      BY <3>4
  <2>2. \A place, k, drawn : /\ {"seat", "pilot"} \subseteq
                                  DOMAIN PlannedSlot(t, place, k, input, first, drawn)
                             /\ PlannedSlot(t, place, k, input, first, drawn).seat = k
    BY DEF PlannedSlot, Slot
  <2>3. \A k : {"seat", "pilot"} \subseteq DOMAIN Slot(k, None, "none")
               /\ Slot(k, None, "none").seat = k
    BY DEF Slot
  <2>4. /\ {"class", "slots", "confirmed"} \subseteq DOMAIN Row(h)
        /\ Row(h).slots = slots
    BY DEF PlannedHeat, NewHeat
  <2> HIDE DEF slots, Row
  <2>5. PICK drawn : slots = [k \in Seats |->
           IF k \in DOMAIN plan[h]
           THEN PlannedSlot(t, plan[h][k], k, input, first, drawn[k])
           ELSE Slot(k, None, "none")]
    BY <2>1
  <2>6. /\ slots = [k \in Seats |-> slots[k]]
        /\ \A k \in Seats : {"seat", "pilot"} \subseteq DOMAIN slots[k] /\ slots[k].seat = k
    BY <2>2, <2>3, <2>5
  <2>7. SlotsFit(slots)
    BY <2>6, NumberedFit
  <2> QED
    BY <2>4, <2>7 DEF HeatRow
<1> HIDE DEF t, Row
<1>6. \A x \in ids : \A y \in DOMAIN t.heats : y < x
  <2>1. DOMAIN t.heats \subseteq Nat
    BY <1>2, HeatNumbers DEF Tidy
  <2> QED
    BY <1>3, <1>4, <2>1
<1> HIDE DEF ids
<1>7. /\ DOMAIN t.heats \subseteq DOMAIN table
      /\ \A h \in DOMAIN t.heats : table[h] = t.heats[h]
      /\ \A h \in DOMAIN table : HeatRow(table[h])
      /\ \A h \in DOMAIN table : h \in DOMAIN t.heats \/ h \in ids
  BY <1>5, <1>2 DEF Tidy, Shaped, HeatTable
<1> HIDE DEF table
<1>8. {"heats", "races"} \subseteq DOMAIN u /\ u.heats = table /\ u.races = t.races
  BY <1>2 DEF Tidy, Shaped
<1> HIDE DEF u
<1>9. DOMAIN table \subseteq Nat /\ IsFiniteSet(DOMAIN table)
  <2>1. DOMAIN table \subseteq 1 .. MaxHeats /\ MaxHeats \in Nat
    BY <1>1, <1>8, ScenariosAssumption
  <2> QED
    BY <2>1, PartFinite
<1>10. HeatTable(u.heats)
  BY <1>7, <1>8, <1>9 DEF HeatTable
<1>11. Grows(t, u)
  BY <1>2, <1>7, <1>8, <1>10 DEF Grows, Tidy, Shaped
<1>12. Stays(t, u)
  BY <1>6, <1>7, <1>8 DEF Stays
<1> QED
  BY <1>1, <1>2, <1>11, <1>12, GrownTidy, ExtendedStays

\* The highest round of a heat is the number of its races.
LEMMA MaxRoundCounts ==
  ASSUME NEW s, Tidy(s), NEW h
  PROVE  /\ MaxRound(s, h) = Cardinality(RacesOf(s, h))
         /\ IsFiniteSet(RacesOf(s, h)) /\ Cardinality(RacesOf(s, h)) \in Nat
<1> DEFINE R == RacesOf(s, h)
           rounds == {s.races[r].round : r \in R}
           T == rounds \cup {0}
<1>1. R \in SUBSET Nat /\ IsFiniteSet(R) /\ Cardinality(R) \in Nat
  <2>1. R \subseteq DOMAIN s.races
    BY RacesOfHeat
  <2>2. DOMAIN s.races \subseteq Nat /\ IsFiniteSet(DOMAIN s.races)
    BY RaceNumbers DEF Tidy
  <2> QED
    BY <2>1, <2>2, FS_Subset, FS_CardinalityType
<1>2. \A r \in R : s.races[r].round = Cardinality({x \in R : x <= r})
  BY RacesOfHeat DEF Tidy, RacesFollow
<1> HIDE DEF R
<1>3. \A r \in R : /\ s.races[r].round \in Nat
                   /\ s.races[r].round <= Cardinality(R)
  <2> TAKE r \in R
  <2> DEFINE upto == {x \in R : x <= r}
  <2>1. upto \subseteq R
    OBVIOUS
  <2> HIDE DEF upto
  <2>2. Cardinality(upto) \in Nat /\ Cardinality(upto) <= Cardinality(R)
    BY <1>1, <2>1, FS_Subset, FS_CardinalityType
  <2> QED
    BY <1>2, <2>2 DEF upto
<1>4. T \in SUBSET Int /\ T # {} /\ \A y \in T : y <= Cardinality(R)
  BY <1>1, <1>3
<1>5. IsFiniteSet(T)
  <2>1. T \subseteq 0 .. Cardinality(R)
    BY <1>1, <1>3
  <2>2. IsFiniteSet(0 .. Cardinality(R))
    BY <1>1, FS_Interval
  <2> QED
    BY <2>1, <2>2, FS_Subset
<1>6. Cardinality(R) \in T
  <2>1. CASE R = {}
    BY <2>1, FS_EmptySet
  <2>2. CASE R # {}
    <3>1. PICK last : last = Max(R)
      OBVIOUS
    <3>2. R \in SUBSET Int
      BY <1>1
    <3>3. last \in R /\ \A y \in R : y <= last
      BY <1>1, <2>2, <3>1, <3>2, MaxOfSome
    <3>4. {x \in R : x <= last} = R
      BY <3>3
    <3>5. s.races[last].round = Cardinality(R)
      BY <1>2, <3>3, <3>4
    <3> QED
      BY <3>3, <3>5
  <2> QED
    BY <2>1, <2>2
<1>7. MaxRound(s, h) = Max(T)
  BY Zenon DEF MaxRound, R
<1> HIDE DEF T
<1>8. Max(T) \in T /\ \A y \in T : y <= Max(T)
  BY <1>4, <1>5, MaxOfSome
<1>9. PICK m : m = Max(T)
  OBVIOUS
<1>10. m \in Int /\ m <= Cardinality(R) /\ Cardinality(R) <= m
  BY <1>4, <1>6, <1>8, <1>9
<1>11. m = Cardinality(R)
  BY <1>1, <1>10
<1> QED
  BY <1>1, <1>7, <1>9, <1>11 DEF R

LEMMA AppendedTidy ==
  ASSUME NEW s, Tidy(s), NEW h \in DOMAIN s.heats, NEW row,
         {"heat", "class", "round"} \subseteq DOMAIN row, row.heat = h,
         row.class = s.heats[h].class, row.round = MaxRound(s, h) + 1,
         NEW t, {"heats", "races"} \subseteq DOMAIN t,
         t.heats = s.heats, t.races = Append(s.races, row)
  PROVE  Tidy(t)
<1> DEFINE n == Len(s.races)
<1>1. PICK S : s.races \in Seq(S)
  BY DEF Tidy, Shaped, RaceTable
<1>2. PICK q : q = Append(s.races, row)
  OBVIOUS
<1>3. q \in Seq(S \cup {row})
  <2>1. s.races \in Seq(S \cup {row})
    BY <1>1
  <2> QED
    BY <1>2, <2>1
<1>4. /\ n \in Nat /\ DOMAIN s.races = 1 .. n
      /\ DOMAIN q = 1 .. n + 1 /\ q[n + 1] = row
      /\ \A x \in 1 .. n : q[x] = s.races[x]
  BY <1>1, <1>2
<1> HIDE DEF n
<1>5. \A x \in DOMAIN q : {"heat", "class", "round"} \subseteq DOMAIN q[x]
  <2> TAKE x \in DOMAIN q
  <2>1. CASE x = n + 1
    BY <1>4, <2>1
  <2>2. CASE x # n + 1
    BY <1>4, <2>2 DEF Tidy, Shaped, RaceTable
  <2> QED
    BY <2>1, <2>2
<1>6. Shaped(t)
  BY <1>2, <1>3, <1>5 DEF Tidy, Shaped, RaceTable
<1>7. \A g : RacesOf(t, g) = RacesOf(s, g) \cup (IF g = h THEN {n + 1} ELSE {})
  <2> TAKE g
  <2>1. RacesOf(t, g) = {x \in 1 .. n + 1 : q[x].heat = g}
    BY <1>2, <1>4, RacesOfHeat
  <2>2. RacesOf(s, g) = {x \in 1 .. n : s.races[x].heat = g}
    BY <1>4, RacesOfHeat
  <2>3. \A x : x \in 1 .. n + 1 <=> x \in 1 .. n \/ x = n + 1
    BY <1>4
  <2>4. \A x \in 1 .. n : q[x].heat = s.races[x].heat /\ x # n + 1
    BY <1>4
  <2>5. q[n + 1].heat = h
    BY <1>4
  <2> QED
    BY <2>1, <2>2, <2>3, <2>4, <2>5
<1>8. \A g : RacesOf(s, g) \subseteq 1 .. n
  BY <1>4, RacesOfHeat
<1>9. ASSUME NEW x \in 1 .. n
      PROVE  LET g == t.races[x].heat
             IN /\ g \in DOMAIN t.heats /\ t.races[x].class = t.heats[g].class
                /\ t.races[x].round = Cardinality({y \in RacesOf(t, g) : y <= x})
  <2>1. PICK g : g = s.races[x].heat
    OBVIOUS
  <2>2. t.races[x] = s.races[x]
    BY <1>2, <1>4
  <2>3. /\ g \in DOMAIN s.heats /\ s.races[x].class = s.heats[g].class
        /\ s.races[x].round = Cardinality({y \in RacesOf(s, g) : y <= x})
    BY <1>4, <2>1 DEF Tidy, RacesFollow
  <2>4. {y \in RacesOf(t, g) : y <= x} = {y \in RacesOf(s, g) : y <= x}
    <3>1. ~(n + 1 <= x)
      BY <1>4
    <3> QED
      BY <1>7, <3>1
  <2> QED
    BY <2>1, <2>2, <2>3, <2>4
<1>10. LET g == t.races[n + 1].heat
       IN /\ g \in DOMAIN t.heats /\ t.races[n + 1].class = t.heats[g].class
          /\ t.races[n + 1].round = Cardinality({y \in RacesOf(t, g) : y <= n + 1})
  <2>1. t.races[n + 1] = row
    BY <1>2, <1>4
  <2>2. PICK R : R = RacesOf(s, h)
    OBVIOUS
  <2>3. {y \in RacesOf(t, h) : y <= n + 1} = R \cup {n + 1}
    <3>1. RacesOf(t, h) = R \cup {n + 1}
      BY <1>7, <2>2
    <3>2. \A y \in R \cup {n + 1} : y <= n + 1
      BY <1>4, <1>8, <2>2
    <3> QED
      BY <3>1, <3>2
  <2>4. n + 1 \notin R
    BY <1>4, <1>8, <2>2
  <2>5. Cardinality(R \cup {n + 1}) = Cardinality(R) + 1
    BY <2>2, <2>4, MaxRoundCounts, FS_AddElement
  <2>6. row.round = Cardinality(R) + 1
    BY <2>2, MaxRoundCounts
  <2> QED
    BY <2>1, <2>3, <2>5, <2>6
<1>11. \A x \in DOMAIN t.races : x \in 1 .. n \/ x = n + 1
  BY <1>2, <1>4
<1> QED
  BY <1>6, <1>9, <1>10, <1>11 DEF Tidy, RacesFollow

LEMMA RaceSavedTidy ==
  ASSUME NEW s, Tidy(s), NEW h \in DOMAIN s.heats, NEW finish
  PROVE  LET t == RaceSaved(s, h, finish)
         IN /\ Tidy(t) /\ Stays(s, t)
            /\ \A g : RacesOf(s, g) # {} => RacesOf(t, g) # {}
<1>1. PICK row : row = SavedRace(s, h, finish)
  OBVIOUS
<1>2. PICK flown : flown = FlownOn(s, h)
  OBVIOUS
<1>3. /\ {"heat", "class", "round"} \subseteq DOMAIN row /\ row.heat = h
      /\ row.class = s.heats[h].class /\ row.round = MaxRound(s, h) + 1
  BY <1>1 DEF SavedRace
<1>4. PICK t : t = [s EXCEPT !.races = Append(s.races, row), !.used = flown]
  OBVIOUS
<1>5. /\ {"heats", "races"} \subseteq DOMAIN t
      /\ t.heats = s.heats /\ t.races = Append(s.races, row)
  BY <1>4 DEF Tidy, Shaped
<1>6. Tidy(t)
  BY <1>3, <1>5, AppendedTidy
<1>7. PICK u : u = Cleared(t)
  OBVIOUS
<1>8. Tidy(u) /\ u.heats = s.heats /\ u.races = t.races
  <2>1. {"heats", "races"} \subseteq DOMAIN u /\ u.heats = t.heats /\ u.races = t.races
    BY <1>5, <1>7 DEF Cleared
  <2> QED
    BY <1>5, <1>6, <2>1, SameExtends, ExtendedFollows
<1>9. PICK v : v = Regrouped(u, h)
  OBVIOUS
<1>10. Extends(u, v)
  BY <1>8, <1>9, DuplicateExtends, SelfExtends DEF Regrouped
<1>11. /\ Tidy(v) /\ h \in DOMAIN v.heats /\ v.races = u.races /\ Stays(u, v)
       /\ DOMAIN u.heats \subseteq DOMAIN v.heats
  BY <1>8, <1>10, ExtendedFollows
<1>12. PICK w : w = Retired(v, h)
  OBVIOUS
<1>13. Tidy(w) /\ Stays(v, w) /\ \A g : RacesOf(w, g) = RacesOf(v, g)
  <2>1. PICK d : d = [active |-> FALSE]
    OBVIOUS
  <2>2. w = v \/ w = AlterHeat(v, h, d)
    BY <1>12, <2>1 DEF Retired
  <2>3. CASE w = v
    BY <1>11, <2>3 DEF Stays
  <2>4. CASE w = AlterHeat(v, h, d)
    <3>1. Tidy(w) /\ Alters(v, h, d, w)
      BY <1>11, <2>4, AlterHeatTidy
    <3>2. Stays(v, w)
      BY <1>11, <2>1, <3>1, AlteredStays
    <3> QED
      BY <3>1, <3>2 DEF Alters
  <2> QED
    BY <2>2, <2>3, <2>4
<1>14. RaceSaved(s, h, finish) = w
  BY <1>1, <1>2, <1>4, <1>7, <1>9, <1>12 DEF RaceSaved
<1>15. Stays(s, w)
  <2>1. Stays(s, v)
    BY <1>8, <1>11 DEF Stays
  <2> QED
    BY <1>8, <1>11, <1>13, <2>1, ExtendedStays
<1>16. ASSUME NEW g, RacesOf(s, g) # {} PROVE RacesOf(w, g) # {}
  <2>1. PICK r \in DOMAIN s.races : s.races[r].heat = g
    BY <1>16, RacesOfHeat
  <2>2. PICK S : s.races \in Seq(S)
    BY DEF Tidy, Shaped, RaceTable
  <2>3. PICK q : q = Append(s.races, row)
    OBVIOUS
  <2>4. r \in DOMAIN q /\ q[r] = s.races[r]
    BY <2>2, <2>3
  <2>5. v.races = q
    BY <1>5, <1>8, <1>11, <2>3
  <2>6. r \in RacesOf(v, g)
    BY <2>1, <2>4, <2>5, RacesOfHeat
  <2> QED
    BY <1>13, <2>6
<1> QED
  BY <1>13, <1>14, <1>15, <1>16

-----------------------------------------------------------------------------
(* The other tables                                                        *)

LEMMA AddPilotExtends == \A s : Extends(s, AddPilot(s))
<1> SUFFICES ASSUME NEW s PROVE Extends(s, AddPilot(s))
  OBVIOUS
<1>1. PICK t : t = AddPilot(s)
  OBVIOUS
<1>2. Shaped(s) => /\ {"heats", "races"} \subseteq DOMAIN t
                   /\ t.heats = s.heats /\ t.races = s.races
  BY <1>1 DEF AddPilot, Shaped
<1> QED
  BY <1>1, <1>2, SameExtends

\* The slots of a pilot who is deleted stay where they are.
LEMMA VacatedFit ==
  ASSUME NEW slots, SlotsFit(slots), NEW p
  PROVE  SlotsFit(Vacated(slots, p))
<1> DEFINE new == Vacated(slots, p)
<1>1. /\ DOMAIN new = DOMAIN slots /\ new = [k \in DOMAIN slots |-> new[k]]
      /\ \A k \in DOMAIN slots : /\ {"seat", "pilot"} \subseteq DOMAIN new[k]
                                 /\ new[k].seat = slots[k].seat
  BY DEF Vacated, SlotsFit, SlotTable
<1> HIDE DEF new
<1>2. \E S : new \in Seq(S)
  BY <1>1, TableMapped DEF SlotsFit, SlotTable
<1>3. SlotTable(new)
  BY <1>1, <1>2 DEF SlotsFit, SlotTable
<1>4. Apart(new)
  BY <1>1 DEF SlotsFit, Apart
<1> QED
  BY <1>3, <1>4 DEF SlotsFit, new

LEMMA DeletePilotGrows == \A s, p : Grows(s, DeletePilot(s, p))
<1> SUFFICES ASSUME NEW s, NEW p PROVE Grows(s, DeletePilot(s, p))
  OBVIOUS
<1>1. PICK table : table = [h \in DOMAIN s.heats |->
                              [s.heats[h] EXCEPT !.slots = Vacated(s.heats[h].slots, p)]]
  OBVIOUS
<1>2. PICK t : t = [s EXCEPT !.pilots = s.pilots \ {p}, !.used = Without(s.used, p),
                             !.heats = table]
  OBVIOUS
<1>3. DeletePilot(s, p) \in {s, t}
  BY <1>1, <1>2 DEF DeletePilot
<1>4. Shaped(s) => \A h \in DOMAIN s.heats : SlotsFit(Vacated(s.heats[h].slots, p))
  BY VacatedFit DEF Shaped, HeatTable, HeatRow
<1>5. Shaped(s) => /\ DOMAIN table = DOMAIN s.heats
                   /\ \A h \in DOMAIN s.heats : /\ HeatRow(table[h])
                                                /\ table[h].class = s.heats[h].class
  BY <1>1, <1>4 DEF Shaped, HeatTable, HeatRow
<1>6. Shaped(s) => /\ {"heats", "races"} \subseteq DOMAIN t
                   /\ t.races = s.races /\ t.heats = table
  BY <1>2 DEF Shaped
<1>7. Grows(s, t)
  BY <1>5, <1>6, AlikeGrows
<1>8. Grows(s, s)
  BY DEF Grows
<1> QED
  BY <1>3, <1>7, <1>8

LEMMA FormatsGrow ==
  \A s, f, points : /\ Extends(s, DuplicateFormat(s, f)) /\ Extends(s, SetFormat(s, f))
                    /\ Extends(s, AlterFormat(s, f, points))
                    /\ Extends(s, DeleteFormat(s, f))
<1> SUFFICES ASSUME NEW s, NEW f, NEW points
             PROVE  /\ Extends(s, DuplicateFormat(s, f)) /\ Extends(s, SetFormat(s, f))
                    /\ Extends(s, AlterFormat(s, f, points))
                    /\ Extends(s, DeleteFormat(s, f))
  OBVIOUS
<1>1. \A t, g : Extends(t, SetFormat(t, g))
  <2> SUFFICES ASSUME NEW t, NEW g PROVE Extends(t, SetFormat(t, g))
    OBVIOUS
  <2>1. PICK u : u = [t EXCEPT !.race.format = g]
    OBVIOUS
  <2>2. Shaped(t) => /\ {"heats", "races"} \subseteq DOMAIN u
                     /\ u.heats = t.heats /\ u.races = t.races
    BY <2>1 DEF Shaped
  <2>3. Extends(t, u)
    BY <2>2, SameExtends
  <2> QED
    BY <2>1, <2>3, SelfExtends DEF SetFormat
<1>2. Extends(s, DuplicateFormat(s, f))
  <2>1. PICK t : t = DuplicateFormat(s, f)
    OBVIOUS
  <2>2. Shaped(s) => /\ {"heats", "races"} \subseteq DOMAIN t
                     /\ t.heats = s.heats /\ t.races = s.races
    BY <2>1 DEF DuplicateFormat, Shaped
  <2> QED
    BY <2>1, <2>2, SameExtends
<1>3. Extends(s, AlterFormat(s, f, points))
  <2>1. Extends(s, [s EXCEPT !.formats[f] = points])
    <3>1. PICK t : t = [s EXCEPT !.formats[f] = points]
      OBVIOUS
    <3>2. Shaped(s) => /\ {"heats", "races"} \subseteq DOMAIN t
                       /\ t.heats = s.heats /\ t.races = s.races
      BY <3>1 DEF Shaped
    <3> QED
      BY <3>1, <3>2, SameExtends
  <2> QED
    BY <1>1, <2>1, SelfExtends, ExtendedTwice DEF AlterFormat
<1>4. Extends(s, DeleteFormat(s, f))
  <2> DEFINE kept == IF \E c \in DOMAIN s.classes : s.classes[c].format = f
                     THEN s.formats ELSE Without(s.formats, f)
  <2>1. PICK t : t = [s EXCEPT !.formats = kept]
    OBVIOUS
  <2> HIDE DEF kept
  <2>2. Extends(s, t)
    <3>1. Shaped(s) => /\ {"heats", "races"} \subseteq DOMAIN t
                       /\ t.heats = s.heats /\ t.races = s.races
      BY <2>1 DEF Shaped
    <3> QED
      BY <3>1, SameExtends
  <2>3. \A g : Extends(s, SetFormat(t, g))
    BY <1>1, <2>2, ExtendedTwice
  <2>4. DeleteFormat(s, f) \in {s, t} \/ \E g : DeleteFormat(s, f) = SetFormat(t, g)
    BY <2>1 DEF DeleteFormat, kept
  <2> QED
    BY <2>2, <2>3, <2>4, SelfExtends
<1> QED
  BY <1>1, <1>2, <1>3, <1>4

LEMMA SetProfileExtends == \A s, id : Extends(s, SetProfile(s, id))
<1> SUFFICES ASSUME NEW s, NEW id PROVE Extends(s, SetProfile(s, id))
  OBVIOUS
<1>1. PICK t : t = SetProfile(s, id)
  OBVIOUS
<1>2. Shaped(s) => /\ {"heats", "races"} \subseteq DOMAIN t
                   /\ t.heats = s.heats /\ t.races = s.races
  BY <1>1 DEF SetProfile, Shaped
<1> QED
  BY <1>1, <1>2, SameExtends

LEMMA ProfilesGrow ==
  ASSUME NEW s, NEW x, NEW f, NEW level, NEW freq
  PROVE  /\ Extends(s, SetFrequency(s, x, f)) /\ Extends(s, SetLevel(s, x, level))
         /\ Extends(s, SetAllFrequencies(s, freq))
         /\ Extends(s, AddProfile(s)) /\ Extends(s, DeleteProfile(s))
<1>1. Extends(s, SetFrequency(s, x, f))
  <2>1. PICK t : t = SetFrequency(s, x, f)
    OBVIOUS
  <2>2. Shaped(s) => /\ {"heats", "races"} \subseteq DOMAIN t
                     /\ t.heats = s.heats /\ t.races = s.races
    BY <2>1 DEF SetFrequency, Shaped
  <2> QED
    BY <2>1, <2>2, SameExtends
<1>2. Extends(s, SetLevel(s, x, level))
  <2>1. PICK t : t = SetLevel(s, x, level)
    OBVIOUS
  <2>2. Shaped(s) => /\ {"heats", "races"} \subseteq DOMAIN t
                     /\ t.heats = s.heats /\ t.races = s.races
    BY <2>1 DEF SetLevel, Shaped
  <2> QED
    BY <2>1, <2>2, SameExtends
<1>3. Extends(s, SetAllFrequencies(s, freq))
  <2>1. PICK t : t = SetAllFrequencies(s, freq)
    OBVIOUS
  <2>2. Shaped(s) => /\ {"heats", "races"} \subseteq DOMAIN t
                     /\ t.heats = s.heats /\ t.races = s.races
    BY <2>1 DEF SetAllFrequencies, Shaped
  <2> QED
    BY <2>1, <2>2, SameExtends
<1>4. ASSUME NEW table PROVE Extends(s, [s EXCEPT !.tuning.profiles = table])
  <2>1. PICK t : t = [s EXCEPT !.tuning.profiles = table]
    OBVIOUS
  <2>2. Shaped(s) => /\ {"heats", "races"} \subseteq DOMAIN t
                     /\ t.heats = s.heats /\ t.races = s.races
    BY <2>1 DEF Shaped
  <2> QED
    BY <2>1, <2>2, SameExtends
<1>5. Extends(s, AddProfile(s))
  BY <1>4, SetProfileExtends, ExtendedTwice DEF AddProfile
<1>6. Extends(s, DeleteProfile(s))
  BY <1>4, SelfExtends, SetProfileExtends, ExtendedTwice DEF DeleteProfile
<1> QED
  BY <1>1, <1>2, <1>3, <1>5, <1>6

LEMMA RaceExtends ==
  \A s : /\ Extends(s, Cleared(s)) /\ Extends(s, [s EXCEPT !.race.flown = TRUE])
         /\ Extends(s, [s EXCEPT !.race.flown = FALSE, !.race.heat = None,
                               !.race.pilots = NobodyUp])
<1> SUFFICES ASSUME NEW s
             PROVE  /\ Extends(s, Cleared(s)) /\ Extends(s, [s EXCEPT !.race.flown = TRUE])
                    /\ Extends(s, [s EXCEPT !.race.flown = FALSE, !.race.heat = None,
                                          !.race.pilots = NobodyUp])
  OBVIOUS
<1>1. Extends(s, Cleared(s))
  <2>1. PICK t : t = Cleared(s)
    OBVIOUS
  <2>2. Shaped(s) => /\ {"heats", "races"} \subseteq DOMAIN t
                     /\ t.heats = s.heats /\ t.races = s.races
    BY <2>1 DEF Cleared, Shaped
  <2> QED
    BY <2>1, <2>2, SameExtends
<1>2. Extends(s, [s EXCEPT !.race.flown = TRUE])
  <2>1. PICK t : t = [s EXCEPT !.race.flown = TRUE]
    OBVIOUS
  <2>2. Shaped(s) => /\ {"heats", "races"} \subseteq DOMAIN t
                     /\ t.heats = s.heats /\ t.races = s.races
    BY <2>1 DEF Shaped
  <2> QED
    BY <2>1, <2>2, SameExtends
<1>3. Extends(s, [s EXCEPT !.race.flown = FALSE, !.race.heat = None,
                         !.race.pilots = NobodyUp])
  <2>1. PICK t : t = [s EXCEPT !.race.flown = FALSE, !.race.heat = None,
                         !.race.pilots = NobodyUp]
    OBVIOUS
  <2>2. Shaped(s) => /\ {"heats", "races"} \subseteq DOMAIN t
                     /\ t.heats = s.heats /\ t.races = s.races
    BY <2>1 DEF Shaped
  <2> QED
    BY <2>1, <2>2, SameExtends
<1> QED
  BY <1>1, <1>2, <1>3

-----------------------------------------------------------------------------
(* Heats that keep their crews                                             *)

\* What LockedKept says of a step, but for edits of a heat or of pilots.
Crewed(s, t) ==
  \A h \in DOMAIN s.heats \cap DOMAIN t.heats :
    \/ ~Fixed(s, h) \/ ~Fixed(t, h)
    \/ SameCrew(s.heats[h].slots, t.heats[h].slots)

\* Heats keep their crews, and those that are locked stay so.
Carries(s, t) ==
  \A h \in DOMAIN s.heats \cap DOMAIN t.heats :
    /\ SameCrew(s.heats[h].slots, t.heats[h].slots)
    /\ Locked(s, h) => Locked(t, h)

LEMMA CrewSelf == \A slots : SameCrew(slots, slots)
BY DEF SameCrew

LEMMA LockedIsFixed == \A s, h : Locked(s, h) <=> Fixed(s, h)
BY DEF Locked, Fixed

LEMMA StaysCrewed ==
  ASSUME NEW s, NEW t, Stays(s, t)
  PROVE  Crewed(s, t)
BY CrewSelf DEF Stays, Crewed

LEMMA CarriedCrewed ==
  ASSUME NEW s, NEW t, NEW u, Shaped(t), Carries(s, t), Settles(t, u)
  PROVE  Crewed(s, u)
<1>1. Reseated(t, u)
  BY DEF Settles
<1>2. ASSUME NEW h \in DOMAIN s.heats \cap DOMAIN u.heats, Fixed(s, h)
      PROVE  SameCrew(s.heats[h].slots, u.heats[h].slots)
  <2>1. h \in DOMAIN s.heats \cap DOMAIN t.heats
    BY <1>1 DEF Reseated
  <2>2. Locked(s, h)
    BY <1>2, LockedIsFixed
  <2>3. Locked(t, h) /\ SameCrew(s.heats[h].slots, t.heats[h].slots)
    BY <2>1, <2>2 DEF Carries
  <2>4. u.heats[h].slots = t.heats[h].slots
    BY <1>1, <2>1, <2>3 DEF Reseated
  <2> QED
    BY <2>3, <2>4
<1> QED
  BY <1>2 DEF Crewed

LEMMA SettledCrewed ==
  ASSUME NEW s, NEW t, Shaped(s), Settles(s, t)
  PROVE  Crewed(s, t)
<1>1. Carries(s, s)
  BY CrewSelf DEF Carries
<1> QED
  BY <1>1, CarriedCrewed

\* The same heats and races.
LEMMA SameCarries ==
  ASSUME NEW s, NEW t, t.heats = s.heats, t.races = s.races
  PROVE  Carries(s, t)
<1>1. \A h : RacesOf(t, h) = RacesOf(s, h)
  BY RacesOfHeat
<1> QED
  BY <1>1, CrewSelf DEF Carries, Locked

\* Two events with the same saved races have the same races of each heat.
LEMMA SameRacesOf ==
  ASSUME NEW s, NEW t, t.races = s.races
  PROVE  \A g : RacesOf(t, g) = RacesOf(s, g)
<1> TAKE g
<1>1. RacesOf(t, g) = {r \in DOMAIN t.races : t.races[r].heat = g}
  BY RacesOfHeat
<1>2. RacesOf(s, g) = {r \in DOMAIN s.races : s.races[r].heat = g}
  BY RacesOfHeat
<1> QED
  BY <1>1, <1>2

LEMMA ConfirmedCarries ==
  ASSUME NEW s, Tidy(s), NEW h \in DOMAIN s.heats
  PROVE  Tidy(Confirmed(s, h)) /\ Carries(s, Confirmed(s, h))
<1>1. PICK d : d = [confirmed |-> TRUE]
  OBVIOUS
<1>2. PICK u : u = AlterHeat(s, h, d)
  OBVIOUS
<1>3. Tidy(u) /\ Alters(s, h, d, u)
  BY <1>2, AlterHeatTidy
<1>4. PICK v : v = ResolveSeats(u, h)
  OBVIOUS
<1>5. Confirmed(s, h) = v
  BY <1>1, <1>2, <1>4 DEF Confirmed
<1>6. /\ Grows(u, v) /\ OnlySlots(u, h, v)
      /\ \A g \in DOMAIN u.heats : SameCrew(u.heats[g].slots, v.heats[g].slots)
  BY <1>3, <1>4, ResolveGrows DEF Tidy
<1>7. Tidy(v) /\ v.races = u.races
  BY <1>3, <1>6, GrownTidy DEF Grows, Tidy
<1>8. \A g : RacesOf(v, g) = RacesOf(s, g)
  <2>1. \A g : RacesOf(v, g) = RacesOf(u, g)
    BY <1>7, SameRacesOf
  <2>2. \A g : RacesOf(u, g) = RacesOf(s, g)
    BY <1>3 DEF Alters
  <2> QED
    BY <2>1, <2>2
<1>9. /\ DOMAIN d = {"confirmed"} /\ Given(d, "confirmed", s.heats[h].confirmed)
  BY <1>1 DEF Given
<1>10. \A g \in DOMAIN s.heats : SameCrew(s.heats[g].slots, v.heats[g].slots)
  <2>1. \A g \in DOMAIN s.heats : u.heats[g].slots = s.heats[g].slots
    BY <1>3, <1>9 DEF Alters
  <2> QED
    BY <1>3, <1>6, <2>1 DEF Alters
<1>11. \A g \in DOMAIN s.heats : s.heats[g].confirmed => v.heats[g].confirmed
  <2>1. \A g \in DOMAIN s.heats : s.heats[g].confirmed => u.heats[g].confirmed
    BY <1>3, <1>9 DEF Alters
  <2> QED
    BY <1>3, <1>6, <2>1 DEF Alters, OnlySlots
<1>12. Carries(s, v)
  BY <1>8, <1>10, <1>11 DEF Carries, Locked
<1> QED
  BY <1>5, <1>7, <1>12

\* A plan that is taken back: its heat may be planned anew, if it has no race.
LEMMA RevertedCrewed ==
  ASSUME NEW s, Tidy(s), NEW h \in DOMAIN s.heats, NEW d, d = [confirmed |-> FALSE],
         NEW t \in OnAlterHeat(s, h, d)
  PROVE  Crewed(s, t)
<1>1. PICK u : u = AlterHeat(s, h, d)
  OBVIOUS
<1>2. Tidy(u) /\ Alters(s, h, d, u)
  BY <1>1, AlterHeatTidy
<1>3. DOMAIN d = {"confirmed"} /\ ~Given(d, "confirmed", s.heats[h].confirmed)
  BY DEF Given
<1>4. t = u \/ t \in SetHeat(u, h)
  BY <1>1 DEF OnAlterHeat
<1>5. SettlesOne(u, h, t)
  <2>1. SettlesOne(u, h, u)
    BY DEF SettlesOne, Settles, Grows, Reseated, OnlySlots
  <2> QED
    BY <1>4, <2>1, SetHeatSettles
<1>6. OnlySlots(u, h, t) /\ Reseated(u, t) /\ t.races = u.races
  BY <1>2, <1>5 DEF SettlesOne, Settles, Grows, Tidy
<1>7. \A g : RacesOf(t, g) = RacesOf(s, g) /\ RacesOf(u, g) = RacesOf(s, g)
  <2>1. \A g : RacesOf(t, g) = RacesOf(u, g)
    BY <1>6, SameRacesOf
  <2>2. \A g : RacesOf(u, g) = RacesOf(s, g)
    BY <1>2 DEF Alters
  <2> QED
    BY <2>1, <2>2
<1>8. \A g \in DOMAIN s.heats : u.heats[g].slots = s.heats[g].slots
  BY <1>2, <1>3 DEF Alters
<1>9. \A g \in DOMAIN s.heats \ {h} : SameCrew(s.heats[g].slots, t.heats[g].slots)
  BY <1>2, <1>6, <1>8, CrewSelf DEF Alters, OnlySlots
<1>10. CASE RacesOf(s, h) = {}
  <2>1. ~t.heats[h].confirmed
    BY <1>2, <1>3, <1>6 DEF Alters, OnlySlots
  <2>2. ~Fixed(t, h)
    BY <1>7, <1>10, <2>1 DEF Fixed
  <2> QED
    BY <1>9, <2>2 DEF Crewed
<1>11. CASE RacesOf(s, h) # {}
  <2>1. Locked(u, h) /\ h \in DOMAIN u.heats
    BY <1>2, <1>7, <1>11 DEF Locked, Alters
  <2>2. SameCrew(s.heats[h].slots, t.heats[h].slots)
    BY <1>6, <1>8, <2>1, CrewSelf DEF Reseated
  <2> QED
    BY <1>9, <2>2 DEF Crewed
<1> QED
  BY <1>10, <1>11

-----------------------------------------------------------------------------
(* The steps of the other theorems                                         *)

Steady == RacesInv' /\ Crewed(Now, Now')

LEMMA BecameAnew ==
  ASSUME NEW t, Tidy(t), BecomeRows(t)
  PROVE  RacesInv' /\ (Crewed(Now, t) => Crewed(Now, Now'))
<1>1. heats' = t.heats /\ races' = t.races
  BY DEF BecomeRows
<1>2. PICK u : u = Now'
  OBVIOUS
<1>3. {"heats", "races"} \subseteq DOMAIN u /\ u.heats = t.heats /\ u.races = t.races
  BY <1>1, <1>2 DEF Now
<1>4. Tidy(u)
  BY <1>3, SameExtends, ExtendedFollows
<1>5. Tidy(Now')
  BY <1>2, <1>4
<1>6. \A h : Fixed(u, h) <=> Fixed(t, h)
  <2>1. \A h : RacesOf(u, h) = RacesOf(t, h)
    BY <1>3, RacesOfHeat
  <2> QED
    BY <1>3, <2>1 DEF Fixed
<1>7. Crewed(Now, t) => Crewed(Now, u)
  BY <1>3, <1>6 DEF Crewed
<1>8. Crewed(Now, t) => Crewed(Now, Now')
  BY <1>2, <1>7
<1> QED
  BY <1>5, <1>8 DEF RacesInv

LEMMA BecameSteady ==
  ASSUME NEW t, Tidy(t), Crewed(Now, t), Become(t)
  PROVE  Steady
BY BecameAnew DEF Become, Steady

LEMMA BecameExtended ==
  ASSUME NEW t, RacesInv, Extends(Now, t), Become(t)
  PROVE  Steady
<1>1. Tidy(t) /\ Crewed(Now, t)
  BY ExtendedFollows, StaysCrewed DEF RacesInv
<1> QED
  BY <1>1, BecameSteady

LEMMA BecameSettled ==
  ASSUME NEW s, Tidy(s), Carries(Now, s), NEW t, Settles(s, t), Become(t)
  PROVE  Steady
<1>1. Tidy(t)
  BY GrownTidy DEF Settles
<1>2. Crewed(Now, t)
  BY CarriedCrewed DEF Tidy
<1> QED
  BY <1>1, <1>2, BecameSteady

LEMMA NowHeats == Now.heats = heats /\ Now.races = races
BY DEF Now

LEMMA NowCarries == Carries(Now, Now)
BY SameCarries

LEMMA PlanSteady ==
  ASSUME RacesInv, SetCurrentHeat \/ CalcPilots \/ ConfirmPlan \/ ConfirmHeat
  PROVE  Steady
<1>1. Tidy(Now)
  BY DEF RacesInv
<1>2. CASE SetCurrentHeat
  <2>1. PICK h, t : t \in SetHeat(Now, h) /\ Become(t)
    BY <1>2 DEF SetCurrentHeat
  <2>2. Settles(Now, t)
    BY <2>1, SetHeatSettles DEF SettlesOne
  <2> QED
    BY <1>1, <2>1, <2>2, NowCarries, BecameSettled
<1>3. CASE CalcPilots
  <2>1. PICK h, ks, pre, t : /\ pre \in [ks -> SeatsOn(Now)] /\ IsInjective(pre)
                             /\ t \in CalcHeat(Now, h, pre, scenario.lucky) /\ Become(t)
    BY <1>3 DEF CalcPilots
  <2>2. Wished(pre)
    BY <2>1 DEF Wished, SeatsOn
  <2>3. Settles(Now, t)
    BY <2>1, <2>2, CalcHeatSettles DEF SettlesOne
  <2> QED
    BY <1>1, <2>1, <2>3, NowCarries, BecameSettled
<1>4. CASE ConfirmPlan
  <2>1. PICK s : /\ s = Confirmed(Now, dialog)
                 /\ IF race.flown THEN Become(s)
                    ELSE \E t \in UNION {SetHeat(u, dialog) : u \in {Finalized(s, dialog)}} :
                           Become(t)
    BY <1>4 DEF ConfirmPlan
  <2>2. dialog \in DOMAIN Now.heats
    BY <1>4, NowHeats DEF ConfirmPlan
  <2>3. Tidy(s) /\ Carries(Now, s)
    BY <1>1, <2>1, <2>2, ConfirmedCarries
  <2>4. CASE race.flown
    <3>1. Settles(s, s)
      BY DEF Settles, Grows, Reseated
    <3> QED
      BY <2>1, <2>3, <2>4, <3>1, BecameSettled
  <2>5. CASE ~race.flown
    <3>1. PICK t : t \in SetHeat(Finalized(s, dialog), dialog) /\ Become(t)
      BY <2>1, <2>5
    <3>2. Settles(s, Finalized(s, dialog))
      BY FinalizedExtends, KeptSettles DEF Extends
    <3>3. Settles(Finalized(s, dialog), t)
      BY <3>1, SetHeatSettles DEF SettlesOne
    <3>4. Settles(s, t)
      BY <3>2, <3>3, SettledTwice
    <3> QED
      BY <2>3, <3>1, <3>4, BecameSettled
  <2> QED
    BY <2>4, <2>5
<1>5. CASE ConfirmHeat
  <2>1. PICK h \in DOMAIN Now.heats : Become(Confirmed(Now, h))
    BY <1>5, NowHeats DEF ConfirmHeat
  <2>2. Tidy(Confirmed(Now, h)) /\ Carries(Now, Confirmed(Now, h))
    BY <1>1, <2>1, ConfirmedCarries
  <2>3. \A s : Settles(s, s)
    BY DEF Settles, Grows, Reseated
  <2> QED
    BY <2>1, <2>2, <2>3, BecameSettled
<1> QED
  BY <1>2, <1>3, <1>4, <1>5

LEMMA RaceSteady ==
  ASSUME RacesInv, Stage \/ Discard \/ Save \/ ReassignRace \/ Marshal
  PROVE  Steady
<1>1. Tidy(Now)
  BY DEF RacesInv
<1>2. CASE Stage
  BY <1>2, RaceExtends, BecameExtended DEF Stage
<1>3. CASE Discard
  BY <1>3, RaceExtends, BecameExtended DEF Discard
<1>4. CASE Save
  <2>1. CASE Become(Cleared(Now))
    BY <2>1, RaceExtends, BecameExtended
  <2>2. CASE ~Become(Cleared(Now))
    <3>1. race.heat \in DOMAIN Now.heats
      BY <1>4, <2>2, NowHeats DEF Save
    <3>2. PICK finish \in Finishes(Now, race.heat) :
            \E s \in {RaceSaved(Now, race.heat, finish)} :
              Become(s) \/ \E next : \E t \in SetHeat(s, next) : Become(t)
      BY <1>4, <2>2 DEF Save
    <3>3. PICK s : /\ s = RaceSaved(Now, race.heat, finish)
                   /\ Become(s) \/ \E next : \E t \in SetHeat(s, next) : Become(t)
      BY <3>2
    <3>4. /\ Tidy(s) /\ Stays(Now, s)
          /\ \A g : RacesOf(Now, g) # {} => RacesOf(s, g) # {}
      BY <1>1, <3>1, <3>3, RaceSavedTidy
    <3>5. Carries(Now, s)
      BY <3>4, CrewSelf DEF Carries, Stays, Locked
    <3>6. \A u : Settles(u, u)
      BY DEF Settles, Grows, Reseated
    <3>7. PICK t : Settles(s, t) /\ Become(t)
      BY <3>3, <3>6, SetHeatSettles DEF SettlesOne
    <3> QED
      BY <3>4, <3>5, <3>7, BecameSettled
  <2> QED
    BY <2>1, <2>2
<1>5. CASE ReassignRace
  <2>1. PICK r \in DOMAIN Now.races, h \in DOMAIN Now.heats :
          BecomeRows(Reassign(Now, r, h))
    BY <1>5, NowHeats DEF ReassignRace
  <2>2. PICK t : t = Reassign(Now, r, h)
    OBVIOUS
  <2>3. Tidy(t) /\ Stays(Now, t)
    BY <1>1, <2>2, ReassignTidy
  <2> QED
    BY <2>1, <2>2, <2>3, StaysCrewed, BecameAnew DEF Steady
<1>6. CASE Marshal
  <2>1. PICK r, x, finish, level : Become(Calibrated(Remarshaled(Now, r, x, finish, level)))
    BY <1>6 DEF Marshal
  <2>2. PICK s : s = Remarshaled(Now, r, x, finish, level)
    OBVIOUS
  <2>3. Tidy(s) /\ s.heats = Now.heats
    BY <1>1, <2>2, RemarshaledTidy
  <2>4. Tidy(Calibrated(s)) /\ Calibrated(s).heats = Now.heats
    BY <2>3, CalibratedExtends, ExtendedFollows DEF Tidy
  <2>5. Stays(Now, Calibrated(s))
    BY <2>4 DEF Stays
  <2> QED
    BY <2>1, <2>2, <2>4, <2>5, StaysCrewed, BecameSteady
<1> QED
  BY <1>2, <1>3, <1>4, <1>5, <1>6

LEMMA AlterSteps ==
  ASSUME RacesInv, NEW kind, AlterOneHeat(kind)
  PROVE  RacesInv' /\ (kind = "revert" => Steady)
<1>1. Tidy(Now)
  BY DEF RacesInv
<1>2. PICK h \in DOMAIN Now.heats : \E d, t :
        /\ kind = "revert" => d = [confirmed |-> FALSE]
        /\ t \in OnAlterHeat(Now, h, d) /\ Become(t)
  BY NowHeats DEF AlterOneHeat
<1>3. PICK d, t : /\ kind = "revert" => d = [confirmed |-> FALSE]
                  /\ t \in OnAlterHeat(Now, h, d) /\ Become(t)
  BY <1>2
<1>4. PICK u : u = AlterHeat(Now, h, d)
  OBVIOUS
<1>5. Tidy(u)
  BY <1>1, <1>4, AlterHeatTidy
<1>6. t = u \/ t \in SetHeat(u, h)
  BY <1>3, <1>4 DEF OnAlterHeat
<1>7. Tidy(t)
  BY <1>5, <1>6, SetHeatSettles, GrownTidy DEF SettlesOne, Settles
<1>8. kind = "revert" => Crewed(Now, t)
  BY <1>1, <1>3, RevertedCrewed
<1> QED
  BY <1>3, <1>7, <1>8, BecameAnew DEF Become, Steady

LEMMA HeatSteady ==
  ASSUME RacesInv, Activate \/ InsertOneHeat \/ DropHeat
  PROVE  Steady
<1>1. Tidy(Now)
  BY DEF RacesInv
<1>2. CASE Activate
  <2>1. PICK h \in DOMAIN Now.heats, on \in BOOLEAN :
          Become(AlterHeat(Now, h, [active |-> on]))
    BY <1>2, NowHeats DEF Activate
  <2>2. PICK d : d = [active |-> on]
    OBVIOUS
  <2>3. PICK t : t = AlterHeat(Now, h, d)
    OBVIOUS
  <2>4. Tidy(t) /\ Alters(Now, h, d, t)
    BY <1>1, <2>1, <2>3, AlterHeatTidy
  <2>5. Stays(Now, t)
    BY <2>1, <2>2, <2>4, AlteredStays
  <2> QED
    BY <2>1, <2>2, <2>3, <2>4, <2>5, StaysCrewed, BecameSteady
<1>3. CASE InsertOneHeat
  <2>1. \/ \E c : Become(AddHeat(Now, c, 0, FALSE, "assign"))
        \/ \E h \in DOMAIN Now.heats :
             Become(DuplicateHeat(Now, h, heats[h].class, heats[h].group))
    BY <1>3, NowHeats DEF InsertOneHeat
  <2> QED
    BY <2>1, AddHeatExtends, DuplicateExtends, BecameExtended
<1>4. CASE DropHeat
  <2>1. PICK h : Become(IF DeleteHeat(Now, h).race.heat = h
                        THEN Practice(DeleteHeat(Now, h)) ELSE DeleteHeat(Now, h))
    BY <1>4 DEF DropHeat
  <2>2. PICK s : s = DeleteHeat(Now, h)
    OBVIOUS
  <2>3. Tidy(s) /\ Stays(Now, s) /\ DOMAIN s.heats \subseteq DOMAIN Now.heats
    BY <1>1, <2>2, DeleteHeatTidy
  <2>4. PICK t : t \in {s, Practice(s)} /\ Become(t)
    BY <2>1, <2>2
  <2>5. Extends(s, t)
    BY <2>4, PracticeExtends, SelfExtends
  <2>6. Tidy(t)
    BY <2>3, <2>5, ExtendedFollows
  <2>7. t.heats = s.heats
    <3>1. Shaped(s) => Practice(s).heats = s.heats
      BY PracticeSame
    <3> QED
      BY <2>3, <2>4, <3>1 DEF Tidy
  <2>8. Stays(Now, t)
    BY <2>3, <2>7 DEF Stays
  <2> QED
    BY <2>4, <2>6, <2>8, StaysCrewed, BecameSteady
<1> QED
  BY <1>2, <1>3, <1>4

\* The heats of a plan are numbered from 1.
LEMMA PlansNumbered ==
  ASSUME NEW s, NEW input, NEW plan \in Plans(s, input)
  PROVE  \A h \in DOMAIN plan : h \in Nat \ {0}
<1>1. \A kind, given, seats, total, offset :
        \A h \in DOMAIN Ladder(kind, given, seats, total, offset) : h \in Nat \ {0}
  BY DEF Ladder, NoPlan
<1>2. \A q, order, offset :
        \A h \in DOMAIN Balanced(q, order, offset) : h \in Nat \ {0}
  BY DEF Balanced
<1> QED
  BY <1>1, <1>2 DEF Plans

LEMMA TableSteady ==
  ASSUME RacesInv, EditClasses \/ EditFormats \/ EditProfiles \/ Generate
  PROVE  Steady
<1>1. Tidy(Now)
  BY DEF RacesInv
<1>2. CASE EditClasses
  <2>1. ASSUME NEW t, Tidy(t), Stays(Now, t), BecomeRows(t) PROVE Steady
    BY <2>1, StaysCrewed, BecameAnew DEF Steady
  <2>2. CASE BecomeRows(AddClass(Now))
    <3>1. Tidy(AddClass(Now)) /\ Stays(Now, AddClass(Now))
      BY <1>1, AddClassExtends, ExtendedFollows
    <3> QED
      BY <2>1, <2>2, <3>1
  <2>3. ASSUME NEW c, BecomeRows(DuplicateClass(Now, c)) PROVE Steady
    BY <1>1, <2>1, <2>3, DuplicateClassTidy
  <2>4. ASSUME NEW c, NEW d, BecomeRows(AlterClass(Now, c, d)) PROVE Steady
    BY <1>1, <2>1, <2>4, AlterClassTidy
  <2>5. ASSUME NEW c, NEW t \in DeleteClass(Now, c), BecomeRows(t) PROVE Steady
    BY <1>1, <2>1, <2>5, DeleteClassTidy
  <2> QED
    BY <1>2, <2>2, <2>3, <2>4, <2>5 DEF EditClasses
<1>3. CASE EditFormats
  BY <1>3, FormatsGrow, BecameExtended DEF EditFormats
<1>4. CASE EditProfiles
  <2>1. \E x, f, level, freq, id, t :
          /\ t \in {SetFrequency(Now, x, f), SetLevel(Now, x, level),
                    SetAllFrequencies(Now, freq), SetProfile(Now, id),
                    AddProfile(Now), DeleteProfile(Now)}
          /\ Become(t)
    BY <1>4 DEF EditProfiles
  <2>2. PICK t : Extends(Now, t) /\ Become(t)
    BY <2>1, ProfilesGrow, SetProfileExtends
  <2> QED
    BY <2>2, BecameExtended
<1>5. CASE Generate
  <2>1. PICK input, output, plan, pool : /\ plan \in Plans(Now, input)
                                         /\ Become(Apply(Now, plan, input, output, pool))
    BY <1>5 DEF Generate
  <2>2. PICK t : t = Apply(Now, plan, input, output, pool)
    OBVIOUS
  <2>3. DOMAIN Apply(Now, plan, input, output, pool).heats \subseteq 1 .. MaxHeats
    BY <2>1 DEF Become, BecomeRows
  <2>4. \A h \in DOMAIN plan : h \in Nat \ {0}
    BY <2>1, PlansNumbered
  <2>5. Tidy(t) /\ Stays(Now, t)
    BY <1>1, <2>2, <2>3, <2>4, ApplyTidy
  <2> QED
    BY <2>1, <2>2, <2>5, StaysCrewed, BecameSteady
<1> QED
  BY <1>2, <1>3, <1>4, <1>5

LEMMA PilotSteps ==
  ASSUME RacesInv, EditPilots
  PROVE  RacesInv'
<1>1. PICK t : Grows(Now, t) /\ Become(t)
  BY AddPilotExtends, DeletePilotGrows DEF EditPilots, Extends
<1>2. Tidy(t)
  BY <1>1, GrownTidy DEF RacesInv
<1> QED
  BY <1>1, <1>2, BecameAnew DEF Become

LEMMA ForcedSettles ==
  ASSUME NEW s, NEW t \in Forced(s)
  PROVE  Settles(s, t)
<1>1. PICK h : h = InitialHeat(s)
  OBVIOUS
<1>2. PICK u : u = [s EXCEPT !.option = h]
  OBVIOUS
<1>3. Shaped(s) => /\ {"heats", "races"} \subseteq DOMAIN u
                   /\ u.heats = s.heats /\ u.races = s.races
  BY <1>2 DEF Shaped
<1>4. Settles(s, u)
  BY <1>3, SameExtends, KeptSettles DEF Extends
<1>5. Settles(u, Finalized(u, h))
  BY FinalizedExtends, KeptSettles DEF Extends
<1>6. t \in SetHeat(Finalized(u, h), h)
  BY <1>1, <1>2 DEF Forced
<1>7. Settles(Finalized(u, h), t)
  BY <1>6, SetHeatSettles DEF SettlesOne
<1> QED
  BY <1>4, <1>5, <1>7, SettledTwice

LEMMA StartSteady ==
  ASSUME RacesInv, Restart \/ ResetDatabase
  PROVE  Steady
<1>1. Tidy(Now)
  BY DEF RacesInv
<1>2. CASE Restart
  <2>1. PICK s : s = [Now EXCEPT !.race.flown = FALSE, !.race.heat = None,
                                 !.race.pilots = NobodyUp]
    OBVIOUS
  <2>2. PICK u : u = SetProfile(s, tuning.profile)
    OBVIOUS
  <2>3. PICK t : t \in Forced(u) /\ Become(t)
    BY <1>2, <2>1, <2>2 DEF Restart
  <2>4. Tidy(s)
    BY <1>1, <2>1, RaceExtends, ExtendedFollows
  <2>5. Tidy(u)
    BY <2>2, <2>4, SetProfileExtends, ExtendedFollows
  <2>6. u.heats = Now.heats /\ u.races = Now.races
    <3>1. s.heats = Now.heats /\ s.races = Now.races
      BY <2>1 DEF Now
    <3>2. u.heats = s.heats /\ u.races = s.races
      BY <2>2, <2>4 DEF SetProfile, Tidy, Shaped
    <3> QED
      BY <3>1, <3>2
  <2>7. Carries(Now, u)
    BY <2>6, SameCarries
  <2> QED
    BY <2>3, <2>5, <2>7, ForcedSettles, BecameSettled
<1>3. CASE ResetDatabase
  <2>1. PICK kind \in {"races", "heats", "classes", "pilots", "all", "formats"} :
          \E t \in Forced(Reset(Cleared(Now), kind)) : Become(t)
    BY <1>3 DEF ResetDatabase
  <2>2. PICK s : s = Cleared(Now)
    OBVIOUS
  <2>3. Tidy(s)
    BY <1>1, <2>2, RaceExtends, ExtendedFollows
  <2>4. PICK u : u = Reset(s, kind)
    OBVIOUS
  <2>5. Tidy(u) /\ u.races = <<>> /\ \A h \in DOMAIN u.heats : ~u.heats[h].confirmed
    BY <2>3, <2>4, ResetTidy
  <2>6. PICK t : t \in Forced(u) /\ Become(t)
    BY <2>1, <2>2, <2>4
  <2>7. Grows(u, t) /\ Reseated(u, t) /\ t.races = u.races
    BY <2>5, <2>6, ForcedSettles DEF Settles, Grows, Tidy
  <2>8. Tidy(t)
    BY <2>5, <2>7, GrownTidy
  <2>9. \A h \in DOMAIN t.heats : ~Fixed(t, h)
    <3>1. \A h : RacesOf(t, h) = {}
      BY <2>5, <2>7, RacesOfHeat
    <3> QED
      BY <2>5, <2>7, <3>1 DEF Reseated, Fixed
  <2>10. Crewed(Now, t)
    BY <2>9 DEF Crewed
  <2> QED
    BY <2>6, <2>8, <2>10, BecameSteady
<1> QED
  BY <1>2, <1>3

LEMMA RacesStart ==
  ASSUME Init
  PROVE  RacesInv
<1>1. PICK e : /\ scenario \in Scenarios /\ e = scenario.event
               /\ heats = e.heats /\ races = e.races
  BY DEF Init
<1>2. /\ MaxHeats \in Nat /\ DOMAIN e.heats \subseteq 1 .. MaxHeats
      /\ e.races \in Seq(Range(e.races))
      /\ \A r \in DOMAIN e.races : {"heat", "class", "round"} \subseteq DOMAIN e.races[r]
      /\ RacesFollow(e)
  BY <1>1, ScenariosAssumption
<1>3. PICK u : u = Now
  OBVIOUS
<1>4. {"heats", "races"} \subseteq DOMAIN u /\ u.heats = e.heats /\ u.races = e.races
  BY <1>1, <1>3 DEF Now
<1>5. IsFiniteSet(DOMAIN e.heats)
  BY <1>2, PartFinite
<1>6. \A h \in DOMAIN e.heats : HeatRow(e.heats[h])
  <2> TAKE h \in DOMAIN e.heats
  <2>1. PICK slots : slots = e.heats[h].slots
    OBVIOUS
  <2>2. /\ {"class", "slots", "confirmed"} \subseteq DOMAIN e.heats[h]
        /\ Len(slots) \in Nat /\ slots \in [1 .. Len(slots) -> Range(slots)]
        /\ Apart(slots)
        /\ \A k \in DOMAIN slots :
             {"seat", "pilot"} \subseteq DOMAIN slots[k] /\ slots[k].seat \in Nat
    BY <1>1, <2>1, ScenariosAssumption
  <2>3. slots \in Seq(Range(slots))
    <3> DEFINE n == Len(slots)
               S == Range(slots)
    <3>1. n \in Nat /\ slots \in [1 .. n -> S]
      BY <2>2
    <3> HIDE DEF n, S
    <3>2. slots \in Seq(S)
      BY <3>1
    <3> QED
      BY <3>2 DEF S
  <2>4. SlotsFit(slots)
    BY <2>2, <2>3 DEF SlotsFit, SlotTable
  <2> QED
    BY <2>1, <2>2, <2>4 DEF HeatRow
<1>7. HeatTable(e.heats) /\ RaceTable(e.races)
  BY <1>2, <1>5, <1>6 DEF HeatTable, RaceTable
<1>8. \A h : RacesOf(u, h) = RacesOf(e, h)
  BY <1>4, RacesOfHeat
<1>9. RacesFollow(u)
  BY <1>2, <1>4, <1>8 DEF RacesFollow
<1> QED
  BY <1>3, <1>4, <1>7, <1>9 DEF RacesInv, Tidy, Shaped

LEMMA Unmoved ==
  ASSUME RacesInv, UNCHANGED vars
  PROVE  Steady
<1>1. PICK u : u = Now'
  OBVIOUS
<1>2. u = Now
  BY <1>1 DEF vars, tables, Now
<1>3. Tidy(u) /\ Crewed(Now, u)
  <2>1. Stays(Now, Now)
    BY DEF Stays
  <2> QED
    BY <1>2, <2>1, StaysCrewed DEF RacesInv
<1>4. Tidy(Now') /\ Crewed(Now, Now')
  BY <1>1, <1>3
<1> QED
  BY <1>4 DEF RacesInv, Steady

\* Every step keeps the tables tidy and, but for edits of a heat or of the
\* pilots, the crews of heats that are locked.
LEMMA AllSteps ==
  ASSUME RacesInv, [Next]_vars
  PROVE  /\ RacesInv'
         /\ \/ Crewed(Now, Now')
            \/ \E kind \in {"alterSlot", "alterHeat"} : AlterOneHeat(kind)
            \/ EditPilots
<1>1. CASE UNCHANGED vars
  BY <1>1, Unmoved DEF Steady
<1>2. CASE \E kind \in {"alterSlot", "alterHeat", "revert"} : AlterOneHeat(kind)
  BY <1>2, AlterSteps DEF Steady
<1>3. CASE EditPilots
  BY <1>3, PilotSteps
<1>4. CASE \/ SetCurrentHeat \/ CalcPilots \/ ConfirmPlan \/ ConfirmHeat
           \/ Stage \/ Discard \/ Save \/ ReassignRace \/ Marshal
           \/ Activate \/ InsertOneHeat \/ DropHeat
           \/ EditClasses \/ EditFormats \/ EditProfiles \/ Generate
           \/ Restart \/ ResetDatabase
  BY <1>4, PlanSteady, RaceSteady, HeatSteady, TableSteady, StartSteady DEF Steady
<1> QED
  BY <1>1, <1>2, <1>3, <1>4 DEF Next

LEMMA Inductive == Spec => []RacesInv
<1>1. Init => RacesInv
  BY RacesStart
<1>2. RacesInv /\ [Next]_vars => RacesInv'
  BY AllSteps
<1> QED
  BY <1>1, <1>2, PTL DEF Spec

\* The class of every saved race is that of its heat, which is there, and the
\* rounds of a heat are numbered 1, 2, .. in the order they were flown,
\* whatever was done to heats, classes, races and plans since.
THEOREM RacesFollowSafe == Spec => []RacesFollowHeats
<1>1. RacesInv => RacesFollowHeats
  BY DEF RacesInv, Tidy, RacesFollowHeats
<1> QED
  BY <1>1, Inductive, PTL

\* No two slots of a heat ever have the same seat, whatever is edited, seeded
\* and confirmed, and whichever seats go by frequencies.
THEOREM SeatsApartSafe == Spec => []SeatsApart
<1>1. RacesInv => SeatsApart
  BY DEF RacesInv, Tidy, Shaped, HeatTable, HeatRow, SlotsFit, SeatsApart, Now
<1> QED
  BY <1>1, Inductive, PTL

\* Who flies in a heat that is confirmed or flown, and where, changes only by
\* an edit of a heat or of the pilots.
THEOREM LockedKeptSafe == Spec => LockedKept
<1> DEFINE Step ==
      \A h \in DOMAIN heats \cap DOMAIN heats' :
        \/ ~Fixed(Now, h) \/ ~Fixed(Now', h)
        \/ SameCrew(heats[h].slots, heats'[h].slots)
        \/ \E kind \in {"alterSlot", "alterHeat"} : AlterOneHeat(kind)
        \/ EditPilots
<1>1. RacesInv /\ [Next]_vars => Step
  <2> SUFFICES ASSUME RacesInv, [Next]_vars PROVE Step
    OBVIOUS
  <2>1. CASE Crewed(Now, Now')
    <3>1. PICK u : u = Now'
      OBVIOUS
    <3>2. Now.heats = heats /\ u.heats = heats'
      BY <3>1 DEF Now
    <3>3. Crewed(Now, u)
      BY <2>1, <3>1
    <3>4. \A h \in DOMAIN heats \cap DOMAIN heats' :
            \/ ~Fixed(Now, h) \/ ~Fixed(u, h)
            \/ SameCrew(heats[h].slots, heats'[h].slots)
      BY <3>2, <3>3 DEF Crewed
    <3> QED
      BY <3>1, <3>4
  <2>2. CASE \/ \E kind \in {"alterSlot", "alterHeat"} : AlterOneHeat(kind)
             \/ EditPilots
    BY <2>2
  <2> QED
    BY <2>1, <2>2, AllSteps
<1> QED
  BY <1>1, Inductive, PTL DEF Spec, LockedKept
=============================================================================
