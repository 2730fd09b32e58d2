---------------------------- MODULE HeatSeeding ----------------------------
(***************************************************************************)
(* Heat automation: pilots for the slots of a heat from the results of     *)
(* heats and classes, and seats for the pilots so that few of them have to *)
(* change their frequency; and what becomes of the plan of a generator.    *)
(*                                                                         *)
(* Operations that shuffle return the set of what they may come to.  Bands *)
(* are left out: with bands the code avoids to move a pilot to or from the *)
(* D band, if it can, which is one of the outcomes allowed here.           *)
(***************************************************************************)
EXTENDS ClassRanking, SeatTuning, HeatPlans

-----------------------------------------------------------------------------
(* calc_heat_pilots                                                        *)

Rank(pilots, k) == IF k <= Len(pilots) THEN pilots[k] ELSE None

\* A seeded slot without a rank, or whose source is gone, cannot be filled.
Fails(s, slot) ==
  /\ slot.method \in {"heat", "class"} /\ slot.seed # None
  /\ \/ slot.rank = None
     \/ slot.method = "heat" /\ slot.seed \notin DOMAIN s.heats
     \/ slot.method = "class" /\ slot.seed \notin DOMAIN s.classes

SeededPilot(s, slot) ==
  CASE slot.method = "assign" \/ Fails(s, slot) -> slot.pilot
    [] slot.method = "none" \/ slot.seed = None -> None
    [] slot.method = "heat" -> Rank(Pilots(HeatBoard(s, slot.seed)), slot.rank)
    [] slot.method = "class" -> Rank(Ranking(s, slot.seed), slot.rank)

Seeded(s, h) ==
  LET slots == s.heats[h].slots
  IN [s EXCEPT !.heats[h].slots =
        [k \in DOMAIN slots |->
           [slots[k] EXCEPT !.pilot = SeededPilot(s, slots[k])]]]

-----------------------------------------------------------------------------
(* run_auto_frequency.  `at` gives the slots their seats.                  *)

History(s, slots, k) == IF slots[k].pilot = None THEN <<>>
                        ELSE s.used[slots[k].pilot]
Matches(s, slots, at, x) ==
  {k \in DOMAIN slots : at[k] = None /\ Profile(s).freq[x] \in Range(History(s, slots, k))}
\* A mutated form: the oldest frequency counts.
Oldest(s, slots, k) == Head(History(s, slots, k))
Latest(s, slots, k) == Last(History(s, slots, k))
Favoured(s, slots, at, x) ==
  {k \in Matches(s, slots, at, x) : Latest(s, slots, k) = Profile(s).freq[x]}

Lone(set) == Cardinality(set) = 1
Only(set) == IF Lone(set) THEN set ELSE {}

\* The rules in the order in which they are tried, each the slots that may
\* get a seat by it, from those that match the seat and those it favours.
Rules(match, favour, adaptive) ==
  LET onlyFavoured == [x \in Seats |-> IF favour[x] # {} THEN Only(match[x])
                                       ELSE {}]
      onlyMatch == [x \in Seats |-> Only(match[x])]
      oneFavoured == [x \in Seats |-> Only(favour[x])]
  IN IF adaptive
     THEN <<onlyFavoured, onlyMatch, oneFavoured, favour, match>>
     ELSE <<oneFavoured, favour, onlyMatch, match>>

\* The first rule that applies to a free seat, and the lowest such seat.
Granted(match, rules, free) ==
  LET able == {r \in DOMAIN rules : \E x \in free : rules[r][x] # {}}
      rule == Min(able)
      seat == Min({x \in free : rules[rule][x] # {}})
  IN IF able = {} THEN {}
     ELSE {[seat |-> seat, takers |-> rules[rule][seat], losers |-> match[seat]]}
Grants(s, slots, state) ==
  LET match == [x \in Seats |-> Matches(s, slots, state.at, x)]
      favour == [x \in Seats |-> Favoured(s, slots, state.at, x)]
  IN UNION {Granted(m[1], Rules(m[1], m[2], s.tuning.adaptive), state.free) :
            m \in {<<match, favour>>}}

\* What a grant makes of a state if slot k takes the seat.  The slots that
\* lost a seat they matched are remembered.
After(state, grant, k) ==
  [at |-> [state.at EXCEPT ![k] = grant.seat], free |-> state.free \ {grant.seat},
   lost |-> state.lost \cup (grant.losers \ {k})]

\* Luck settles who of several gets a seat.
Takers(grant, lucky) == IF lucky THEN {Min(grant.takers)} ELSE grant.takers
Successors(s, slots, lucky, state) ==
  UNION {{After(state, g, k) : k \in Takers(g, lucky)} : g \in Grants(s, slots, state)}

\* Seats are granted until no rule applies.
BestMatches(s, slots, start, lucky) ==
  LET Step[state \in [at : [DOMAIN slots -> 0 .. N], free : SUBSET Seats,
                      lost : SUBSET DOMAIN slots]] ==
        LET next == Successors(s, slots, lucky, state)
        IN IF next = {} THEN {state} ELSE UNION {Step[t] : t \in next}
  IN Step[[at |-> start, free |-> SeatsOn(s) \ Range(start), lost |-> {}]]

\* A mutated form: everybody else gets the first free seat.
FilledAlike(at, free, ks, lucky) ==
  {[k \in DOMAIN at |-> IF k \in ks /\ free # {} THEN Min(free) ELSE at[k]]}

\* As many of the slots ks as there are free seats get one, first come first
\* served; the seats are shuffled unless the luck is fixed.
Filled(at, free, ks, lucky) ==
  LET n == Min({Cardinality(ks), Cardinality(free)})
      draws == IF lucky THEN {[k \in 1 .. n |-> Nth(free, k)]}
               ELSE {d \in [1 .. n -> free] : IsInjective(d)}
  IN {[k \in DOMAIN at |-> IF k \in ks /\ UpTo(ks, k) <= n THEN d[UpTo(ks, k)]
                           ELSE at[k]] : d \in draws}

\* The slots `set` that have a pilot and no seat yet.
Unplaced(slots, at, set) == {k \in set : at[k] = None /\ slots[k].pilot # None}

Seatings(s, slots, pre, lucky) ==
  LET start == [k \in DOMAIN slots |-> IF k \in DOMAIN pre THEN pre[k] ELSE None]
      Free(at) == SeatsOn(s) \ Range(at)
      Lost(st) == Filled(st.at, st.free, Unplaced(slots, st.at, st.lost), lucky)
      Rest(at) == Filled(at, Free(at), Unplaced(slots, at, DOMAIN slots), lucky)
  IN UNION {UNION {Rest(at) : at \in Lost(st)} :
            st \in BestMatches(s, slots, start, lucky)}

AutoFrequency(s, h, pre, lucky) ==
  LET slots == s.heats[h].slots
  IN IF ~s.heats[h].auto THEN {s}
     ELSE {[s EXCEPT !.heats[h].slots =
              [k \in DOMAIN slots |-> [slots[k] EXCEPT !.seat = at[k]]]] :
           at \in Seatings(s, slots, pre, lucky)}

-----------------------------------------------------------------------------
(* calc_heat                                                               *)

\* A mutated form: races do not keep a heat from being seeded again.
LockedIfConfirmed(s, h) == s.heats[h].confirmed
Locked(s, h) == s.heats[h].confirmed \/ RacesOf(s, h) # {}

\* Nothing of the heat is left to chance or to results.
Plain(s, h) ==
  /\ ~s.heats[h].auto
  /\ \A k \in DOMAIN s.heats[h].slots :
       LET slot == s.heats[h].slots[k]
       IN slot.method \in {"heat", "class"} => slot.seed = None

Verdict(s, h) ==
  IF h \notin DOMAIN s.heats THEN "no-heat"
  ELSE IF Locked(s, h) \/ Plain(s, h) THEN "safe" ELSE "unsafe"

CalcHeat(s, h, pre, lucky) ==
  IF h \notin DOMAIN s.heats \/ Locked(s, h) THEN {s}
  ELSE UNION {AutoFrequency(t, h, pre, lucky) : t \in {Seeded(s, h)}}

-----------------------------------------------------------------------------
(* apply: the heats of a plan                                              *)

\* Ranks of the input become slots seeded from its results, or, without an
\* input class that is ranked, pilots drawn from a shuffled pool.
PlannedSlot(s, place, seat, input, first, drawn) ==
  LET slot == Slot(seat, None, "none") IN
  IF place.from # Input
  THEN [slot EXCEPT !.method = "heat", !.seed = first + place.from,
                    !.rank = place.rank]
  ELSE IF input # None /\ s.classes[input].format # None
  THEN [slot EXCEPT !.method = "class", !.seed = input, !.rank = place.rank]
  ELSE [slot EXCEPT !.method = IF drawn = None THEN "none" ELSE "assign",
                    !.pilot = drawn, !.rank = place.rank]

\* The places of the plan before place k of heat h that drew from the pool.
DrawnBefore(plan, h, k) ==
  Cardinality({x \in UNION {{g} \X DOMAIN plan[g] : g \in 1 .. h} :
                 /\ x[1] < h \/ x[2] < k
                 /\ x[2] <= N
                 /\ plan[x[1]][x[2]].from = Input})

PlannedHeat(s, plan, h, input, output, first, pool) ==
  LET Drawn(k) == LET n == DrawnBefore(plan, h, k) + 1
                  IN IF n <= Len(pool) THEN pool[n] ELSE None
  IN NewHeat(output, TRUE,
       [k \in Seats |->
          IF k \in DOMAIN plan[h]
          THEN PlannedSlot(s, plan[h][k], k, input, first, Drawn(k))
          ELSE Slot(k, None, "none")])

\* A plan with more places in a heat than there are seats loses the rest.
\* The heats of the plan, in order, get the numbers that are free.
Apply(s, plan, input, output, pool) ==
  LET class == IF output = None THEN NewId(s.classes) ELSE output
      t == IF output = None THEN AddClass(s) ELSE s
      first == NewId(t.heats) - 1
      taken == {t.heats[h].label : h \in {x \in HeatsOf(t, class) :
                                            t.classes[class].grouped
                                              => t.heats[x].group = 0}}
      free == ById((1 .. Cardinality(taken) + Len(plan)) \ taken)
      Row(h) == [PlannedHeat(t, plan, h, input, class, first, pool) EXCEPT
                   !.label = free[h]]
  IN [t EXCEPT !.heats = [x \in DOMAIN @ \cup {first + h : h \in DOMAIN plan} |->
                            IF x \in DOMAIN @ THEN @[x] ELSE Row(x - first)]]

\* Who is in the pool when pilots are drawn: all of them, or those on the
\* results of an input class without a format.
Pool(s, input) ==
  IF input = None THEN s.pilots ELSE {x.pilot : x \in Range(ClassBoard(s, input))}

TotalPilots(s, input) ==
  IF input # None /\ ClassRaces(s, input) # {}
  THEN Len(ClassBoard(s, input)) ELSE Cardinality(s.pilots)
=============================================================================
