--------------------------- MODULE MCEventData ---------------------------
(***************************************************************************)
(* Small events for TLC.  They are made with the operations of the program *)
(* from an empty event, so each is one a race director could have entered. *)
(***************************************************************************)
EXTENDS EventData

Empty(n) ==
  [pilots |-> 1 .. n, used |-> [p \in 1 .. n |-> <<>>], formats |-> <<FALSE>>,
   classes |-> <<>>, heats |-> <<>>, races |-> <<>>, option |-> None,
   tuning |-> [profiles |-> <<[freq |-> [x \in Seats |-> x],
                               level |-> [x \in Seats |-> 1]]>>,
               profile |-> 1, adaptive |-> FALSE,
               nodes |-> [x \in Seats |-> [freq |-> x, level |-> 1]]],
   race |-> [flown |-> FALSE, heat |-> None, pilots |-> NobodyUp, format |-> 1]]

Class(s, d) == LET id == NewId(s.classes) IN AlterClass(AddClass(s), id, d)

\* A heat of class c whose slots have these pilots; each slot has its seat.
Crew(s, c, crew) ==
  LET id == NewId(s.heats)
      t == AddHeat(s, c, 0, FALSE, "assign")
  IN FoldLeft(LAMBDA u, k : AlterHeat(u, id, [slot |-> k, pilot |-> crew[k]]),
              AlterHeat(t, id, [auto |-> FALSE]), [k \in DOMAIN crew |-> k])

Auto(s, h) == AlterHeat(s, h, [auto |-> TRUE])

\* Slot k of heat h is filled from a rank of heat g.
FromHeat(s, h, k, g, rank) ==
  AlterHeat(AlterHeat(s, h, [slot |-> k, method |-> "heat"]), h,
            [slot |-> k, seedHeat |-> g, rank |-> rank])

Current(s, h) == Finalized(s, h)

Adaptive(s) == [s EXCEPT !.tuning.adaptive = TRUE]

\* Heat h is flown and saved, its pilots finishing by their slots.
Flown(s, h) ==
  LET finish == SelectSeq([k \in DOMAIN s.heats[h].slots |->
                             s.heats[h].slots[k].seat],
                          LAMBDA x : Holder(s.heats[h], x) # None)
  IN [s EXCEPT !.races = Append(@, SavedRace(s, h, finish)),
               !.used = FlownOn(s, h)]

Edited(event, requests, n) ==
  [event |-> event, requests |-> requests \cup {"restage"}, edits |-> n, lucky |-> FALSE,
   order |-> <<>>, knockout |-> 0]

-----------------------------------------------------------------------------
(* Two seats: heats of a class and heats without one, edited in every way. *)

Pair == Crew(Crew(Class(Empty(3), [format |-> 1]), 1, <<1, 2>>), 1, <<3, 1>>)
Open == Crew(Crew(Crew(Empty(2), None, <<1, 2>>), None, <<2>>), None, <<1>>)
Run(s) == Flown(Current(s, 1), 1)

\* The second heat gets a pilot from a rank of the first.
Seeding(rank) == FromHeat(Auto(Run(Pair), 2), 2, 1, 1, rank)

\* Another profile, which has no level for seat 2 yet.
TwoProfiles(s) ==
  [s EXCEPT !.tuning.profiles = Added(@, 2, [@[1] EXCEPT !.level[2] = Unset])]

\* Two heats are flown; a pilot of each meets one of the other in a third.
Third == Crew(Flown(Current(Run(Pair), 2), 2), 1, <<1, 3>>)

EventScenarios ==
  {Edited(Run(Pair), {"alterSlot", "alterHeat", "pilots", "revert", "calc",
                      "confirm", "confirmHeat"}, 2),
   Edited(Run(Run(Pair)), {"classes", "reassign", "addHeat", "activate"}, 3),
   Edited(Run(Pair), {"classes", "reassign", "deleteHeat", "discard"}, 3),
   Edited(Seeding(2), {"setHeat", "confirm", "calc", "revert", "activate",
                       "pilots", "restart", "discard"}, 2),
   Edited(Seeding(2), {"setHeat", "confirm", "calc", "alterHeat",
                       "confirmHeat"}, 2),
   Edited(Seeding(3), {"calc", "alterHeat", "reassign"}, 3),
   Edited(Open, {"generate", "confirm", "setHeat", "reset", "formats"}, 2),
   Edited(Adaptive(Third), {"marshal", "setHeat", "alterSlot", "reassign"}, 2),
   Edited(Adaptive(TwoProfiles(Run(Pair))),
          {"profiles", "marshal", "setHeat", "restart"}, 2)}

\* Heats are deleted until one is left.
DeletingScenarios == {Edited(Open, {"deleteHeat"}, 2)}

-----------------------------------------------------------------------------
(* Four seats: brackets behind a qualifying class.                         *)

\* The n pilots have each flown a qualifying race; the last one is on.
Qualifying(n) ==
  LET m == n \div 4
      pilot(h, k) == h + (k - 1) * m
      t == [Class(Adaptive(Empty(n)), [format |-> 1, rounds |-> 1]) EXCEPT
              !.heats = [h \in 1 .. m |->
                [NewHeat(1, FALSE, [k \in Seats |-> Slot(k, pilot(h, k), "assign")])
                   EXCEPT !.label = h]],
              !.races = [h \in 1 .. m - 1 |->
                [heat |-> h, class |-> 1, round |-> 1, format |-> 1,
                 seats |-> [k \in Seats |-> pilot(h, k)],
                 tuned |-> Empty(0).tuning.nodes, finish |-> <<1, 2, 3, 4>>]],
              !.used = [p \in 1 .. n |-> IF p % m = 0 THEN <<>>
                                         ELSE <<(p - 1) \div m + 1>>]]
  IN [Current(t, m) EXCEPT !.race.flown = TRUE]

Raced(event, lucky, order, knockout) ==
  [event |-> event, requests |-> {"confirm"}, edits |-> 0, lucky |-> lucky,
   order |-> order, knockout |-> knockout]

\* The heats of a plan follow class 1, from the results of which they are
\* seeded; each is raced once.
Behind(s, plan) == AlterClass(Apply(s, plan, 1, None, <<>>), 2, [rounds |-> 1])

\* Orders of n pilots by strength.
Strengths(n, factors) == {[k \in 1 .. n |-> (m * k) % (n + 1)] : m \in factors}

Brackets(n, plan, knockout, factors) ==
  {Raced(Behind(Qualifying(n), plan), TRUE, order, knockout) :
     order \in Strengths(n, factors)}

AllBrackets ==
  UNION {Brackets(b[1], b[2], b[3], b[4]) : b \in
           {<<16, Single("fai16", 0), 1, {1, 5, 11, 16}>>,
            <<16, Double("fai16", 0), 2, {1, 3, 7, 16}>>,
            <<16, Double("multigp16", 0), 2, {1, 3, 10, 16}>>,
            <<32, Single("fai32", 0), 1, {1, 7}>>, <<32, Double("fai32", 0), 2, {1, 5}>>,
            <<64, Single("fai64", 0), 1, {1, 7}>>, <<64, Double("fai64", 0), 2, {1, 7}>>}}

-----------------------------------------------------------------------------
(* Four seats: small classes whose races may end in any order.             *)

\* Two heats of a class with these settings; the first is the current one.
Small(settings) ==
  LET s == Crew(Crew(Class(Empty(4), [format |-> 1]), 1, <<1, 2>>), 1, <<3, 4>>)
  IN Current(AlterClass(s, 1, settings), 1)

Settings ==
  [rounds : {2, 3}, advance : {"heat", "round"}, grouped : BOOLEAN]

\* What a class of two heats is followed by, seeded from its results.
Followers ==
  {Ladder("ladder", [q |-> 0, a |-> 0], 2, 4, 0),
   Ladder("ladder", [q |-> 2, a |-> 1], 3, 4, 0),
   Ladder("fill", [q |-> 3, a |-> 0], 4, 4, 0),
   Balanced(2, <<3, 1, 4, 2>>, 0)}

\* Three pilots fly each against each; the class is ranked by a method.
Ranked(settings) ==
  LET c == Crew(Class(Empty(3), [format |-> 1, rounds |-> 1]), 1, <<1, 2>>)
      s == [Crew(Crew(c, 1, <<3, 1>>), 1, <<2, 3>>) EXCEPT !.formats = <<TRUE>>]
  IN Current(AlterClass(s, 1, settings), 1)

Rankings ==
  {[ranking |-> "lastHeat"], [ranking |-> "points"],
   [ranking |-> "best", rankRounds |-> 1]}

SmallEvents ==
  {Raced(Adaptive(Small(d)), FALSE, <<>>, 0) : d \in Settings}
    \cup {Raced(s, FALSE, <<>>, 0) :
            s \in UNION {{t, Adaptive(t)} :
                   t \in {Behind(Small([rounds |-> 1]), plan) : plan \in Followers}}}
    \cup {Raced(Behind(Ranked(d), Ladder("ladder", [q |-> 0, a |-> 0], 2, 3, 0)),
                FALSE, <<>>, 0) : d \in Rankings}

RoundsScenarios == AllBrackets \cup SmallEvents
=============================================================================
