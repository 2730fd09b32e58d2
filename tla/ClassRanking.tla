---------------------------- MODULE ClassRanking ---------------------------
(***************************************************************************)
(* The ranking of a class, from which later heats are seeded: its results, *)
(* or what one of the bundled ranking methods makes of its races.  Each    *)
(* method yields the pilots in their order; tied positions are not shown.  *)
(***************************************************************************)
EXTENDS EventTables

Pilots(board) == [k \in DOMAIN board |-> board[k].pilot]

\* All races of a class, heat by heat.
RacesInOrder(s, c) ==
  FoldLeft(LAMBDA seq, h : seq \o ById(RacesOf(s, h)), <<>>, ById(HeatsOf(s, c)))

\* Appends those pilots that the sequence does not have yet.
WithNew(seq, more) ==
  seq \o SelectSeq(more, LAMBDA p : p \notin Range(seq))

\* Last heat position: who flew in a later heat is ahead.
LastHeatPosition(s, c) ==
  FoldLeft(LAMBDA seq, h : WithNew(seq, Pilots(HeatBoard(s, h))), <<>>,
           Reverse(ById(HeatsOf(s, c))))

\* The pilots in the order in which the methods meet them, which settles
\* ties; then sorted by their keys, tuples of which the smaller comes first.
Met(s, c) ==
  FoldLeft(LAMBDA seq, r : WithNew(seq, Finishers(s, r)), <<>>, RacesInOrder(s, c))
Smaller(k, m) == \E i \in DOMAIN k : k[i] < m[i] /\ \A j \in 1 .. i - 1 : k[j] = m[j]
StableOrder(seq, key) ==
  LET place(p) == CHOOSE k \in DOMAIN seq : seq[k] = p
  IN SortSeq(seq, LAMBDA p, q : \/ Smaller(key[p], key[q])
                                \/ key[p] = key[q] /\ place(p) < place(q))

PlacesOf(s, c, p) ==
  LET all == Placings(s, UNION {RacesOf(s, h) : h \in HeatsOf(s, c)})
  IN {x \in all : x.pilot = p}

\* The list of points a format awards unless another one is set.
PositionPoints == <<10, 6, 3, 1>>
PointsFor(s, x) ==
  IF /\ s.races[x.race].format \in DOMAIN s.formats
     /\ s.formats[s.races[x.race].format]
     /\ x.place \in DOMAIN PositionPoints
  THEN PositionPoints[x.place] ELSE 0
Points(s, c, p) == MapThenSumSet(LAMBDA x : PointsFor(s, x), PlacesOf(s, c, p))
CumulativePoints(s, c) ==
  StableOrder(Met(s, c), [p \in s.pilots |-> <<-Points(s, c, p)>>])

\* The n races of a pilot in which he finished best: more of them are better,
\* then better places in them.
Best(s, c, n, p) ==
  LET own == InOrder(PlacesOf(s, c, p), LAMBDA x, y :
               \/ x.place < y.place
               \/ x.place = y.place /\ x.race < y.race)
      best == SubSeq(own, 1, Min({n, Len(own)}))
  IN <<-Len(best), FoldLeft(LAMBDA sum, x : sum + x.place, 0, best)>>
BestRounds(s, c, n) ==
  StableOrder(Met(s, c), [p \in s.pilots |-> Best(s, c, n, p)])

\* Without the number of rounds the best-rounds method gives no ranking, and
\* the results do not take its place.
Ranking(s, c) ==
  LET class == s.classes[c]
  IN CASE ClassRaces(s, c) = {} -> <<>>
       [] class.ranking = "results" -> Pilots(ClassBoard(s, c))
       [] class.ranking = "lastHeat" -> LastHeatPosition(s, c)
       [] class.ranking = "points" -> CumulativePoints(s, c)
       [] class.ranking = "best" /\ class.rankRounds > 0 ->
            BestRounds(s, c, class.rankRounds)
       [] OTHER -> <<>>
=============================================================================
