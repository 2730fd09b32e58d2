----------------------------- MODULE HeatPlans -----------------------------
(***************************************************************************)
(* The plans the bundled heat generators make: sequences of heats, each a  *)
(* sequence of places.  A place is filled from rank .rank of the input     *)
(* (.from = Input) or of heat .from of the same plan.  Heats are numbered  *)
(* from 1 where the code counts from 0.                                    *)
(***************************************************************************)
EXTENDS Integers, Sequences

Input == 0
Place(h, r) == [from |-> h, rank |-> r]

\* What generate() takes for a failure: no heats.
NoPlan == <<>>

Heat(ranks, heats) == [k \in DOMAIN ranks |-> Place(heats[k], ranks[k])]
Seeds(a, b, c, d) == Heat(<<a, b, c, d>>, <<Input, Input, Input, Input>>)
\* A mutated form: who came second stays behind for who came third.
TopAndThird(g, h) == Heat(<<3, 1, 1, 2>>, <<g, g, h, h>>)
TopTwo(g, h) == Heat(<<2, 1, 1, 2>>, <<g, g, h, h>>)
LastTwo(g, h) == Heat(<<4, 3, 3, 4>>, <<g, g, h, h>>)

-----------------------------------------------------------------------------
(* The regulation brackets, four pilots to a heat.                         *)

SingleElimination16 == <<
  Seeds(1, 8, 9, 16), Seeds(4, 5, 12, 13), Seeds(3, 6, 10, 14),
  Seeds(2, 7, 11, 15), TopTwo(1, 2), TopTwo(3, 4), LastTwo(5, 6),
  TopTwo(5, 6) >>

SingleElimination32 == <<
  Seeds(1, 16, 24, 32), Seeds(8, 9, 17, 25), Seeds(6, 11, 19, 27),
  Seeds(4, 13, 21, 29), Seeds(3, 14, 22, 30), Seeds(5, 12, 20, 28),
  Seeds(7, 10, 18, 26), Seeds(2, 15, 23, 31), TopTwo(1, 2), TopTwo(3, 4),
  TopTwo(5, 6), TopTwo(7, 8), TopTwo(9, 10), TopTwo(11, 12), LastTwo(13, 14),
  TopTwo(13, 14) >>

Fai64Seeds == <<
  Seeds(1, 32, 48, 64), Seeds(16, 17, 33, 49), Seeds(8, 25, 41, 57),
  Seeds(14, 19, 35, 51), Seeds(4, 29, 45, 61), Seeds(12, 21, 37, 53),
  Seeds(6, 27, 43, 59), Seeds(10, 23, 39, 55), Seeds(9, 24, 40, 56),
  Seeds(5, 28, 44, 60), Seeds(11, 22, 38, 54), Seeds(3, 30, 46, 62),
  Seeds(13, 20, 36, 52), Seeds(7, 26, 42, 58), Seeds(15, 18, 34, 50),
  Seeds(2, 31, 47, 63) >>

Single64Finals == <<
  TopTwo(1, 2), TopTwo(3, 4), TopTwo(5, 6), TopTwo(7, 8), TopTwo(9, 10),
  TopTwo(11, 12), TopTwo(13, 14), TopTwo(15, 16), TopTwo(17, 18),
  TopTwo(19, 20), TopTwo(21, 22), TopTwo(23, 24), TopTwo(25, 26),
  TopTwo(27, 28), LastTwo(29, 30), TopTwo(29, 30) >>

DoubleElimination16 == <<
  Seeds(1, 8, 9, 16), Seeds(4, 5, 12, 13), Seeds(3, 6, 10, 14),
  Seeds(2, 7, 11, 15), Heat(<<4, 3, 3, 4>>, <<1, 2, 3, 4>>),
  Heat(<<4, 3, 3, 4>>, <<2, 1, 4, 3>>), TopTwo(1, 2), TopTwo(3, 4),
  Heat(<<4, 2, 1, 3>>, <<8, 6, 5, 7>>), Heat(<<4, 2, 1, 3>>, <<7, 5, 6, 8>>),
  TopTwo(9, 10), TopTwo(7, 8), Heat(<<4, 2, 1, 3>>, <<12, 11, 11, 12>>),
  Heat(<<2, 2, 1, 1>>, <<13, 12, 12, 13>>) >>

Double32Opening == <<
  Seeds(1, 16, 24, 32), Seeds(8, 9, 17, 25), Seeds(6, 11, 19, 27),
  Seeds(4, 13, 21, 29), Seeds(3, 14, 22, 30), Seeds(5, 12, 20, 28),
  Seeds(7, 10, 18, 26), Seeds(2, 15, 23, 31), TopTwo(1, 2), TopTwo(3, 4),
  TopTwo(5, 6), TopTwo(7, 8), Heat(<<4, 3, 3, 4>>, <<1, 2, 3, 4>>),
  Heat(<<4, 3, 3, 4>>, <<5, 6, 7, 8>>), Heat(<<4, 3, 3, 4>>, <<2, 1, 4, 3>>),
  Heat(<<4, 3, 3, 4>>, <<6, 5, 8, 7>>) >>

Double32Finals == <<
  Heat(<<3, 2, 1, 4>>, <<9, 15, 16, 10>>),
  Heat(<<3, 2, 1, 4>>, <<11, 13, 14, 12>>),
  Heat(<<3, 2, 1, 4>>, <<10, 16, 15, 9>>),
  Heat(<<3, 2, 1, 4>>, <<12, 14, 13, 11>>),
  Heat(<<2, 1, 1, 2>>, <<19, 17, 18, 20>>),
  Heat(<<2, 1, 1, 2>>, <<17, 19, 20, 18>>), TopTwo(9, 10), TopTwo(11, 12),
  Heat(<<3, 1, 2, 4>>, <<23, 21, 22, 24>>),
  Heat(<<3, 1, 2, 4>>, <<24, 22, 21, 23>>), TopTwo(25, 26), TopTwo(23, 24),
  Heat(<<3, 1, 2, 4>>, <<28, 27, 27, 28>>),
  Heat(<<2, 2, 1, 1>>, <<29, 28, 28, 29>>) >>

Double64Seeds == Fai64Seeds

Double64Second == <<
  TopTwo(1, 2), TopTwo(3, 4), TopTwo(5, 6), TopTwo(7, 8), TopTwo(9, 10),
  TopTwo(11, 12), TopTwo(13, 14), TopTwo(15, 16),
  Heat(<<4, 3, 3, 4>>, <<1, 2, 3, 4>>), Heat(<<4, 3, 3, 4>>, <<5, 6, 7, 8>>),
  Heat(<<4, 3, 3, 4>>, <<2, 1, 4, 3>>), Heat(<<4, 3, 3, 4>>, <<6, 5, 8, 7>>),
  Heat(<<4, 3, 3, 4>>, <<9, 10, 11, 12>>),
  Heat(<<4, 3, 3, 4>>, <<13, 14, 15, 16>>),
  Heat(<<4, 3, 3, 4>>, <<10, 9, 12, 11>>),
  Heat(<<4, 3, 3, 4>>, <<14, 13, 16, 15>>) >>

Double64Third == <<
  Heat(<<3, 2, 1, 4>>, <<17, 31, 32, 18>>),
  Heat(<<3, 2, 1, 4>>, <<19, 29, 30, 20>>),
  Heat(<<3, 2, 1, 4>>, <<18, 32, 31, 17>>),
  Heat(<<3, 2, 1, 4>>, <<20, 30, 29, 19>>),
  Heat(<<3, 2, 1, 4>>, <<21, 26, 25, 22>>),
  Heat(<<3, 2, 1, 4>>, <<23, 28, 27, 24>>),
  Heat(<<3, 2, 1, 4>>, <<22, 25, 26, 21>>),
  Heat(<<3, 2, 1, 4>>, <<24, 27, 28, 23>>),
  Heat(<<2, 1, 1, 2>>, <<35, 33, 34, 36>>),
  Heat(<<2, 1, 1, 2>>, <<33, 35, 36, 34>>),
  Heat(<<2, 1, 1, 2>>, <<39, 37, 38, 40>>),
  Heat(<<2, 1, 1, 2>>, <<37, 39, 40, 38>>), TopTwo(17, 18), TopTwo(19, 20),
  TopTwo(21, 22), TopTwo(23, 24) >>

Double64Finals == <<
  Heat(<<3, 2, 1, 4>>, <<45, 43, 44, 46>>),
  Heat(<<3, 2, 1, 4>>, <<47, 41, 42, 48>>),
  Heat(<<3, 2, 1, 4>>, <<46, 44, 43, 45>>),
  Heat(<<3, 2, 1, 4>>, <<48, 42, 41, 47>>),
  Heat(<<2, 1, 1, 2>>, <<51, 49, 50, 52>>),
  Heat(<<2, 1, 1, 2>>, <<49, 51, 52, 50>>), TopTwo(45, 46), TopTwo(47, 48),
  Heat(<<3, 1, 2, 4>>, <<55, 53, 54, 56>>),
  Heat(<<3, 1, 2, 4>>, <<56, 54, 53, 55>>), TopTwo(57, 58), TopTwo(55, 56),
  Heat(<<3, 2, 1, 4>>, <<60, 59, 59, 60>>),
  Heat(<<2, 2, 1, 1>>, <<61, 60, 60, 61>>) >>

MultiGP16 == <<
  Seeds(3, 6, 11, 14), Seeds(2, 7, 10, 15), Seeds(4, 5, 12, 13),
  Seeds(1, 8, 9, 16), Heat(<<3, 4, 3, 4>>, <<1, 1, 2, 2>>),
  Heat(<<1, 2, 1, 2>>, <<1, 1, 2, 2>>), Heat(<<3, 4, 3, 4>>, <<3, 3, 4, 4>>),
  Heat(<<1, 2, 1, 2>>, <<3, 3, 4, 4>>), Heat(<<1, 2, 3, 4>>, <<5, 5, 6, 6>>),
  Heat(<<1, 2, 3, 4>>, <<7, 7, 8, 8>>), Heat(<<1, 2, 1, 2>>, <<6, 6, 8, 8>>),
  Heat(<<1, 2, 1, 2>>, <<9, 9, 10, 10>>),
  Heat(<<1, 2, 3, 4>>, <<12, 12, 11, 11>>),
  Heat(<<1, 2, 1, 2>>, <<11, 11, 13, 13>>) >>

SingleElimination64 == Fai64Seeds \o Single64Finals
DoubleElimination32 == Double32Opening \o Double32Finals
DoubleElimination64 ==
  Double64Seeds \o Double64Second \o Double64Third \o Double64Finals

\* max(seed_offset - 1, 0) is added to the ranks of the input.
Shifted(plan, offset) ==
  [h \in DOMAIN plan |-> [k \in DOMAIN plan[h] |->
     IF plan[h][k].from = Input THEN Place(Input, plan[h][k].rank + offset)
                                ELSE plan[h][k]]]

\* The MultiGP bracket is returned before the offset is looked at.
Single(standard, offset) ==
  Shifted(CASE standard = "fai16" -> SingleElimination16
            [] standard = "fai32" -> SingleElimination32
            [] standard = "fai64" -> SingleElimination64
            [] OTHER -> NoPlan, offset)
Double(standard, offset) ==
  IF standard = "multigp16" THEN MultiGP16
  ELSE Shifted(CASE standard = "fai16" -> DoubleElimination16
                 [] standard = "fai32" -> DoubleElimination32
                 [] standard = "fai64" -> DoubleElimination64
                 [] OTHER -> NoPlan, offset)

-----------------------------------------------------------------------------
(* Ladders and fills.                                                      *)

\* The names of ladder heats run from A to Z; a 27th heat raises.
Letters == 26

\* [q, a]: qualifiers and advances per heat, as given by a client, 0 where it
\* gives none.  A ranked fill is a ladder that is told to advance nobody; only for
\* it a number of qualifiers below 1 gets past the check (and raises later).
Quota(kind, given, seats) ==
  IF kind = "fill" THEN [q |-> IF given.q > 0 THEN given.q ELSE seats, a |-> 0]
  ELSE CASE given.q > 0 /\ given.a > 0 -> given
         [] given.a > 0 -> [q |-> seats - given.a, a |-> given.a]
         [] given.q > 0 -> [q |-> given.q, a |-> seats - given.q]
         [] OTHER -> [q |-> seats - 1, a |-> 1]

\* The heats are drawn up from the top one down: each takes q pilots of the
\* input and leaves room for the a best of the heat below; the lowest one
\* takes a remainder of up to a pilots as well.
Rungs(q, a, pilots) ==
  IF pilots <= q + a THEN 1 ELSE (pilots - a + q - 1) \div q
Rung(q, a, pilots, offset, rungs, h) ==
  LET above == rungs - h
      last  == IF h = 1 THEN pilots ELSE (above + 1) * q
      own   == [k \in 1 .. last - above * q |->
                  Place(Input, offset + above * q + k)]
      risen == [k \in 1 .. (IF h = 1 THEN 0 ELSE a) |-> Place(h - 1, k)]
  IN own \o risen
Ladder(kind, given, seats, pilots, offset) ==
  LET q == Quota(kind, given, seats).q
      a == Quota(kind, given, seats).a
      rungs == Rungs(q, a, pilots)
  IN IF q < 1 \/ (a < 1 /\ kind = "ladder") \/ pilots = 0 \/ rungs > Letters
     THEN NoPlan
     ELSE [h \in 1 .. rungs |-> Rung(q, a, pilots, offset, rungs, h)]

\* Balanced random fill: the ranks, shuffled into `order`, are dealt to the
\* heats in turn.
Balanced(q, order, offset) ==
  LET n == Len(order)
      heats == (n + q - 1) \div q
  IN [h \in 1 .. heats |->
        [k \in 1 .. (n - h) \div heats + 1 |->
           Place(Input, offset + order[h + (k - 1) * heats])]]
=============================================================================
