----------------------------- MODULE MCRaceLaps -----------------------------
(* Small instances of RaceLaps for TLC.                                    *)
EXTENDS RaceLaps

Format(mode, cond, limited, grace) ==
  [mode |-> mode, win |-> cond, start |-> "first_lap", limited |-> limited, time |-> 2,
   grace |-> grace, laps |-> 2, minLap |-> 0, minFirst |-> 0, behavior |-> 0]

Progress == Format("individual", "progress", TRUE, None)
Coop == Format("coop", "laps", TRUE, 1)
\* Keeps the highest of the peaks that are close.
ByPeak == [Format("individual", "first_to_x", FALSE, None) EXCEPT !.minLap = 2, !.behavior = 2]
Fast == Format("individual", "fastest", TRUE, 1)
HoleShot == [Format("individual", "laps", TRUE, None) EXCEPT !.start = "holeshot"]
Teams == Format("team", "progress", TRUE, None)
AllFormats ==
  {Progress, Format("individual", "overtime", TRUE, 1), Coop, ByPeak, Fast, HoleShot, Teams}
\* Passes of a pilot wait in the queue together.
OnlyProgress == {Progress}
Alone == 0 :> "A" @@ 1 :> "B"
=============================================================================
