---------------------------- MODULE RaceLifecycle ----------------------------
(***************************************************************************)
(* What the race control promises its users, without greenlets, threads,   *)
(* tokens or timers: a race goes from READY through STAGING and RACING to  *)
(* DONE; laps are recorded only for a race that runs or has just ended; a  *)
(* race is archived with exactly the laps it has; staging never throws     *)
(* laps away.  Where the code lets other greenlets in between a check and  *)
(* what it allows, a step may come late: two constants say which of them   *)
(* may, and RaceSequence implements this with each true only for the wait  *)
(* that causes it.                                                         *)
(***************************************************************************)
EXTENDS Naturals, Sequences

CONSTANTS
  LateControl,  \* races may be staged and started on a look at the status that is old
  LateSave      \* races may be saved on such a look

VARIABLES
  status,   \* READY, STAGING, RACING or DONE
  laps,     \* time stamps of the laps of the race
  archive   \* the races saved so far

lifecycle == <<status, laps, archive>>

Init == status = "READY" /\ laps = {} /\ archive = <<>>

Move(from, to) ==
  /\ status \in from
  /\ status' = to
  /\ UNCHANGED <<laps, archive>>

\* A race is staged from READY, where there are no laps to lose.
Stage == laps = {} /\ Move({"READY"}, "STAGING")

Start == Move({"STAGING"}, "RACING")

Abort == Move({"STAGING"}, "READY")

\* Stopping a race that is not there also ends in DONE.
Finish == Move({"RACING", "READY"}, "DONE")

Record ==
  /\ status \in {"RACING", "DONE"}
  /\ \E ts \in laps' : laps' = laps \cup {ts}
  /\ UNCHANGED <<status, archive>>

\* The laps of that moment are archived.
ArchiveLaps ==
  /\ Len(archive') = Len(archive) + 1
  /\ archive' = Append(archive, archive'[Len(archive) + 1])
  /\ archive'[Len(archive) + 1].laps = laps
  /\ UNCHANGED <<status, laps>>

\* Only a race that was started is archived.
Archive == status \in {"RACING", "DONE"} /\ ArchiveLaps

Clear == status' = "READY" /\ laps' = {} /\ UNCHANGED archive

-----------------------------------------------------------------------------
(* Late steps.                                                             *)

\* Staging clears the race that it finds, whatever became of it meanwhile.
LateStage == LateControl /\ status' = "STAGING" /\ laps' = {} /\ UNCHANGED archive

\* A race starts that was stopped, with the laps it has.
LateStart == LateControl /\ Move({"READY", "DONE"}, "RACING")

\* A race is saved that was cleared, or that starts late.
LateArchive ==
  /\ LateControl \/ LateSave
  /\ status \in {"READY", "STAGING"} /\ laps = {}
  /\ ArchiveLaps

-----------------------------------------------------------------------------

Next ==
  \/ Stage \/ Start \/ Abort \/ Finish \/ Record \/ Archive \/ Clear
  \/ LateStage \/ LateStart \/ LateArchive

Spec == Init /\ [][Next]_lifecycle
=============================================================================
