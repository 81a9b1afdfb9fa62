---------------------------- MODULE MCSchedules ----------------------------
(***************************************************************************)
(* Instances of Schedules for TLC.                                         *)
(***************************************************************************)
EXTENDS Schedules

\* A repeating schedule counted by its runs, and a window that overlaps it.
Counted == [start |-> 1, duration |-> 1, every |-> 2, count |-> 2, until |-> 0]
Window == [start |-> 1, duration |-> 2, every |-> 0, count |-> 0, until |-> 0]
TwoSchedules == <<Counted, Window>>

OneAtATime ==
  {{"stop", "refuse"}, {"die", "saves_lag"}, {"delete", "retune"}, {"write_error", "stop"}, {"disk_lags"}, {"save_fails"}}
=============================================================================
