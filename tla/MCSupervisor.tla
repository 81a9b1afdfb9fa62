---------------------------- MODULE MCSupervisor ----------------------------
(***************************************************************************)
(* Instances of Supervisor for TLC.                                        *)
(***************************************************************************)
EXTENDS Supervisor

CONSTANTS c1, c2, r1, r2

TwoCallers == {c1, c2}
TwoRecoveries == {r1, r2}
\* Everything, with replays asked for when nothing else is under way.
Everything ==
  {"toggle", "replay", "crash", "stall", "wedge", "start_fails", "boot_fails", "close_fails",
   "give_up_exit"}
=============================================================================
