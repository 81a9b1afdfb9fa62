----------------------------- MODULE MCRecorder -----------------------------
(***************************************************************************)
(* Instances of Recorder for TLC: which stops and faults may happen.       *)
(***************************************************************************)
EXTENDS Recorder

CONSTANT w1

\* The receiver ends captures by itself; writers fail, fill the disk and hang.
Automatic ==
  {"max_duration", "trigger_end", "write_error", "disk_floor", "writer_stall", "checks"}

\* Captures are started and stopped by hand, the trigger fires in between,
\* and the process shuts down.
ByHand == {"manual_start", "manual_stop", "writer_stall", "shutdown"}

\* The process shuts down while captures end by themselves or cannot be saved, and
\* does not wait for a finalize job that takes too long.
AtTheEnd ==
  {"max_duration", "trigger_end", "writer_stall", "save_fails", "shutdown", "join_timeout"}

Each == {Automatic, ByHand, AtTheEnd}
=============================================================================
