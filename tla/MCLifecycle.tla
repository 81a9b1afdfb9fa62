---------------------------- MODULE MCLifecycle ----------------------------
(***************************************************************************)
(* Instance of Lifecycle for TLC: everything configured; a headless        *)
(* standby; a sensor whose supervisor may give up.                         *)
(***************************************************************************)
EXTENDS Lifecycle

All == {{"web", "rfdb", "zms", "active", "watchdog"}, {}, {"web", "active", "give_up"}}
=============================================================================
