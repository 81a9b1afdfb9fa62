--------------------------- MODULE MCGuardedWrites ---------------------------
(***************************************************************************)
(* Instances of GuardedWrites for TLC: how stalled statements may end.     *)
(***************************************************************************)
EXTENDS GuardedWrites

CONSTANTS w1, w2

Two == {w1, w2}
AnyStall == {"never", "late", "any"}
NoReopen == {"reopen_fails"}

\* Every call ends, even when the device never answers again, and an abandoned
\* connection gives back the write lock (GuardedWrites).
NothingIsHeldForEver == EveryCallEnds /\ LockIsReleased
=============================================================================
