----------------------------- MODULE MCWindows -----------------------------
(***************************************************************************)
(* Instances of Windows for TLC: what may happen.                          *)
(***************************************************************************)
EXTENDS Windows

Two == {1, 2}
Peaks == {{"peaks", "crash", "rollup fails"}, {"peaks", "stop"}}
Tiers == {{"tiers", "older"}, {"tiers", "retune"}, {"tiers", "crash", "tier fails", "row fails"},
          {"tiers", "stop", "drain times out", "close", "tier fails"}}
All == Peaks \cup Tiers \cup {{"retune", "new bins", "row fails"}}
=============================================================================
