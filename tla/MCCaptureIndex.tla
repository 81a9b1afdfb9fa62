--------------------------- MODULE MCCaptureIndex ---------------------------
(***************************************************************************)
(* Instances of CaptureIndex for TLC.                                      *)
(***************************************************************************)
EXTENDS CaptureIndex

BothOrigins == {"auto", "manual"}
=============================================================================
