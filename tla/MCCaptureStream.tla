-------------------------- MODULE MCCaptureStream --------------------------
(***************************************************************************)
(* Instances of CaptureStream for TLC: what may happen.                    *)
(***************************************************************************)
EXTENDS CaptureStream

One == {1}
Live == {{"trigger", "gaps", "queue full"}, {"manual", "gaps"}, {"manual", "reconfigure", "gaps"}}
Grids == {{"manual", "rows full"}, {"trigger", "fault"}, {"trigger", "slow"}}
Replay == {{"lossless", "manual"}}
All == Live \cup Grids \cup Replay

\* A capture's file holds the stream from its first to its last sample, the losses
\* named, and its span says so to the sample (CaptureStream).
FileIsTheStream == TypeOK /\ FileAccountsForStream /\ SpanIsExact

\* Its PSD rows cover the capture, none of them skipped (CaptureStream).
RowsAreTheCapture == RowsCoverCapture /\ NothingSkipped
=============================================================================
