------------------------------ MODULE MCBursts ------------------------------
(***************************************************************************)
(* Instances of Isolation for TLC: what may happen.                        *)
(***************************************************************************)
EXTENDS Isolation

\* Offline replays that end in every way, and live captures.
Replays == {{"lossless", "shutdown", "fault"}, {"lossless", "thread_dies"}, {"lossless", "reconfigure"}}
Captures == {{"shutdown", "slow"}, {"shutdown", "reconfigure", "halt"}}
Both == Replays \cup Captures
OnePower == {1}
=============================================================================
