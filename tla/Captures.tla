------------------------------ MODULE Captures ------------------------------
(***************************************************************************)
(* What the recorder promises, whatever threads it uses: captures are      *)
(* taken one after another.  A capture opens only when no earlier one is   *)
(* open or closing, it is closed once, and a closed capture is eventually  *)
(* saved with its metadata or found lost, never both and never again.      *)
(* Recorder implements this module.                                        *)
(***************************************************************************)
EXTENDS Naturals

CONSTANT MaxCaptures

VARIABLE phase

Captured == 1..MaxCaptures

Init == phase = [c \in Captured |-> "none"]

Open(c) ==
  /\ phase[c] = "none"
  /\ \A d \in 1..(c - 1) : phase[d] \in {"saved", "lost"}
  /\ phase' = [phase EXCEPT ![c] = "open"]

Close(c) == phase[c] = "open" /\ phase' = [phase EXCEPT ![c] = "closing"]

Save(c) == phase[c] = "closing" /\ phase' = [phase EXCEPT ![c] = "saved"]

Lose(c) == phase[c] = "closing" /\ phase' = [phase EXCEPT ![c] = "lost"]

Next == \E c \in Captured : Open(c) \/ Close(c) \/ Save(c) \/ Lose(c)

Safety == Init /\ [][Next]_phase

Spec == Safety /\ \A c \in Captured : WF_phase(Save(c) \/ Lose(c))

=============================================================================
