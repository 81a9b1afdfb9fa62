------------------------------- MODULE Ledger -------------------------------
(***************************************************************************)
(* What a hand-over promises: an item that was taken is held until it is   *)
(* settled, it is settled once, and its verdict never changes.  Nothing is *)
(* forgotten: once the holder has closed, no item is held any more.        *)
(***************************************************************************)
CONSTANTS Items, Verdicts

VARIABLES
  book,   \* "new", "held", or the verdict of each item
  closed  \* the holder takes nothing more and has let everything go

ledger == <<book, closed>>

States == {"new", "held"} \cup Verdicts

Init == book = [i \in Items |-> "new"] /\ closed = FALSE

\* Some new items are taken, or are settled in the same breath.
Take(S) ==
  /\ S # {} /\ \A i \in S : book[i] = "new"
  /\ \E v \in Verdicts \cup {"held"} :
       book' = [i \in Items |-> IF i \in S THEN v ELSE book[i]]
  /\ closed => \A i \in S : book'[i] # "held"
  /\ UNCHANGED closed

\* Some held items get their verdicts, together or one at a time.
Settle(S) ==
  /\ S # {} /\ \A i \in S : book[i] = "held"
  /\ \E v \in Verdicts :
       book' = [i \in Items |-> IF i \in S THEN v ELSE book[i]]
  /\ UNCHANGED closed

Close ==
  /\ ~closed /\ \A i \in Items : book[i] # "held"
  /\ closed' = TRUE /\ UNCHANGED book

Next ==
  \/ \E S \in SUBSET Items : Take(S) \/ Settle(S)
  \/ Close

Spec == Init /\ [][Next]_ledger
=============================================================================
