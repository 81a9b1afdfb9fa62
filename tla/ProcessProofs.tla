---------------------------- MODULE ProcessProofs ----------------------------
(***************************************************************************)
(* Of the process.  The disk-space governor, for every set of levels,      *)
(* volumes, settings and clear routes: the types, the ladder's safety      *)
(* properties, and the persistence of the sticky flag.  run(), for any     *)
(* settings and any number of signals: the order of its shutdown keeps     *)
(* every database open while somebody uses it, and leaves none open when   *)
(* run() ends.                                                             *)
(***************************************************************************)
EXTENDS Governor, Lifecycle, TLAPS

-----------------------------------------------------------------------------
(* The governor: the inductive invariants.                                 *)

\* One starved check puts the ladder at 2, the next at 3; the recovery counter
\* never runs ahead of the calm checks.
LadderInv ==
  /\ step = 0 => roomy
  /\ starved >= 1 => step >= 2
  /\ starved >= 2 => step >= 3
  /\ good <= calm

\* Only a writer holds values, and it writes the first row before the second.
WriterInv ==
  /\ LockHeldByWriter
  /\ \A p \in Persisters : ~Writing(p) => taken[p] = NoRow
  /\ \A p \in Persisters : pc[p] = "putErr" => disk.since = taken[p].since

\* A process that is not up writes nothing and serves no call, and one that is
\* down has nothing to write.
ModeInv ==
  /\ mode # "up" => lock = NoOne /\ \A r \in Routes : clearAt[r] = 0 /\ pc[r] = "idle"
  /\ mode = "down" => ~dirty

\* When nothing is marked dirty, what is on disk, or about to be, is what memory
\* holds: every change of memory marks it dirty, every failed write does again.
CleanInv ==
  mode = "up" /\ ~dirty =>
    \/ lock = NoOne /\ (unread \/ disk = [since |-> since, err |-> err])
    \/ lock # NoOne /\ taken[lock] = [since |-> since, err |-> err]

\* A process that has not read the rows and has nothing to write has no clear
\* under way: the first one marks the flag dirty.
UnreadInv ==
  mode = "up" /\ unread /\ ~dirty /\ lock = NoOne => \A r \in Routes : pc[r] = "idle"

\* A flag raised before event n is nowhere to be seen.
Since(t, n) == t = 0 \/ t > n

\* Memory, the values under way and the table hold no flag older than a
\* confirmed clear; memory, and what a route took, none older than its clear.
ClearInv ==
  /\ acked <= clock
  /\ \A r \in Routes : clearAt[r] <= clock
  /\ Since(since, acked)
  /\ Since(disk.since, acked)
  /\ \A p \in Persisters : Since(taken[p].since, acked)
  /\ \A r \in Routes : Since(since, clearAt[r]) /\ Since(taken[r].since, clearAt[r])

PersistInv == WriterInv /\ ModeInv /\ CleanInv /\ UnreadInv /\ ClearInv

-----------------------------------------------------------------------------
(* The ladder's arithmetic.                                                *)

\* A floor is a natural number, so the margin lies at or above it.
LEMMA FloorIsNat ==
  ASSUME NEW minFree \in MinFreeSettings, NEW total \in Totals
  PROVE  ResolveFloor(minFree, total) \in Nat
BY GovernorAssumption DEF ResolveFloor, LargerOf

\* A step is one of the ladder's five.
LEMMA RawStepRange ==
  ASSUME NEW s \in Sample, NEW minFree \in MinFreeSettings, NEW current \in 0..4
  PROVE  RawStep(s, minFree, current) \in 0..4
BY DEF RawStep, VolumeStep, LargerOf

\* The step asked for is the larger of the two volumes' steps.
LEMMA RawStepIsLargest ==
  ASSUME NEW s \in Sample, NEW minFree \in MinFreeSettings, NEW current \in 0..4
  PROVE  LET floor == ResolveFloor(minFree, s.total)
             data == VolumeStep(s.free, floor, Evictable(s, floor), current)
             db == VolumeStep(s.dbFree, ResolveFloor(minFree, s.dbTotal), FALSE, current)
         IN /\ data \in 0..4 /\ db \in 0..4
            /\ RawStep(s, minFree, current) \in {data, db}
            /\ RawStep(s, minFree, current) >= data
            /\ HasDbVolume => RawStep(s, minFree, current) >= db
<1> DEFINE floor == ResolveFloor(minFree, s.total)
           data == VolumeStep(s.free, floor, Evictable(s, floor), current)
           db == VolumeStep(s.dbFree, ResolveFloor(minFree, s.dbTotal), FALSE, current)
<1>1. data \in 0..4 /\ db \in 0..4
  BY DEF VolumeStep
<1>2. RawStep(s, minFree, current) = IF HasDbVolume THEN LargerOf(data, db) ELSE data
  BY DEF RawStep
<1> HIDE DEF data, db
<1>3. /\ RawStep(s, minFree, current) \in {data, db}
      /\ RawStep(s, minFree, current) >= data
      /\ HasDbVolume => RawStep(s, minFree, current) >= db
  BY <1>1, <1>2, GovernorAssumption DEF LargerOf
<1> QED
  BY <1>1, <1>3 DEF data, db

\* A starved volume asks for step 2 at once and for step 3 from there.
LEMMA StarvingClimbs ==
  ASSUME NEW s \in Sample, NEW minFree \in MinFreeSettings, NEW current \in 0..4,
         Starving(s, minFree)
  PROVE  /\ RawStep(s, minFree, current) >= 2
         /\ current >= 2 => RawStep(s, minFree, current) >= 3
<1> DEFINE floor == ResolveFloor(minFree, s.total)
           dbFloor == ResolveFloor(minFree, s.dbTotal)
           data == VolumeStep(s.free, floor, Evictable(s, floor), current)
           db == VolumeStep(s.dbFree, dbFloor, FALSE, current)
<1>1. s.free \in Nat /\ s.dbFree \in Nat /\ floor \in Nat /\ dbFloor \in Nat
  BY GovernorAssumption, FloorIsNat DEF Sample
<1>2. ASSUME NEW free \in Nat, NEW volumeFloor \in Nat, NEW evictable \in BOOLEAN,
             free < volumeFloor, ~evictable
      PROVE  /\ VolumeStep(free, volumeFloor, evictable, current) \in 2..4
             /\ current >= 2 => VolumeStep(free, volumeFloor, evictable, current) >= 3
  BY <1>2 DEF VolumeStep
<1>3. Evictable(s, floor) \in BOOLEAN
  BY DEF Evictable, Sample
<1>4. RawStep(s, minFree, current) \in 0..4
  BY RawStepRange
<1>5. /\ RawStep(s, minFree, current) >= data /\ data \in 0..4
      /\ HasDbVolume => RawStep(s, minFree, current) >= db /\ db \in 0..4
  BY RawStepIsLargest
<1>6. CASE Short(s.free, floor) /\ ~Evictable(s, floor)
  <2>1. data \in 2..4 /\ (current >= 2 => data >= 3)
    BY <1>1, <1>2, <1>3, <1>6 DEF Short
  <2> QED
    BY <1>4, <1>5, <2>1
<1>7. CASE HasDbVolume /\ Short(s.dbFree, dbFloor)
  <2>1. db \in 2..4 /\ (current >= 2 => db >= 3)
    BY <1>1, <1>2, <1>7 DEF Short
  <2> HIDE DEF data, db
  <2> QED
    BY <1>4, <1>5, <1>7, <2>1
<1> QED
  BY <1>6, <1>7 DEF Starving

\* No volume asks for a step only when both are at their floors.
LEMMA ZeroIsRoomy ==
  ASSUME NEW s \in Sample, NEW minFree \in MinFreeSettings, NEW current \in 0..4,
         RawStep(s, minFree, current) = 0
  PROVE  Roomy(s, minFree)
<1>1. /\ s.free \in Nat /\ s.dbFree \in Nat
      /\ ResolveFloor(minFree, s.total) \in Nat
      /\ ResolveFloor(minFree, s.dbTotal) \in Nat
  BY GovernorAssumption, FloorIsNat DEF Sample
<1>2. ASSUME NEW free \in Nat, NEW floor \in Nat, NEW evictable \in BOOLEAN,
             VolumeStep(free, floor, evictable, current) = 0
      PROVE  free >= floor
  BY <1>2 DEF VolumeStep
<1>3. Evictable(s, ResolveFloor(minFree, s.total)) \in BOOLEAN
  BY DEF Evictable, Sample
<1> DEFINE floor == ResolveFloor(minFree, s.total)
           data == VolumeStep(s.free, floor, Evictable(s, floor), current)
           db == VolumeStep(s.dbFree, ResolveFloor(minFree, s.dbTotal), FALSE, current)
<1>4. data = 0 /\ (HasDbVolume => db = 0)
  <2>1. /\ data \in 0..4 /\ db \in 0..4
        /\ RawStep(s, minFree, current) >= data
        /\ HasDbVolume => RawStep(s, minFree, current) >= db
    BY RawStepIsLargest
  <2> HIDE DEF data, db
  <2> QED
    BY <2>1
<1>5. s.free >= floor
  BY <1>1, <1>2, <1>3, <1>4
<1>6. HasDbVolume => s.dbFree >= ResolveFloor(minFree, s.dbTotal)
  BY <1>1, <1>2, <1>4
<1> QED
  BY <1>1, <1>5, <1>6 DEF Roomy, Short

\* With every volume at its margin no step is asked for.
LEMMA RecoveredIsZero ==
  ASSUME NEW s \in Sample, NEW minFree \in MinFreeSettings, NEW current \in 0..4,
         Recovered(s, minFree)
  PROVE  RawStep(s, minFree, current) = 0
<1>1. /\ s.free \in Nat /\ s.dbFree \in Nat
      /\ ResolveFloor(minFree, s.total) \in Nat
      /\ ResolveFloor(minFree, s.dbTotal) \in Nat
  BY GovernorAssumption, FloorIsNat DEF Sample
<1>2. ASSUME NEW free \in Nat, NEW floor \in Nat, NEW evictable, AtMargin(free, floor)
      PROVE  VolumeStep(free, floor, evictable, current) = 0
  BY <1>2 DEF VolumeStep, AtMargin
<1>3. /\ VolumeStep(s.free, ResolveFloor(minFree, s.total),
                     Evictable(s, ResolveFloor(minFree, s.total)), current) = 0
      /\ HasDbVolume =>
           VolumeStep(s.dbFree, ResolveFloor(minFree, s.dbTotal), FALSE, current) = 0
  BY <1>1, <1>2 DEF Recovered
<1> QED
  BY <1>3, GovernorAssumption DEF RawStep, LargerOf

-----------------------------------------------------------------------------
(* Types.                                                                  *)

\* A value a failed write may have left keeps the table a pair of rows.
LEMMA MaybeWrittenIsRow ==
  ASSUME TypeOK, NEW p \in Persisters, MaybeWritten(p)
  PROVE  disk' \in Row
BY DEF TypeOK, MaybeWritten, Row

\* Initially every variable has its type.
LEMMA InitTypes == Init => TypeOK
<1> SUFFICES ASSUME Init PROVE TypeOK
  OBVIOUS
<1>1. disk \in Row /\ taken \in [Persisters -> Row] /\ clearAt \in [Routes -> Nat]
  BY DEF Init, Row, NoRow
<1>2. /\ step \in 0..4 /\ good \in 0..(RecoveryTicks - 1)
      /\ calm \in 0..RecoveryTicks /\ starved \in 0..RecoveryTicks
  BY DEF Init, RecoveryTicks
<1>3. dirty \in BOOLEAN /\ roomy \in BOOLEAN /\ unread \in BOOLEAN
  BY DEF Init
<1>4. pc \in [Persisters -> {"idle", "act", "persist", "putSince", "putErr"}]
  BY DEF Init
<1>5. /\ mode \in {"up", "stopping", "down"} /\ lock \in Persisters \cup {NoOne}
      /\ since \in Nat /\ err \in Nat /\ clock \in Nat /\ acked \in Nat
  BY DEF Init
<1> QED
  BY <1>1, <1>2, <1>3, <1>4, <1>5 DEF TypeOK

\* Every step keeps the types.
LEMMA NextTypes == TypeOK /\ [Next]_vars => TypeOK'
<1> SUFFICES ASSUME TypeOK, [Next]_vars
             PROVE  TypeOK'
  OBVIOUS
<1> USE DEF TypeOK
<1>1. ASSUME NEW s \in Sample, NEW m \in MinFreeSettings, Tick(s, m)
      PROVE  TypeOK'
  <2>1. RawStep(s, m, step) \in 0..4
    BY RawStepRange
  <2>2. step' \in 0..4 /\ good' \in 0..(RecoveryTicks - 1)
    BY <1>1, <2>1 DEF Tick, Climb, RecoveryTicks
  <2>3. clock' \in Nat /\ since' \in Nat
    BY <1>1 DEF Tick, RaiseOnRefusal
  <2>6. dirty' \in BOOLEAN
    BY <1>1, Zenon DEF Tick, RaiseOnRefusal
  <2>4. /\ calm' \in 0..RecoveryTicks /\ starved' \in 0..RecoveryTicks
        /\ roomy' \in BOOLEAN
    BY <1>1 DEF Tick, Bump, RecoveryTicks, Roomy
  <2>5. pc' \in [Persisters -> {"idle", "act", "persist", "putSince", "putErr"}]
    BY <1>1 DEF Tick
  <2> QED
    BY <1>1, <2>2, <2>3, <2>4, <2>5, <2>6 DEF Tick, acks
<1>2. CASE Act
  BY <1>2 DEF Act, ladder, flag, acks
<1>3. CASE ReportWriteError
  BY <1>3 DEF ReportWriteError, ladder, persist, acks
<1>4. ASSUME NEW r \in Routes, ClearDegraded(r)
      PROVE  TypeOK'
  BY <1>4 DEF ClearDegraded, ladder
<1>5. ASSUME NEW p \in Persisters, TakeChange(p)
      PROVE  TypeOK'
  <2>1. clearAt' \in [Routes -> Nat] /\ acked' \in Nat
    BY <1>5 DEF TakeChange, Return, Confirm, LargerOf, acks
  <2>2. taken' \in [Persisters -> Row] /\ lock' \in Persisters \cup {NoOne}
    BY <1>5 DEF TakeChange, Return, Row, NoRow
  <2> QED
    BY <1>5, <2>1, <2>2 DEF TakeChange, Return, ladder
<1>6. ASSUME NEW p \in Persisters, PutSince(p)
      PROVE  TypeOK'
  BY <1>6 DEF PutSince, ladder, flag, acks, Row
<1>7. ASSUME NEW p \in Persisters, PutErr(p)
      PROVE  TypeOK'
  <2>1. clearAt' \in [Routes -> Nat] /\ acked' \in Nat
    BY <1>7 DEF PutErr, Return, Confirm, LargerOf
  <2>2. taken' \in [Persisters -> Row] /\ disk' \in Row
    BY <1>7 DEF PutErr, Return, Row, NoRow
  <2> QED
    BY <1>7, <2>1, <2>2 DEF PutErr, Return, ladder, flag
<1>8. ASSUME NEW p \in Persisters, PutFails(p)
      PROVE  TypeOK'
  <2>1. disk' \in Row
    BY <1>8, MaybeWrittenIsRow DEF PutFails
  <2>2. taken' \in [Persisters -> Row] /\ clearAt' \in [Routes -> Nat]
    BY <1>8 DEF PutFails, Return, Row, NoRow
  <2> QED
    BY <1>8, <2>1, <2>2 DEF PutFails, Return, ladder
<1>9. CASE BeginStop
  <2>1. disk' \in Row /\ dirty' \in BOOLEAN
    BY <1>9, MaybeWrittenIsRow DEF BeginStop
  <2>2. /\ taken' \in [Persisters -> Row] /\ clearAt' \in [Routes -> Nat]
        /\ pc' \in [Persisters -> {"idle"}] /\ lock' = NoOne
    BY <1>9 DEF BeginStop, TasksGone, Row, NoRow
  <2> QED
    BY <1>9, <2>1, <2>2 DEF BeginStop, ladder
<1>10. ASSUME Gone
       PROVE  TypeOK'
  <2>1. /\ taken' \in [Persisters -> Row] /\ clearAt' \in [Routes -> Nat]
        /\ pc' \in [Persisters -> {"idle"}] /\ lock' = NoOne
    BY <1>10 DEF Gone, TasksGone, Row, NoRow
  <2>2. /\ step' \in 0..4 /\ good' \in 0..(RecoveryTicks - 1)
        /\ calm' \in 0..RecoveryTicks /\ starved' \in 0..RecoveryTicks
        /\ since' \in Nat /\ err' \in Nat
    BY <1>10 DEF Gone, RecoveryTicks
  <2>3. dirty' \in BOOLEAN /\ roomy' \in BOOLEAN /\ unread' \in BOOLEAN
    BY <1>10 DEF Gone
  <2> QED
    BY <1>10, <2>1, <2>2, <2>3 DEF Gone
<1>11. CASE Restart
  BY <1>11 DEF Restart, RestoreDegraded, ladder, persist, acks, Row
<1>12. CASE UNCHANGED vars
  BY <1>12 DEF vars, ladder, flag, persist, acks
<1> QED
  BY <1>1, <1>2, <1>3, <1>4, <1>5, <1>6, <1>7, <1>8, <1>9, <1>10, <1>11, <1>12
     DEF Next, FinishStop, Crash

\* Whatever the samples and however the process stops, crashes and restarts, the
\* governor's variables and rows have their types.
THEOREM TypeCorrect == Spec => []TypeOK
BY InitTypes, NextTypes, PTL DEF Spec

-----------------------------------------------------------------------------
(* The ladder.                                                             *)

\* What a check does to the ladder's variables, which nothing else changes while
\* the process is up.
LEMMA LadderUnchanged ==
  ASSUME [Next]_vars, mode' # "down",
         ~ \E s \in Sample, m \in MinFreeSettings : Tick(s, m)
  PROVE  UNCHANGED ladder
BY DEF Next, Act, ReportWriteError, ClearDegraded, TakeChange, PutSince, PutErr, PutFails,
       BeginStop, FinishStop, Crash, Gone, Restart, vars

\* The step moves to the one asked for or stays; it goes down only from two good
\* checks to a third, and then to 0.
LEMMA TickClimbs ==
  ASSUME TypeOK, NEW s \in Sample, NEW m \in MinFreeSettings, Tick(s, m)
  PROVE  /\ step' = RawStep(s, m, step) \/ (step' = step /\ RawStep(s, m, step) <= step)
         /\ step' >= RawStep(s, m, step)
         /\ step' < step => good = 2 /\ Recovered(s, m) /\ step' = 0
         /\ IF Recovered(s, m) THEN good' <= good + 1 ELSE good' = 0
<1>1. RawStep(s, m, step) \in 0..4
  BY RawStepRange DEF TypeOK
<1>2. Recovered(s, m) => RawStep(s, m, step) = 0
  BY RecoveredIsZero DEF TypeOK
<1>3. Climb(RawStep(s, m, step), Recovered(s, m))
  BY DEF Tick
<1>4. step \in 0..4 /\ good \in 0..2
  BY DEF TypeOK, RecoveryTicks
<1> QED
  BY <1>1, <1>2, <1>3, <1>4 DEF Climb, RecoveryTicks

\* Every step keeps the ladder's invariant.
LEMMA NextLadder == TypeOK /\ LadderInv /\ [Next]_vars => LadderInv'
<1> SUFFICES ASSUME TypeOK, LadderInv, [Next]_vars
             PROVE  LadderInv'
  OBVIOUS
<1>1. ASSUME NEW s \in Sample, NEW m \in MinFreeSettings, Tick(s, m)
      PROVE  LadderInv'
  <2> DEFINE raw == RawStep(s, m, step)
  <2>1. raw \in 0..4 /\ step \in 0..4 /\ step' \in 0..4
    BY RawStepRange, NextTypes DEF TypeOK
  <2>2. /\ step' = raw \/ (step' = step /\ raw <= step)
        /\ step' >= raw
        /\ IF Recovered(s, m) THEN good' <= good + 1 ELSE good' = 0
    BY <1>1, TickClimbs
  <2>3. Starving(s, m) => raw >= 2 /\ (step >= 2 => raw >= 3)
    BY <2>1, StarvingClimbs
  <2>4. raw = 0 => Roomy(s, m)
    BY <2>1, ZeroIsRoomy
  <2>5. /\ starved' = Bump(starved, Starving(s, m))
        /\ calm' = Bump(calm, Recovered(s, m))
        /\ roomy' = Roomy(s, m)
    BY <1>1 DEF Tick
  <2> HIDE DEF raw
  <2>6. step' = 0 => roomy'
    BY <2>1, <2>2, <2>4, <2>5
  <2>7. (starved' >= 1 => step' >= 2) /\ (starved' >= 2 => step' >= 3)
    BY <2>1, <2>2, <2>3, <2>5 DEF LadderInv, Bump, TypeOK, RecoveryTicks
  <2>8. good' <= calm'
    <3>1. good \in 0..2 /\ calm \in 0..3 /\ good' \in 0..2
      BY NextTypes DEF TypeOK, RecoveryTicks
    <3> QED
      BY <2>2, <2>5, <3>1 DEF LadderInv, Bump, RecoveryTicks
  <2> QED
    BY <2>6, <2>7, <2>8 DEF LadderInv
<1>2. CASE mode' = "down" /\ Gone
  BY <1>2 DEF Gone, LadderInv
<1>3. CASE UNCHANGED ladder
  BY <1>3 DEF ladder, LadderInv
<1>4. mode' = "down" => Gone \/ UNCHANGED ladder
  BY DEF Next, Tick, Act, ReportWriteError, ClearDegraded, TakeChange, PutSince, PutErr,
         PutFails, BeginStop, FinishStop, Crash, Restart, vars
<1> QED
  BY <1>1, <1>2, <1>3, <1>4, LadderUnchanged

\* The ladder's invariant holds throughout.
THEOREM LadderHolds == Spec => [](TypeOK /\ LadderInv)
<1>1. Init => LadderInv
  BY DEF Init, LadderInv
<1> QED
  BY <1>1, InitTypes, NextTypes, NextLadder, PTL DEF Spec

\* A volume short with nothing to evict on two checks in a row refuses recordings,
\* for every floor, level and volume size.
THEOREM StarvedIsRefused == Spec => []RefusedWhenStarved
<1>1. LadderInv => RefusedWhenStarved
  BY DEF LadderInv, RefusedWhenStarved
<1> QED
  BY <1>1, LadderHolds, PTL

\* Step 0 is never published over a shortage.
THEOREM HealthyIsRoomy == Spec => []HealthyHasRoom
<1>1. LadderInv => HealthyHasRoom
  BY DEF LadderInv, HealthyHasRoom
<1> QED
  BY <1>1, LadderHolds, PTL

\* The ladder is left only after three checks in a row with every volume at its
\* margin, and then all the way.
THEOREM CalmBeforeLeaving == Spec => LeaveOnlyAfterCalm
<1>1. TypeOK /\ LadderInv /\ [Next]_vars
        => [step' < step /\ mode' = "up" => step' = 0 /\ calm' >= RecoveryTicks]_vars
  <2> SUFFICES ASSUME TypeOK, LadderInv, [Next]_vars, step' < step, mode' = "up"
               PROVE  step' = 0 /\ calm' >= RecoveryTicks
    OBVIOUS
  <2>1. PICK s \in Sample, m \in MinFreeSettings : Tick(s, m)
    <3>1. step' # step
      BY DEF TypeOK
    <3> QED
      BY <3>1, LadderUnchanged DEF ladder
  <2>2. step' = 0 /\ good = 2 /\ Recovered(s, m)
    BY <2>1, TickClimbs
  <2>3. calm' = Bump(calm, TRUE)
    BY <2>1, <2>2 DEF Tick, Bump
  <2> QED
    BY <2>2, <2>3 DEF LadderInv, TypeOK, Bump, RecoveryTicks
<1> QED
  BY <1>1, LadderHolds, PTL DEF Spec, LeaveOnlyAfterCalm

-----------------------------------------------------------------------------
(* The sticky flag and its rows.                                           *)

\* The persisters and the table are in order at the start.
LEMMA InitPersist == Init => PersistInv
BY GovernorAssumption
   DEF Init, PersistInv, WriterInv, ModeInv, CleanInv, UnreadInv, ClearInv, LockHeldByWriter,
       Writing, Since, Persisters, NoOne, Loop, NoRow

\* A check may raise the flag: then it is newer than every clear, and dirty.
LEMMA TickPersist ==
  ASSUME TypeOK, PersistInv, NEW s \in Sample, NEW m \in MinFreeSettings, Tick(s, m)
  PROVE  PersistInv'
<1> USE DEF TypeOK, PersistInv, Persisters, Loop
<1>1. WriterInv' /\ ModeInv'
  <2>1. dirty' # dirty => dirty'
    BY DEF Tick, RaiseOnRefusal
  <2> QED
    BY <2>1 DEF Tick, WriterInv, ModeInv, LockHeldByWriter, Writing
<1>2. \/ since' = since /\ dirty' = dirty /\ clock' = clock
      \/ since' = clock + 1 /\ clock' = clock + 1 /\ dirty' = TRUE
  BY DEF Tick, RaiseOnRefusal
<1>3. CleanInv'
  BY <1>2 DEF Tick, CleanInv
<1>4. ClearInv'
  BY <1>2 DEF Tick, ClearInv, Since, acks
<1>5. UnreadInv'
  BY <1>2, GovernorAssumption DEF Tick, UnreadInv
<1> QED
  BY <1>1, <1>3, <1>4, <1>5

\* A write error may raise the flag: then it is newer than every clear, and dirty.
LEMMA ReportPersist ==
  ASSUME TypeOK, PersistInv, ReportWriteError
  PROVE  PersistInv'
<1> USE DEF TypeOK, PersistInv
<1>1. WriterInv' /\ CleanInv'
  BY DEF ReportWriteError, persist, WriterInv, CleanInv, LockHeldByWriter, Writing
<1>3. ModeInv'
  BY DEF ReportWriteError, persist, acks, ModeInv
<1>2. ClearInv'
  BY DEF ReportWriteError, persist, acks, ClearInv, Since
<1>4. UnreadInv'
  BY DEF ReportWriteError, UnreadInv
<1> QED
  BY <1>1, <1>2, <1>3, <1>4

\* A clear leaves no flag in memory and is newer than every flag raised so far.
LEMMA ClearPersist ==
  ASSUME TypeOK, PersistInv, NEW r \in Routes, ClearDegraded(r)
  PROVE  PersistInv'
<1> USE DEF TypeOK, PersistInv, Persisters
<1>1. WriterInv' /\ ModeInv' /\ CleanInv' /\ UnreadInv'
  BY DEF ClearDegraded, WriterInv, ModeInv, CleanInv, UnreadInv, LockHeldByWriter, Writing
<1>2. taken[r] = NoRow
  BY DEF ClearDegraded, WriterInv, Writing
<1>3. ClearInv'
  BY <1>2 DEF ClearDegraded, ClearInv, Since, NoRow
<1> QED
  BY <1>1, <1>3

\* Under the lock a persister takes what memory holds, or finds it on disk.
LEMMA TakePersist ==
  ASSUME TypeOK, PersistInv, NEW p \in Persisters, TakeChange(p)
  PROVE  PersistInv'
<1> USE DEF TypeOK, PersistInv
<1>0. p # NoOne /\ lock = NoOne /\ mode = "up" /\ ~Writing(p)
  BY GovernorAssumption DEF TakeChange, Persisters, NoOne, Loop, Writing
<1>1. \A q \in Persisters : ~Writing(q) /\ taken[q] = NoRow
  BY <1>0, GovernorAssumption DEF WriterInv, LockHeldByWriter, Persisters, NoOne, Loop
<1>2. CASE dirty
  <2>1. /\ dirty' = FALSE /\ lock' = p
        /\ taken' = [taken EXCEPT ![p] = [since |-> since, err |-> err]]
        /\ pc' = [pc EXCEPT ![p] = "putSince"]
        /\ UNCHANGED <<mode, since, err, disk, clock, clearAt, acked, unread>>
    BY <1>2 DEF TakeChange, acks
  <2>2. WriterInv'
    BY <1>0, <1>1, <2>1 DEF WriterInv, LockHeldByWriter, Writing
  <2>3. ModeInv' /\ CleanInv' /\ UnreadInv'
    BY <1>0, <2>1 DEF ModeInv, CleanInv, UnreadInv
  <2>4. ClearInv'
    BY <2>1 DEF ClearInv, Since, Persisters
  <2> QED
    BY <2>2, <2>3, <2>4
<1>3. CASE ~dirty
  <2>1. /\ UNCHANGED <<mode, dirty, lock, since, err, disk, clock, unread>>
        /\ Return(p) /\ Confirm(p)
    BY <1>3 DEF TakeChange
  <2>2. taken' = taken /\ pc' = [pc EXCEPT ![p] = "idle"]
    BY <1>1, <2>1 DEF Return
  <2>3. WriterInv' /\ ModeInv' /\ CleanInv'
    BY <1>0, <1>1, <2>1, <2>2 DEF WriterInv, ModeInv, CleanInv, LockHeldByWriter, Writing
  <2>10. UnreadInv'
    BY <1>0, <1>3, <2>1, <2>2 DEF UnreadInv
  <2>5. acked' = acked \/ (p \in Routes /\ acked' = clearAt[p])
    BY <2>1 DEF Confirm, LargerOf
  <2>6. acked' <= clock /\ Since(since, acked')
    BY <2>5 DEF ClearInv
  <2>11. Since(disk.since, acked')
    <3>1. CASE acked' = acked
      BY <3>1 DEF ClearInv
    <3>2. CASE p \in Routes
      <4>1. ~unread
        BY <1>0, <1>3, <3>2 DEF UnreadInv, TakeChange
      <4>2. disk = [since |-> since, err |-> err]
        BY <1>0, <1>3, <4>1 DEF CleanInv
      <4> QED
        BY <2>6, <4>2
    <3> QED
      BY <2>5, <3>1, <3>2
  <2>7. \A q \in Persisters : taken[q].since = 0
    BY <1>1 DEF NoRow
  <2>8. clearAt' = [r \in Routes |-> IF r = p THEN 0 ELSE clearAt[r]]
    BY <2>1 DEF Return
  <2>9. \A r \in Routes : clearAt'[r] <= clock /\ Since(since, clearAt'[r])
    BY <2>8 DEF ClearInv, Since
  <2> QED
    BY <2>1, <2>2, <2>3, <2>6, <2>7, <2>9, <2>10, <2>11 DEF ClearInv, Since, Persisters
<1> QED
  BY <1>2, <1>3

\* The lock's holder is the persister that is writing, whoever asks.
LEMMA WriterHoldsLock ==
  ASSUME PersistInv, NEW p \in Persisters, Writing(p)
  PROVE  lock = p /\ p # NoOne /\ \A q \in Persisters : q # p => ~Writing(q) /\ taken[q] = NoRow
BY GovernorAssumption DEF PersistInv, WriterInv, LockHeldByWriter, Persisters, NoOne, Loop

\* The first row follows the values taken.
LEMMA PutSincePersist ==
  ASSUME TypeOK, PersistInv, NEW p \in Persisters, PutSince(p)
  PROVE  PersistInv'
<1> USE DEF TypeOK, PersistInv
<1>1. lock = p /\ \A q \in Persisters : q # p => ~Writing(q)
  BY WriterHoldsLock DEF PutSince, Writing
<1>2. disk' = [disk EXCEPT !.since = taken[p].since] /\ disk'.since = taken[p].since
  BY DEF PutSince, Row
<1>3. WriterInv'
  BY <1>1, <1>2 DEF PutSince, WriterInv, LockHeldByWriter, Writing
<1>4. ModeInv' /\ CleanInv' /\ UnreadInv'
  BY <1>1, <1>2, WriterHoldsLock DEF PutSince, ModeInv, CleanInv, UnreadInv, flag, Writing
<1>5. ClearInv'
  BY <1>2 DEF PutSince, ClearInv, Since, acks, flag, Persisters
<1> QED
  BY <1>3, <1>4, <1>5

\* With the second row the table holds what memory held, and the caller's clear is
\* on disk with it.
LEMMA PutErrPersist ==
  ASSUME TypeOK, PersistInv, NEW p \in Persisters, PutErr(p)
  PROVE  PersistInv'
<1> USE DEF TypeOK, PersistInv
<1>1. /\ lock = p /\ p # NoOne /\ Writing(p)
      /\ \A q \in Persisters : q # p => ~Writing(q) /\ taken[q] = NoRow
  BY WriterHoldsLock DEF PutErr, Writing
<1>2. disk.since = taken[p].since
  BY DEF PutErr, WriterInv
<1>3. disk' = [since |-> taken[p].since, err |-> taken[p].err]
  BY <1>2 DEF PutErr, Row
<1>4. /\ taken' = [taken EXCEPT ![p] = NoRow] /\ pc' = [pc EXCEPT ![p] = "idle"]
      /\ lock' = NoOne /\ unread' = FALSE /\ UNCHANGED <<mode, since, err, dirty, clock>>
      /\ clearAt' = [r \in Routes |-> IF r = p THEN 0 ELSE clearAt[r]]
      /\ Confirm(p)
  BY DEF PutErr, Return, flag
<1>5. WriterInv'
  BY <1>1, <1>4, GovernorAssumption
     DEF WriterInv, LockHeldByWriter, Writing, Persisters, NoOne, Loop
<1>6. ModeInv' /\ CleanInv' /\ UnreadInv'
  BY <1>1, <1>3, <1>4 DEF ModeInv, CleanInv, UnreadInv
<1>7. acked' = acked \/ (p \in Routes /\ acked' = clearAt[p])
  BY <1>4 DEF Confirm, LargerOf
<1>8. acked' <= clock /\ Since(since, acked') /\ Since(taken[p].since, acked')
  BY <1>7 DEF ClearInv
<1>9. \A q \in Persisters : taken'[q].since = 0
  BY <1>1, <1>4 DEF NoRow
<1>10. \A r \in Routes : clearAt'[r] <= clock /\ Since(since, clearAt'[r])
  BY <1>4 DEF ClearInv, Since
<1>11. ClearInv'
  BY <1>3, <1>4, <1>8, <1>9, <1>10 DEF ClearInv, Since, Persisters
<1> QED
  BY <1>5, <1>6, <1>11

\* Whether a failed write reached the disk or not, no flag older than a confirmed
\* clear is there.
LEMMA MaybeWrittenIsAfter ==
  ASSUME TypeOK, PersistInv, NEW p \in Persisters, MaybeWritten(p)
  PROVE  Since(disk'.since, acked)
<1>1. disk'.since \in {disk.since, taken[p].since}
  BY DEF MaybeWritten, TypeOK, Row
<1> QED
  BY <1>1 DEF PersistInv, ClearInv

\* A failed write leaves the change dirty.
LEMMA PutFailsPersist ==
  ASSUME TypeOK, PersistInv, NEW p \in Persisters, PutFails(p)
  PROVE  PersistInv'
<1> USE DEF TypeOK, PersistInv
<1>1. /\ lock = p /\ mode = "up"
      /\ \A q \in Persisters : q # p => ~Writing(q) /\ taken[q] = NoRow
  BY WriterHoldsLock DEF PutFails
<1>2. /\ taken' = [taken EXCEPT ![p] = NoRow] /\ pc' = [pc EXCEPT ![p] = "idle"]
      /\ lock' = NoOne /\ dirty' = TRUE /\ UNCHANGED <<mode, since, err, clock, acked>>
      /\ clearAt' = [r \in Routes |-> IF r = p THEN 0 ELSE clearAt[r]]
  BY DEF PutFails, Return
<1>3. WriterInv'
  BY <1>1, <1>2, GovernorAssumption
     DEF WriterInv, LockHeldByWriter, Writing, Persisters, NoOne, Loop
<1>4. ModeInv' /\ CleanInv' /\ UnreadInv'
  BY <1>1, <1>2 DEF ModeInv, CleanInv, UnreadInv
<1>5. Since(disk'.since, acked)
  BY MaybeWrittenIsAfter DEF PutFails
<1>6. \A q \in Persisters : taken'[q].since = 0
  BY <1>1, <1>2 DEF NoRow
<1>7. \A r \in Routes : clearAt'[r] <= clock /\ Since(since, clearAt'[r])
  BY <1>2 DEF ClearInv, Since
<1>8. ClearInv'
  BY <1>2, <1>5, <1>6, <1>7 DEF ClearInv, Since, Persisters
<1> QED
  BY <1>3, <1>4, <1>8

\* With its tasks gone the process has no writer and no call under way.
LEMMA TasksGonePersist ==
  ASSUME TypeOK, PersistInv, TasksGone, mode' # "up", mode' = "down" => ~dirty',
         UNCHANGED <<acked, clock>>, since' = since \/ since' = 0,
         Since(disk'.since, acked)
  PROVE  PersistInv'
<1>1. WriterInv'
  BY GovernorAssumption
     DEF TasksGone, WriterInv, LockHeldByWriter, Writing, Persisters, NoOne, Loop, NoRow
<1>2. ModeInv' /\ CleanInv' /\ UnreadInv'
  BY DEF TasksGone, ModeInv, CleanInv, UnreadInv, Persisters
<1>3. \A p \in Persisters : taken'[p].since = 0
  BY DEF TasksGone, NoRow
<1>4. \A r \in Routes : clearAt'[r] = 0
  BY DEF TasksGone
<1>5. ClearInv'
  BY <1>3, <1>4 DEF TypeOK, PersistInv, ClearInv, Since, Persisters
<1> QED
  BY <1>1, <1>2, <1>5 DEF PersistInv

\* Every step keeps the persistence invariant.
LEMMA NextPersist == TypeOK /\ PersistInv /\ [Next]_vars => PersistInv'
<1> SUFFICES ASSUME TypeOK, PersistInv, [Next]_vars
             PROVE  PersistInv'
  OBVIOUS
<1>1. CASE Act
  <2>1. /\ UNCHANGED <<mode, since, err, dirty, disk, lock, taken, clearAt, acked, clock, unread>>
        /\ pc[Loop] = "act" /\ pc' \in {[pc EXCEPT ![Loop] = n] : n \in {"persist", "idle"}}
    BY <1>1 DEF Act, flag, acks
  <2>2. WriterInv'
    BY <2>1 DEF PersistInv, TypeOK, WriterInv, LockHeldByWriter, Writing, Persisters
  <2>3. \A r \in Routes : pc'[r] = pc[r]
    BY <2>1, GovernorAssumption DEF TypeOK, Persisters, Loop
  <2> QED
    BY <2>1, <2>2, <2>3 DEF PersistInv, ModeInv, CleanInv, UnreadInv, ClearInv
<1>2. CASE BeginStop
  <2>1. Since(disk'.since, acked)
    <3>1. CASE lock = NoOne
      BY <1>2, <3>1 DEF BeginStop, PersistInv, ClearInv
    <3>2. CASE lock # NoOne
      BY <1>2, <3>2, MaybeWrittenIsAfter DEF BeginStop, TypeOK
    <3> QED
      BY <3>1, <3>2
  <2> QED
    BY <1>2, <2>1, TasksGonePersist DEF BeginStop
<1>3. CASE Gone
  BY <1>3, TasksGonePersist DEF Gone, PersistInv, ClearInv
<1>4. CASE Restart
  <2>1. /\ UNCHANGED <<dirty, disk, lock, pc, taken, clearAt, acked, clock>>
        /\ mode = "down" /\ mode' = "up"
        /\ \/ since' = disk.since /\ err' = disk.err
           \/ unread' = TRUE /\ UNCHANGED <<since, err>>
    BY <1>4 DEF Restart, RestoreDegraded, persist, acks
  <2>2. WriterInv' /\ ModeInv'
    BY <2>1 DEF PersistInv, WriterInv, ModeInv, LockHeldByWriter, Writing
  <2>4. disk = [since |-> disk.since, err |-> disk.err]
    BY DEF TypeOK, Row
  <2>5. CleanInv'
    <3>1. lock' = NoOne
      BY <2>1 DEF PersistInv, ModeInv
    <3>2. unread' \/ disk' = [since |-> since', err |-> err']
      BY <2>1, <2>4
    <3> QED
      BY <3>1, <3>2 DEF CleanInv
  <2>3. ClearInv'
    BY <2>1 DEF PersistInv, ModeInv, ClearInv, Since, TypeOK, Row
  <2>6. UnreadInv'
    BY <2>1 DEF PersistInv, ModeInv, UnreadInv
  <2> QED
    BY <2>2, <2>3, <2>5, <2>6 DEF PersistInv
<1>5. CASE UNCHANGED vars
  BY <1>5 DEF vars, flag, persist, acks, PersistInv, WriterInv, ModeInv, CleanInv, UnreadInv, ClearInv,
              LockHeldByWriter, Writing
<1> QED
  BY <1>1, <1>2, <1>3, <1>4, <1>5, TickPersist, ReportPersist, ClearPersist, TakePersist,
     PutSincePersist, PutErrPersist, PutFailsPersist
     DEF Next, FinishStop, Crash

\* The persistence invariant holds throughout.
THEOREM PersistHolds == Spec => [](TypeOK /\ PersistInv)
BY InitTypes, NextTypes, InitPersist, NextPersist, PTL DEF Spec

\* One writer at a time, and it holds persist_lock.
THEOREM WriterHasLock == Spec => []LockHeldByWriter
<1>1. PersistInv => LockHeldByWriter
  BY DEF PersistInv, WriterInv
<1> QED
  BY <1>1, PersistHolds, PTL

\* With no change pending and no writer at work the table holds what memory holds,
\* through failed commits, crashes, restarts and any number of concurrent clears,
\* except in a process that could not read the rows and has changed nothing since.
THEOREM TableFollowsMemory == Spec => []DiskFollowsMemory
<1>1. PersistInv => DiskFollowsMemory
  BY DEF PersistInv, CleanInv, DiskFollowsMemory
<1> QED
  BY <1>1, PersistHolds, PTL

\* No flag raised before a confirmed clear is ever on disk again.
THEOREM ClearsLast == Spec => []ClearIsDurable
<1>1. PersistInv => ClearIsDurable
  BY DEF PersistInv, ClearInv, Since, ClearIsDurable
<1> QED
  BY <1>1, PersistHolds, PTL

-----------------------------------------------------------------------------
(* run(): the inductive invariant, what each of its places knows.          *)

\* Nothing works before the try, and nothing is left of the start after it.
Started ==
  IF served
  THEN at \in ToSet(ShutdownSteps) \cup {"serving", "ended", "wedged"}
  ELSE /\ at \in ToSet(StartSteps) \cup {"ready", "ended"}
       /\ \A w \in Workers : worker[w] = "none"

\* The database is opened first and closed last.
Opened == at \notin {"db", "signals_off", "ended"} => "db" \in open

\* The workers are gone before the pipeline is stopped and the databases closed.
Quiesced ==
  served /\ at \notin {"serving", "web", "cancel", "gather", "wedged"} => Running = {}

\* The closes, in their order; none is left out.
Closed ==
  /\ at \in {"close_read_db", "close_db", "signals_off"} => "rfdb_reader" \notin open
  /\ at \in {"close_db", "signals_off"} => "read_db" \notin open
  /\ at = "signals_off" => "db" \notin open

Released ==
  slipped \/
    /\ at \in {"figures", "zms_stop"} \cup Closes \cup {"signals_off"} => ~sdr
    /\ at \in Closes \cup {"signals_off"} => ~zms

Inv ==
  RunTypeOK /\ EndsClosed /\ UsersStopFirst /\ Started /\ Opened /\ Quiesced /\ Closed /\ Released
-----------------------------------------------------------------------------
(* The order of the steps, spelled out.                                    *)

\* Each step of the start and of the shutdown, by its number.
LEMMA Steps ==
  /\ Len(StartSteps) = 8 /\ DOMAIN StartSteps = 1..8
  /\ StartSteps[1] = "db" /\ StartSteps[2] = "read_db" /\ StartSteps[3] = "rfdb_reader"
  /\ StartSteps[4] = "storage" /\ StartSteps[5] = "flag" /\ StartSteps[6] = "schedules"
  /\ StartSteps[7] = "zms" /\ StartSteps[8] = "active"
  /\ Len(ShutdownSteps) = 10 /\ DOMAIN ShutdownSteps = 1..10
  /\ ShutdownSteps[1] = "web" /\ ShutdownSteps[2] = "cancel" /\ ShutdownSteps[3] = "gather"
  /\ ShutdownSteps[4] = "pipeline" /\ ShutdownSteps[5] = "figures"
  /\ ShutdownSteps[6] = "zms_stop" /\ ShutdownSteps[7] = "close_rfdb_reader"
  /\ ShutdownSteps[8] = "close_read_db" /\ ShutdownSteps[9] = "close_db"
  /\ ShutdownSteps[10] = "signals_off"
BY DEF StartSteps, ShutdownSteps

\* The numbers of the steps.
LEMMA Numbers ==
  /\ 1..8 = {1, 2, 3, 4, 5, 6, 7, 8} /\ 2..8 = {2, 3, 4, 5, 6, 7, 8}
  /\ 1..10 = {1, 2, 3, 4, 5, 6, 7, 8, 9, 10} /\ 2..10 = {2, 3, 4, 5, 6, 7, 8, 9, 10}
OBVIOUS

\* The places run() can be in.
LEMMA Places ==
  /\ ToSet(StartSteps) = {"db", "read_db", "rfdb_reader", "storage", "flag", "schedules", "zms",
                          "active"}
  /\ ToSet(ShutdownSteps) = {"web", "cancel", "gather", "pipeline", "figures", "zms_stop",
                             "close_rfdb_reader", "close_read_db", "close_db", "signals_off"}
<1>1. \A s : s \in ToSet(StartSteps) <=> \E i \in {1, 2, 3, 4, 5, 6, 7, 8} : s = StartSteps[i]
  BY Steps, Numbers DEF ToSet
<1>2. \A s : s \in ToSet(ShutdownSteps)
              <=> \E i \in {1, 2, 3, 4, 5, 6, 7, 8, 9, 10} : s = ShutdownSteps[i]
  BY Steps, Numbers DEF ToSet
<1>3. ToSet(StartSteps) = {"db", "read_db", "rfdb_reader", "storage", "flag", "schedules", "zms",
                           "active"}
  BY <1>1, Steps
<1>4. ToSet(ShutdownSteps) = {"web", "cancel", "gather", "pipeline", "figures", "zms_stop",
                              "close_rfdb_reader", "close_read_db", "close_db", "signals_off"}
  BY <1>2, Steps
<1> QED BY <1>3, <1>4

\* After a step of the start comes another one, and the database comes first.
LEMMA StartOrder ==
  ASSUME NEW s \in ToSet(StartSteps), s # "active"
  PROVE  After(StartSteps, s) \in ToSet(StartSteps) \ {"db"}
<1> DEFINE next == CHOOSE i \in 2..8 : StartSteps[i - 1] = s
<1>1. \E i \in 2..8 : StartSteps[i - 1] = s
  <2>1. \E j \in 1..7 : StartSteps[j] = s
    BY Steps, Places
  <2>2. PICK j \in 1..7 : StartSteps[j] = s
    BY <2>1
  <2>3. j + 1 \in 2..8 /\ (j + 1) - 1 = j
    OBVIOUS
  <2> QED BY <2>2, <2>3
<1>2. next \in 2..8
  BY <1>1
<1>3. StartSteps[next] \in ToSet(StartSteps) \ {"db"}
  <2> HIDE DEF next
  <2>1. next \in {2, 3, 4, 5, 6, 7, 8}
    BY <1>2, Numbers
  <2> QED BY <2>1, Steps, Places
<1> QED BY <1>3, Steps DEF After

\* The databases are closed in this order.
LEMMA CloseOrder ==
  /\ After(ShutdownSteps, "close_rfdb_reader") = "close_read_db"
  /\ After(ShutdownSteps, "close_read_db") = "close_db"
  /\ After(ShutdownSteps, "close_db") = "signals_off"
<1>1. (CHOOSE i \in 2..10 : ShutdownSteps[i - 1] = "close_rfdb_reader") = 8
  <2>1. ShutdownSteps[8 - 1] = "close_rfdb_reader" /\ 8 \in 2..10
    BY Steps
  <2>2. ASSUME NEW i \in 2..10, ShutdownSteps[i - 1] = "close_rfdb_reader" PROVE i = 8
    <3>1. i \in {2, 3, 4, 5, 6, 7, 8, 9, 10}
      BY Numbers
    <3> QED BY <2>2, <3>1, Steps
  <2> QED BY <2>1, <2>2
<1>2. (CHOOSE i \in 2..10 : ShutdownSteps[i - 1] = "close_read_db") = 9
  <2>1. ShutdownSteps[9 - 1] = "close_read_db" /\ 9 \in 2..10
    BY Steps
  <2>2. ASSUME NEW i \in 2..10, ShutdownSteps[i - 1] = "close_read_db" PROVE i = 9
    <3>1. i \in {2, 3, 4, 5, 6, 7, 8, 9, 10}
      BY Numbers
    <3> QED BY <2>2, <3>1, Steps
  <2> QED BY <2>1, <2>2
<1>3. (CHOOSE i \in 2..10 : ShutdownSteps[i - 1] = "close_db") = 10
  <2>1. ShutdownSteps[10 - 1] = "close_db" /\ 10 \in 2..10
    BY Steps
  <2>2. ASSUME NEW i \in 2..10, ShutdownSteps[i - 1] = "close_db" PROVE i = 10
    <3>1. i \in {2, 3, 4, 5, 6, 7, 8, 9, 10}
      BY Numbers
    <3> QED BY <2>2, <3>1, Steps
  <2> QED BY <2>1, <2>2
<1> QED BY <1>1, <1>2, <1>3, Steps DEF After

-----------------------------------------------------------------------------
\* Nothing is open and nothing works when run() begins.
LEMMA InvInit == RunInit => Inv
<1> SUFFICES ASSUME RunInit PROVE Inv
  OBVIOUS
<1>1. at = "db" /\ open = {} /\ \A w \in Workers : worker[w] = "none"
  BY DEF RunInit
<1>2. /\ zms \in BOOLEAN /\ sdr \in BOOLEAN /\ exiting \in BOOLEAN /\ handlers \in BOOLEAN
      /\ received \in BOOLEAN /\ stop \in BOOLEAN /\ served \in BOOLEAN
      /\ cancelled \in BOOLEAN /\ slipped \in BOOLEAN
  BY Zenon DEF RunInit
<1>3. RunTypeOK
  BY <1>2, Places DEF RunInit, RunTypeOK, Databases, Workers
<1>4. ~served
  BY Zenon DEF RunInit
<1>5. EndsClosed /\ UsersStopFirst /\ Started /\ Opened /\ Quiesced /\ Closed /\ Released
  BY <1>1, <1>4, Places DEF EndsClosed, UsersStopFirst, Started, Opened, Quiesced, Closed,
     Released, Closes
<1> QED BY <1>3, <1>5 DEF Inv
\* Every step keeps the invariant.
LEMMA InvStep ==
  ASSUME Inv, RunNext
  PROVE  Inv'
<1> USE Places DEF Inv, RunTypeOK, EndsClosed, UsersStopFirst, Started, Opened, Quiesced, Closed,
        Released, Closes, Databases, Workers, Running, Uses, partVars, guardVars, signalVars,
        historyVars
<1>1. CASE StepDone
  <2>1. RunTypeOK'
    BY <1>1, StartOrder DEF StepDone, Starting, NextStart
  <2>2. EndsClosed'
    BY <1>1, StartOrder DEF StepDone, Starting, NextStart
  <2>3. UsersStopFirst'
    BY <1>1, StartOrder DEF StepDone, Starting, NextStart
  <2>4. Started'
    BY <1>1, StartOrder DEF StepDone, Starting, NextStart
  <2>5. Opened'
    <3>1. Needed("db")
      BY DEF Needed
    <3>2. "db" \in open'
      BY <1>1, <3>1 DEF StepDone, Starting
    <3> QED BY <3>2
  <2>6. Quiesced'
    BY <1>1, StartOrder DEF StepDone, Starting, NextStart
  <2>7. Closed'
    BY <1>1, StartOrder DEF StepDone, Starting, NextStart
  <2>8. Released'
    BY <1>1, StartOrder DEF StepDone, Starting, NextStart
  <2> QED BY <2>1, <2>2, <2>3, <2>4, <2>5, <2>6, <2>7, <2>8 DEF Inv
<1>2. CASE StepForgiven
  BY <1>2, StartOrder DEF StepForgiven, Starting, NextStart
<1>3. CASE StepRaises
  BY <1>3 DEF StepRaises, Starting
<1>4. CASE Ready
  BY <1>4 DEF Ready
<1>5. CASE Signal
  BY <1>5 DEF Signal
<1>6. CASE Stall
  BY <1>6 DEF Stall
<1>7. CASE Restarted
  <2>1. RunTypeOK'
    BY <1>7 DEF Restarted, RestartsTo
  <2>2. EndsClosed'
    BY <1>7 DEF Restarted, RestartsTo
  <2>3. UsersStopFirst'
    BY <1>7 DEF Restarted, RestartsTo
  <2>4. Started'
    BY <1>7 DEF Restarted, RestartsTo
  <2>5. Opened'
    BY <1>7 DEF Restarted, RestartsTo
  <2>6. Quiesced'
    BY <1>7 DEF Restarted, RestartsTo
  <2>7. Closed'
    BY <1>7 DEF Restarted, RestartsTo
  <2>8. Released'
    BY <1>7 DEF Restarted, RestartsTo
  <2> QED BY <2>1, <2>2, <2>3, <2>4, <2>5, <2>6, <2>7, <2>8 DEF Inv
<1>8. CASE DeadlinePasses
  BY <1>8 DEF DeadlinePasses
<1>9. CASE GivesUp
  BY <1>9 DEF GivesUp
<1>10. CASE GiveUpExits
  BY <1>10 DEF GiveUpExits
<1>11. CASE WorkerEnds
  BY <1>11 DEF WorkerEnds
<1>12. CASE WorkerFails
  BY <1>12 DEF WorkerFails
<1>13. CASE LoopLeft
  BY <1>13 DEF LoopLeft, Stopped
<1>14. CASE LeavesTry
  BY <1>14 DEF LeavesTry, Stopped
<1>15. CASE WebStops
  BY <1>15 DEF WebStops
<1>16. CASE WebDone
  BY <1>16 DEF WebDone
<1>17. CASE WebTimesOut
  BY <1>17 DEF WebTimesOut
<1>18. CASE CancelWorkers
  BY <1>18 DEF CancelWorkers
<1>19. CASE WorkerStops
  <2> PICK w \in Running, as \in {"cancelled", "failed"} : worker' = [worker EXCEPT ![w] = as]
    BY <1>19 DEF WorkerStops
  <2>0. worker' \in [Workers -> {"none", "running", "ended", "failed", "cancelled"}]
    OBVIOUS
  <2>1. RunTypeOK'
    BY <1>19, <2>0 DEF WorkerStops
  <2>2. EndsClosed'
    BY <1>19 DEF WorkerStops
  <2>3. UsersStopFirst'
    <3>1. \A v \in Workers : worker'[v] = "running" => worker[v] = "running"
      OBVIOUS
    <3> QED BY <1>19, <3>1 DEF WorkerStops
  <2>4. Started'
    BY <1>19 DEF WorkerStops
  <2>5. Opened'
    BY <1>19 DEF WorkerStops
  <2>6. Quiesced'
    BY <1>19 DEF WorkerStops
  <2>7. Closed'
    BY <1>19 DEF WorkerStops
  <2>8. Released'
    BY <1>19 DEF WorkerStops
  <2> QED BY <2>1, <2>2, <2>3, <2>4, <2>5, <2>6, <2>7, <2>8 DEF Inv
<1>20. CASE GatherWorkers
  BY <1>20 DEF GatherWorkers, Gathered
<1>21. CASE StopPipeline
  <2>1. RunTypeOK'
    BY <1>21 DEF StopPipeline
  <2>2. EndsClosed'
    BY <1>21 DEF StopPipeline
  <2>3. UsersStopFirst'
    BY <1>21 DEF StopPipeline
  <2>4. Started'
    BY <1>21 DEF StopPipeline
  <2>5. Opened'
    BY <1>21 DEF StopPipeline
  <2>6. Quiesced'
    BY <1>21 DEF StopPipeline
  <2>7. Closed'
    BY <1>21 DEF StopPipeline
  <2>8. Released'
    BY <1>21 DEF StopPipeline
  <2> QED BY <2>1, <2>2, <2>3, <2>4, <2>5, <2>6, <2>7, <2>8 DEF Inv
<1>22. CASE FlushFigures
  BY <1>22 DEF FlushFigures
<1>23. CASE StopZms
  <2>1. RunTypeOK'
    BY <1>23 DEF StopZms
  <2>2. EndsClosed'
    BY <1>23 DEF StopZms
  <2>3. UsersStopFirst'
    BY <1>23 DEF StopZms
  <2>4. Started'
    BY <1>23 DEF StopZms
  <2>5. Opened'
    BY <1>23 DEF StopZms
  <2>6. Quiesced'
    BY <1>23 DEF StopZms
  <2>7. Closed'
    BY <1>23 DEF StopZms
  <2>8. Released'
    BY <1>23 DEF StopZms
  <2> QED BY <2>1, <2>2, <2>3, <2>4, <2>5, <2>6, <2>7, <2>8 DEF Inv
<1>24. CASE Close
  BY <1>24, CloseOrder DEF Close, Closing, AfterRaise
<1>25. CASE SignalsOff
  <2>1. RunTypeOK'
    BY <1>25 DEF SignalsOff
  <2>2. EndsClosed'
    BY <1>25 DEF SignalsOff
  <2>3. UsersStopFirst'
    BY <1>25 DEF SignalsOff
  <2>4. Started'
    BY <1>25 DEF SignalsOff
  <2>5. Opened'
    BY <1>25 DEF SignalsOff
  <2>6. Quiesced'
    BY <1>25 DEF SignalsOff
  <2>7. Closed'
    BY <1>25 DEF SignalsOff
  <2>8. Released'
    BY <1>25 DEF SignalsOff
  <2> QED BY <2>1, <2>2, <2>3, <2>4, <2>5, <2>6, <2>7, <2>8 DEF Inv
<1>26. CASE Exit
  BY <1>26 DEF Exit
<1>27. CASE Wedges
  BY <1>27 DEF Wedges, Closing
<1> QED BY <1>1, <1>2, <1>3, <1>4, <1>5, <1>6, <1>7, <1>8, <1>9, <1>10, <1>11, <1>12, <1>13, <1>14,
       <1>15, <1>16, <1>17, <1>18, <1>19, <1>20, <1>21, <1>22, <1>23,
       <1>24, <1>25, <1>26, <1>27 DEF RunNext, Shutdown

\* Once run() is in its try it ends with every database closed and, unless their
\* stops failed, the pipeline and the ZMS client stopped; and no worker is ever
\* running on a closed database (app.py, run's finally blocks and _stop_workers).
THEOREM ClosesInOrder == RunSpec => []ShutsDownInOrder
<1>1. Inv /\ [RunNext]_runVars => Inv'
  <2>1. CASE UNCHANGED runVars
    BY <2>1 DEF runVars, partVars, guardVars, signalVars, historyVars, Inv, RunTypeOK, EndsClosed,
       UsersStopFirst, Started, Opened, Quiesced, Closed, Released, Running
  <2> QED BY <2>1, InvStep
<1>2. Inv => ShutsDownInOrder
  BY DEF Inv, ShutsDownInOrder
<1> QED BY InvInit, <1>1, <1>2, PTL DEF RunSpec
=============================================================================
