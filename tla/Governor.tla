------------------------------ MODULE Governor ------------------------------
(***************************************************************************)
(* The disk-space governor of storage/governor.py: the escalation ladder   *)
(* that StorageGovernor.tick climbs and leaves, the sticky "degraded" flag *)
(* with its reason, and the way both reach the config table through        *)
(* persist_degraded_change.  The storage loop and the clear routes run on  *)
(* the event loop; write errors are reported by the recorder's threads; a  *)
(* process may crash, or stop cleanly, between any two steps.              *)
(*                                                                         *)
(* Times are event numbers: "now" is the next value of clock.  Zero stands *)
(* for None.                                                               *)
(***************************************************************************)
EXTENDS Integers, FiniteSets

CONSTANTS
  FreeLevels,      \* free space a sample may report, on either volume
  BurstLevels,     \* bytes of old burst files a sample may report
  Totals,          \* sizes of the two volumes
  MinFreeSettings, \* values of DISK_MIN_FREE_GB; 0 asks for the automatic floor
  AutoFloorMin,    \* AUTO_FLOOR_MIN_BYTES
  HasDbVolume,     \* DB_PATH is on a device of its own
  Routes,          \* concurrent calls of POST /storage/clear-degraded
  MaxEvents,       \* bound on the event numbers handed out
  MayStop,         \* the process may be asked to stop
  MayCrash         \* the process may be killed

ASSUME GovernorAssumption ==
  /\ FreeLevels \subseteq Nat
  /\ BurstLevels \subseteq Nat
  /\ Totals \subseteq Nat
  /\ MinFreeSettings \subseteq Nat
  /\ AutoFloorMin \in Nat
  /\ HasDbVolume \in BOOLEAN
  /\ MayStop \in BOOLEAN
  /\ MayCrash \in BOOLEAN
  /\ MaxEvents \in Nat
  /\ "loop" \notin Routes
  /\ "none" \notin Routes

Loop == "loop"
NoOne == "none"
Persisters == Routes \cup {Loop}
RecoveryTicks == 3

VARIABLES
  mode,     \* "up", "stopping" (the workers are gone, the pipeline drains), "down"
  step,     \* the published ladder step
  good,     \* _good_ticks
  since,    \* degraded_since
  err,      \* last_write_error
  dirty,    \* _degraded_dirty
  disk,     \* the two rows of the config table
  lock,     \* holder of persist_lock
  pc,       \* where each persister is
  taken,    \* the values a persister is writing
  clock,    \* last event number handed out
  \* history, read by no action
  calm,     \* checks in a row that found every volume at floor x 1.15
  starved,  \* checks in a row a volume was below the floor with nothing to evict
  roomy,    \* the last check found every volume at its floor
  clearAt,  \* event number at each route's clear
  acked,    \* event number of the newest clear whose write was confirmed
  unread    \* this process could not read the rows at its start, nor has written both since

ladder == <<step, good, calm, starved, roomy>>
flag == <<since, err, dirty>>
persist == <<disk, lock, pc, taken>>
acks == <<clearAt, acked>>
vars == <<mode, ladder, flag, persist, acks, clock, unread>>

-----------------------------------------------------------------------------
(* Pure part: the floor and the step one volume asks for.                  *)

LargerOf(a, b) == IF a >= b THEN a ELSE b

\* DISK_MIN_FREE_GB, or 5% of the volume with a minimum.
ResolveFloor(minFree, total) ==
  IF minFree > 0 THEN minFree ELSE LargerOf(total \div 20, AutoFloorMin)

\* A sample: what one walk of the storage tree and two statvfs calls return.
Sample ==
  [free : FreeLevels, total : Totals, auto : BOOLEAN, bursts : BurstLevels,
   dbFree : FreeLevels, dbTotal : Totals]

\* Deleting the old bursts alone counts only when that would reach the floor.
Evictable(s, floor) ==
  \/ s.auto
  \/ s.bursts > 0 /\ s.free + s.bursts >= floor

\* Mutant: one more check at step 2 before recordings are refused.
VolumeStepLate(free, floor, evictable, current) ==
  CASE 2 * free < floor -> 4
    [] free >= floor -> 0
    [] 2 * free >= floor /\ free < floor /\ evictable -> 1
    [] 2 * free >= floor /\ free < floor /\ ~evictable /\ current > 2 -> 3
    [] OTHER -> 2

VolumeStep(free, floor, evictable, current) ==
  CASE 2 * free < floor -> 4
    [] free >= floor -> 0
    [] 2 * free >= floor /\ free < floor /\ evictable -> 1
    [] 2 * free >= floor /\ free < floor /\ ~evictable /\ current >= 2 -> 3
    [] OTHER -> 2

AtMargin(free, floor) == 100 * free >= 115 * floor

\* What the two volumes ask for together; the database's has nothing to evict.
RawStep(s, minFree, current) ==
  LET floor == ResolveFloor(minFree, s.total)
      data == VolumeStep(s.free, floor, Evictable(s, floor), current)
      db == VolumeStep(s.dbFree, ResolveFloor(minFree, s.dbTotal), FALSE, current)
  IN IF HasDbVolume THEN LargerOf(data, db) ELSE data

Recovered(s, minFree) ==
  /\ AtMargin(s.free, ResolveFloor(minFree, s.total))
  /\ HasDbVolume => AtMargin(s.dbFree, ResolveFloor(minFree, s.dbTotal))

-----------------------------------------------------------------------------
(* The words of the properties: stated from docs/storage.md, not from tick.*)

Short(free, floor) == free < floor

Starving(s, minFree) ==
  LET floor == ResolveFloor(minFree, s.total)
  IN \/ Short(s.free, floor) /\ ~Evictable(s, floor)
     \/ HasDbVolume /\ Short(s.dbFree, ResolveFloor(minFree, s.dbTotal))

Roomy(s, minFree) ==
  /\ ~Short(s.free, ResolveFloor(minFree, s.total))
  /\ HasDbVolume => ~Short(s.dbFree, ResolveFloor(minFree, s.dbTotal))

-----------------------------------------------------------------------------
Row == [since : Nat, err : Nat]
NoRow == [since |-> 0, err |-> 0]

Init ==
  /\ mode = "up"
  /\ step = 0 /\ good = 0
  /\ since = 0 /\ err = 0 /\ dirty = FALSE
  /\ disk = NoRow
  /\ lock = NoOne
  /\ pc = [p \in Persisters |-> "idle"]
  /\ taken = [p \in Persisters |-> NoRow]
  /\ clock = 0
  /\ calm = 0 /\ starved = 0 /\ roomy = TRUE
  /\ clearAt = [r \in Routes |-> 0] /\ acked = 0 /\ unread = FALSE

\* Mutant: a check without the margin does not restart the count.
ClimbKeepsCount(raw, recovered) ==
  \/ raw > step /\ step' = raw /\ good' = 0
  \/ /\ raw < step /\ recovered
     /\ \/ good + 1 >= RecoveryTicks /\ step' = raw /\ good' = 0
        \/ good + 1 < RecoveryTicks /\ step' = step /\ good' = good + 1
  \/ raw <= step /\ ~(raw < step /\ recovered) /\ step' = step /\ UNCHANGED good

\* Mutant: the count restarts at every check, so the ladder is never left.
ClimbForgets(raw, recovered) ==
  IF raw > step THEN step' = raw /\ good' = 0 ELSE step' = step /\ good' = 0

\* The step and the recovery counter after a check.
Climb(raw, recovered) ==
  \/ raw > step /\ step' = raw /\ good' = 0
  \/ /\ raw < step /\ recovered
     /\ \/ good + 1 >= RecoveryTicks /\ step' = raw /\ good' = 0
        \/ good + 1 < RecoveryTicks /\ step' = step /\ good' = good + 1
  \/ raw <= step /\ ~(raw < step /\ recovered) /\ step' = step /\ good' = 0

\* Reaching step 3 raises the sticky flag unless it is already up.
RaiseOnRefusal ==
  IF step' >= 3 /\ step < 3
  THEN IF since = 0
       THEN clock < MaxEvents /\ clock' = clock + 1 /\ since' = clock' /\ dirty' = TRUE
       ELSE UNCHANGED <<clock, since, dirty>>
  ELSE UNCHANGED <<clock, since, dirty>>

Bump(n, cond) == IF cond THEN (IF n < RecoveryTicks THEN n + 1 ELSE n) ELSE 0

\* One governor tick on a sample; the loop then evicts and persists.
Tick(s, minFree) ==
  /\ mode = "up" /\ pc[Loop] = "idle"
  /\ Climb(RawStep(s, minFree, step), Recovered(s, minFree))
  /\ RaiseOnRefusal
  /\ pc' = [pc EXCEPT ![Loop] = "act"]
  /\ calm' = Bump(calm, Recovered(s, minFree))
  /\ starved' = Bump(starved, Starving(s, minFree))
  /\ roomy' = Roomy(s, minFree)
  /\ UNCHANGED <<mode, err, disk, lock, taken, acks, unread>>

\* Eviction ran: the loop goes on to persist.  If it raised, the rest of the
\* tick is skipped and the next one starts after the usual sleep.
Act ==
  /\ mode = "up" /\ pc[Loop] = "act"
  /\ \E next \in {"persist", "idle"} : pc' = [pc EXCEPT ![Loop] = next]
  /\ UNCHANGED <<mode, ladder, flag, disk, lock, taken, acks, clock, unread>>

\* report_write_error, from a writer or recording-control thread.
ReportWriteError ==
  /\ mode \in {"up", "stopping"} /\ clock < MaxEvents
  /\ clock' = clock + 1
  /\ since' = IF since = 0 THEN clock' ELSE since
  /\ err' = clock'
  /\ dirty' = TRUE
  /\ UNCHANGED <<mode, ladder, persist, acks, unread>>

\* Mutant: the clear is not marked for writing.
ClearDegradedClean(r) ==
  /\ mode = "up" /\ pc[r] = "idle"
  /\ since' = 0 /\ err' = 0 /\ UNCHANGED dirty
  /\ pc' = [pc EXCEPT ![r] = "persist"]
  /\ clearAt' = [clearAt EXCEPT ![r] = clock]
  /\ UNCHANGED <<mode, ladder, disk, lock, taken, acked, clock, unread>>

\* clear_degraded, called by the clear route.
ClearDegraded(r) ==
  /\ mode = "up" /\ pc[r] = "idle"
  /\ since' = 0 /\ err' = 0 /\ dirty' = TRUE
  /\ pc' = [pc EXCEPT ![r] = "persist"]
  /\ clearAt' = [clearAt EXCEPT ![r] = clock]
  /\ UNCHANGED <<mode, ladder, disk, lock, taken, acked, clock, unread>>

\* A persister leaves persist_degraded_change; its locals go out of scope.
Return(p) ==
  /\ pc' = [pc EXCEPT ![p] = "idle"]
  /\ taken' = [taken EXCEPT ![p] = NoRow]
  /\ clearAt' = [r \in Routes |-> IF r = p THEN 0 ELSE clearAt[r]]

\* A clear route that returns without an error has its clear on disk.
Confirm(p) ==
  acked' = IF p \in Routes THEN LargerOf(acked, clearAt[p]) ELSE acked

\* Under persist_lock: take_degraded_change, nothing to do when not dirty.
TakeChange(p) ==
  /\ mode = "up" /\ pc[p] = "persist" /\ lock = NoOne
  /\ \/ /\ dirty
        /\ dirty' = FALSE
        /\ taken' = [taken EXCEPT ![p] = [since |-> since, err |-> err]]
        /\ lock' = p
        /\ pc' = [pc EXCEPT ![p] = "putSince"]
        /\ UNCHANGED acks
     \/ /\ ~dirty
        /\ Return(p)
        /\ Confirm(p)
        /\ UNCHANGED <<dirty, lock>>
  /\ UNCHANGED <<mode, ladder, since, err, disk, clock, unread>>

\* One set_config commit each; the two rows are separate transactions.
PutSince(p) ==
  /\ mode = "up" /\ pc[p] = "putSince"
  /\ disk' = [disk EXCEPT !.since = taken[p].since]
  /\ pc' = [pc EXCEPT ![p] = "putErr"]
  /\ UNCHANGED <<mode, ladder, flag, lock, taken, acks, clock, unread>>

PutErr(p) ==
  /\ mode = "up" /\ pc[p] = "putErr"
  /\ disk' = [disk EXCEPT !.err = taken[p].err]
  /\ Return(p)
  /\ lock' = NoOne
  /\ Confirm(p)
  /\ unread' = FALSE
  /\ UNCHANGED <<mode, ladder, flag, clock>>

\* The row a persister was about to write, written or not.
MaybeWritten(p) ==
  disk' \in {disk, IF pc[p] = "putSince" THEN [disk EXCEPT !.since = taken[p].since]
                                         ELSE [disk EXCEPT !.err = taken[p].err]}

Writing(p) == pc[p] \in {"putSince", "putErr"}

\* Mutant: a failed write is not marked dirty again.
PutFailsClean(p) ==
  /\ mode = "up" /\ Writing(p)
  /\ MaybeWritten(p)
  /\ lock' = NoOne
  /\ Return(p)
  /\ UNCHANGED <<mode, ladder, flag, acked, clock, unread>>

\* set_config raised: mark_degraded_dirty, release the lock, retry next tick.
PutFails(p) ==
  /\ mode = "up" /\ Writing(p)
  /\ MaybeWritten(p)
  /\ dirty' = TRUE
  /\ lock' = NoOne
  /\ Return(p)
  /\ UNCHANGED <<mode, ladder, since, err, acked, clock, unread>>

-----------------------------------------------------------------------------
(* The end of the process and its restart.                                 *)

\* Every task of the event loop is gone.
TasksGone ==
  /\ lock' = NoOne
  /\ pc' = [p \in Persisters |-> "idle"]
  /\ taken' = [p \in Persisters |-> NoRow]
  /\ clearAt' = [r \in Routes |-> 0]

\* run()'s shutdown cancels the storage loop and the web server first; a
\* cancelled write marks the change dirty again.  The pipeline then stops and
\* its threads may still report errors.
BeginStop ==
  /\ MayStop /\ mode = "up"
  /\ mode' = "stopping"
  /\ IF lock = NoOne THEN UNCHANGED <<disk, dirty>> ELSE MaybeWritten(lock) /\ dirty' = TRUE
  /\ TasksGone
  /\ UNCHANGED <<ladder, since, err, acked, clock, unread>>

\* The process is gone and its memory with it.
Gone ==
  /\ mode' = "down"
  /\ step' = 0 /\ good' = 0 /\ calm' = 0 /\ starved' = 0 /\ roomy' = TRUE
  /\ since' = 0 /\ err' = 0 /\ dirty' = FALSE
  /\ TasksGone
  /\ unread' = FALSE
  /\ UNCHANGED <<disk, acked, clock>>

FinishStop == mode = "stopping" /\ Gone

Crash == MayCrash /\ mode \in {"up", "stopping"} /\ Gone

\* The rows' values come back into memory.
RestoreDegraded == since' = disk.since /\ err' = disk.err

\* A new process reads the flag back (_restore_storage_flag). A read that raises
\* is logged by run(), which goes on with no flag in memory and the rows as they are.
Restart ==
  /\ mode = "down"
  /\ mode' = "up"
  /\ \/ RestoreDegraded /\ unread' = FALSE
     \/ unread' = TRUE /\ UNCHANGED <<since, err>>
  /\ UNCHANGED <<ladder, dirty, persist, acks, clock>>

Next ==
  \/ \E s \in Sample, m \in MinFreeSettings : Tick(s, m)
  \/ Act
  \/ ReportWriteError
  \/ \E r \in Routes : ClearDegraded(r)
  \/ \E p \in Persisters : TakeChange(p) \/ PutSince(p) \/ PutErr(p) \/ PutFails(p)
  \/ BeginStop \/ FinishStop \/ Crash \/ Restart

Spec == Init /\ [][Next]_vars

\* The event loop keeps running its tasks.  Evictions and writes may fail any
\* number of times but not for ever.
EvictionDone == Act /\ pc'[Loop] = "persist"

Fairness ==
  /\ WF_vars(\E s \in Sample, m \in MinFreeSettings : Tick(s, m))
  /\ SF_vars(EvictionDone)
  /\ \A p \in Persisters :
       /\ SF_vars(TakeChange(p))
       /\ SF_vars(PutSince(p))
       /\ SF_vars(PutErr(p))
       /\ WF_vars(PutFails(p) \/ PutSince(p) \/ PutErr(p))

LiveSpec == Spec /\ Fairness

-----------------------------------------------------------------------------
(* Properties.                                                             *)

\* Types of the governor's state and of the rows it writes.
TypeOK ==
  /\ mode \in {"up", "stopping", "down"}
  /\ step \in 0..4
  /\ good \in 0..(RecoveryTicks - 1)
  /\ since \in Nat /\ err \in Nat /\ dirty \in BOOLEAN
  /\ disk \in Row
  /\ lock \in Persisters \cup {NoOne}
  /\ pc \in [Persisters -> {"idle", "act", "persist", "putSince", "putErr"}]
  /\ taken \in [Persisters -> Row]
  /\ clock \in Nat
  /\ calm \in 0..RecoveryTicks
  /\ starved \in 0..RecoveryTicks
  /\ roomy \in BOOLEAN
  /\ clearAt \in [Routes -> Nat] /\ acked \in Nat /\ unread \in BOOLEAN

\* docs/storage.md: leaving a step takes three checks in a row with every
\* volume at floor x 1.15 or more.  The code counts them in _good_ticks, which
\* it resets from three places; calm counts them from the samples alone.
LeaveOnlyAfterCalm ==
  [][step' < step /\ mode' = "up" => step' = 0 /\ calm' >= RecoveryTicks]_vars

\* A volume short with nothing to evict on two checks in a row refuses
\* recordings, whichever volume it is and whatever the step was before.
RefusedWhenStarved == starved >= 2 => step >= 3

\* Step 0 is published only when the last check found both volumes at their
\* floors: hysteresis never hides a shortage.
HealthyHasRoom == step = 0 => roomy

\* persist_lock and the dirty flag together: when no change is pending and no
\* writer is at work, the table holds exactly what memory holds.  An older
\* write can never land after a newer one.  The one exception is a process whose
\* start could not read the rows, until it has written a change of its own.
DiskFollowsMemory ==
  mode = "up" /\ ~dirty /\ lock = NoOne /\ ~unread
    => disk = [since |-> since, err |-> err]

\* A clear that was confirmed to its caller stays cleared: whatever the storage
\* loop was writing meanwhile, no flag raised before that clear is on disk
\* again, so that no restart brings it back.
ClearIsDurable == disk.since = 0 \/ disk.since > acked

\* One writer at a time, and it holds the lock.
LockHeldByWriter == \A p \in Persisters : Writing(p) <=> lock = p

\* If from some point on every check finds room to spare, the ladder is left,
\* unless the process stops for good.
LadderIsLeft == []<>(step = 0) \/ []<>(calm = 0) \/ <>[](mode # "up")

=============================================================================
