------------------------------ MODULE Windows ------------------------------
(***************************************************************************)
(* From PSD results to the Dashboard: the averaging loop of                *)
(* pipeline/streaming.py closes windows, its ordered writer inserts them,  *)
(* storage/database.py keeps tier sums next to the rows (psd_tiers.py),    *)
(* the rollup loop of pipeline/app.py folds closed minutes (rollup.py),    *)
(* and a Dashboard request mixes tiers and raw windows (avg_fold.py).      *)
(*                                                                         *)
(* Time is counted in ticks, one result per tick at most; a window's       *)
(* statistics are left out, what counts is which windows were added up.    *)
(***************************************************************************)
EXTENDS Integers, Sequences, FiniteSets, FiniteSetsExt

CONSTANTS
  Tunings,      \* centre frequencies
  Duration,     \* DURATION_SEC
  MaxGap,       \* _AvgWindowClock's max_gap_sec
  Idle,         \* the consumer's wait for a result, 0.5 s
  Lag,          \* _rollup_lag
  Minute,       \* one minute of the rollup
  Span,         \* _ROLLUP_SPAN, in minutes
  Level,        \* one tier's period
  Limits,       \* max_rows of a Dashboard request
  Buckets,      \* its bucket_sec: the live tail's, or 0
  QueueMax,     \* _DB_WRITE_QUEUE_MAX
  MaxNow,       \* bound on the ticks of a behaviour
  MaxRetunes,   \* bound on its retunes
  MaxFaults,    \* bound on the crashes and failed writes together
  MaxStops,     \* bound on the times the pipeline is stopped
  Scenarios     \* what may happen in one behaviour: sets of Occurrences

Occurrences ==
  {"tiers",     \* the database keeps tiers (psd_tiers)
   "older",     \* and holds a window from before it did
   "peaks",     \* the rollup loop runs
   "retune", "new bins",  \* the centre frequency, and the number of bins, change
   "crash", "row fails", "tier fails", "rollup fails", "drain times out",
   "stop",      \* the pipeline is stopped and started
   "close"}     \* the process is ended in order and started again

None == -1

ASSUME WindowsAssumption ==
  /\ {Duration, Idle, Minute, Span, Level, QueueMax} \subseteq Nat \ {0}
  /\ {MaxGap, MaxNow, MaxRetunes, MaxFaults, MaxStops} \subseteq Nat
  /\ Tunings # {} /\ Limits \subseteq Nat \ {0} /\ Buckets \subseteq Nat
  /\ Scenarios \subseteq SUBSET Occurrences
  \* A window is submitted less than Duration + Idle after its start.
  /\ Lag \in Nat /\ Lag >= Duration + Idle

VARIABLES
  happens,
  now,
  tuned,     \* the receiver's centre frequency
  up,        \* "up", "stopping", "down": the processor's run()
  acc,       \* the open average: [n, tune], tune of last_result
  clock,     \* _AvgWindowClock: [start, last, got], and whether an
             \* outage came before its first result (history)
  ready,     \* when the consumer began to wait for a result
  queue,     \* _OrderedDbWriter: its unfinished jobs, the running one first
  job,       \* where the running one is: "none", "row", "tier"
  rows,      \* avg_windows
  open,      \* TierAccumulator._open
  tiers,     \* avg_tiers
  since,     \* COVERAGE_KEY, or None
  noted,     \* _tier_coverage_set has the level
  doubled,   \* history: the periods whose rows were merged twice
  minutes,   \* avg_minutes: windows counted per minute
  newest,    \* ROLLUP_NEWEST_KEY
  oldest,    \* ROLLUP_OLDEST_KEY
  roll,      \* the rollup loop: [pc, closed, at]
  retunes, faults, stops,
  inexact    \* history: a write of the tiers broke off, or a window was left
             \* out of them, or a period split by a restart

consVars == <<tuned, acc, clock, ready>>
writeVars == <<queue, job>>
tierVars == <<open, tiers, since, noted, doubled>>
rollVars == <<minutes, newest, oldest, roll>>
boundVars == <<retunes, faults, stops>>
vars == <<happens, now, up, consVars, writeVars, rows, tierVars, rollVars, boundVars, inexact>>

MinuteOf(t) == (t \div Minute) * Minute
Bucket(t) == (t \div Level) * Level
NextBucket(t) == Bucket(t + Level - 1)
Least(a, b) == IF a < b THEN a ELSE b
Most(a, b) == IF a < b THEN b ELSE a
Minutes == {MinuteOf(t) : t \in 0..MaxNow}

Fault(kind) == kind \in happens /\ faults < MaxFaults /\ faults' = faults + 1

NoAcc == [n |-> 0, tune |-> None]
NoClock == [start |-> None, last |-> None, got |-> FALSE, stale |-> FALSE]
AtRest == [pc |-> "rest", closed |-> None, at |-> None]

Init ==
  /\ happens \in Scenarios
  /\ now = 0 /\ up = "up" /\ tuned = CHOOSE t \in Tunings : TRUE
  /\ acc = NoAcc /\ clock = NoClock /\ ready = 0
  /\ queue = <<>> /\ job = "none"
  /\ rows = IF "older" \in happens
            THEN {[start |-> -Level, end |-> Least(0, Duration - Level), tune |-> tuned]} ELSE {}
  /\ open = {} /\ tiers = {} /\ since = None /\ noted = FALSE /\ doubled = {}
  /\ minutes = [m \in Minutes |-> 0] /\ newest = None /\ oldest = None
  /\ roll = AtRest
  /\ retunes = 0 /\ faults = 0 /\ stops = 0
  /\ inexact = FALSE

----------------------------------------------------------------------------
(* The averaging loop                                                      *)

\* The writer's queue holds what it has not taken yet.
Queued == Len(queue) - (IF job = "none" THEN 0 ELSE 1)

\* Each window is queued, or dropped when the queue is full; at most one of
\* a pair a result submits can be dropped with QueueMax of 1 or more.
Submit(ws) ==
  queue' = queue \o (IF Queued + Len(ws) <= QueueMax THEN ws ELSE <<>>)

Closed(end) == [start |-> clock.start, end |-> end, tune |-> acc.tune]

NewClock == [start |-> now, last |-> now, got |-> TRUE, stale |-> FALSE]

\* The result joins the window; stale if it is the first and comes late.
Joined(c) ==
  [c EXCEPT !.last = now, !.got = TRUE, !.stale = @ \/ (~c.got /\ now - c.start > MaxGap)]

\* _AvgWindowClock.mark_result
Marked(c, waited) ==
  IF c.start = None \/ (~c.got /\ waited > MaxGap) THEN NewClock ELSE Joined(c)

\* flush_pending: close(at_last_result=True) resets the clock.
Flushed == NoClock

\* A result at centre frequency t: a retune ends the open window (a change
\* of the number of bins discards it), the result is added, and a window
\* past DURATION_SEC closes; the next one starts now.
Result(t) ==
  LET old == acc.n > 0
      discard == old /\ acc.tune # t /\ "new bins" \in happens
      flush == old /\ ~discard /\ acc.tune # t
      base == IF discard THEN NoClock ELSE IF flush THEN Flushed ELSE clock
      c == Marked(base, now - ready)
      n == IF discard \/ flush THEN 1 ELSE acc.n + 1
      full == now - c.start >= Duration
      kept == IF flush THEN <<Closed(clock.last)>> ELSE <<>>
      made == IF full THEN <<[start |-> c.start, end |-> now, tune |-> t]>> ELSE <<>>
  IN /\ up = "up" /\ now > clock.last
     /\ Submit(kept \o made)
     /\ acc' = IF full THEN NoAcc ELSE [n |-> n, tune |-> t]
     /\ clock' = IF full THEN [NewClock EXCEPT !.got = FALSE, !.stale = c.stale] ELSE c
     /\ ready' = now

Receive ==
  \E t \in Tunings :
    /\ t # tuned => "retune" \in happens /\ retunes < MaxRetunes
    /\ retunes' = retunes + (IF t # tuned THEN 1 ELSE 0)
    /\ tuned' = t
    /\ Result(t)
    /\ UNCHANGED <<happens, now, up, job, rows, tierVars, rollVars, faults, stops, inexact>>

IdleDue == up = "up" /\ now - ready >= Idle

\* No result for 0.5 s: the pending window ends at its last result.
GoIdle ==
  /\ IdleDue
  /\ Submit(IF acc.n > 0 THEN <<Closed(clock.last)>> ELSE <<>>)
  /\ acc' = NoAcc /\ clock' = NoClock /\ ready' = now
  /\ UNCHANGED <<happens, now, tuned, up, job, rows, tierVars, rollVars, boundVars, inexact>>

Tick ==
  /\ now < MaxNow /\ ~IdleDue
  /\ now' = now + 1
  /\ UNCHANGED <<happens, up, consVars, writeVars, rows, tierVars, rollVars, boundVars, inexact>>

----------------------------------------------------------------------------
(* The ordered writer                                                      *)

WriterVars == <<happens, now, consVars, rollVars, retunes, stops>>

WrTake ==
  /\ up # "down" /\ job = "none" /\ queue # <<>>
  /\ job' = "row"
  /\ UNCHANGED <<WriterVars, up, queue, rows, tierVars, faults, inexact>>

JobDone == job' = "none" /\ queue' = Tail(queue)

WithRow == rows \cup {Head(queue)}

\* _insert_avg_window_row commits the row, or raises; a commit that lands
\* although it raised stores a row the tiers never get.
WrRow ==
  /\ job = "row"
  /\ \/ /\ rows' = WithRow /\ UNCHANGED <<faults, inexact>>
        /\ IF "tiers" \in happens THEN job' = "tier" /\ UNCHANGED queue ELSE JobDone
     \/ /\ Fault("row fails") /\ JobDone
        /\ rows' \in {rows, WithRow} /\ inexact' = (inexact \/ rows' # rows)
  /\ UNCHANGED <<WriterVars, up, tierVars>>

\* The open sums whose period ended by t.
Ended(t) == {r \in open : r.bucket + Level <= t}

\* TierAccumulator.add: ended periods close; a late window is skipped.
Added(w) ==
  LET left == open \ Ended(w.start)
      mine == {r \in left : r.tune = w.tune}
  IN IF mine = {} THEN left \cup {[bucket |-> Bucket(w.start), tune |-> w.tune, n |-> 1]}
     ELSE {IF r.tune = w.tune /\ w.start >= r.bucket THEN [r EXCEPT !.n = @ + 1] ELSE r : r \in left}

SamePeriod(a, b) == a.bucket = b.bucket /\ a.tune = b.tune

\* The periods of rs hold `sum`; one that holds nothing has no row.
Merged(rs, sum) ==
  {o \in tiers : \A r \in rs : ~SamePeriod(o, r)}
    \cup {[r EXCEPT !.n = sum[r]] : r \in {x \in rs : sum[x] # 0}}

\* What a period's row counted before.
Before(r) == SumSet({o.n : o \in {x \in tiers : SamePeriod(x, r)}})

\* _store_tier_rows: a period stored before is merged with the new row.
Stored(rs) == Merged(rs, [r \in rs |-> Before(r) + r.n])

\* It reads, deletes and inserts row by row, is cut off by a timeout, and is
\* tried again while the first try's commit may still land: how often the
\* row from before and the new one are then in the table.  Once each when the
\* last commit counts, the new one twice when the second try merges it anew,
\* both twice when each try inserted, and the old one not at all when only
\* its delete was committed.
Cuts == {<<2, 2>>} \cup (0..1) \X (0..2)

Periods(rs) == {[bucket |-> r.bucket, tune |-> r.tune] : r \in rs}

StoreCut(rs) ==
  \E cut \in [rs -> Cuts] :
    /\ tiers' = Merged(rs, [r \in rs |-> cut[r][1] * Before(r) + cut[r][2] * r.n])
    /\ doubled' = doubled \cup Periods({r \in rs : cut[r][2] = 2})

\* A process looks once whether the coverage has a start, at its first window.
Coverage(w) == IF ~noted /\ since = None THEN NextBucket(w.start) ELSE since

\* _add_to_tiers: note where the coverage starts, add the window, store what
\* ended.
TierAdds(w) ==
  /\ noted' = TRUE /\ since' = Coverage(w) /\ open' = Added(w)
  /\ tiers' = Stored(Ended(w.start)) /\ UNCHANGED doubled

\* It breaks off: at the coverage's start, which may land nevertheless and is
\* not looked at again, or at the store.
TierBreaks(w) ==
  /\ noted' = TRUE
  /\ \/ ~noted /\ since' \in {since, Coverage(w)} /\ UNCHANGED <<open, tiers, doubled>>
     \/ /\ since' = Coverage(w) /\ open' = Added(w)
        /\ Ended(w.start) # {} /\ StoreCut(Ended(w.start))

WrTier ==
  /\ job = "tier" /\ JobDone
  /\ \/ TierAdds(Head(queue)) /\ UNCHANGED <<faults, inexact>>
     \/ TierBreaks(Head(queue)) /\ Fault("tier fails") /\ inexact' = TRUE
  /\ UNCHANGED <<WriterVars, up, rows>>

----------------------------------------------------------------------------
(* Stop, close, crash                                                      *)

\* The consumer loop ends; the window it had open is not flushed.
Stop ==
  /\ up = "up" /\ "stop" \in happens /\ stops < MaxStops
  /\ up' = "stopping" /\ stops' = stops + 1
  /\ acc' = NoAcc /\ clock' = NoClock
  /\ UNCHANGED <<happens, now, tuned, ready, writeVars, rows, tierVars, rollVars, retunes, faults, inexact>>

\* _OrderedDbWriter.drain: all written, or the rest discarded.  The job that
\* is cut off may have committed its row, or a part of its tiers.
Drained ==
  /\ up = "stopping"
  /\ \/ queue = <<>> /\ UNCHANGED <<rows, tierVars, inexact>>
     \/ /\ queue # <<>> /\ "drain times out" \in happens
        /\ \/ rows' \in {rows} \cup (IF job = "row" THEN {WithRow} ELSE {}) /\ UNCHANGED tierVars
           \/ job = "tier" /\ TierBreaks(Head(queue)) /\ UNCHANGED rows
        /\ inexact' = TRUE
  /\ queue' = <<>> /\ job' = "none" /\ up' = "down"
  /\ UNCHANGED <<happens, now, consVars, rollVars, boundVars>>

Start ==
  /\ up = "down" /\ up' = "up" /\ ready' = now
  /\ UNCHANGED <<happens, now, tuned, acc, clock, writeVars, rows, tierVars, rollVars, boundVars, inexact>>

Reborn == up' = "up" /\ ready' = now /\ acc' = NoAcc /\ clock' = NoClock
          /\ queue' = <<>> /\ job' = "none" /\ open' = {} /\ noted' = FALSE /\ roll' = AtRest

\* The process ends in order: SensorDatabase.close stores the open periods,
\* partial, and the next process starts.
Close ==
  /\ up = "down" /\ "close" \in happens
  /\ \/ tiers' = Stored(open) /\ UNCHANGED <<doubled, faults>>
     \/ open # {} /\ StoreCut(open) /\ Fault("tier fails")
  /\ inexact' = (inexact \/ open # {})
  /\ Reborn
  /\ UNCHANGED <<happens, now, tuned, rows, since, minutes, newest, oldest, retunes, stops>>

Crash ==
  /\ Fault("crash") /\ Reborn
  /\ inexact' = TRUE
  /\ UNCHANGED <<happens, now, tuned, rows, tiers, since, doubled, minutes, newest, oldest>>
  /\ UNCHANGED <<retunes, stops>>

----------------------------------------------------------------------------
(* The minute rollup                                                       *)

RollRest == <<happens, now, up, consVars, writeVars, rows, tierVars, retunes, stops, inexact>>

\* Mutant: the backlog of the writer is not looked at.
LastClosedByLag == MinuteOf(now - Lag)

\* _rollup_forward: a minute is closed Lag after its end, and no minute of
\* an unfinished write is.
LastClosed ==
  IF queue = <<>> THEN MinuteOf(now - Lag)
  ELSE Least(MinuteOf(now - Lag), MinuteOf(Head(queue).start))

\* The pass starts; the very first one only anchors.
RollStart ==
  /\ "peaks" \in happens /\ roll.pc = "rest" /\ now >= Lag
  /\ newest' = IF newest = None THEN LastClosed ELSE newest
  /\ roll' = [pc |-> IF newest' < LastClosed THEN "fold" ELSE "back",
              closed |-> LastClosed, at |-> newest']
  /\ UNCHANGED <<RollRest, minutes, oldest, faults>>

InMinute(m) == {w \in rows : MinuteOf(w.start) = m}

\* _rollup_span: the minutes' rows are replaced.
Folded(lo, hi) ==
  [m \in Minutes |-> IF m \in lo..(hi - 1) THEN Cardinality(InMinute(m)) ELSE minutes[m]]

ForwardTo == Least(roll.at + Span * Minute, roll.closed)

RollForward ==
  /\ roll.pc = "fold"
  /\ minutes' = Folded(roll.at, ForwardTo)
  /\ roll' = [roll EXCEPT !.pc = "mark"]
  /\ UNCHANGED <<RollRest, newest, oldest, faults>>

\* The mark is stored after the fold.  The time budget may end the loop
\* here, once it has folded a span.
RollMark ==
  /\ roll.pc = "mark"
  /\ newest' = ForwardTo
  /\ \E pc \in {"back"} \cup (IF ForwardTo < roll.closed THEN {"fold"} ELSE {}) :
       roll' = [roll EXCEPT !.pc = pc, !.at = ForwardTo]
  /\ UNCHANGED <<RollRest, minutes, oldest, faults>>

\* _rollup_backfill begins: the first time, from the newest minute.
RollBack ==
  /\ roll.pc = "back"
  /\ IF rows = {} THEN roll' = AtRest /\ UNCHANGED oldest
     ELSE LET floor == MinuteOf(Min({w.start : w \in rows})) IN
          /\ oldest' = IF oldest = None THEN newest ELSE oldest
          /\ roll' = IF oldest' > floor THEN [pc |-> "deep", closed |-> floor, at |-> None] ELSE AtRest
  /\ UNCHANGED <<RollRest, minutes, newest, faults>>

\* Mutant: the backfill does not step back.
BackToSame == Most(oldest, roll.closed)

BackTo == Most(oldest - Span * Minute, roll.closed)

RollDeep ==
  /\ roll.pc = "deep"
  /\ minutes' = Folded(BackTo, oldest)
  /\ roll' = [roll EXCEPT !.pc = "deepmark"]
  /\ UNCHANGED <<RollRest, newest, oldest, faults>>

RollDeepMark ==
  /\ roll.pc = "deepmark"
  /\ oldest' = BackTo
  /\ \E r \in {AtRest} \cup (IF BackTo > roll.closed THEN {[roll EXCEPT !.pc = "deep"]} ELSE {}) :
       roll' = r
  /\ UNCHANGED <<RollRest, minutes, newest, faults>>

\* A statement raises: the pass is given up.
RollFails ==
  /\ roll.pc # "rest" /\ Fault("rollup fails")
  /\ roll' = AtRest
  /\ UNCHANGED <<RollRest, minutes, newest, oldest>>

Writer == WrTake \/ WrRow \/ WrTier
Rollup ==
  \/ RollStart \/ RollForward \/ RollMark
  \/ RollBack \/ RollDeep \/ RollDeepMark

Next ==
  \/ Receive \/ GoIdle \/ Tick
  \/ WrTake \/ WrRow \/ WrTier
  \/ Stop \/ Drained \/ Start \/ Close \/ Crash
  \/ RollStart \/ RollForward \/ RollMark
  \/ RollBack \/ RollDeep \/ RollDeepMark \/ RollFails

Spec == Init /\ [][Next]_vars

\* The loop's timers and tasks run; receiving, stopping and failing need not.
LiveSpec ==
  /\ Spec /\ WF_vars(Tick) /\ WF_vars(GoIdle) /\ WF_vars(Writer) /\ WF_vars(Drained)
  /\ WF_vars(Rollup)

----------------------------------------------------------------------------
(* A Dashboard request for the windows of centre frequencies ts in [s, u): *)
(* at most `limit` rows of their own, or buckets; `forced` is the bucket   *)
(* of the live poll's tail, or 0.  A bucket is [num, den] ticks.           *)

In(ts, a, b) == {w \in rows : w.tune \in ts /\ w.start \in a..(b - 1)}
CeilDiv(a, b) == -((-a) \div b)

\* choose_tier: a bucket of whole periods, at most 1.25 times the ideal one, or 0.
TierBucket(span, limit, forced) ==
  LET whole == Level * CeilDiv(span, limit * Level)
  IN IF forced # 0 THEN (IF forced % Level = 0 THEN forced ELSE 0)
     ELSE IF limit * Level <= span /\ 4 * limit * whole <= 5 * span THEN whole ELSE 0

\* Mutant: where the stored coverage starts is not looked at.
CoveringAny(q) == IF since = None THEN 0 ELSE TierBucket(q.u - q.s, q.limit, q.forced)

\* _covering_tier
Covering(q) == IF since = None \/ q.s < since THEN 0 ELSE TierBucket(q.u - q.s, q.limit, q.forced)

\* The grid's buckets are numbered from the epoch; what falls outside counts
\* in the first or the last.
Numbered(b, t) == (t * b.den) \div b.num
Grid(q, b) ==
  LET first == Numbered(b, q.s) IN first..Most(first, CeilDiv(q.u * b.den, b.num) - 1)
Index(g, b, t) ==
  LET i == Numbered(b, t) IN IF i \in g THEN i ELSE Most(Min(g), Least(i, Max(g)))

Counted(g, b, ws) == [i \in g |-> Cardinality({w \in ws : Index(g, b, w.start) = i})]
Weighed(g, b, rs) ==
  [i \in g |-> FoldSet(LAMBDA r, n : n + r.n, 0, {r \in rs : Index(g, b, r.bucket) = i})]
Folds(q, b, ws, rs) ==
  LET g == Grid(q, b)
      raw == Counted(g, b, ws)
      stored == Weighed(g, b, rs)
  IN [i \in g |-> raw[i] + stored[i]]

\* Raw windows are read from the end of the newest stored period.
CoverEnd(used, lo, hi) ==
  IF used = {} THEN lo ELSE Least(hi, Max({r.bucket : r \in used}) + Level)

\* _fold_tiered: stored periods, and windows before and after them.
FoldTiered(q, b) ==
  LET lo == NextBucket(q.s)
      hi == Most(lo, Bucket(q.u))
      used == {r \in tiers : r.tune \in q.ts /\ r.bucket \in lo..(hi - 1)}
      after == Most(CoverEnd(used, lo, hi), Most(lo, q.s))
  IN Folds(q, b, In(q.ts, q.s, Least(lo, q.u)) \cup In(q.ts, after, q.u), used)

\* query_avg_waterfall and query_avg_stats: how many windows each bucket
\* counts, or each window by its start when they are few.
DisplayBucket(q) ==
  CASE Covering(q) # 0 -> [num |-> Covering(q), den |-> 1]
    [] Covering(q) = 0 /\ q.forced # 0 -> [num |-> q.forced, den |-> 1]
    [] OTHER -> [num |-> q.u - q.s, den |-> q.limit]
AsRaw(q) == q.forced = 0 /\ Cardinality(In(q.ts, q.s, q.u)) <= q.limit
Answer(q) ==
  CASE AsRaw(q) -> [t \in {w.start : w \in In(q.ts, q.s, q.u)} |-> 1]
    [] ~AsRaw(q) /\ Covering(q) # 0 -> FoldTiered(q, DisplayBucket(q))
    [] OTHER -> Folds(q, DisplayBucket(q), In(q.ts, q.s, q.u), {})

\* For tunings there are windows of: another selects neither rows nor sums.
Requests ==
  {q \in [ts : SUBSET (Tunings \cap {w.tune : w \in rows}) \ {{}},
         s : Min({0} \cup {w.start : w \in rows})..now, u : {now - 1, now + 1},
         limit : Limits, forced : Buckets] :
     q.s < q.u}

----------------------------------------------------------------------------
(* Properties                                                              *)

TypeOK ==
  /\ now \in 0..MaxNow /\ up \in {"up", "stopping", "down"}
  /\ job \in {"none", "row", "tier"}
  /\ Len(queue) <= QueueMax + 1
  /\ acc.n > 0 => clock.start # None /\ clock.got

AllWindows == rows \cup {queue[i] : i \in DOMAIN queue}

\* The windows tile the timeline: none begins before the one before it has
\* ended, and none reaches back over an outage, whatever retunes, pauses,
\* stops and restarts come between (_AvgWindowClock: "consecutive windows tile
\* the timeline", "it never spans an outage").
WindowsTile ==
  /\ \A v, w \in AllWindows : v # w => v.end <= w.start \/ w.end <= v.start
  /\ ~clock.stale

\* A minute that both marks enclose counts every window stored in it, then
\* and later: nothing lands in a minute after the rollup has passed it.
MinuteIsWhole ==
  newest # None =>
    \A m \in Minutes :
      m < newest /\ m >= (IF oldest = None THEN newest ELSE oldest)
        => minutes[m] = Cardinality(InMinute(m))

\* Windows tile the time they cover, and a minute holds all of its windows and
\* nothing else (streaming.py, rollup.py).
WindowsAndMinutesAreWhole == TypeOK /\ WindowsTile /\ MinuteIsWhole

\* An aggregated request counts each window in the bucket its start is in,
\* at every moment between a row's insert, its tier's sum and the tier's row,
\* and whatever part of the range comes from tiers.  Once a write of the tiers
\* broke off it may miss windows; it counts one twice only in a period whose
\* rows the store's own retry merged twice (database.py:876-877 keeps the sums
\* out of the row's guarded write, "whose retry would otherwise count the
\* window twice").
ChartIsWhole ==
  since # None =>
  \A q \in Requests :
    LET a == Answer(q)
        stored == In(q.ts, q.s, q.u)
        counts(i) == Cardinality({w \in stored : Numbered(DisplayBucket(q), w.start) = i})
    IN IF AsRaw(q) THEN Cardinality(DOMAIN a) = Cardinality(stored)
       ELSE /\ \A i \in DOMAIN a :
                 \/ a[i] <= counts(i)
                 \/ \E d \in doubled : d.tune \in q.ts /\ Numbered(DisplayBucket(q), d.bucket) = i
            /\ ~inexact => \A i \in DOMAIN a \cup {Numbered(DisplayBucket(q), w.start) : w \in stored} :
                             i \in DOMAIN a /\ a[i] = counts(i)

\* The rollup catches up: in the end every window whose minute has closed is
\* between the marks, backfill included.
RollupCatchesUp ==
  "peaks" \in happens => <>[](\A w \in rows : MinuteOf(w.start) < MinuteOf(MaxNow - Lag) =>
         newest # None /\ MinuteOf(w.start) < newest
         /\ oldest # None /\ MinuteOf(w.start) >= oldest)

=============================================================================
