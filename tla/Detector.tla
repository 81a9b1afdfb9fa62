------------------------------ MODULE Detector ------------------------------
(***************************************************************************)
(* Rolling burst detection (processing/rolling_burst.py) over the bursts   *)
(* that processing/burst.py finds in one window of PSD rows.               *)
(*                                                                         *)
(* A row holds a power per channel.  Channels stand for groups of bins too *)
(* far apart to touch, to be merged or to be matched, so a connected       *)
(* component is a run of rows of one channel.  A cell counts by its power  *)
(* above the channel's floor, which is the median (the default of          *)
(* BURST_NOISE_FLOOR_PERCENTILE) of the very window that is judged.        *)
(* Positions are in rows: slice_samples is one.                            *)
(***************************************************************************)
EXTENDS Integers, Sequences, FiniteSets, FiniteSetsExt, SequencesExt

CONSTANTS
  Channels,   \* a set of integers
  Levels,     \* the powers of a cell, in dB; 0 is the noise
  High,       \* threshold_high_db
  Low,        \* threshold_low_db
  Window,     \* BURST_WINDOW_ROWS
  Interval,   \* BURST_EVAL_INTERVAL_ROWS
  ChunkRows,  \* rows of one grid
  Margin,     \* margin_rows
  Slack,      \* rows of gap that still match a track
  Merge,      \* merge_time_sec
  MinRows,    \* min_duration_sec
  MaxChunks,  \* bound on the grids of a behaviour
  MaxPulses,  \* bound on the rising edges of a behaviour
  MaxDrops    \* bound on the chunks lost between two grids

None == -1

VARIABLES
  sig,      \* the rows fed so far; the detector keeps the last Window of them
  pos,      \* the stream position of each row (_row_pos keeps 2 * Window)
  since,    \* _rows_since_eval
  evals,    \* _eval_count
  base,     \* _eval_base_abs
  tracks,   \* _tracked
  emitted   \* the fingerprints returned so far

vars == <<sig, pos, since, evals, base, tracks, emitted>>

\* Absolute rows count from 0, as in the code.
Level(s, r, c) == s[r + 1][c]
BiggerOf(a, b) == IF a >= b THEN a ELSE b
SmallerOf(a, b) == IF a <= b THEN a ELSE b

-----------------------------------------------------------------------------
(* detect_bursts on the rows lo .. hi - 1.                                 *)

\* compute_noise_floor: the median of each channel over the window's rows, twice
\* as much so that the mean of the middle two is an integer.
Ranked(s, lo, hi, c, n) ==
  Min({v \in Levels : Cardinality({r \in lo..(hi - 1) : Level(s, r, c) <= v}) >= n})

TwiceFloor(s, lo, hi, c) ==
  Ranked(s, lo, hi, c, (hi - lo + 1) \div 2) + Ranked(s, lo, hi, c, (hi - lo) \div 2 + 1)

Above(s, r, c, twice, threshold) == 2 * Level(s, r, c) > twice + 2 * threshold

\* The components of a channel's low mask that hold a high cell.
LastOf(s, r, c, hi, twice) == Min({q \in r..hi : q = hi \/ ~Above(s, q, c, twice, Low)}) - 1

ComponentsOver(s, lo, hi, c, twice) ==
  LET starts == {r \in lo..(hi - 1) :
                   Above(s, r, c, twice, Low) /\ (r = lo \/ ~Above(s, r - 1, c, twice, Low))}
      runs == {[ch |-> c, first |-> r, last |-> LastOf(s, r, c, hi, twice)] : r \in starts}
  IN {k \in runs : \E r \in k.first..k.last : Above(s, r, c, twice, High)}

Components(s, lo, hi) ==
  UNION {ComponentsOver(s, lo, hi, c, TwiceFloor(s, lo, hi, c)) : c \in Channels}

\* The end is exclusive, but no later than the window's last row.
Span(k, hi) == [ch |-> k.ch, start |-> k.first, end |-> SmallerOf(k.last + 1, hi - 1)]

Fingerprints(s, lo, hi) ==
  {b \in {Span(k, hi) : k \in Components(s, lo, hi)} : b.end - b.start >= MinRows}

ByStart(a, b) == a.start < b.start \/ (a.start = b.start /\ a.ch < b.ch)

\* _merge_bursts: each burst against the one before it, whatever its channel.
MergeInto(done, b) ==
  IF done # <<>> /\ Last(done).ch = b.ch /\ b.start - Last(done).end <= Merge
  THEN Append(Front(done), [Last(done) EXCEPT !.end = BiggerOf(@, b.end)])
  ELSE Append(done, b)

Detected(s, lo, hi) ==
  FoldLeft(MergeInto, <<>>, SetToSortSeq(Fingerprints(s, lo, hi), ByStart))

-----------------------------------------------------------------------------
(* The tracker.                                                            *)

\* Mutant: a burst that was emitted is not matched any more.
MatchesNew(t, b) ==
  t.ch = b.ch /\ b.start <= t.end + Slack /\ b.end >= t.start - Slack /\ ~t.emitted

Matches(t, b) == t.ch = b.ch /\ b.start <= t.end + Slack /\ b.end >= t.start - Slack

Growing(b, hi) == b.end >= hi - Margin

Widened(t, b, n, hi) ==
  [t EXCEPT !.start = SmallerOf(@, b.start), !.end = BiggerOf(@, b.end),
            !.seen = n, !.growing = Growing(b, hi)]

\* _absorb: into the first track that matches, or a new one.
Absorb(ts, b, n, hi) ==
  LET fit == {i \in 1..Len(ts) : Matches(ts[i], b)}
  IN IF fit # {} THEN [ts EXCEPT ![Min(fit)] = Widened(@, b, n, hi)]
     ELSE Append(ts, [ch |-> b.ch, start |-> b.start, end |-> b.end, seen |-> n,
                      growing |-> Growing(b, hi), emitted |-> FALSE])

ScrolledOut(t, lo) == t.end < lo

Finished(t, n, lo) == ~t.emitted /\ ((t.seen = n /\ ~t.growing) \/ ScrolledOut(t, lo))

\* Where the rows of a track are in the stream, while the ring has them.
Positions(t, p) ==
  IF t.start >= Len(p) - 2 * Window /\ t.end - 1 >= t.start /\ p[t.end] >= p[t.start + 1]
  THEN <<p[t.start + 1], p[t.end] + 1>> ELSE <<None, None>>

ToFingerprint(t, p) ==
  [ch |-> t.ch, start |-> t.start, end |-> t.end, at |-> Len(p), samples |-> Positions(t, p)]

\* _evaluate and _collect_finished.
Evaluate(s, p) ==
  LET hi == Len(s)
      lo == BiggerOf(0, hi - Window)
      n == evals + 1
      ts == FoldLeft(LAMBDA acc, b : Absorb(acc, b, n, hi), tracks, Detected(s, lo, hi))
      ready == SelectSeq(ts, LAMBDA t : Finished(t, n, lo))
      marked == [i \in 1..Len(ts) |-> [ts[i] EXCEPT !.emitted = @ \/ Finished(ts[i], n, lo)]]
  IN /\ evals' = n /\ base' = lo
     /\ emitted' = emitted \o [i \in 1..Len(ready) |-> ToFingerprint(ready[i], p)]
     /\ tracks' = SelectSeq(marked, LAMBDA t : ~ScrolledOut(t, lo))

-----------------------------------------------------------------------------
Init ==
  /\ sig = <<>> /\ pos = <<>> /\ since = 0 /\ evals = 0 /\ base = None
  /\ tracks = <<>> /\ emitted = <<>>

Edges(s) ==
  Cardinality({<<r, c>> \in (1..Len(s)) \X Channels :
                 s[r][c] > 0 /\ (r = 1 \/ s[r - 1][c] = 0)})

\* feed: the rows of one grid.  Chunks may have been lost before it: their
\* positions are missing, their rows are not.
Feed ==
  /\ Len(sig) < ChunkRows * MaxChunks
  /\ \E rows \in [1..ChunkRows -> [Channels -> Levels]], lost \in 0..MaxDrops :
       LET s == sig \o rows
           from == IF pos = <<>> THEN 0 ELSE Last(pos) + 1 + lost * ChunkRows
           p == pos \o [i \in 1..ChunkRows |-> from + i - 1]
       IN /\ Edges(s) <= MaxPulses
          /\ lost > 0 => pos # <<>> /\ Last(pos) = Len(pos) - 1
          /\ sig' = s /\ pos' = p
          /\ IF since + ChunkRows >= Interval /\ Len(s) >= Interval
             THEN since' = 0 /\ Evaluate(s, p)
             ELSE since' = since + ChunkRows /\ UNCHANGED <<evals, base, tracks, emitted>>

Next == Feed

Spec == Init /\ [][Next]_vars

-----------------------------------------------------------------------------
\* The bursts that were really there, over all rows fed and over the noise.
Bursts == UNION {ComponentsOver(sig, 0, Len(sig), c, 0) : c \in Channels}

\* No other burst of its channel comes close enough to be joined with it.
Lone(k, bursts) ==
  \A o \in bursts : o # k /\ o.ch = k.ch =>
    \/ o.first - (k.last + 1) > BiggerOf(Merge, Slack)
    \/ k.first - (o.last + 1) > BiggerOf(Merge, Slack)

\* The end of the window of the last evaluation.
EvaluatedTo == IF base = None THEN 0 ELSE Len(sig) - since

\* The windows evaluated so far: every Interval rows, or the first grid after that.
Windows ==
  LET step == ChunkRows * ((Interval + ChunkRows - 1) \div ChunkRows)
  IN {<<BiggerOf(0, n * step - Window), n * step>> : n \in 1..(EvaluatedTo \div step)}

\* Fewer than half of the window's rows are above the noise there, so the noise is
\* the floor.
NoiseIsFloor(c, w) ==
  2 * Cardinality({r \in w[1]..(w[2] - 1) : Level(sig, r, c) > 0}) < w[2] - w[1]

\* No window it was judged in is filled to half.
Sparse(k) ==
  \A w \in Windows : k.first < w[2] /\ w[1] <= k.last => NoiseIsFloor(k.ch, w)

\* A floor that moves cuts a channel's bursts all alike, or does not move.
Even(c) ==
  \/ Cardinality({Level(sig, r, c) : r \in 0..(Len(sig) - 1)} \ {0}) <= 1
  \/ \A w \in Windows : NoiseIsFloor(c, w)

EmittedAs(k) == {i \in 1..Len(emitted) : emitted[i].ch = k.ch
                   /\ emitted[i].start <= k.last /\ emitted[i].end > k.first}

\* A burst is emitted exactly once: no two emissions of a channel overlap, unless
\* the strong rows of an uneven burst were found alone under a floor it raised.
EmittedOnce ==
  \A i, j \in 1..Len(emitted) :
    i # j /\ emitted[i].ch = emitted[j].ch /\ Even(emitted[i].ch)
      => emitted[i].end <= emitted[j].start \/ emitted[j].end <= emitted[i].start

\* A lone burst is emitted at its full extent, at the first evaluation that
\* finds it clear of the newest rows, however many evaluations it crosses (module
\* docstring), unless it fills half of a window and so becomes the floor there.
LoneBurstIsWhole ==
  LET bursts == Bursts IN \A k \in bursts :
    (/\ Lone(k, bursts) /\ Sparse(k) /\ k.last - k.first + 1 >= MinRows
     /\ k.last + 1 < EvaluatedTo - Margin
     /\ \A r \in k.first..k.last : Level(sig, r, k.ch) > High)
    => \E i \in 1..Len(emitted) :
         /\ EmittedAs(k) = {i}
         /\ emitted[i].start = k.first /\ emitted[i].end = k.last + 1

\* The samples of an emission are those of its first and its last row, also
\* when chunks were lost and when it is longer than the rows kept.
SamplesAreItsRows ==
  \A i \in 1..Len(emitted) :
    LET e == emitted[i]
    IN \/ e.samples = <<None, None>>
       \/ e.samples = <<pos[e.start + 1], pos[e.end] + 1>>

\* Types: a track is a stretch of rows that were fed, some of them in the window
\* of the last evaluation.
TypeOK ==
  /\ sig \in Seq([Channels -> Levels]) /\ Len(pos) = Len(sig)
  /\ since \in 0..(Interval + ChunkRows) /\ evals \in Nat /\ base \in {None} \cup 0..Len(sig)
  /\ \A i \in 1..Len(tracks) :
       /\ tracks[i].ch \in Channels /\ tracks[i].seen \in 1..evals
       /\ 0 <= tracks[i].start /\ tracks[i].start < tracks[i].end /\ tracks[i].end <= Len(sig)
       /\ tracks[i].end >= base
=============================================================================
