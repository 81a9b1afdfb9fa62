----------------------------- MODULE RunCutter -----------------------------
(***************************************************************************)
(* One scheduled run cut out of the live stream to the sample              *)
(* (schedules/cutter.py), and its PSD rows placed by the file's samples    *)
(* (schedules/engine.py, on_grid).  A stream position counts received      *)
(* samples, a time counts every sample there was: the receiver may lose    *)
(* some before or inside a chunk, and the cutter may miss chunks.  The     *)
(* file must have one entry per time all the same.                         *)
(***************************************************************************)
EXTENDS Integers, Sequences, FiniteSets, FiniteSetsExt, SequencesExt

CONSTANTS
  Lives,       \* the behaviours to explore: sets of what may happen
  Starts,      \* requested starts, on the host's clock
  Samples,     \* n_samples of the run
  ChunkLen,    \* samples in a chunk
  Slice,       \* samples in a PSD row
  GapLists,    \* receive gaps a chunk may have: sequences of [off, lost], by off
  RingLen,     \* samples in the ring
  MaxChunks,   \* bound: chunks received
  MaxLag       \* bound: chunks whose PSD rows have not arrived

VARIABLES
  happens,  \* what may happen in this behaviour
  start,    \* the requested start
  times,    \* stream position + 1 -> the time of that sample
  now,      \* the time of the next sample to come
  clock,    \* how far the host's clock is ahead of the samples' time
  began,    \* the file's first sample should have this time, -1 before
  lostNear, \* history: positions before which samples were lost, before the run began
  unfed,    \* history: positions of the chunks that never reached the begun run
  cut,      \* the RunCutter
  file,     \* the samples written: a stream position, or Zero
  refused,  \* the file's indexes the writer refused for its byte budget
  grids,    \* stream positions of the chunks whose PSD rows are on their way
  act       \* the engine's _Active of the run

worldVars == <<happens, start>>
histVars == <<began, lostNear, unfed>>
vars == <<worldVars, times, now, clock, histVars, cut, file, refused, grids, act>>

Zero == -1
May(x) == x \in happens
Smaller(a, b) == IF a < b THEN a ELSE b
Larger(a, b) == IF a > b THEN a ELSE b
SumLost(gs) == FoldSeq(LAMBDA g, n: g.lost + n, 0, gs)

Init ==
  /\ happens \in Lives /\ start \in Starts
  /\ times = <<>> /\ now = 0 /\ clock = 0 /\ began = -1 /\ lostNear = {} /\ unfed = {}
  /\ cut = [started |-> FALSE, done |-> FALSE, ended |-> FALSE, written |-> 0, nextPos |-> 0, gaps |-> <<>>,
            lost |-> 0, streamStart |-> -1, breaks |-> <<>>, zeros |-> 0, ops |-> <<>>]
  /\ file = <<>> /\ refused = {} /\ grids = <<>>
  /\ act = [firstChunk |-> -1, seen |-> 0, offset |-> -1, rows |-> 0,
             pending |-> {}, out |-> <<>>, closed |-> FALSE]

-----------------------------------------------------------------------------
(* The cutter: what feed adds to the file.                                 *)

Room(c) == Samples - c.written
CheckDone(c) == [c EXCEPT !.done = @ \/ c.written >= Samples]

\* _iq: stream samples from..upTo-1, as many as there is room for.
Iq(c, from, upTo) ==
  LET k == Smaller(upTo - from, Room(c))
  IN CheckDone(IF k =< 0 THEN c
               ELSE [c EXCEPT !.ops = Append(@, [kind |-> "iq", from |-> from, n |-> k]), !.written = @ + k])

\* The list of zero-filled stretches, a contiguous one lengthened.
Listed(gaps, at, k) ==
  IF gaps # <<>> /\ Last(gaps).at + Last(gaps).n = at
  THEN [gaps EXCEPT ![Len(gaps)].n = @ + k]
  ELSE Append(gaps, [at |-> at, n |-> k])

\* _zeros: they stand for samples lost before stream position pos, or for stream
\* positions that were skipped and move the file and the stream alike.
Zeros(c, count, pos, shifts) ==
  LET k == Smaller(count, Room(c))
      total == c.zeros + k
      filled == [c EXCEPT !.ops = Append(@, [kind |-> "zeros", from |-> pos, n |-> k]), !.written = @ + k,
                          !.gaps = Listed(@, c.written, k), !.lost = @ + k]
  IN CheckDone(IF k =< 0 THEN c
               ELSE IF shifts
                THEN [filled EXCEPT !.zeros = total, !.breaks = Append(@, [pos |-> pos, zeros |-> total])]
               ELSE filled)

\* _split: the samples lost before the chunk's first one, and the gaps inside.
Before(gaps) == SumLost(SelectSeq(gaps, LAMBDA g: g.off =< 0))
Inner(gaps) == SelectSeq(gaps, LAMBDA g: g.off > 0)

\* _chunk: the chunk's samples from an offset on, zeros for the gaps after it.
ChunkFrom(c, pos, from, inner) ==
  LET gs == SelectSeq(inner, LAMBDA g: g.off > from)
      upTo[i \in 0..Len(gs)] ==
        IF i = 0 THEN [c |-> c, at |-> from]
        ELSE LET before == upTo[i - 1]
                 read == Iq(before.c, pos + before.at, pos + gs[i].off)
             IN [c |-> Zeros(read, gs[i].lost, pos + gs[i].off, TRUE), at |-> gs[i].off]
      end == upTo[Len(gs)]
  IN Iq(end.c, pos + end.at, pos + ChunkLen)

\* _place: where the sample `target` after the chunk's first one in time is:
\* an offset, and the zeros to write first when it falls inside a gap.
Place(target, inner) ==
  LET lostBefore(i) == SumLost(SubSeq(inner, 1, i - 1))
      reached == {i \in DOMAIN inner : target >= inner[i].off + lostBefore(i)}
      inside == {i \in reached : target < inner[i].off + lostBefore(i) + inner[i].lost}
      passed == SumLost(SubSeq(inner, 1, Cardinality(reached)))
  IN IF inside # {}
     THEN LET i == CHOOSE i \in inside : TRUE
          IN [off |-> inner[i].off, head |-> inner[i].off + lostBefore(i) + inner[i].lost - target]
     ELSE [off |-> Smaller(target - passed, ChunkLen), head |-> 0]

Oldest(pos) == Larger(0, pos + ChunkLen - RingLen)

\* The start is older than the chunk: read back from the ring, zeros for what it
\* no longer has.  Gaps logged before earlier chunks are not known here.
FromRing(c, pos, target, gaps) ==
  LET p0 == pos + target + Before(gaps)
      begin == Larger(p0, Smaller(Oldest(pos), pos))
      late == Zeros([c EXCEPT !.streamStart = begin], begin - p0, begin, TRUE)
      read == Iq(late, begin, pos)
  IN ChunkFrom(Zeros(read, Before(gaps), pos, TRUE), pos, 0, Inner(gaps))

\* _begin: the first chunk that reaches the requested start places it.
Begin(c, pos, captured, gaps) ==
  LET target == start - captured
      place == Place(target, Inner(gaps))
      begun == [c EXCEPT !.started = TRUE, !.nextPos = pos + ChunkLen]
  IN CASE target >= ChunkLen + SumLost(Inner(gaps)) -> c
       [] target >= 0 /\ target < ChunkLen + SumLost(Inner(gaps)) ->
            ChunkFrom(Zeros([begun EXCEPT !.streamStart = pos + place.off], place.head, pos + place.off, TRUE),
                      pos, place.off, Inner(gaps))
       [] target < 0 /\ target + Before(gaps) >= 0 ->
            ChunkFrom(Zeros([begun EXCEPT !.streamStart = pos], -target, pos, TRUE), pos, 0, Inner(gaps))
       [] OTHER -> FromRing(begun, pos, target, gaps)

\* A started run goes on by stream position: zeros for positions that never
\* reached the cutter and for the samples lost before the chunk.
BeforeIgnored(c, pos, gaps) == Zeros(c, pos - c.nextPos, pos, FALSE)
GoesOn(c, pos, gaps) == Zeros(Zeros(c, pos - c.nextPos, pos, FALSE), Before(gaps), pos, TRUE)

Feed(c, pos, captured, gaps) ==
  IF c.done THEN c
  ELSE IF ~c.started THEN Begin(c, pos, captured, gaps)
  ELSE [ChunkFrom(GoesOn(c, pos, gaps), pos, 0, Inner(gaps)) EXCEPT !.nextPos = pos + ChunkLen]

\* The file index of a stream position, and the position after the file's last.
FileIndex(c, pos) ==
  LET fills == {i \in DOMAIN c.breaks : c.breaks[i].pos =< pos}
  IN pos - c.streamStart + (IF fills = {} THEN 0 ELSE c.breaks[Cardinality(fills)].zeros)
StreamEnd(c) == c.streamStart + c.written - c.zeros

-----------------------------------------------------------------------------
(* The receiver.                                                           *)

\* The times of a chunk's samples: its gaps push the later ones out.
TimesOf(gaps) ==
  [i \in 1..ChunkLen |-> now + (i - 1) + SumLost(SelectSeq(gaps, LAMBDA g: g.off =< i - 1))]

\* What put_ops writes of the ops: a refused iq op becomes zeros.
Written(ops, refuse) ==
  FoldLeft(LAMBDA f, op:
             f \o [i \in 1..op.n |-> IF op.kind = "iq" /\ ~refuse THEN op.from + i - 1 ELSE Zero], <<>>, ops)
RefusedIn(ops, refuse) ==
  IF ~refuse THEN {}
  ELSE {i \in (Len(file) + 1)..(Len(file) + Len(Written(ops, TRUE))) :
          Written(ops, FALSE)[i - Len(file)] # Zero}

\* A chunk: to the ring, and to the engine unless on_chunk failed before it fed
\* this run ("skips").  The run may be added after the stream began ("joins").
Chunk(gaps, fed, refuse) ==
  LET pos == Len(times)
      captured == TimesOf(gaps)[1] + clock
      c == IF fed THEN Feed([cut EXCEPT !.ops = <<>>], pos, captured, gaps) ELSE cut
      begins == c.started /\ ~cut.started
  IN /\ times' = times \o TimesOf(gaps)
     /\ now' = now + ChunkLen + SumLost(gaps)
     /\ cut' = c
     /\ began' = IF begins THEN start - clock ELSE began
     /\ file' = IF fed THEN file \o Written(c.ops, refuse) ELSE file
     /\ refused' = IF fed THEN refused \cup RefusedIn(c.ops, refuse) ELSE refused
     /\ act' = [act EXCEPT !.firstChunk = IF begins THEN pos ELSE @]
     /\ lostNear' = IF c.started THEN lostNear ELSE lostNear \cup {pos + gaps[i].off : i \in DOMAIN gaps}
     /\ unfed' = IF ~fed /\ cut.started THEN unfed \cup {pos} ELSE unfed
     /\ grids' = Append(grids, pos)

RxChunk ==
  /\ Len(times) < MaxChunks * ChunkLen /\ Len(grids) < MaxLag /\ ~act.closed
  /\ \E gaps \in GapLists, fed \in BOOLEAN, refuse \in BOOLEAN :
       /\ gaps # <<>> => May("gaps") /\ (fed \/ May("unseen gaps"))
       /\ ~fed => (cut.started /\ May("skips")) \/ (~cut.started /\ May("joins"))
       /\ refuse => May("disk")
       /\ Chunk(gaps, fed, refuse)
  /\ UNCHANGED <<worldVars, clock>>

ClockSteps ==
  /\ May("steps") /\ clock = 0 /\ times # <<>>
  /\ clock' = 2
  /\ UNCHANGED <<worldVars, times, now, histVars, cut, file, refused, grids, act>>

\* Stopped or retuned: nothing is padded.
EndRun ==
  /\ May("ends") /\ cut.started /\ ~cut.done
  /\ cut' = [cut EXCEPT !.done = TRUE, !.ended = TRUE, !.ops = <<>>]
  /\ UNCHANGED <<worldVars, times, now, clock, histVars, file, refused, grids, act>>

-----------------------------------------------------------------------------
(* The PSD rows, on the dispatch thread.                                   *)

\* Python's round(): halves to even.
Round(n, d) ==
  LET q == n \div d
      r == 2 * (n % d)
  IN IF r > d \/ (r = d /\ q % 2 = 1) THEN q + 1 ELSE q
Ceil(n, d) == -((-n) \div d)

RowsEnd == IF cut.done THEN StreamEnd(cut) ELSE cut.streamStart + Samples

\* trim_grid_rows: the rows of the chunk wholly inside the run.
RowsInside(pos) ==
  {p \in {pos + k * Slice : k \in 0..((ChunkLen \div Slice) - 1)} : p >= cut.streamStart /\ p + Slice =< RowsEnd}

Offset == IF act.offset = -1
          THEN FileIndex(cut, act.firstChunk + Ceil(cut.streamStart - act.firstChunk, Slice) * Slice)
          ELSE act.offset

\* The number of the row that begins at a stream position, by its place in the file.
RowInStream(p) == Round(p - cut.streamStart, Slice)
RowAt(p) == Round(FileIndex(cut, p) - Offset, Slice)
Fits(r) == r >= act.rows /\ r < (Samples - Offset) \div Slice

\* Rows between this one and the one before it in the stream cover zeros.
HolesBefore(p) ==
  IF p - Slice < cut.streamStart THEN {} ELSE {r \in (RowAt(p - Slice) + 1)..(RowAt(p) - 1) : Fits(r)}

Filler(r) == [row |-> r, pos |-> Zero]
Holds(pending, r) == \E w \in pending : w.row = r
Placed(pos) ==
  LET ps == {p \in RowsInside(pos) : Fits(RowAt(p))}
      last == {p \in ps : \A q \in ps : RowAt(q) = RowAt(p) => q =< p}
      holes == {r \in UNION {HolesBefore(p) : p \in RowsInside(pos)} : ~Holds(act.pending, r)}
      rows == {[row |-> RowAt(p), pos |-> p] : p \in last}
      kept == {w \in act.pending \cup {Filler(r) : r \in holes} : ~Holds(rows, w.row)}
  IN kept \cup rows

\* The rows next in order go to the writer; at the end, fillers up to the last
\* one held.
Flush(a, final) ==
  LET held == {w.row : w \in a.pending}
      upTo == IF final /\ held # {} THEN Max(held) + 1
              ELSE CHOOSE r \in a.rows..(a.rows + Cardinality(held)) : r \notin held /\ a.rows..(r - 1) \subseteq held
      posOf(r) == IF r \in held THEN (CHOOSE w \in a.pending : w.row = r).pos ELSE Zero
  IN [a EXCEPT !.out = @ \o [i \in 1..(upTo - a.rows) |-> posOf(a.rows + i - 1)],
               !.pending = {w \in @ : w.row >= upTo},
               !.rows = upTo]

OnGrid ==
  /\ grids # <<>>
  /\ grids' = Tail(grids)
  /\ \/ May("no rows") /\ UNCHANGED act
     \/ act' = IF act.closed \/ cut.streamStart = -1 \/ act.firstChunk = -1 THEN act
               ELSE LET seen == [act EXCEPT !.seen = Larger(@, Head(grids) + ChunkLen), !.offset = Offset]
                    IN Flush([seen EXCEPT !.pending = Placed(Head(grids))], FALSE)
  /\ UNCHANGED <<worldVars, times, now, clock, histVars, cut, file, refused>>

\* The run closes when its rows have come, or after GRID_WAIT_SEC.
Close ==
  /\ cut.done /\ ~act.closed
  /\ \/ act.seen >= StreamEnd(cut) /\ act.pending = {}
     \/ May("no rows")
  /\ act' = [Flush(act, TRUE) EXCEPT !.closed = TRUE]
  /\ UNCHANGED <<worldVars, times, now, clock, histVars, cut, file, refused, grids>>

Next == RxChunk \/ ClockSteps \/ EndRun \/ OnGrid \/ Close
Spec == Init /\ [][Next]_vars

-----------------------------------------------------------------------------
Received(t) == {p \in 0..(Len(times) - 1) : times[p + 1] = t}
\* Read back from the ring across a gap logged before the chunk the run began in.
AcrossOldGap(p) == p < act.firstChunk /\ \E g \in lostNear : g > p
Unfed(p) == \E pos \in unfed : p \in pos..(pos + ChunkLen - 1)
Indexes(gaps) == UNION {(gaps[i].at + 1)..(gaps[i].at + gaps[i].n) : i \in DOMAIN gaps}

\* Entry i of the file is the sample whose time is i after the requested start,
\* by the clock the run began with, or a zero where that sample was lost, never
\* reached the run, had left the ring or was refused by the writer; the gaps
\* listed are the zeros, and an unfinished file reaches the stream's end
\* (RunCutter.feed).
FileIsTime ==
  /\ \A i \in DOMAIN file :
       LET t == began + i - 1
       IN IF file[i] # Zero THEN times[file[i] + 1] = t \/ AcrossOldGap(file[i])
          ELSE i \in refused \/ \A p \in Received(t) : p < cut.streamStart \/ Unfed(p) \/ AcrossOldGap(p)
  /\ {i \in DOMAIN file : file[i] = Zero} = Indexes(cut.gaps) \cup refused
  /\ cut.started /\ ~cut.done /\ (Len(times) - ChunkLen) \notin unfed => began + Len(file) = now

\* Row r of the run's PSD grid begins, to half a row, at the file sample its
\* offset says; a filler stands only for zeros in the file, unless rows were
\* lost; and when none were, every row of the stream inside the run is there
\* (_place_rows, _flush_rows).
RowsOnTheirSamples ==
  /\ \A i \in DOMAIN act.out :
       LET at == Offset + (i - 1) * Slice
           off == FileIndex(cut, act.out[i]) - at
       IN IF act.out[i] # Zero THEN 2 * off \in (-Slice)..Slice
          ELSE May("no rows") \/ \E z \in Indexes(cut.gaps) : z > at - Slice /\ z =< at + 2 * Slice
  /\ act.closed /\ act.firstChunk # -1 /\ ~May("no rows") =>
       \A pos \in {n * ChunkLen : n \in 0..(MaxChunks - 1)} :
         pos >= act.firstChunk /\ pos \notin {grids[i] : i \in DOMAIN grids} =>
         \A p \in RowsInside(pos) : RowAt(p) < (Samples - Offset) \div Slice =>
             \E i \in DOMAIN act.out : act.out[i] = p

\* Types: the file is no longer than the run, and the cutter counts its length
\* and its zeros.
TypeOK ==
  /\ happens \in Lives /\ start \in Starts /\ now \in Nat /\ clock \in Int
  /\ {cut.started, cut.done, cut.ended, act.closed} \subseteq BOOLEAN
  /\ cut.written = Len(file) /\ cut.written <= Samples
  /\ cut.zeros \in 0..cut.written /\ cut.lost \in Nat
  /\ \A i \in DOMAIN file : file[i] = Zero \/ file[i] \in 0..(Len(times) - 1)
  /\ refused \subseteq DOMAIN file /\ Len(grids) <= MaxLag
=============================================================================
