--------------------------- MODULE CaptureStream ---------------------------
(***************************************************************************)
(* What a recording holds: the IQ samples, the gaps and the PSD rows that  *)
(* pipeline/streaming.py puts into the files of one capture, taken from    *)
(* the receiver's stream by the receiver thread, a manual start on a web   *)
(* worker, the PSD workers and the dispatch thread, with the ring and the  *)
(* grid pre-buffer of capture/buffer.py.                                   *)
(*                                                                         *)
(* The state machine around it (refusals, holds, the writer thread) is     *)
(* module Recorder.  One capture is made; a sample is its ring and its     *)
(* position there.                                                         *)
(***************************************************************************)
EXTENDS Integers, Sequences, FiniteSets, FiniteSetsExt, SequencesExt

CONSTANTS
  Chunk,        \* _chunk_samples
  Slice,        \* _slice_samples; a grid has Chunk \div Slice rows
  Pre,          \* TRIGGER_PRE_SEC
  PreGrids,     \* grids the pre-buffer spans
  QueueMax,     \* the chunk queue
  MaxInflight,  \* twice the PSD workers
  GapsMax,      \* _MAX_RECORDED_GAPS
  Lost,         \* samples a receive gap may lose
  MaxChunks,    \* bound on the chunks of the first ring; the second has one less
  MaxGaps,      \* bound on the receive gaps of a behaviour
  MaxDrops,     \* bound on the chunks and rows a full recording queue refuses
  Scenarios     \* what may happen in one behaviour: sets of Occurrences

Occurrences ==
  {"lossless",     \* drop_on_overflow is off: offline replay
   "trigger",      \* the capture is fired by the trigger
   "manual",       \* it is started and stopped by hand
   "gaps",         \* the receiver reports lost samples
   "queue full",   \* the recording queue, or the RAM buffer, refuses a chunk
   "rows full",    \* it refuses rows
   "fault",        \* a PSD worker raises
   "slow",         \* the grids outlast _await_tail_grids
   "reconfigure"}

None == -1

ASSUME CaptureStreamAssumption ==
  /\ {Chunk, Slice, QueueMax, MaxInflight, GapsMax} \subseteq Nat \ {0}
  /\ Chunk % Slice = 0
  /\ {Pre, PreGrids, MaxChunks, MaxGaps, MaxDrops} \subseteq Nat
  /\ Lost \subseteq Nat \ {0}
  /\ Scenarios \subseteq SUBSET Occurrences

VARIABLES
  happens,
  ring, total,   \* the ring in use and its total_written
  log,           \* _stream_gaps of every ring: samples lost right before pos
  rx,            \* receiver: "recv", "ring", "check", "write", "stop", "lock", "begin", "put"
  lock,          \* who holds _rec_lock
  begin,         \* _begin_recording: "no", "drain", "place"
  pre,           \* the pre-roll it read
  rec,           \* "idle", "recording", "finalizing", "saved"
  file,          \* the samples of the .sc16
  gaps, lost,    \* _recording_gaps and _recording_lost
  truncated,     \* _recording_gaps_truncated
  dropped,       \* _recording_dropped
  recRing, nextPos, start, end,  \* _recording_ring, _next_pos, _start_sample, _end_sample
  accepting,     \* _grid_accepting
  rows,          \* the rows of the .psd
  lastRow,       \* _grid_last_sample
  prebuf,        \* grids of the pre-buffer
  chunkq, pending,  \* chunks on their way through the dispatch thread
  missed         \* history: chunks whose rows the recording will not get

streamVars == <<ring, total, log>>
fileVars == <<file, gaps, lost, truncated, dropped, recRing, nextPos, start, end>>
gridVars == <<accepting, rows, lastRow, prebuf>>
workVars == <<chunkq, pending>>
vars == <<happens, streamVars, rx, lock, begin, pre, rec, fileVars, gridVars, workVars, missed>>

Lossless == "lossless" \in happens

MayDrop == ~Lossless

NoPre == [ring |-> 1, from |-> 0, upto |-> 0]

Init ==
  /\ happens \in Scenarios
  /\ ring = 1 /\ total = 0 /\ log = {}
  /\ rx = "recv" /\ lock = "free" /\ begin = "no" /\ pre = NoPre /\ rec = "idle"
  /\ file = <<>> /\ gaps = <<>> /\ lost = 0 /\ truncated = FALSE /\ dropped = 0
  /\ recRing = 0 /\ nextPos = None /\ start = None /\ end = None
  /\ accepting = FALSE /\ rows = <<>> /\ lastRow = 0 /\ prebuf = <<>>
  /\ chunkq = <<>> /\ pending = <<>>
  /\ missed = {}

-----------------------------------------------------------------------------
(* Gaps.                                                                   *)

SumLost(S) == FoldSet(LAMBDA g, n : n + g.lost, 0, S)

\* One _add_recording_gap on the accounts a = [gaps, lost, truncated]: entries
\* at one index merge, and the list is bounded but the total is not.
AddGap(a, index, n) ==
  IF index <= 0 \/ n <= 0 THEN a
  ELSE IF a.gaps # <<>> /\ Last(a.gaps)[1] = index
  THEN [a EXCEPT !.lost = @ + n, !.gaps = Append(Front(a.gaps), <<index, Last(a.gaps)[2] + n>>)]
  ELSE IF Len(a.gaps) < GapsMax
  THEN [a EXCEPT !.lost = @ + n, !.gaps = Append(a.gaps, <<index, n>>)]
  ELSE [a EXCEPT !.lost = @ + n, !.truncated = TRUE]

InOrder(S) == SetToSortSeq(S, LAMBDA g, h : g.pos < h.pos)

AddGaps(a, offset, S) ==
  FoldLeft(LAMBDA acc, g : AddGap(acc, g.pos + offset, g.lost), a, InOrder(S))

Accounts == [gaps |-> gaps, lost |-> lost, truncated |-> truncated]

Between(r, lo, hi) == {g \in log : g.ring = r /\ lo <= g.pos /\ g.pos < hi}

SetAccounts(a) == gaps' = a.gaps /\ lost' = a.lost /\ truncated' = a.truncated

Samples(r, from, upto) == [i \in 1..(upto - from) |-> [ring |-> r, pos |-> from + i - 1]]

\* Mutant: what the file already holds is written again.
OverlapNone(at) == 0

\* Samples of the chunk at `at` the file already holds.
Overlap(at) == IF recRing = ring /\ nextPos # None /\ at < nextPos THEN nextPos - at ELSE 0

\* _write_recording_chunk for the chunk that ends at total: the part a manual
\* start's pre-roll already holds is skipped, a stretch that never reached the
\* file is one gap, and a chunk the queue refuses is one gap.
WriteChunk ==
  LET at == total - Chunk
      skip == Overlap(at)
      from == at + skip
      behind == recRing = ring /\ nextPos # None /\ nextPos < at
      a == IF behind
           THEN AddGap(Accounts, Len(file), at - nextPos + SumLost(Between(ring, nextPos, at)))
           ELSE Accounts
  IN IF skip >= Chunk THEN UNCHANGED fileVars
     ELSE /\ recRing' = ring
          /\ nextPos' = total
          /\ start' = IF start = None THEN from ELSE start
          /\ end' = end
          /\ \/ /\ file' = file \o Samples(ring, from, total) /\ dropped' = dropped
                /\ SetAccounts(AddGaps(a, Len(file) - from, Between(ring, from, total)))
             \/ /\ "queue full" \in happens /\ dropped < MaxDrops
                /\ file' = file /\ dropped' = dropped + 1
                /\ SetAccounts(AddGap(a, Len(file),
                     (total - from) + SumLost(Between(ring, from, total))))

-----------------------------------------------------------------------------
(* The receiver thread.                                                    *)

Logged(offset, n) == [ring |-> ring, pos |-> total + offset, lost |-> n]

\* A chunk comes in; its receive gaps are logged before the ring has it.
RxRecv ==
  /\ rx = "recv" /\ total < Chunk * (MaxChunks + 1 - ring)
  /\ \/ UNCHANGED log
     \/ /\ "gaps" \in happens /\ Cardinality(log) < MaxGaps
        /\ \E offset \in 0..(Chunk - 1), n \in Lost : log' = log \cup {Logged(offset, n)}
  /\ rx' = "ring"
  /\ UNCHANGED <<happens, ring, total, lock, begin, pre, rec, fileVars, gridVars, workVars, missed>>

RxRing ==
  /\ rx = "ring"
  /\ total' = total + Chunk /\ rx' = "check"
  /\ UNCHANGED <<happens, ring, log, lock, begin, pre, rec, fileVars, gridVars, workVars, missed>>

\* The state is read without the lock.
RxCheck ==
  /\ rx = "check"
  /\ rx' = IF rec = "recording" THEN "write" ELSE "lock"
  /\ UNCHANGED <<happens, streamVars, lock, begin, pre, rec, fileVars, gridVars, workVars, missed>>

\* The chunk is written, lock or no lock; then an auto-stop may apply.
RxWrite ==
  /\ rx = "write"
  /\ WriteChunk
  /\ rx' \in {"put", "stop"}
  /\ UNCHANGED <<happens, streamVars, lock, begin, pre, rec, gridVars, workVars, missed>>

\* _request_end_recording: only a capture in progress ends, and where its IQ
\* ends is frozen before the state flips.
RequestEnd ==
  IF rec = "recording" THEN end' = nextPos /\ rec' = "finalizing" ELSE UNCHANGED <<end, rec>>

RxStop ==
  /\ rx = "stop" /\ lock = "free"
  /\ RequestEnd /\ rx' = "put"
  /\ UNCHANGED <<happens, streamVars, lock, begin, pre, file, gaps, lost, truncated, dropped, recRing,
                 nextPos, start, gridVars, workVars, missed>>

\* Under the lock: a start came in between, or the trigger fires, or not.
RxLocked ==
  /\ rx = "lock" /\ lock = "free"
  /\ \/ rec = "recording" /\ WriteChunk /\ rx' = "put" /\ UNCHANGED <<lock, begin, pre>>
     \/ /\ rec = "idle" /\ "trigger" \in happens
        /\ rx' = "begin" /\ lock' = "rx" /\ begin' = "drain"
        /\ pre' = [ring |-> ring, from |-> Max({0, total - Pre}), upto |-> total]
        /\ UNCHANGED fileVars
     \/ rec # "recording" /\ rx' = "put" /\ UNCHANGED <<lock, begin, pre, fileVars>>
  /\ UNCHANGED <<happens, streamVars, rec, gridVars, workVars, missed>>

\* The chunk on to the dispatch thread: live it is dropped when the queue is
\* full, lossless the thread waits.  Then the top of the loop.
ThisChunk == [ring |-> ring, at |-> total - Chunk]

RxPut ==
  /\ rx = "put"
  /\ \/ Len(chunkq) < QueueMax /\ chunkq' = Append(chunkq, ThisChunk) /\ UNCHANGED missed
     \/ /\ Len(chunkq) = QueueMax /\ MayDrop
        /\ missed' = missed \cup {ThisChunk} /\ UNCHANGED chunkq
  /\ \/ rx' = "recv" /\ UNCHANGED <<ring, total, prebuf>>
     \/ /\ "reconfigure" \in happens /\ ring = 1
        /\ ring' = 2 /\ total' = 0 /\ prebuf' = <<>> /\ rx' = "recv"
  /\ UNCHANGED <<happens, log, lock, begin, pre, rec, fileVars, accepting, rows, lastRow,
                 pending>>

-----------------------------------------------------------------------------
(* _begin_recording, on the receiver thread or on a web worker, under the  *)
(* lock: the pre-roll is read, the grid pre-buffer is drained, the pre-roll*)
(* is placed and the state flips.                                          *)

WebStarts ==
  /\ "manual" \in happens /\ rec = "idle" /\ lock = "free"
  /\ lock' = "web" /\ begin' = "drain"
  /\ pre' = [ring |-> ring, from |-> Max({0, total - Pre}), upto |-> total]
  /\ UNCHANGED <<happens, streamVars, rx, rec, fileVars, gridVars, workVars, missed>>

\* The rows of a chunk that lie wholly inside [lo, hi) (trim_grid_rows).
TrimmedRows(c, lo, hi) ==
  SelectSeq([i \in 1..(Chunk \div Slice) |-> [ring |-> c.ring, at |-> c.at + (i - 1) * Slice]],
            LAMBDA r : lo <= r.at /\ r.at + Slice <= hi)

EndOfRows(rs) == Last(rs).at + Slice

\* Mutant: the newest grids are taken, whatever they cover.
DrainedByArrival == FlattenSeq([i \in 1..Len(prebuf) |-> TrimmedRows(prebuf[i], 0, prebuf[i].at + Chunk)])

Drained ==
  FlattenSeq([i \in 1..Len(prebuf) |-> TrimmedRows(prebuf[i], pre.from, prebuf[i].at + Chunk)])

BeginDrains ==
  /\ begin = "drain"
  /\ rows' = Drained /\ prebuf' = <<>> /\ end' = None
  /\ lastRow' = IF Drained = <<>> THEN 0 ELSE EndOfRows(Drained)
  /\ begin' = "place"
  /\ UNCHANGED <<happens, streamVars, rx, lock, pre, rec, file, gaps, lost, truncated, dropped, recRing,
                 nextPos, start, accepting, workVars, missed>>

\* _add_preroll_gaps (gaps inside the pre-roll, unless the ring was replaced)
\* and _anchor_recording.
BeginPlaces ==
  /\ begin = "place"
  /\ LET written == pre.upto - pre.from
         inside == IF pre.ring = ring THEN Between(pre.ring, pre.from + 1, pre.upto) ELSE {}
     IN /\ file' = Samples(pre.ring, pre.from, pre.upto)
        /\ SetAccounts(AddGaps([gaps |-> <<>>, lost |-> 0, truncated |-> FALSE], -pre.from, inside))
        /\ recRing' = pre.ring /\ dropped' = 0
        /\ nextPos' = IF written > 0 THEN pre.upto ELSE None
        /\ start' = IF written > 0 THEN pre.from ELSE None
  /\ accepting' = TRUE /\ rec' = "recording"
  /\ begin' = "no" /\ lock' = "free"
  /\ rx' = IF lock = "rx" THEN "put" ELSE rx
  /\ UNCHANGED <<happens, streamVars, pre, end, rows, lastRow, prebuf, workVars, missed>>

WebStops ==
  /\ "manual" \in happens /\ rec = "recording" /\ lock = "free"
  /\ RequestEnd
  /\ UNCHANGED <<happens, streamVars, rx, lock, begin, pre, file, gaps, lost, truncated, dropped, recRing,
                 nextPos, start, gridVars, workVars, missed>>

\* Mutant: it waits for a row past the last sample.
TailIsPast == rec = "finalizing" /\ (end = None \/ start = None \/ lastRow > end)

\* _await_tail_grids has seen the rows of the last sample, or gives up.
TailIsIn == rec = "finalizing" /\ (end = None \/ start = None \/ lastRow >= end)

Finalizes ==
  /\ \/ TailIsIn
     \/ rec = "finalizing" /\ "slow" \in happens
  /\ accepting' = FALSE /\ rec' = "saved"
  /\ UNCHANGED <<happens, streamVars, rx, lock, begin, pre, fileVars, rows, lastRow, prebuf,
                 workVars, missed>>

-----------------------------------------------------------------------------
(* The dispatch thread and the PSD workers.                                *)

\* GridPreBuffer.write: the oldest grids go, the new one stays.
Buffered(c) == SubSeq(Append(prebuf, c), Max({1, Len(prebuf) + 2 - PreGrids}), Len(prebuf) + 1)

\* _handle_chunk_result: a grid goes to the recording or to the pre-buffer.
Handle(c) ==
  IF accepting /\ start # None
  THEN LET hi == IF end = None THEN c.at + Chunk ELSE end
           new == TrimmedRows(c, start, hi)
       IN /\ UNCHANGED prebuf
          /\ \/ new = <<>> /\ UNCHANGED <<rows, lastRow, missed>>
             \/ new # <<>> /\ rows' = rows \o new /\ lastRow' = EndOfRows(new) /\ UNCHANGED missed
             \/ /\ new # <<>> /\ "rows full" \in happens
                /\ missed' = missed \cup {c} /\ UNCHANGED <<rows, lastRow>>
  ELSE /\ prebuf' = Buffered(c)
       /\ missed' = IF begin = "place" \/ rec = "saved" \/ rec = "recording" THEN missed \cup {c} ELSE missed
       /\ UNCHANGED <<rows, lastRow>>

HeadIsReady == pending # <<>> /\ Head(pending).state # "busy"

HandleHead ==
  /\ HeadIsReady
  /\ IF Head(pending).state = "done"
     THEN Handle(Head(pending).chunk)
     ELSE missed' = missed \cup {Head(pending).chunk} /\ UNCHANGED <<rows, lastRow, prebuf>>

\* Completed futures are collected in the order they were submitted.
DpCollects ==
  /\ HandleHead /\ pending' = Tail(pending)
  /\ UNCHANGED <<happens, streamVars, rx, lock, begin, pre, rec, fileVars, accepting, chunkq>>

\* A chunk goes to the workers.  With too many in flight it is dropped live;
\* lossless the oldest future is waited for, and until then the chunk counts
\* as one more of the queue.
DpTakes ==
  /\ chunkq # <<>> /\ ~HeadIsReady
  /\ chunkq' = Tail(chunkq)
  /\ \/ /\ Len(pending) < MaxInflight
        /\ pending' = Append(pending, [chunk |-> Head(chunkq), state |-> "busy"])
        /\ UNCHANGED missed
     \/ /\ Len(pending) >= MaxInflight /\ MayDrop
        /\ missed' = missed \cup {Head(chunkq)} /\ UNCHANGED pending
  /\ UNCHANGED <<happens, streamVars, rx, lock, begin, pre, rec, fileVars, gridVars>>

\* _process_one_chunk.
WorkerEnds ==
  /\ \E i \in 1..Len(pending) :
       /\ pending[i].state = "busy"
       /\ \/ pending' = [pending EXCEPT ![i].state = "done"]
          \/ "fault" \in happens /\ pending' = [pending EXCEPT ![i].state = "failed"]
  /\ UNCHANGED <<happens, streamVars, rx, lock, begin, pre, rec, fileVars, gridVars, chunkq,
                 missed>>

-----------------------------------------------------------------------------
Rx == RxRecv \/ RxRing \/ RxCheck \/ RxWrite \/ RxStop \/ RxLocked \/ RxPut
Begin == BeginDrains \/ BeginPlaces
Dispatch == DpCollects \/ DpTakes

Next == Rx \/ Begin \/ WebStarts \/ WebStops \/ Finalizes \/ Dispatch \/ WorkerEnds

Spec == Init /\ [][Next]_vars

\* Every thread keeps running.
LiveSpec ==
  Spec /\ WF_vars(Rx) /\ WF_vars(Begin) /\ WF_vars(Finalizes) /\ WF_vars(Dispatch) /\ WF_vars(WorkerEnds)

-----------------------------------------------------------------------------
\* What the stream has between two samples of the file and the file has not.
Missing(a, b) == b.pos - a.pos - 1 + SumLost(Between(a.ring, a.pos + 1, b.pos + 1))

GapAt(index) == LET S == {i \in 1..Len(gaps) : gaps[i][1] = index}
                IN IF S = {} THEN 0 ELSE gaps[Min(S)][2]

\* The file and its gaps account for the stream: the samples are in order,
\* each is there once, and a gap holds exactly the samples that are missing
\* before it, whatever thread started the capture and however its first chunk
\* met the pre-roll ("lost_samples belong immediately before").
FileAccountsForStream ==
  rec # "idle" => \A i \in 1..(Len(file) - 1) :
    file[i].ring = ring /\ file[i + 1].ring = ring =>
      /\ file[i].pos < file[i + 1].pos
      /\ ~truncated => GapAt(i) = Missing(file[i], file[i + 1])

\* The span of a capture is exact: its samples and what it lost are the
\* stream from its first sample to where it stands, even when the list of
\* gaps was truncated (time_span_sec).
SpanIsExact ==
  rec # "idle" /\ file # <<>> /\ file[1].ring = ring /\ recRing = ring =>
    Len(file) + lost = nextPos - file[1].pos
      + SumLost(Between(recRing, file[1].pos + 1, nextPos))

\* The chunk a row was computed from.
ChunkOf(r) == [ring |-> r.ring, at |-> r.at - (r.at % Chunk)]

\* The .psd covers the .sc16: once saved, every row that lies inside the
\* capture is in its file once and in order, unless its chunk was dropped, its
\* worker failed, it came while the capture began or finalize gave up on it.
RowsCoverCapture ==
  rec = "saved" /\ ring = 1 /\ start # None /\ "slow" \notin happens =>
    /\ \A i \in 1..Len(rows) : start <= rows[i].at
    /\ \A i, j \in 1..Len(rows) : i < j => rows[i].at < rows[j].at
    /\ \A k \in 0..(total \div Slice) :
         LET r == [ring |-> 1, at |-> k * Slice]
         IN start <= r.at /\ r.at + Slice <= end
              => \/ \E i \in 1..Len(rows) : rows[i] = r
                 \/ ChunkOf(r) \in missed

\* In a lossless replay every chunk reaches the workers, and in stream order:
\* what is on its way is one unbroken stretch that ends where the ring does.
OnTheirWay ==
  [i \in 1..Len(pending) |-> pending[i].chunk]
    \o chunkq
NothingSkipped ==
  Lossless /\ ring = 1 =>
    /\ \A i \in 1..(Len(OnTheirWay) - 1) : OnTheirWay[i + 1].at = OnTheirWay[i].at + Chunk
    /\ OnTheirWay # <<>> =>
         Last(OnTheirWay).at + Chunk
           = IF rx = "recv" \/ rx = "ring" THEN total ELSE total - Chunk

\* Finalize gets the rows it waits for and needs no timeout, unless one was
\* missed or a retune took the stream away from under the capture.
TailArrives == rec = "finalizing" ~> (rec = "saved" \/ missed # {} \/ ring = 2)

\* Types, and what is bounded: the list of gaps, the chunks on their way.
TypeOK ==
  /\ ring \in 1..2 /\ total \in Nat
  /\ rx \in {"recv", "ring", "check", "write", "stop", "lock", "begin", "put"}
  /\ lock \in {"free", "rx", "web"} /\ begin \in {"no", "drain", "place"}
  /\ rec \in {"idle", "recording", "finalizing", "saved"}
  /\ recRing \in 0..2 /\ {nextPos, start, end, lastRow} \subseteq Nat \cup {None}
  /\ Len(gaps) <= GapsMax /\ lost \in Nat /\ dropped \in Nat
  /\ {truncated, accepting} \subseteq BOOLEAN
  /\ Len(chunkq) <= QueueMax /\ Len(pending) <= MaxInflight
=============================================================================
