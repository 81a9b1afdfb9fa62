------------------------------- MODULE Upkeep -------------------------------
(***************************************************************************)
(* Three background loops over the writer's database: the hourly           *)
(* collection figures (storage/collection.py and _collection_loop), the    *)
(* hourly detection counts (_detection_hours_pass) and the retention pass  *)
(* that empties old PSD blobs and deletes old rows (_run_retention).  They *)
(* share one difficulty: a write may fail, or time out and be stored all   *)
(* the same, and the process may stop or die between any two of them.      *)
(***************************************************************************)
EXTENDS Integers, Sequences, FiniteSets

CONSTANTS
  Lives,      \* the behaviours to explore: [part, may, events, until]
  Captures,   \* the captures that may be recorded: [start, stop, bytes]
  MaxUnsure,  \* bound: writes of figures that end without a clear answer
  MaxTime,    \* bound: the clock, in quarters of an hour
  PerPass,    \* _DET_HOURS_PER_PASS
  KeepHours,  \* hours of detection rows retention keeps
  Keep,       \* quarters of windows retention keeps
  ChunkRows,  \* RETENTION_CHUNK_ROWS
  SaveEvery   \* _BLOB_MARK_SAVE_EVERY_CHUNKS

ASSUME UpkeepAssumption ==
  /\ \A l \in Lives :
       l.part \in {"figures", "hours", "blobs"} /\ l.events \in Nat /\ l.until \in 0..MaxTime
  /\ \A c \in Captures : c.start \in Nat /\ c.stop \in c.start..MaxTime /\ c.bytes \in Nat
  /\ {MaxUnsure, PerPass, KeepHours, MaxTime} \subseteq Nat
  \* A pass is run only when it keeps a day or more.
  /\ {MaxTime \div 4, Keep, ChunkRows, SaveEvery} \subseteq Nat \ {0}

VARIABLES
  life,       \* the loop this behaviour follows, what can go wrong, and its bounds:
              \* events (captures, detections or windows) and until (the clock)
  now,        \* the clock
  made,       \* events so far
  phase,      \* the process: "up", "stopping", "drained", "flushed" or "down"
  pending,    \* CollectionStats._pending: hour -> field -> amount
  taken,      \* the figures a flush has taken and not yet stored
  flushing,   \* a flush waits for add_collection_hours
  stored,     \* the collection_hours table
  recorded,   \* history: what the table and the pending figures owe
  unsure,     \* history: writes that ended without saying how often they were stored
  detections, \* the detections table: hour -> [untried, tried]
  landed,     \* history: the same without retention
  gone,       \* history: hours retention emptied before they were counted
  since,      \* DET_HOURS_SINCE_KEY, -1 when unset
  done,       \* DET_HOURS_DONE_KEY, -1 when unset
  counts,     \* the detection_hours table: hour -> [untried, tried]
  pass,       \* the pass of the detection hours: [at, hour, left, got]
  windows,    \* avg_windows in id order: [start, blob, there]
  mark,       \* _blob_prune_mark: [start, id]
  loaded,     \* _blob_prune_mark_loaded
  savedMark,  \* _blob_prune_mark_saved
  onDisk,     \* the blob_prune_mark row of the config table
  prune       \* the retention pass: [at, cutoff, chunks]

figureVars == <<phase, pending, taken, flushing, stored, recorded, unsure>>
hourVars == <<detections, landed, gone, since, done, counts, pass>>
blobVars == <<windows, mark, loaded, savedMark, onDisk, prune>>
upkeepVars == <<life, now, made, figureVars, hourVars, blobVars>>

HOUR == 4
Hours == 0..(MaxTime \div HOUR)
Fields == {"captures", "bytes", "seconds", "deleted", "active"}
Hour(t) == t \div HOUR

Zero == [h \in Hours |-> [f \in Fields |-> 0]]
Plus(a, b) == [h \in Hours |-> [f \in Fields |-> a[h][f] + b[h][f]]]
Times(n, a) == [h \in Hours |-> [f \in Fields |-> n * a[h][f]]]
One(h, f, n) == [Zero EXCEPT ![h][f] = n]
NoRow == [untried |-> 0, tried |-> 0]
NoMark == [start |-> -1, id |-> 0]
AtRest == [at |-> "rest", hour |-> 0, left |-> 0, got |-> NoRow]
NoPass == [at |-> "rest", cutoff |-> 0, chunks |-> 0]

UpkeepInit ==
  /\ life \in Lives
  /\ now = 0 /\ made = 0 /\ phase = "up"
  /\ pending = Zero /\ taken = Zero /\ flushing = FALSE /\ stored = Zero /\ recorded = Zero /\ unsure = 0
  /\ detections = [h \in Hours |-> NoRow] /\ landed = detections /\ gone = {}
  /\ since = -1 /\ done = -1 /\ counts = detections /\ pass = AtRest
  /\ windows = <<>> /\ mark = NoMark /\ loaded = FALSE /\ savedMark = NoMark /\ onDisk = NoMark /\ prune = NoPass

Follows(p) == life.part = p
May(x) == x \in life.may

-----------------------------------------------------------------------------
(* Collection figures.                                                     *)

\* Python's round(): to the nearest, halves to even.
Round(n, d) ==
  LET q == n \div d
      r == 2 * (n % d)
  IN IF r > d \/ (r = d /\ q % 2 = 1) THEN q + 1 ELSE q

LastHour(c) == IF c.stop > c.start THEN Hour(c.stop - 1) ELSE Hour(c.start)
SecondsIn(c, h) ==
  LET from == IF c.start > h * HOUR THEN c.start ELSE h * HOUR
      to == IF c.stop < (h + 1) * HOUR THEN c.stop ELSE (h + 1) * HOUR
  IN to - from

\* add_recorded: the bytes of each hour but the last are rounded, the last has
\* what the hours before it were not given.
Share(c, h) == Round(c.bytes * SecondsIn(c, h), c.stop - c.start)
Given(c) ==
  LET given[n \in 0..(LastHour(c) - Hour(c.start))] ==
        IF n = 0 THEN 0 ELSE given[n - 1] + Share(c, Hour(c.start) + n - 1)
  IN given[LastHour(c) - Hour(c.start)]
BytesIn(c, h) == IF h < LastHour(c) THEN Share(c, h) ELSE c.bytes - Given(c)

Recorded(c) ==
  [h \in Hours |->
    [f \in Fields |->
      IF f = "captures" THEN IF h = Hour(c.start) THEN 1 ELSE 0
      ELSE IF h \notin Hour(c.start)..LastHour(c) THEN 0
      ELSE CASE f = "bytes" -> BytesIn(c, h)
             [] f = "seconds" -> SecondsIn(c, h)
             [] OTHER -> 0]]

\* What a capture owes its hours, whatever way its bytes are split.
Owed(c) ==
  [h \in Hours |->
    [f \in Fields |->
      IF h # Hour(c.start) THEN 0
      ELSE CASE f = "captures" -> 1
             [] f = "bytes" -> c.bytes
             [] f = "seconds" -> c.stop - c.start
             [] OTHER -> 0]]

Counts(added, owed) ==
  /\ Follows("figures") /\ made < life.events
  /\ phase \in {"up", "stopping"}
  /\ made' = made + 1
  /\ pending' = Plus(pending, added)
  /\ recorded' = Plus(recorded, owed)
  /\ UNCHANGED <<life, now, phase, taken, flushing, stored, unsure, hourVars, blobVars>>

AddRecorded == \E c \in Captures : Counts(Recorded(c), Owed(c))
AddDeleted == Counts(One(0, "deleted", 1), One(0, "deleted", 1))
AddActive == Counts(One(1, "active", 1), One(1, "active", 1))

\* take: under the lock, so that what is added later stays for the next flush.
\* Reading or writing the first hour in the config table comes first, and may
\* fail before anything is taken: that is a stutter here.
Take ==
  /\ Follows("figures") /\ ~flushing /\ phase \in {"up", "drained"}
  /\ pending # Zero
  /\ taken' = pending /\ pending' = Zero /\ flushing' = TRUE
  /\ UNCHANGED <<life, now, made, phase, stored, recorded, unsure, hourVars, blobVars>>

\* The pending figures after a flush that raised, or was cancelled.
PutBackOver == taken
PutBack == Plus(pending, taken)

\* The write is answered.  It may have run twice: the first attempt stored the
\* figures and timed out, the retry added them again.
Flushed ==
  /\ flushing
  /\ \E times \in IF May("errors") /\ unsure < MaxUnsure THEN 1..2 ELSE {1} :
       /\ stored' = Plus(stored, Times(times, taken))
       /\ unsure' = unsure + times - 1
  /\ flushing' = FALSE /\ taken' = Zero
  /\ phase' = IF phase = "drained" THEN "flushed" ELSE phase
  /\ UNCHANGED <<life, now, made, pending, recorded, hourVars, blobVars>>

\* It raises, or the stopping process cancels the loop that waits for it: the
\* figures go back, stored or not.
FlushFails ==
  /\ flushing
  /\ phase = "stopping" \/ (May("errors") /\ unsure < MaxUnsure)
  /\ \E times \in 0..1 : stored' = Plus(stored, Times(times, taken))
  /\ pending' = PutBack
  /\ unsure' = unsure + 1 /\ flushing' = FALSE /\ taken' = Zero
  /\ phase' = IF phase = "drained" THEN "down" ELSE phase
  /\ UNCHANGED <<life, now, made, recorded, hourVars, blobVars>>

\* run()'s shutdown: the loops are cancelled, the pipeline is stopped (its last
\* captures are counted by then), and only then the figures are flushed.
Stops ==
  /\ Follows("figures") /\ May("stop") /\ phase = "up"
  /\ phase' = "stopping"
  /\ UNCHANGED <<life, now, made, pending, taken, flushing, stored, recorded, unsure, hourVars, blobVars>>
Drained ==
  /\ phase = "stopping" /\ ~flushing
  /\ phase' = IF pending = Zero THEN "flushed" ELSE "drained"
  /\ UNCHANGED <<life, now, made, pending, taken, flushing, stored, recorded, unsure, hourVars, blobVars>>

-----------------------------------------------------------------------------
(* Detection hours.                                                        *)

\* A detection is stored, and then attributed, within DET_HOURS_SETTLE (one
\* quarter) of its start.
Recent == {t \in {now - 1, now} : t >= 0}

Detect ==
  /\ Follows("hours") /\ phase = "up" /\ made < life.events
  /\ \E t \in Recent :
       /\ detections' = [detections EXCEPT ![Hour(t)].untried = @ + 1]
       /\ landed' = [landed EXCEPT ![Hour(t)].untried = @ + 1]
  /\ made' = made + 1
  /\ UNCHANGED <<life, now, figureVars, gone, since, done, counts, pass, blobVars>>

Attributed(r) == [untried |-> r.untried - 1, tried |-> r.tried + 1]
Attribute ==
  /\ Follows("hours") /\ phase = "up"
  /\ \E t \in Recent :
       /\ detections[Hour(t)].untried > 0
       /\ detections' = [detections EXCEPT ![Hour(t)] = Attributed(@)]
       /\ landed' = [landed EXCEPT ![Hour(t)] = Attributed(@)]
  /\ UNCHANGED <<life, now, made, figureVars, gone, since, done, counts, pass, blobVars>>

\* The first pass ever only marks the current hour as the start, in two writes.
FirstMarks ==
  /\ Follows("hours") /\ phase = "up" /\ pass.at = "rest" /\ done = -1
  /\ since' = Hour(now)
  /\ done' \in IF May("errors") THEN {Hour(now), -1} ELSE {Hour(now)}
  /\ UNCHANGED <<life, now, made, figureVars, detections, landed, gone, counts, pass, blobVars>>

PassBegins ==
  /\ Follows("hours") /\ phase = "up" /\ pass.at = "rest" /\ done # -1
  /\ pass' = [at |-> "loop", hour |-> done, left |-> PerPass, got |-> NoRow]
  /\ UNCHANGED <<life, now, made, figureVars, detections, landed, gone, since, done, counts, blobVars>>

\* The hour has been over for DET_HOURS_SETTLE.
LongOver(h) == (h + 1) * HOUR =< now - 1

\* count_detections_by_hour, on the reader's connection.
CountHour ==
  /\ pass.at = "loop" /\ pass.left > 0 /\ LongOver(pass.hour)
  /\ pass' = [pass EXCEPT !.at = "store", !.got = detections[pass.hour], !.left = @ - 1]
  /\ UNCHANGED <<life, now, made, figureVars, detections, landed, gone, since, done, counts, blobVars>>
PassEnds ==
  /\ pass.at = "loop" /\ (pass.left = 0 \/ ~LongOver(pass.hour))
  /\ pass' = AtRest
  /\ UNCHANGED <<life, now, made, figureVars, detections, landed, gone, since, done, counts, blobVars>>

\* A write is answered, or raises: then it may be stored or not, and the pass
\* ends until the next minute's.
Answers == IF May("errors") THEN {"stored", "raised", "stored and raised"} ELSE {"stored"}

\* store_detection_hours replaces the hour's counts.
StoreHour ==
  /\ pass.at = "store"
  /\ \E answer \in Answers :
       /\ counts' = IF answer = "raised" THEN counts ELSE [counts EXCEPT ![pass.hour] = pass.got]
       /\ pass' = IF answer = "stored" THEN [pass EXCEPT !.at = "mark"] ELSE AtRest
  /\ UNCHANGED <<life, now, made, figureVars, detections, landed, gone, since, done, blobVars>>
MarkHour ==
  /\ pass.at = "mark"
  /\ \E answer \in Answers :
       /\ done' = IF answer = "raised" THEN done ELSE pass.hour + 1
       /\ pass' = IF answer = "stored" THEN [pass EXCEPT !.at = "loop", !.hour = @ + 1] ELSE AtRest
  /\ UNCHANGED <<life, now, made, figureVars, detections, landed, gone, since, counts, blobVars>>

\* delete_older_than("detections"): an hour may go before it is counted when the
\* counting was behind for longer than rows are kept.
RowsExpire ==
  /\ Follows("hours") /\ phase = "up" /\ May("retention")
  /\ \E h \in Hours :
       /\ h < Hour(now) - KeepHours
       /\ detections[h] # NoRow
       /\ detections' = [detections EXCEPT ![h] = NoRow]
       /\ gone' = IF h >= done THEN gone \cup {h} ELSE gone
  /\ UNCHANGED <<life, now, made, figureVars, landed, since, done, counts, pass, blobVars>>

-----------------------------------------------------------------------------
(* Retention of the PSD blobs and of the windows' rows.                    *)

StoreWindow ==
  /\ Follows("blobs") /\ phase = "up" /\ made < life.events
  /\ made' = made + 1
  /\ windows' = Append(windows, [start |-> now, blob |-> TRUE, there |-> TRUE])
  /\ UNCHANGED <<life, now, figureVars, hourVars, mark, loaded, savedMark, onDisk, prune>>

\* _retention_days: the configured days, or fewer under storage pressure; the
\* first pass of a process loads the mark.
PruneBegins ==
  /\ Follows("blobs") /\ phase = "up" /\ prune.at = "rest"
  /\ \E days \in {1, Keep} : prune' = [at |-> "blobs", cutoff |-> now - days + 1, chunks |-> 0]
  /\ mark' = IF loaded THEN mark ELSE onDisk
  /\ savedMark' = IF loaded THEN savedMark ELSE onDisk
  /\ loaded' = TRUE
  /\ UNCHANGED <<life, now, made, figureVars, hourVars, windows, onDisk>>

There(w) == windows[w].there
\* The index walk: (start_time, rowid) after the mark.  Windows can share a start.
AfterMark(w) == windows[w].start > mark.start \/ (windows[w].start = mark.start /\ w > mark.id)

FirstOf(ws) == {w \in ws : Cardinality({v \in ws : v < w}) < ChunkRows}

\* In index order, which is the order of their ids here.
Scanned ==
  FirstOf({w \in DOMAIN windows : There(w) /\ windows[w].start < prune.cutoff /\ AfterMark(w)})

LastOf(ids) == CHOOSE w \in ids : \A v \in ids : v =< w
MarkAfter(ids) == [start |-> windows[LastOf(ids)].start, id |-> LastOf(ids)]

\* What follows a chunk: the last one of the pass, a save of the mark, or more.
AfterChunk(scanned, chunks) ==
  IF scanned < ChunkRows THEN "last save" ELSE IF chunks % SaveEvery = 0 THEN "save" ELSE "blobs"

PruneChunk ==
  /\ prune.at = "blobs"
  /\ LET ids == Scanned
         emptied == [w \in DOMAIN windows |->
                       IF w \in ids THEN [windows[w] EXCEPT !.blob = FALSE] ELSE windows[w]]
     IN \E answer \in Answers :
          /\ windows' = IF answer = "raised" THEN windows ELSE emptied
          /\ mark' = IF answer = "stored" /\ ids # {} THEN MarkAfter(ids) ELSE mark
          /\ prune' = IF answer = "stored"
                      THEN [prune EXCEPT !.at = AfterChunk(Cardinality(ids), prune.chunks + 1), !.chunks = @ + 1]
                      ELSE [prune EXCEPT !.at = "rows"]
  /\ UNCHANGED <<life, now, made, figureVars, hourVars, loaded, savedMark, onDisk>>

\* _save_blob_prune_mark: a failed save is logged and the pass goes on.
SaveMark ==
  /\ prune.at \in {"save", "last save"}
  /\ \E answer \in Answers :
       /\ onDisk' = IF answer = "raised" \/ mark = savedMark THEN onDisk ELSE mark
       /\ savedMark' = IF answer = "stored" THEN mark ELSE savedMark
  /\ prune' = [prune EXCEPT !.at = IF @ = "save" THEN "blobs" ELSE "rows"]
  /\ UNCHANGED <<life, now, made, figureVars, hourVars, windows, mark, loaded>>

\* delete_older_than("avg_windows"), oldest first, until a chunk is not full.
DeleteChunk ==
  /\ prune.at = "rows"
  /\ LET old == FirstOf({w \in DOMAIN windows : There(w) /\ windows[w].start < now - Keep})
     IN \E answer \in Answers :
          /\ windows' = IF answer = "raised" THEN windows
                        ELSE [w \in DOMAIN windows |->
                               IF w \in old THEN [windows[w] EXCEPT !.there = FALSE] ELSE windows[w]]
          /\ prune' = IF answer = "stored" /\ Cardinality(old) = ChunkRows THEN prune ELSE NoPass
  /\ UNCHANGED <<life, now, made, figureVars, hourVars, mark, loaded, savedMark, onDisk>>

-----------------------------------------------------------------------------
(* The clock and the process, for the hours and the blobs.                 *)

Tick ==
  /\ ~Follows("figures") /\ now < life.until
  /\ now' = now + 1
  /\ UNCHANGED <<life, made, figureVars, hourVars, blobVars>>
Crash ==
  /\ ~Follows("figures") /\ May("crash") /\ phase = "up"
  /\ phase' = "down" /\ pass' = AtRest /\ prune' = NoPass
  /\ mark' = NoMark /\ savedMark' = NoMark /\ loaded' = FALSE
  /\ UNCHANGED <<life, now, made, pending, taken, flushing, stored, recorded, unsure,
                 detections, landed, gone, since, done, counts, windows, onDisk>>
Restart ==
  /\ ~Follows("figures") /\ phase = "down"
  /\ phase' = "up"
  /\ UNCHANGED <<life, now, made, pending, taken, flushing, stored, recorded, unsure, hourVars, blobVars>>

UpkeepNext ==
  \/ AddRecorded \/ AddDeleted \/ AddActive
  \/ Take \/ Flushed \/ FlushFails \/ Stops \/ Drained
  \/ Detect \/ Attribute \/ FirstMarks \/ PassBegins \/ CountHour \/ PassEnds \/ StoreHour \/ MarkHour \/ RowsExpire
  \/ StoreWindow \/ PruneBegins \/ PruneChunk \/ SaveMark \/ DeleteChunk
  \/ Tick \/ Crash \/ Restart

UpkeepSpec == UpkeepInit /\ [][UpkeepNext]_upkeepVars

-----------------------------------------------------------------------------
Sum(a, f) ==
  LET upTo[h \in Hours] == IF h = 0 THEN a[0][f] ELSE upTo[h - 1] + a[h][f]
  IN upTo[MaxTime \div HOUR]
Kept == Plus(Plus(pending, taken), stored)

\* No figure is lost while the process lives, whatever fails: pending, taken and
\* stored hold at least what was counted, and exactly that as long as every write
\* said whether it was stored.  After a shutdown whose flush was answered none is
\* left behind (CollectionStats.flush, add_recorded and run()'s last flush).
FiguresKept ==
  /\ Follows("figures") => \A f \in Fields :
       Sum(Kept, f) >= Sum(recorded, f) /\ (unsure > 0 \/ Sum(Kept, f) = Sum(recorded, f))
  /\ phase = "flushed" => pending = Zero

\* Every hour marked done holds the counts of its detections, by whether they
\* were attributed, none missed and none counted twice, across failed writes and
\* crashes between count, store and mark; the only hours excused are those
\* retention emptied first (_detection_hours_pass).
HoursAreWhole ==
  \A h \in Hours : since # -1 /\ h >= since /\ h < done => counts[h] = landed[h] \/ h \in gone

Behind(w, m) == windows[w].start < m.start \/ (windows[w].start = m.start /\ w =< m.id)

\* No window at or before the mark, in memory or saved, still has its blob, and a
\* pass that walked to its end has left none before its cutoff: the walk never
\* skips a window, across chunks, failed writes and restarts
\* (prune_avg_psd_blobs).
PruneIsWhole ==
  \A w \in DOMAIN windows : There(w) /\ windows[w].blob =>
    /\ ~Behind(w, mark) /\ ~Behind(w, onDisk)
    /\ prune.at = "last save" => windows[w].start >= prune.cutoff

\* Types; the marks are of hours, and of windows, that there are.
UpkeepTypeOK ==
  /\ life \in Lives /\ now \in 0..MaxTime /\ made \in Nat
  /\ phase \in {"up", "stopping", "drained", "flushed", "down"}
  /\ flushing \in BOOLEAN /\ unsure \in 0..(MaxUnsure + 1)
  /\ {since, done} \subseteq {-1} \cup Hours /\ gone \subseteq Hours
  /\ \A h \in Hours :
       {detections[h].untried, detections[h].tried, counts[h].untried, counts[h].tried} \subseteq Nat
  /\ {mark.id, savedMark.id, onDisk.id} \subseteq 0..Len(windows)

\* No recorded figure is lost, every hour marked done holds its detections'
\* counts, and no blob is behind the prune mark, across failed writes and
\* crashes.
LoopsLoseNothing == UpkeepTypeOK /\ FiguresKept /\ HoursAreWhole /\ PruneIsWhole
=============================================================================
