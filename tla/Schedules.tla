----------------------------- MODULE Schedules -----------------------------
(***************************************************************************)
(* Scheduled captures: the runs of a schedule (schedules/model.py), the    *)
(* book that keeps schedules and outcomes (schedules/book.py), the engine  *)
(* the receiver thread drives (schedules/engine.py) and the thread that    *)
(* writes the files (schedules/writer.py).  The sensor's owner adds and    *)
(* deletes schedules, the pipeline stops, starts and retunes, and the      *)
(* process dies and starts again.                                          *)
(*                                                                         *)
(* A unit of time is one chunk of the stream.  now is the time of the next *)
(* chunk's first sample, and a chunk's run of samples is one byte of the   *)
(* writer's budget.  Losses inside the stream and the PSD rows of a run    *)
(* are left out.                                                           *)
(***************************************************************************)
EXTENDS Integers, FiniteSets, SequencesExt

CONSTANTS
  Body,        \* the schedules that may be added, by id
  Grace,       \* TRIGGER_PRE_SEC: how late a run may be asked for
  RingSpan,    \* chunks the ring holds
  MaxRunning,  \* MAX_CONCURRENT_RUNS
  GridWait,    \* GRID_WAIT_SEC
  Budget,      \* max_bytes_in_flight
  MaxTime,     \* bound on the time
  MaxBreaks,   \* bound on the pipeline's stops and retunes and the process's deaths
  Scenarios    \* what may happen in one behaviour: sets of ScheduleOccurrences

ScheduleOccurrences ==
  {"delete", "refuse",        \* a storage refusal
   "stop", "retune", "die",
   "write_error", "save_fails",
   "disk_lags", "saves_lag",  \* the disk, or the table, takes longer than a chunk
   "late_add"}                \* a schedule is added while the radio retunes

Ids == DOMAIN Body

NoRun == -1

ASSUME ScheduleAssumption ==
  /\ {Grace, MaxTime, MaxBreaks, Budget, GridWait} \subseteq Nat
  /\ {RingSpan, MaxRunning} \subseteq Nat \ {0}
  /\ Scenarios \subseteq SUBSET ScheduleOccurrences
  /\ IsFiniteSet(Ids)
  /\ \A i \in Ids :
       /\ {Body[i].start, Body[i].every, Body[i].count, Body[i].until} \subseteq Nat
       /\ Body[i].duration \in Nat \ {0}

VARIABLES
  happens,   \* the scenario
  now,       \* time of the next chunk
  table,     \* the schedules table: "none", "live", "deleted"
  created,   \* created_ms of its rows
  rows,      \* the schedule_runs table; "none" where there is no row
  book,      \* ScheduleBook._active, in its order
  last,      \* _last; NoRun where there is none
  latest,    \* _latest
  saving,    \* outcomes on their way to the table
  stale,     \* the engine's _version is not the book's
  marked,    \* _marked
  plan,      \* _next: the run each schedule is at; Unplanned where it has none
  cut,       \* _active: the runs that are being cut
  rx,        \* receiver thread: "off", "idle", "feed"
  todo,      \* runs it still has to feed this chunk to
  ringFrom,  \* time the ring begins at
  queue,     \* the writer's queue
  inFlight,  \* _in_flight
  files,     \* the runs' files
  writer,    \* writer thread: "run", "exited"
  stops, deaths,
  failedSaves, \* history: runs with an outcome that could not be saved
  lostSaves,   \* history: runs with an outcome that died with the process
  begun        \* history: the files each run began

recVars == <<cut, rx, todo, ringFrom, plan, marked>>
bookVars == <<book, last, latest, saving, stale>>
diskVars == <<queue, inFlight, files, writer>>
histVars == <<happens, stops, deaths, failedSaves, lostSaves, begun>>
scheduleVars == <<now, table, created, rows, bookVars, recVars, diskVars, histVars>>

-----------------------------------------------------------------------------
(* The instants of a schedule's runs.  Zero stands for None.               *)

Schedule(i) == Body[i]

RunStart(i, k) == Schedule(i).start + k * Schedule(i).every

CeilDiv(a, b) == -((-a) \div b)

TotalRuns(i) ==
  LET s == Schedule(i) IN
  IF s.every = 0 THEN 1
  ELSE IF s.count # 0 THEN s.count
  ELSE LET n == CeilDiv(s.until - s.start, s.every) IN IF n < 0 THEN 0 ELSE n

\* The first run that starts at t or later.
FirstRunFrom(i, t) ==
  LET s == Schedule(i)
      k == IF t <= s.start THEN 0
           ELSE IF s.every = 0 THEN TotalRuns(i)
           ELSE CeilDiv(t - s.start, s.every)
  IN IF k < TotalRuns(i) THEN k ELSE NoRun

\* The runs from k on that start before t, oldest first.
RunsUntil(i, k, t) ==
  LET end == FirstRunFrom(i, t)
      final == (IF end = NoRun THEN TotalRuns(i) ELSE end) - 1
  IN IF k < 0 \/ final < k THEN <<>> ELSE [n \in 1..(final - k + 1) |-> k + n - 1]

\* The runs that start in t0..t1-1.  The newest 500 are kept.
RunsBetween(i, t0, t1) == RunsUntil(i, FirstRunFrom(i, t0), t1)

Runs == UNION {{<<i, k>> : k \in 0..(TotalRuns(i) - 1)} : i \in Ids}

StartOf(r) == RunStart(r[1], r[2])
Samples(r) == Schedule(r[1]).duration

-----------------------------------------------------------------------------
(* The book.                                                               *)

Final == {"recorded", "partial", "failed", "missed"}

LastOf(i, reports) ==
  LET ks == {reports[n].run[2] : n \in {m \in DOMAIN reports : reports[m].run[1] = i}}
  IN CHOOSE k \in ks \cup {last[i]} : \A j \in ks \cup {last[i]} : j <= k

\* report_run, for each of the reports in turn.
Report(reports) ==
  /\ latest' = [r \in Runs |->
       LET ns == {n \in DOMAIN reports : reports[n].run = r}
       IN IF ns = {} THEN latest[r] ELSE reports[CHOOSE n \in ns : \A m \in ns : m <= n].status]
  /\ last' = [i \in Ids |-> LastOf(i, reports)]
  /\ saving' = saving \o reports

Outcome(r) == IF latest[r] # "none" THEN latest[r] ELSE rows[r]

\* A schedule is accepted while one of its runs is still ahead, or no further
\* back than the grace.  Its row and its place in the book are one step: the
\* database runs one statement at a time and answers in order.  A chunk is
\* worked on when the host's clock has passed its end.
Add(i) ==
  /\ table[i] = "none"
  /\ \E t \in {now, now + 1} :
       /\ rx = "off" => t = now
       /\ rx = "feed" => t = now + 1
       /\ FirstRunFrom(i, t - Grace) # NoRun
       /\ created' = [created EXCEPT ![i] = t]
  /\ table' = [table EXCEPT ![i] = "live"]
  /\ book' = Append(book, i)
  /\ stale' = TRUE
  /\ UNCHANGED <<now, rows, last, latest, saving, recVars, diskVars, histVars>>

Delete(i) ==
  /\ "delete" \in happens
  /\ table[i] = "live"
  /\ table' = [table EXCEPT ![i] = "deleted"]
  /\ \E n \in DOMAIN book : book[n] = i /\ book' = RemoveAt(book, n)
  /\ stale' = TRUE
  /\ UNCHANGED <<now, created, rows, last, latest, saving, recVars, diskVars, histVars>>

\* The outcomes are saved one by one; one that cannot be is only logged.
Persist ==
  /\ saving # <<>>
  /\ LET o == Head(saving) IN
     \/ rows' = [rows EXCEPT ![o.run] = o.status] /\ UNCHANGED failedSaves
     \/ /\ "save_fails" \in happens
        /\ failedSaves' = failedSaves \cup {o.run}
        /\ UNCHANGED rows
  /\ saving' = Tail(saving)
  /\ UNCHANGED <<now, table, created, book, last, latest, stale, recVars, diskVars,
                 happens, stops, deaths, lostSaves, begun>>

-----------------------------------------------------------------------------
(* The engine, in the receiver thread.                                     *)

NoCut == [written |-> -1]
NoTime == -1
Unplanned == -2

Larger(a, b) == IF a < b THEN b ELSE a
Smaller(a, b) == IF a < b THEN a ELSE b

\* The ring's oldest sample, with the chunk at now written to it.
Oldest == Larger(ringFrom, now + 1 - RingSpan)

\* Runs only waiting for their PSD rows record no more.
Recording == {r \in Runs : cut[r] # NoCut /\ cut[r].since = NoTime}

\* Mutants of MissedOf: no grace for a schedule that came late; a one-shot's
\* "next" run looked up like any other's.
MissedOfNoGrace(i) ==
  LET next == IF last[i] = NoRun THEN Schedule(i).start ELSE RunStart(i, last[i] + 1)
  IN IF last[i] # NoRun /\ last[i] + 1 >= TotalRuns(i) THEN <<>>
     ELSE RunsBetween(i, Larger(next, created[i]), now - Grace)

MissedOfOneShotAgain(i) ==
  LET next == IF last[i] = NoRun THEN Schedule(i).start ELSE RunStart(i, last[i] + 1)
  IN RunsBetween(i, Larger(next, created[i] - Grace), now - Grace)

\* mark_missed: the runs that came due while nothing was recording.
MissedOf(i) ==
  LET next == IF last[i] = NoRun THEN Schedule(i).start ELSE RunStart(i, last[i] + 1)
  IN IF last[i] # NoRun /\ last[i] + 1 >= TotalRuns(i) THEN <<>>
     ELSE RunsBetween(i, Larger(next, created[i] - Grace), now - Grace)

AsReports(i, ks, status) == [n \in DOMAIN ks |-> [run |-> <<i, ks[n]>>, status |-> status]]

Missed ==
  IF marked THEN <<>>
  ELSE FlattenSeq([n \in DOMAIN book |-> AsReports(book[n], MissedOf(book[n]), "missed")])

\* _refresh: the run a new schedule is at, after those that have an outcome.
FirstPlan(i, lastRun) ==
  LET k == FirstRunFrom(i, now - Grace) IN
  IF k = NoRun \/ lastRun = NoRun \/ k > lastRun THEN k
  ELSE IF lastRun + 1 < TotalRuns(i) THEN lastRun + 1 ELSE NoRun

Refreshed(reports) ==
  IF ~stale THEN plan
  ELSE [i \in Ids |-> IF \A n \in DOMAIN book : book[n] # i THEN Unplanned
                      ELSE IF plan[i] # Unplanned THEN plan[i]
                      ELSE FirstPlan(i, LastOf(i, reports))]

\* _start_due: the runs that start before the chunk's end, and the next one.
DueOf(i, k) == RunsUntil(i, k, now + 1)

AfterDue(i, k) ==
  LET next == k + Len(DueOf(i, k)) IN IF k < 0 \/ next < TotalRuns(i) THEN next ELSE NoRun

Due(p) ==
  FlattenSeq([n \in DOMAIN book |-> AsReports(book[n], DueOf(book[n], p[book[n]]), "recording")])

\* _start_run: a due run whose window the ring still has a part of is recorded,
\* as long as the storage takes it and not too many are recorded already.
Recordable(r, refuse) == StartOf(r) + Samples(r) > Oldest /\ ~refuse

StartAll(due, refuse) ==
  [n \in DOMAIN due |->
     LET before == {m \in 1..n : Recordable(due[m].run, refuse)} IN
     IF n \in before /\ Cardinality(Recording) + Cardinality(before) <= MaxRunning
     THEN due[n] ELSE [due[n] EXCEPT !.status = "missed"]]

Started(reports) ==
  {reports[n].run : n \in {m \in DOMAIN reports : reports[m].status = "recording"}}

FreshCut == [written |-> 0, zeros |-> 0, refused |-> 0, since |-> NoTime, ended |-> FALSE]

Opens(rs) ==
  LET s == SetToSeq(rs) IN [n \in DOMAIN s |-> [kind |-> "open", run |-> s[n]]]

\* on_chunk, up to the runs it feeds.
RxChunk ==
  /\ rx = "idle"
  /\ now < MaxTime
  /\ \E refuse \in {FALSE} \cup (IF "refuse" \in happens THEN {TRUE} ELSE {}) :
       LET p == Refreshed(Missed)
           starts == StartAll(Due(p), refuse)
       IN /\ Report(Missed \o starts)
          /\ plan' = [i \in Ids |-> AfterDue(i, p[i])]
          /\ cut' = [r \in Runs |-> IF r \in Started(starts) THEN FreshCut ELSE cut[r]]
          /\ queue' = queue \o Opens(Started(starts))
          /\ todo' = {r \in Runs : cut'[r] # NoCut}
  /\ marked' = TRUE
  /\ stale' = FALSE
  /\ rx' = "feed"
  /\ UNCHANGED <<now, table, created, rows, book, ringFrom, inFlight, files, writer, histVars>>

\* What a run takes from this chunk: zeros for what the ring has lost, the
\* ring, the chunk.
Takes(r) ==
  LET room == Samples(r) - cut[r].written
      first == cut[r].written = 0
      late == IF first THEN Smaller(Larger(0, Oldest - StartOf(r)), room) ELSE 0
      back == IF first THEN Smaller(now - Larger(StartOf(r), Oldest), room - late) ELSE 0
  IN [late |-> late, back |-> back, live |-> Smaller(1, room - late - back)]

\* put_ops: IQ beyond the budget goes to the file as zeros.
Granted(t) ==
  LET back == IF inFlight + t.back <= Budget THEN t.back ELSE 0
  IN [back |-> back, live |-> IF inFlight + back + t.live <= Budget THEN t.live ELSE 0]

Op(kind, r, n) == IF n > 0 THEN <<[kind |-> kind, run |-> r, n |-> n]>> ELSE <<>>

\* Of a take that is granted, all of it is; so one of each pair is empty.
Put(r, t, g) ==
  Op("zeros", r, t.late)
    \o Op("iq", r, g.back) \o Op("zeros", r, t.back - g.back)
    \o Op("iq", r, g.live) \o Op("zeros", r, t.live - g.live)

Fed(r, t, g) ==
  LET w == cut[r].written + t.late + t.back + t.live IN
  [cut[r] EXCEPT !.written = w, !.zeros = @ + t.late,
                 !.refused = @ + (t.back - g.back) + (t.live - g.live),
                 !.since = IF w >= Samples(r) THEN now ELSE NoTime]

CutStatus(r, c) ==
  IF ~c.ended /\ c.zeros = 0 /\ c.written = Samples(r) /\ c.refused = 0 THEN "recorded" ELSE "partial"

CloseItem(r, c) == [kind |-> "close", run |-> r, status |-> CutStatus(r, c)]

Nothing == [late |-> 0, back |-> 0, live |-> 0]

\* A run that has its samples waits for its PSD rows, not for ever.
RxFeed(r) ==
  /\ rx = "feed"
  /\ r \in todo
  /\ LET t == IF cut[r].since = NoTime THEN Takes(r) ELSE Nothing
         g == Granted(t)
         c == IF cut[r].since = NoTime THEN Fed(r, t, g) ELSE cut[r]
     IN \E close \in BOOLEAN :
          /\ close => c.since # NoTime
          /\ c.since # NoTime /\ now - c.since >= GridWait => close
          /\ cut' = [cut EXCEPT ![r] = IF close THEN NoCut ELSE c]
          /\ queue' = queue \o Put(r, t, g) \o IF close THEN <<CloseItem(r, c)>> ELSE <<>>
          /\ inFlight' = inFlight + g.back + g.live
  /\ todo' = todo \ {r}
  /\ UNCHANGED <<now, table, created, rows, bookVars, rx, ringFrom, plan, marked, files, writer, histVars>>

RxChunkDone ==
  /\ rx = "feed"
  /\ todo = {}
  /\ saving # <<>> => "saves_lag" \in happens
  /\ queue # <<>> => "disk_lags" \in happens
  /\ rx' = "idle"
  /\ now' = now + 1
  /\ UNCHANGED <<table, created, rows, bookVars, cut, todo, ringFrom, plan, marked, diskVars, histVars>>

\* ScheduleEngine.stop: every run ends where it is.
Closes ==
  LET rs == SetToSeq({r \in Runs : cut[r] # NoCut})
      end(c) == [c EXCEPT !.ended = @ \/ c.since = NoTime]
  IN [n \in DOMAIN rs |-> CloseItem(rs[n], end(cut[rs[n]]))]

\* The receiver is configured anew, which takes time and starts a new ring.
RxRetune ==
  /\ "retune" \in happens
  /\ rx = "idle"
  /\ stops + deaths < MaxBreaks
  /\ now < MaxTime
  /\ stale => "late_add" \in happens
  /\ queue' = queue \o Closes
  /\ cut' = [r \in Runs |-> NoCut]
  /\ now' = now + 1
  /\ ringFrom' = now + 1
  /\ stops' = stops + 1
  /\ UNCHANGED <<table, created, rows, bookVars, rx, todo, plan, marked, inFlight, files, writer,
                 happens, deaths, failedSaves, lostSaves, begun>>

\* The pipeline stops: the receiver's runs end, then the writer's queue does.
PipelineStop ==
  /\ rx = "idle"
  /\ now < MaxTime => "stop" \in happens /\ stops + deaths < MaxBreaks
  /\ queue' = Append(queue \o Closes, [kind |-> "stop"])
  /\ cut' = [r \in Runs |-> NoCut]
  /\ rx' = "off"
  /\ stops' = IF now < MaxTime THEN stops + 1 ELSE stops
  /\ UNCHANGED <<now, table, created, rows, bookVars, todo, ringFrom, plan, marked, inFlight, files,
                 writer, happens, deaths, failedSaves, lostSaves, begun>>

\* A new pipeline has an engine, a ring and a writer of its own.
PipelineStart ==
  /\ rx = "off"
  /\ writer = "exited"
  /\ now < MaxTime
  /\ rx' = "idle"
  /\ marked' = FALSE
  /\ stale' = TRUE
  /\ plan' = [i \in Ids |-> Unplanned]
  /\ ringFrom' = now
  /\ writer' = "run"
  /\ UNCHANGED <<now, table, created, rows, book, last, latest, saving, cut, todo, queue, inFlight,
                 files, histVars>>

Pass ==
  /\ rx = "off"
  /\ now < MaxTime
  /\ now' = now + 1
  /\ UNCHANGED <<table, created, rows, bookVars, recVars, diskVars, histVars>>

-----------------------------------------------------------------------------
(* The writer thread.                                                      *)

NoFile == [state |-> "none", iq |-> 0, zeros |-> 0, error |-> FALSE]

\* A file that exists is never opened: another name is.
WriterOpens(item) ==
  /\ item.kind = "open"
  /\ \E error \in {FALSE} \cup (IF "write_error" \in happens THEN {TRUE} ELSE {}) :
       files' = [files EXCEPT ![item.run] = [NoFile EXCEPT !.state = "open", !.error = error]]
  /\ begun' = [begun EXCEPT ![item.run] = @ + 1]
  /\ UNCHANGED <<latest, last, saving, inFlight, writer>>

\* A file with an error takes no more; what is in flight is released anyway.
WriterWrites(item) ==
  /\ item.kind \in {"iq", "zeros"}
  /\ LET f == files[item.run]
         written == IF item.kind = "iq" THEN [f EXCEPT !.iq = @ + item.n] ELSE [f EXCEPT !.zeros = @ + item.n]
     IN \/ files' = [files EXCEPT ![item.run] = IF f.error THEN f ELSE written]
        \/ "write_error" \in happens /\ files' = [files EXCEPT ![item.run].error = TRUE]
  /\ inFlight' = IF item.kind = "iq" THEN inFlight - item.n ELSE inFlight
  /\ UNCHANGED <<latest, last, saving, writer, begun>>

\* The metadata calls a file whole that is; _scheduled_finished reports it.
FinishStatus(f, r, status) ==
  IF f.error THEN "failed"
  ELSE IF status = "recorded" /\ (f.zeros > 0 \/ f.iq + f.zeros # Samples(r)) THEN "partial"
  ELSE status

WriterFinishes(item) ==
  /\ item.kind = "close"
  /\ files' = [files EXCEPT ![item.run].state = "closed"]
  /\ Report(<<[run |-> item.run, status |-> FinishStatus(files[item.run], item.run, item.status)]>>)
  /\ UNCHANGED <<inFlight, writer, begun>>

\* At the stop sentinel whatever is still open ends partial.
WriterExits(item) ==
  /\ item.kind = "stop"
  /\ LET open == SetToSeq({r \in Runs : files[r].state = "open"}) IN
     /\ files' = [r \in Runs |-> IF files[r].state = "open" THEN [files[r] EXCEPT !.state = "closed"] ELSE files[r]]
     /\ Report([n \in DOMAIN open |->
                  [run |-> open[n], status |-> FinishStatus(files[open[n]], open[n], "partial")]])
  /\ writer' = "exited"
  /\ UNCHANGED <<inFlight, begun>>

WriterStep ==
  /\ writer = "run"
  /\ queue # <<>>
  /\ LET item == Head(queue) IN
     WriterOpens(item) \/ WriterWrites(item) \/ WriterFinishes(item) \/ WriterExits(item)
  /\ queue' = Tail(queue)
  /\ UNCHANGED <<now, table, created, rows, book, stale, recVars, happens, stops, deaths, failedSaves, lostSaves>>

-----------------------------------------------------------------------------
\* Mutant of EndUnfinished: load leaves the table alone.
EndNothing == rows

\* The process dies and starts again: load ends the runs that were cut off.
EndUnfinished == [r \in Runs |-> IF rows[r] = "recording" THEN "partial" ELSE rows[r]]

LastRow(i) ==
  LET ks == {k \in 0..(TotalRuns(i) - 1) : rows[<<i, k>>] # "none"}
  IN CHOOSE k \in ks \cup {NoRun} : \A j \in ks : j <= k

\* list_schedules: ORDER BY created_ms, id.
InOrder(ids) ==
  {s \in Injection(1..Cardinality(ids), ids) :
     \A m, n \in DOMAIN s : m < n =>
       \/ created[s[m]] < created[s[n]]
       \/ created[s[m]] = created[s[n]] /\ s[m] < s[n]}

Die ==
  /\ "die" \in happens
  /\ stops + deaths < MaxBreaks
  /\ deaths' = deaths + 1
  /\ lostSaves' = lostSaves \cup {saving[n].run : n \in DOMAIN saving}
  /\ rows' = EndUnfinished
  /\ book' \in InOrder({i \in Ids : table[i] = "live"})
  /\ last' = [i \in Ids |-> LastRow(i)]
  /\ latest' = [r \in Runs |-> "none"]
  /\ saving' = <<>>
  /\ stale' = TRUE
  /\ cut' = [r \in Runs |-> NoCut]
  /\ rx' = "off"
  /\ todo' = {}
  /\ ringFrom' = now
  /\ plan' = [i \in Ids |-> Unplanned]
  /\ marked' = FALSE
  /\ queue' = <<>>
  /\ inFlight' = 0
  /\ files' = [r \in Runs |->
                   IF files[r].state = "open" THEN [files[r] EXCEPT !.state = "left"] ELSE files[r]]
  /\ writer' = "exited"
  /\ UNCHANGED <<happens, now, table, created, stops, failedSaves, begun>>

ScheduleInit ==
  /\ happens \in Scenarios
  /\ now = 0
  /\ table = [i \in Ids |-> "none"]
  /\ created = [i \in Ids |-> 0]
  /\ rows = [r \in Runs |-> "none"]
  /\ book = <<>>
  /\ last = [i \in Ids |-> NoRun]
  /\ latest = [r \in Runs |-> "none"]
  /\ saving = <<>>
  /\ stale = TRUE
  /\ cut = [r \in Runs |-> NoCut]
  /\ rx = "off"
  /\ todo = {}
  /\ ringFrom = 0
  /\ plan = [i \in Ids |-> Unplanned]
  /\ marked = FALSE
  /\ queue = <<>>
  /\ inFlight = 0
  /\ files = [r \in Runs |-> NoFile]
  /\ writer = "exited"
  /\ stops = 0
  /\ deaths = 0
  /\ failedSaves = {}
  /\ lostSaves = {}
  /\ begun = [r \in Runs |-> 0]

Receiver == RxChunk \/ (\E r \in Runs : RxFeed(r)) \/ RxChunkDone

ScheduleNext ==
  \/ \E i \in Ids : Add(i) \/ Delete(i)
  \/ Persist
  \/ Receiver \/ RxRetune
  \/ PipelineStop \/ PipelineStart \/ Pass
  \/ WriterStep
  \/ Die

ScheduleSpec == ScheduleInit /\ [][ScheduleNext]_scheduleVars

\* The radio delivers chunks and the receiver thread gets through them, the
\* disk takes what is written, and the last stop comes; nothing else has to
\* happen.  The first two are the weak fairness of Receiver: only its steps,
\* a stop or a death lead out of the states they exclude.
LiveSpec ==
  /\ ScheduleSpec
  /\ []<>(rx # "idle" \/ now = MaxTime)
  /\ []<>(rx # "feed")
  /\ WF_scheduleVars(WriterStep)
  /\ WF_scheduleVars(Persist)
  /\ WF_scheduleVars(now = MaxTime /\ PipelineStop)

-----------------------------------------------------------------------------
ScheduleTypeOK ==
  /\ now \in 0..MaxTime
  /\ table \in [Ids -> {"none", "live", "deleted"}]
  /\ rows \in [Runs -> Final \cup {"none", "recording"}]
  /\ latest \in [Runs -> Final \cup {"none", "recording"}]
  /\ \A i \in Ids : last[i] \in NoRun..(TotalRuns(i) - 1) /\ plan[i] \in Unplanned..(TotalRuns(i) - 1)
  /\ \A r \in Runs : cut[r] = NoCut \/ cut[r].written \in 0..Samples(r)
  /\ rx \in {"off", "idle", "feed"}
  /\ todo \subseteq Runs
  /\ writer \in {"run", "exited"}
  /\ inFlight \in 0..Budget

\* Every run of a live schedule whose instant has passed, and did not pass
\* before the schedule was there to be recorded, has an outcome.  One that was
\* added while the radio was being retuned may lose a run.
EveryRunAnswered ==
  "late_add" \notin happens /\ rx = "idle" /\ marked /\ ~stale /\ ringFrom < now =>
    \A n \in DOMAIN book : \A k \in 0..(TotalRuns(book[n]) - 1) :
      \/ RunStart(book[n], k) >= now
      \/ RunStart(book[n], k) < created[book[n]] - Grace
      \/ Outcome(<<book[n], k>>) # "none"
      \/ <<book[n], k>> \in failedSaves

\* A run whose outcome is "recorded" has a file with every sample in it, one
\* whose outcome is "partial" has not, whichever of the receiver, the writer
\* and a stop had the last word on it (CutStatus, FinishStatus, Closes).
Whole(f, r) == f.iq = Samples(r) /\ f.zeros = 0 /\ ~f.error

OutcomeIsHonest ==
  \A r \in Runs \ (lostSaves \cup failedSaves) :
    files[r].state = "closed" /\ Outcome(r) \in {"recorded", "partial"} =>
      (Outcome(r) = "recorded" <=> Whole(files[r], r))

\* A run is recorded once, whatever stops and starts in between, unless its
\* outcome was lost.
OneFilePerRun == \A r \in Runs : begun[r] > 1 => r \in lostSaves \cup failedSaves

\* An outcome is final: no restart marks a recorded run missed.
OutcomeStays ==
  [][\A r \in Runs :
       /\ rows[r] \in Final => rows'[r] = rows[r]
       /\ latest[r] \in Final /\ deaths' = deaths => latest'[r] = latest[r]]_scheduleVars

\* A run that records comes to an end.
RunEnds == \A r \in Runs : Outcome(r) = "recording" ~> Outcome(r) # "recording"

\* Every run is answered once, with one file, and its outcome is the truth about
\* that file.
RunsAreAnswered == ScheduleTypeOK /\ EveryRunAnswered /\ OutcomeIsHonest /\ OneFilePerRun
=============================================================================
