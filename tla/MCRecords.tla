----------------------------- MODULE MCRecords ------------------------------
(***************************************************************************)
(* What becomes of the stream, its parts side by side: how bursts are      *)
(* found in it (Detector) and reach the archive and their rows (Delivery), *)
(* how a scheduled run is cut out of it (RunCutter), and how what was      *)
(* recorded is counted, totalled and pruned (Upkeep).  One part runs in a  *)
(* behaviour; the others rest in an initial state.                         *)
(***************************************************************************)
EXTENDS Delivery, Upkeep

VARIABLES
  part,   \* "detector", "long detector", "uneven detector", "delivery", "cutter", "loops"
  det_sig, det_pos, det_since, det_evals, det_base, det_tracks, det_emitted,
  cut_happens, cut_start, cut_times, cut_now, cut_clock, cut_began, cut_lostNear,
  cut_unfed, cut_cut, cut_file, cut_refused, cut_grids, cut_act

detVars ==
  <<det_sig, det_pos, det_since, det_evals, det_base, det_tracks, det_emitted>>
cutVars ==
  <<cut_happens, cut_start, cut_times, cut_now, cut_clock, cut_began, cut_lostNear,
    cut_unfed, cut_cut, cut_file, cut_refused, cut_grids, cut_act>>

\* Attribution without and with failures, and the archive under pressure.
Deliveries ==
  {{"attribution", "crash"}, {"attribution", "lossless", "stop"},
   {"attribution", "fault"}, {"attribution", "insert fails", "decoders off"},
   {"archive", "low space", "fault"}, {"archive", "crash"}}

\* Powers matter to the queue of the attribution alone, and there by their
\* order: all that are the same are all the weakest.
OrdersOf(scenario) ==
  {p \in [Ids -> Powers] : IF "attribution" \in scenario THEN \E b \in Ids : p[b] = 1
                                                         ELSE \A b \in Ids : p[b] = 1}

\* Runs through losses of every kind; an added-late run; a slow disk; rows
\* that never come.
Runs == {{"gaps", "ends"}, {"gaps", "steps"}, {"joins"}, {"gaps", "skips", "disk"}, {"gaps", "no rows"}}
\* In the past, at and about chunk and row boundaries, and to come.
SomeStarts == {-4, 0, 2, 5, 7, 8, 9, 13}
\* None; before the chunk, inside it, both; none of half a row.
SomeGaps ==
  {<<>>, <<[off |-> 0, lost |-> 1]>>, <<[off |-> 2, lost |-> 4]>>,
   <<[off |-> 0, lost |-> 2], [off |-> 3, lost |-> 1], [off |-> 5, lost |-> 2]>>}

\* The figures with every write answered and with failing ones, the hours and
\* the blobs with failures.
Figures(may) == [part |-> "figures", may |-> may, events |-> 3, until |-> 0]
CountedHours(may, events) == [part |-> "hours", may |-> may, events |-> events, until |-> 9]
Blobs(may) == [part |-> "blobs", may |-> may, events |-> 4, until |-> 4]
Loops ==
  {Figures({"stop"}), Figures({"stop", "errors"}),
   CountedHours({"errors", "crash"}, 2), CountedHours({"crash", "retention"}, 3),
   Blobs({"errors", "crash"})}
\* Within an hour, across two and three hours, on the hour, and of no length.
SomeCaptures ==
  {[start |-> 1, stop |-> 10, bytes |-> 5], [start |-> 3, stop |-> 6, bytes |-> 2],
   [start |-> 4, stop |-> 8, bytes |-> 1], [start |-> 2, stop |-> 2, bytes |-> 3]}

\* Bursts on two channels; on one for longer than the ring of positions, at the
\* default ratio of window and interval; and on one with strong and weak rows.
D == INSTANCE Detector WITH
  Channels <- {1, 2}, Levels <- {0, 20}, High <- 10, Low <- 6, Window <- 6, Interval <- 2,
  ChunkRows <- 2, Margin <- 1, Slack <- 1, Merge <- 2, MinRows <- 1, MaxChunks <- 5,
  MaxPulses <- 2, MaxDrops <- 1, sig <- det_sig, pos <- det_pos, since <- det_since,
  evals <- det_evals, base <- det_base, tracks <- det_tracks, emitted <- det_emitted

D1 == INSTANCE Detector WITH
  Channels <- {1}, Levels <- {0, 20}, High <- 10, Low <- 6, Window <- 8, Interval <- 4,
  ChunkRows <- 2, Margin <- 1, Slack <- 1, Merge <- 2, MinRows <- 1, MaxChunks <- 9,
  MaxPulses <- 2, MaxDrops <- 1, sig <- det_sig, pos <- det_pos, since <- det_since,
  evals <- det_evals, base <- det_base, tracks <- det_tracks, emitted <- det_emitted

D2 == INSTANCE Detector WITH
  Channels <- {1}, Levels <- {0, 20, 40}, High <- 10, Low <- 6, Window <- 6, Interval <- 2,
  ChunkRows <- 2, Margin <- 1, Slack <- 1, Merge <- 2, MinRows <- 1, MaxChunks <- 5,
  MaxPulses <- 2, MaxDrops <- 0, sig <- det_sig, pos <- det_pos, since <- det_since,
  evals <- det_evals, base <- det_base, tracks <- det_tracks, emitted <- det_emitted

C == INSTANCE RunCutter WITH
  Lives <- Runs, Starts <- SomeStarts, Samples <- 14, ChunkLen <- 6, Slice <- 3,
  GapLists <- SomeGaps, RingLen <- 12, MaxChunks <- 4, MaxLag <- 2,
  happens <- cut_happens, start <- cut_start, times <- cut_times, now <- cut_now,
  clock <- cut_clock, began <- cut_began, lostNear <- cut_lostNear, unfed <- cut_unfed,
  cut <- cut_cut, file <- cut_file, refused <- cut_refused, grids <- cut_grids,
  act <- cut_act

MCInit ==
  /\ part \in {"detector", "long detector", "uneven detector", "delivery", "cutter", "loops"}
  /\ D!Init
  /\ DeliveryInit /\ power \in OrdersOf(happens)
  /\ part # "delivery" => happens = {"archive", "crash"}
  /\ C!Init /\ (part # "cutter" => cut_happens = {"joins"} /\ cut_start = 0)
  /\ UpkeepInit /\ (part # "loops" => life = Blobs({"errors", "crash"}))

Detecting(p, A) == part = p /\ A /\ UNCHANGED <<part, deliveryVars, cutVars, upkeepVars>>
Delivering(A) == part = "delivery" /\ A /\ UNCHANGED <<part, detVars, cutVars, upkeepVars>>
Cutting(A) == part = "cutter" /\ A /\ UNCHANGED <<part, detVars, deliveryVars, upkeepVars>>
Looping(A) == part = "loops" /\ A /\ UNCHANGED <<part, detVars, deliveryVars, cutVars>>

MCNext ==
  \/ Detecting("detector", D!Feed) \/ Detecting("long detector", D1!Feed)
  \/ Detecting("uneven detector", D2!Feed)
  \/ Delivering(BtSubmit) \/ Delivering(BtHandsRows) \/ Delivering(StGet)
  \/ Delivering(StWrite) \/ Delivering(StMeta) \/ Delivering(StTrack) \/ Delivering(StHand)
  \/ Delivering(StCount) \/ Delivering(EvBegins) \/ Delivering(EvEvicts)
  \/ Delivering(EvGoesOn) \/ Delivering(EvUnlinks) \/ Delivering(LoopPuts)
  \/ Delivering(WkGet) \/ Delivering(WkDecode) \/ Delivering(WkDb) \/ Delivering(WkLabel)
  \/ Delivering(RetryRuns) \/ Delivering(LoopDrains) \/ Delivering(LastDrain)
  \/ Delivering(Stop) \/ Delivering(WkCancelled) \/ Delivering(WkCloses)
  \/ Delivering(CrashRestart)
  \/ Cutting(C!RxChunk) \/ Cutting(C!ClockSteps) \/ Cutting(C!EndRun) \/ Cutting(C!OnGrid)
  \/ Cutting(C!Close)
  \/ Looping(AddRecorded) \/ Looping(AddDeleted) \/ Looping(AddActive) \/ Looping(Take)
  \/ Looping(Flushed) \/ Looping(FlushFails) \/ Looping(Stops) \/ Looping(Drained)
  \/ Looping(Detect) \/ Looping(Attribute) \/ Looping(FirstMarks) \/ Looping(PassBegins)
  \/ Looping(CountHour) \/ Looping(PassEnds) \/ Looping(StoreHour) \/ Looping(MarkHour)
  \/ Looping(RowsExpire) \/ Looping(StoreWindow) \/ Looping(PruneBegins)
  \/ Looping(PruneChunk) \/ Looping(SaveMark) \/ Looping(DeleteChunk) \/ Looping(Tick)
  \/ Looping(Crash) \/ Looping(Restart)

MCSpec == MCInit /\ [][MCNext]_<<part, detVars, deliveryVars, cutVars, upkeepVars>>

\* A burst is emitted once, a lone one at its full extent while it fills less than
\* half of a window, and the samples of an emission are those of its rows (Detector).
FoundOnceAndWhole ==
  /\ part = "detector" =>
       D!TypeOK /\ D!EmittedOnce /\ D!LoneBurstIsWhole /\ D!SamplesAreItsRows
  /\ part = "long detector" =>
       D1!TypeOK /\ D1!EmittedOnce /\ D1!LoneBurstIsWhole /\ D1!SamplesAreItsRows
  /\ part = "uneven detector" =>
       D2!TypeOK /\ D2!EmittedOnce /\ D2!LoneBurstIsWhole /\ D2!SamplesAreItsRows

\* Every entry of a run's file is the sample of its time, and every row of its
\* grid lies on the samples it was measured on (RunCutter).
RunIsTime == part = "cutter" => C!TypeOK /\ C!FileIsTime /\ C!RowsOnTheirSamples
=============================================================================
