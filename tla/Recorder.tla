------------------------------ MODULE Recorder ------------------------------
(***************************************************************************)
(* The recording state machine of pipeline/streaming.py in its disk mode:  *)
(* the receiver thread fires and ends captures, web workers start, stop,   *)
(* arm and disarm, the recording-control thread finalizes, each capture    *)
(* has a writer thread of its own, the storage governor refuses and holds, *)
(* and run() shuts the pipeline down.                                      *)
(*                                                                         *)
(* A capture is the generation (_writer_gen) its _begin_recording gave it. *)
(* A step taken under _rec_lock is one action; a read outside it is its    *)
(* own action.  What the chunks hold is left out.                          *)
(***************************************************************************)
EXTENDS Integers, Sequences, FiniteSets

CONSTANTS
  Workers,      \* web worker threads
  MaxCaptures,  \* bound on the captures begun
  MaxTicks,     \* bound on the governor's ticks
  Lives         \* what may happen in one behaviour: sets of Occurrences

Occurrences ==
  {"max_duration", "trigger_end",  \* the receiver's own stops
   "write_error", "disk_floor",    \* what a writer may report
   "writer_stall",                 \* finalize may give up on a writer
   "save_fails",                   \* finalize, or a late finish, may raise or fail to save
   "manual_start", "manual_stop",
   "checks",                       \* the storage governor's
   "stop_timeout",                 \* a 15 s wait for the finalize job may end first
   "shutdown",
   "join_timeout",                 \* the 5 s joins of the shutdown may end first
   "busy_stop"}                    \* the pipeline is stopped while requests come in

ASSUME RecorderAssumption ==
  /\ MaxCaptures \in Nat
  /\ MaxTicks \in Nat
  /\ Lives \subseteq SUBSET Occurrences

VARIABLES
  happens,    \* what may happen in this behaviour
  state,      \* _recording_state
  armed,      \* TRIGGER_CONTINUOUS
  rearmHold,  \* _rearm_hold
  trig,       \* _trigger_initiated
  stopReason, \* _stop_reason
  endDone,    \* _end_done
  gen,        \* _writer_gen: the capture that owns the recording fields
  writerErr,  \* _writer_error, as the generation that set it; 0 for None
  floorHit,   \* _disk_floor_hit, likewise
  rx,         \* receiver thread
  rxArmed,    \* its unlocked reading of the arm state
  wpc,        \* web workers
  jobs,       \* _recctl_queue: the capture each job was requested for
  rc,         \* recording-control thread
  rcJob,      \* the capture its job was requested for
  rcName,     \* the capture whose file name it read
  writer,     \* writer threads: "none", "run", "failed", "exiting", "dead"
  sentinel,   \* captures whose queue holds the stop sentinel
  clean,      \* captures whose writer drained everything
  abandoned,  \* _abandoned_paths
  meta,       \* each capture's .json: "none" yet, "ok", "failed", or "lost": not written
  ticks,      \* governor.ticks
  refuse,     \* governor.state.refuse_recording
  gov,        \* the storage loop: "idle" or "sampling"
  hold,       \* _storage_hold's tick count; NoHold for None
  shut,       \* run()'s shutdown; "gone" once the process exits
  \* history, read by no action
  fresh,      \* the tick under way began after the last hold was set
  freshDone,  \* such a tick has completed
  crossed,    \* power was below the threshold since the last manual stop
  stopGen     \* the newest capture when the shutdown began; 0 before

NoHold == -1
Gens == 1..MaxCaptures

control == <<state, armed, rearmHold, trig, stopReason, endDone>>
flags == <<gen, writerErr, floorHit>>
receiver == <<rx, rxArmed>>
recctl == <<jobs, rc, rcJob, rcName>>
writers == <<writer, sentinel, clean, abandoned>>
governor == <<ticks, refuse, gov, fresh>>
vars == <<happens, control, flags, receiver, wpc, recctl, writers, meta, governor,
          hold, freshDone, crossed, shut, stopGen>>

Running == shut = "up"
Over == shut \in {"done", "gone"}

Init ==
  /\ happens \in Lives
  /\ state = "idle" /\ armed \in BOOLEAN /\ rearmHold = FALSE /\ trig = FALSE
  /\ stopReason = "none" /\ endDone = TRUE
  /\ gen = 0 /\ writerErr = 0 /\ floorHit = 0
  /\ rx = "top" /\ rxArmed = FALSE
  /\ wpc = [w \in Workers |-> "idle"]
  /\ jobs = <<>> /\ rc = "idle" /\ rcJob = 0 /\ rcName = 0
  /\ writer = [g \in Gens |-> "none"] /\ sentinel = {} /\ clean = {} /\ abandoned = {}
  /\ meta = [g \in Gens |-> "none"]
  /\ ticks = 0 /\ refuse = FALSE /\ gov = "idle" /\ fresh = TRUE
  /\ hold = NoHold /\ freshDone = TRUE /\ crossed = TRUE
  /\ shut = "up" /\ stopGen = 0

-----------------------------------------------------------------------------
(* Shared steps.                                                           *)

\* Mutant: held only until the next tick to complete.
RefusedOneTick == refuse \/ (hold # NoHold /\ ticks <= hold)

\* _recording_refusal: step >= 3, or held until the second tick to complete
\* after the stop, which is sure to have begun after it.
Refused == refuse \/ (hold # NoHold /\ ticks <= hold + 1)

\* _begin_recording, under _rec_lock: supersede any abandoned writer and clear
\* its outputs, start this capture's own writer, flip the state last.
Begin(byTrigger) ==
  /\ gen < MaxCaptures
  /\ gen' = gen + 1
  /\ writerErr' = 0 /\ floorHit' = 0
  /\ stopReason' = "none"
  /\ trig' = byTrigger
  /\ writer' = [writer EXCEPT ![gen + 1] = "run"]
  /\ state' = "recording"

\* Mutant: the state goes straight back to waiting while the job runs.
RequestEndRearms(reason) ==
  IF state = "recording"
  THEN /\ state' = "armed" /\ stopReason' = reason /\ endDone' = FALSE
       /\ jobs' = Append(jobs, gen)
  ELSE UNCHANGED <<state, stopReason, endDone, jobs>>

\* _request_end_recording, under _rec_lock: only the first request flips.  A job
\* behind the None of the shutdown is never taken.
RequestEnd(reason) ==
  IF state = "recording"
  THEN /\ state' = "finalizing" /\ stopReason' = reason /\ endDone' = FALSE
       /\ jobs' = IF Over THEN jobs ELSE Append(jobs, gen)
  ELSE UNCHANGED <<state, stopReason, endDone, jobs>>

-----------------------------------------------------------------------------
(* Receiver thread: one chunk is RxTop, RxRead, then RxWrite or RxTrigger. *)

RxTop ==
  /\ rx = "top"
  /\ rx' = IF Running THEN "chunk" ELSE "exit"
  /\ UNCHANGED <<control, flags, rxArmed, wpc, recctl, writers, meta, governor,
                 hold, freshDone, crossed, shut, stopGen, happens>>

\* The unlocked read of the state (and of the arm setting) decides the branch.
RxRead ==
  /\ rx = "chunk"
  /\ IF state = "recording" THEN rx' = "write" /\ UNCHANGED rxArmed
                            ELSE rx' = "trigger" /\ rxArmed' = armed
  /\ UNCHANGED <<control, flags, wpc, recctl, writers, meta, governor,
                 hold, freshDone, crossed, shut, stopGen, happens>>

\* Why the receiver may end the capture on this chunk.  A writer's error or the
\* disk floor come first, before the chunk is written.
AutoStops ==
  CASE writerErr # 0 -> {"write_error"}
    [] writerErr = 0 /\ floorHit # 0 -> {"disk_floor"}
    [] OTHER -> {"max_duration"} \cup (IF trig THEN {"trigger_end"} ELSE {})

RxWrite ==
  /\ rx = "write" /\ rx' = "top"
  /\ \/ writerErr = 0 /\ floorHit = 0 /\ UNCHANGED <<state, stopReason, endDone, jobs>>
     \/ \E reason \in AutoStops :
          (writerErr = 0 /\ floorHit = 0 => reason \in happens) /\ RequestEnd(reason)
  /\ UNCHANGED <<armed, rearmHold, trig, flags, rxArmed, wpc, rc, rcJob, rcName, writers,
                 meta, governor, hold, freshDone, crossed, shut, stopGen, happens>>

\* Waiting armed with power measured: the hold after a manual stop ends at a
\* chunk below the threshold; a chunk above fires unless storage refuses.
Fire(above) ==
  IF rearmHold
  THEN /\ rearmHold' = above /\ state' = "armed"
       /\ UNCHANGED <<trig, stopReason, flags, writer>>
  ELSE /\ UNCHANGED rearmHold
       /\ \/ above /\ ~Refused /\ Begin(TRUE)
          \/ (~above \/ Refused) /\ state' = "armed" /\ UNCHANGED <<trig, stopReason, flags, writer>>

\* The locked part of _check_trigger_and_record for a chunk that found no
\* recording; a manual start may have flipped the state meanwhile.
RxTrigger ==
  /\ rx = "trigger" /\ rx' = "top"
  /\ \E above \in BOOLEAN :
       /\ crossed' = (crossed \/ ~above)
       /\ \/ state \in {"idle", "armed"} /\ rxArmed /\ Fire(above)
          \/ /\ state = "armed" /\ ~rxArmed /\ state' = "idle"
             /\ UNCHANGED <<rearmHold, trig, stopReason, flags, writer>>
          \/ /\ state \in {"recording", "finalizing"} \/ (state = "idle" /\ ~rxArmed)
             /\ UNCHANGED <<state, rearmHold, trig, stopReason, flags, writer>>
  /\ rxArmed' = FALSE
  /\ UNCHANGED <<armed, endDone, wpc, recctl, sentinel, clean, abandoned, meta,
                 governor, hold, freshDone, shut, stopGen, happens>>

-----------------------------------------------------------------------------
(* Web workers.                                                            *)

\* The process ends its web server before it stops the pipeline.
Serves == shut = "up" \/ (~Over /\ "busy_stop" \in happens)

Goto(w, next) == wpc' = [wpc EXCEPT ![w] = next]

\* start_recording asks the governor before it takes the lock.
StartCheck(w) ==
  /\ "manual_start" \in happens /\ Serves
  /\ wpc[w] = "idle" /\ ~Refused
  /\ Goto(w, "start")
  /\ UNCHANGED <<control, flags, receiver, recctl, writers, meta, governor,
                 hold, freshDone, crossed, shut, stopGen, happens>>

StartBegin(w) ==
  /\ wpc[w] = "start" /\ Goto(w, "idle")
  /\ IF state \in {"recording", "finalizing"}
     THEN UNCHANGED <<state, trig, stopReason, flags, writer>>
     ELSE Begin(FALSE)
  /\ UNCHANGED <<armed, rearmHold, endDone, receiver, recctl, sentinel, clean, abandoned, meta,
                 governor, hold, freshDone, crossed, shut, stopGen, happens>>

\* stop_recording reads the state outside the lock.
StopRead(w) ==
  /\ "manual_stop" \in happens /\ Serves /\ wpc[w] = "idle"
  /\ \/ state = "recording" /\ rearmHold' = TRUE /\ crossed' = FALSE /\ Goto(w, "request")
     \/ state = "finalizing" /\ UNCHANGED <<rearmHold, crossed>> /\ Goto(w, "wait")
  /\ UNCHANGED <<state, armed, trig, stopReason, endDone, flags, receiver, recctl, writers,
                 meta, governor, hold, freshDone, shut, stopGen, happens>>

\* The request waits only when it was the one to flip the state.
StopRequest(w) ==
  /\ wpc[w] = "request"
  /\ Goto(w, IF state = "recording" THEN "wait" ELSE "settle")
  /\ RequestEnd("manual")
  /\ UNCHANGED <<armed, rearmHold, trig, flags, receiver, rc, rcJob, rcName, writers, meta,
                 governor, hold, freshDone, crossed, shut, stopGen, happens>>

StopWait(w) ==
  /\ wpc[w] = "wait"
  /\ endDone \/ "stop_timeout" \in happens
  /\ Goto(w, "settle")
  /\ UNCHANGED <<control, flags, receiver, recctl, writers, meta, governor,
                 hold, freshDone, crossed, shut, stopGen, happens>>

StopSettle(w) ==
  /\ wpc[w] = "settle" /\ Goto(w, "idle")
  /\ state' = IF state = "recording" THEN state ELSE IF armed THEN "armed" ELSE "idle"
  /\ trig' = FALSE
  /\ UNCHANGED <<armed, rearmHold, stopReason, endDone, flags, receiver, recctl, writers, meta,
                 governor, hold, freshDone, crossed, shut, stopGen, happens>>

Arm ==
  /\ Serves
  /\ armed' = TRUE
  /\ state' = IF state = "idle" /\ ~Refused THEN "armed" ELSE state
  /\ UNCHANGED <<rearmHold, trig, stopReason, endDone, flags, receiver, wpc, recctl, writers,
                 meta, governor, hold, freshDone, crossed, shut, stopGen, happens>>

Disarm ==
  /\ Serves
  /\ armed' = FALSE
  /\ state' = IF state = "armed" THEN "idle" ELSE state
  /\ rearmHold' = FALSE
  /\ crossed' = TRUE
  /\ UNCHANGED <<trig, stopReason, endDone, flags, receiver, wpc, recctl, writers,
                 meta, governor, hold, freshDone, shut, stopGen, happens>>

-----------------------------------------------------------------------------
(* Writer threads, one per capture.                                        *)

\* A write or the close failed: only the current generation's writer may set
\* the shared error; it then drains its queue until it is told to stop.
WriterFails(g) ==
  /\ "write_error" \in happens
  /\ writer[g] = "run"
  /\ writer' = [writer EXCEPT ![g] = "failed"]
  /\ writerErr' = IF g = gen THEN g ELSE writerErr
  /\ UNCHANGED <<control, gen, floorHit, receiver, wpc, recctl, sentinel, clean, abandoned, meta,
                 governor, hold, freshDone, crossed, shut, stopGen, happens>>

\* _check_disk_floor: free space fell below half the floor.
WriterSeesFloor(g) ==
  /\ "disk_floor" \in happens
  /\ writer[g] = "run" /\ g = gen /\ floorHit = 0
  /\ floorHit' = g
  /\ UNCHANGED <<control, gen, writerErr, receiver, wpc, recctl, writers, meta,
                 governor, hold, freshDone, crossed, shut, stopGen, happens>>

\* The queue is drained and holds the sentinel, or a newer capture began.
WriterStops(g) ==
  /\ writer[g] \in {"run", "failed"}
  /\ g \in sentinel \/ g # gen
  /\ clean' = IF writer[g] = "run" THEN clean \cup {g} ELSE clean
  /\ writer' = [writer EXCEPT ![g] = "exiting"]
  /\ UNCHANGED <<control, flags, receiver, wpc, recctl, sentinel, abandoned, meta,
                 governor, hold, freshDone, crossed, shut, stopGen, happens>>

\* _note_abandoned_writer_exit and _finish_late_capture: if finalize gave up on
\* this writer, bring the metadata it left behind, if any, up to the file.
WriterNotes(g) ==
  /\ writer[g] = "exiting"
  /\ writer' = [writer EXCEPT ![g] = "noted"]
  /\ abandoned' = abandoned \ {g}
  /\ \/ meta' = IF g \in abandoned /\ g \in clean /\ meta[g] \in {"ok", "failed"}
                THEN [meta EXCEPT ![g] = "ok"] ELSE meta
     \/ "save_fails" \in happens /\ UNCHANGED meta
  /\ UNCHANGED <<control, flags, receiver, wpc, recctl, sentinel, clean,
                 governor, hold, freshDone, crossed, shut, stopGen, happens>>

WriterDies(g) ==
  /\ writer[g] = "noted"
  /\ writer' = [writer EXCEPT ![g] = "dead"]
  /\ UNCHANGED <<control, flags, receiver, wpc, recctl, sentinel, clean, abandoned, meta,
                 governor, hold, freshDone, crossed, shut, stopGen, happens>>

-----------------------------------------------------------------------------
(* Recording-control thread: one finalize job at a time.                   *)

RcTake ==
  /\ rc = "idle" /\ jobs # <<>>
  /\ rc' = "tail" /\ rcJob' = Head(jobs) /\ jobs' = Tail(jobs)
  /\ UNCHANGED <<control, flags, receiver, wpc, rcName, writers, meta, governor,
                 hold, freshDone, crossed, shut, stopGen, happens>>

\* _await_tail_grids is over; the file name is read from the recording fields.
RcName ==
  /\ rc = "tail" /\ rc' = "sentinel" /\ rcName' = gen
  /\ UNCHANGED <<control, flags, receiver, wpc, jobs, rcJob, writers, meta, governor,
                 hold, freshDone, crossed, shut, stopGen, happens>>

\* The bounded put of the stop sentinel; it gives up on a writer that stalls.
RcSentinel ==
  /\ rc = "sentinel" /\ rc' = "join"
  /\ \/ sentinel' = sentinel \cup {gen}
     \/ "writer_stall" \in happens /\ UNCHANGED sentinel
  /\ UNCHANGED <<control, flags, receiver, wpc, jobs, rcJob, rcName, writer, clean, abandoned,
                 meta, governor, hold, freshDone, crossed, shut, stopGen, happens>>

RcJoin ==
  /\ rc = "join" /\ writer[gen] = "dead" /\ rc' = "save"
  /\ UNCHANGED <<control, flags, receiver, wpc, jobs, rcJob, rcName, writers, meta, governor,
                 hold, freshDone, crossed, shut, stopGen, happens>>

\* Mutant: a join without a deadline.
RcAbandonNever == rc = "join" /\ writer[gen] = "dead" /\ UNCHANGED vars

\* The writer made no progress: flag the capture and leave it behind ...
RcAbandon ==
  /\ "writer_stall" \in happens
  /\ rc = "join" /\ writer[gen] # "dead" /\ rc' = "recheck"
  /\ writerErr' = IF writerErr = 0 THEN gen ELSE writerErr
  /\ abandoned' = abandoned \cup {gen}
  /\ UNCHANGED <<control, gen, floorHit, receiver, wpc, jobs, rcJob, rcName, writer, sentinel,
                 clean, meta, governor, hold, freshDone, crossed, shut, stopGen, happens>>

\* ... unless it has just exited: then this side drops the entry itself.
RcRecheck ==
  /\ rc = "recheck" /\ rc' = "save"
  /\ abandoned' = IF writer[gen] = "dead" THEN abandoned \ {gen} ELSE abandoned
  /\ UNCHANGED <<control, flags, receiver, wpc, jobs, rcJob, rcName, writer, sentinel, clean,
                 meta, governor, hold, freshDone, crossed, shut, stopGen, happens>>

\* The rest of _finalize_recording: rename, metadata, tracking, the cap.  When the
\* metadata cannot be written, or a step before it raises, the capture is left
\* without it: that is reported, and the job goes on or ends.
RcSave ==
  /\ rc = "save" /\ rc' = "finish"
  /\ \/ meta' = [meta EXCEPT ![rcName] = IF writerErr # 0 THEN "failed" ELSE "ok"]
     \/ "save_fails" \in happens /\ meta' = [meta EXCEPT ![rcName] = "lost"]
  /\ UNCHANGED <<control, flags, receiver, wpc, jobs, rcJob, rcName, writers, governor,
                 hold, freshDone, crossed, shut, stopGen, happens>>

\* _end_recording's finally: the hold is in place before the state is "idle".
RcFinish ==
  /\ rc = "finish" /\ rc' = "idle" /\ rcJob' = 0 /\ rcName' = 0
  /\ IF stopReason \in {"disk_floor", "write_error"} \/ writerErr # 0
     THEN hold' = ticks /\ fresh' = FALSE /\ freshDone' = FALSE
     ELSE UNCHANGED <<hold, fresh, freshDone>>
  /\ state' = "idle" /\ endDone' = TRUE
  /\ UNCHANGED <<armed, rearmHold, trig, stopReason, flags, receiver, wpc, jobs, writers, meta,
                 ticks, refuse, gov, crossed, shut, stopGen, happens>>

-----------------------------------------------------------------------------
(* The storage loop, as far as the recorder sees it.                       *)

TickBegins ==
  /\ "checks" \in happens /\ ticks < MaxTicks
  /\ gov = "idle" /\ gov' = "sampling" /\ fresh' = TRUE
  /\ UNCHANGED <<control, flags, receiver, wpc, recctl, writers, meta, ticks, refuse,
                 hold, freshDone, crossed, shut, stopGen, happens>>

TickEnds ==
  /\ gov = "sampling" /\ gov' = "idle" /\ fresh' = TRUE
  /\ ticks' = ticks + 1
  /\ refuse' \in BOOLEAN
  /\ freshDone' = (freshDone \/ fresh)
  /\ UNCHANGED <<control, flags, receiver, wpc, recctl, writers, meta, hold, crossed, shut, stopGen, happens>>

-----------------------------------------------------------------------------
(* run()'s shutdown, on the event loop.                                    *)

ShutRead ==
  /\ "shutdown" \in happens /\ shut = "up"
  /\ "busy_stop" \in happens \/ \A w \in Workers : wpc[w] = "idle"
  /\ shut' = CASE state = "recording" -> "request"
               [] state = "finalizing" -> "wait"
               [] OTHER -> "idle"
  /\ stopGen' = gen
  /\ UNCHANGED <<control, flags, receiver, wpc, recctl, writers, meta, governor,
                 hold, freshDone, crossed, happens>>

ShutRequest ==
  /\ shut = "request"
  /\ shut' = IF state = "recording" THEN "wait" ELSE "idle"
  /\ RequestEnd("shutdown")
  /\ UNCHANGED <<armed, rearmHold, trig, flags, receiver, wpc, rc, rcJob, rcName, writers, meta,
                 governor, hold, freshDone, crossed, stopGen, happens>>

ShutWait ==
  /\ shut = "wait" /\ shut' = "idle"
  /\ endDone \/ "stop_timeout" \in happens
  /\ UNCHANGED <<control, flags, receiver, wpc, recctl, writers, meta, governor,
                 hold, freshDone, crossed, stopGen, happens>>

ShutIdle ==
  /\ shut = "idle" /\ shut' = "join"
  /\ state' = "idle"
  /\ UNCHANGED <<armed, rearmHold, trig, stopReason, endDone, flags, receiver, wpc, recctl,
                 writers, meta, governor, hold, freshDone, crossed, stopGen, happens>>

\* The receiver and, once its queue holds None, the recording-control thread are
\* joined, for 5 s each: one that takes longer is left to itself.
ShutJoin ==
  /\ shut = "join" /\ shut' = "done"
  /\ (rx = "exit" /\ rc = "idle" /\ jobs = <<>>) \/ "join_timeout" \in happens
  /\ UNCHANGED <<control, flags, receiver, wpc, recctl, writers, meta, governor,
                 hold, freshDone, crossed, stopGen, happens>>

\* The process may exit then: its threads are daemons, and end where they are.
ProcessExits ==
  /\ shut = "done" /\ shut' = "gone"
  /\ UNCHANGED <<control, flags, receiver, wpc, recctl, writers, meta, governor,
                 hold, freshDone, crossed, stopGen, happens>>

-----------------------------------------------------------------------------
RcStep ==
  /\ shut # "gone"
  /\ \/ RcTake \/ RcName \/ RcSentinel \/ RcJoin
     \/ RcAbandon \/ RcRecheck \/ RcSave \/ RcFinish

OtherStep ==
  \/ RxTop \/ RxRead \/ RxWrite \/ RxTrigger
  \/ \E w \in Workers :
       \/ StartCheck(w) \/ StartBegin(w)
       \/ StopRead(w) \/ StopRequest(w) \/ StopWait(w) \/ StopSettle(w)
  \/ Arm \/ Disarm
  \/ \E g \in Gens :
       WriterFails(g) \/ WriterSeesFloor(g) \/ WriterStops(g) \/ WriterNotes(g) \/ WriterDies(g)
  \/ TickBegins \/ TickEnds
  \/ ShutRead \/ ShutRequest \/ ShutWait \/ ShutIdle \/ ShutJoin \/ ProcessExits

Next == RcStep \/ (shut # "gone" /\ OtherStep)

Spec == Init /\ [][Next]_vars

\* The recording-control thread runs whenever the process does.  Nothing is assumed of
\* the writers: a write may block for ever, and finalize then gives up.
LiveSpec == Spec /\ WF_vars(RcStep)

-----------------------------------------------------------------------------
(* Properties.                                                             *)

\* Types of the recorder's state.
TypeOK ==
  /\ state \in {"idle", "armed", "recording", "finalizing"}
  /\ armed \in BOOLEAN /\ rearmHold \in BOOLEAN /\ trig \in BOOLEAN
  /\ stopReason \in {"none", "manual", "shutdown", "max_duration", "trigger_end",
                     "write_error", "disk_floor"}
  /\ endDone \in BOOLEAN
  /\ gen \in 0..MaxCaptures
  /\ writerErr \in 0..MaxCaptures /\ floorHit \in 0..MaxCaptures
  /\ rx \in {"top", "chunk", "write", "trigger", "exit"} /\ rxArmed \in BOOLEAN
  /\ wpc \in [Workers -> {"idle", "start", "request", "wait", "settle"}]
  /\ jobs \in Seq(Gens)
  /\ rc \in {"idle", "tail", "sentinel", "join", "recheck", "save", "finish"}
  /\ rcJob \in 0..MaxCaptures /\ rcName \in 0..MaxCaptures
  /\ writer \in [Gens -> {"none", "run", "failed", "exiting", "noted", "dead"}]
  /\ sentinel \subseteq Gens /\ clean \subseteq Gens /\ abandoned \subseteq Gens
  /\ meta \in [Gens -> {"none", "ok", "failed", "lost"}]
  /\ ticks \in Nat /\ refuse \in BOOLEAN /\ gov \in {"idle", "sampling"}
  /\ hold \in Nat \cup {NoHold} /\ fresh \in BOOLEAN /\ freshDone \in BOOLEAN
  /\ crossed \in BOOLEAN /\ stopGen \in 0..MaxCaptures
  /\ shut \in {"up", "request", "wait", "idle", "join", "done", "gone"}

Saved(g) == meta[g] \in {"ok", "failed"}
Settled(g) == meta[g] # "none"
Pending == rc # "idle" \/ jobs # <<>>

\* The comment on _recording_state: while a finalize job runs, a new begin
\* cannot clobber the fields it is still reading.
FieldsBelongToJob == rc # "idle" => rcJob = gen

\* A writer finalize abandoned can never end, or mark failed, a later capture.
FlagsAreOurOwn == writerErr \in {0, gen} /\ floorHit \in {0, gen}

\* The metadata says a capture is whole only when its writer wrote everything
\* queued for it, across failed writes, abandoned writers and late exits.
WholeMeansWritten == \A g \in Gens : meta[g] = "ok" => g \in clean

\* The races of stop_recording, which reads the state outside _rec_lock and waits
\* 15 s: it may meet another client's stop or the receiver's own, and then set the
\* state idle under a finalize job, as a stop of the busy pipeline may.
OwnStops == {"max_duration", "trigger_end", "write_error", "disk_floor"}
Alone == (\A v, w \in Workers : v = w) /\ happens \cap OwnStops = {}
Undisturbed ==
  /\ happens \cap {"stop_timeout", "busy_stop"} = {}
  /\ "manual_stop" \in happens => Alone

\* After a capture stopped for disk_floor or write_error, the next one begins
\* only after a storage check that itself began after that stop.  A manual start
\* looks at the hold before it takes the lock, so a stop in between escapes it.
HoldWaitsForFreshCheck ==
  [][gen' > gen /\ (trig' \/ (Undisturbed /\ Alone)) => freshDone]_vars

\* After a manual stop the trigger fires only once power has been below the
\* threshold: stopping a long transmission does not start a new capture of it.
StopHoldsTrigger == [][gen' > gen /\ trig' => crossed]_vars

\* The recorder takes captures one after another; each is saved, or lost: it could
\* not be saved, or the process exited first.  A capture that begins while the
\* pipeline is shut down is left out: nobody ends it.
Phase(g) ==
  IF g > gen \/ (shut # "up" /\ g > stopGen) THEN "none"
  ELSE IF Saved(g) THEN "saved"
  ELSE IF Settled(g) \/ shut = "gone" THEN "lost"
  ELSE IF g = gen /\ state = "recording" THEN "open" ELSE "closing"

OneAfterAnother == INSTANCE Captures WITH phase <- [g \in Gens |-> Phase(g)]

TakesCaptures == OneAfterAnother!Spec

\* A capture that was open, or being finalized, when the shutdown began is saved
\* when it ends, whoever ended the capture and whichever side waited for it; but
\* for one whose saving fails, and the newest when its job outlasts the 5 s join.
OpenCaptureIsSaved ==
  Over => \A g \in 1..stopGen :
            \/ Saved(g)
            \/ "save_fails" \in happens /\ Settled(g)
            \/ "join_timeout" \in happens /\ g = gen /\ Pending

\* What a writer reports ends or marks its own capture only; and where no race of
\* stops disturbs it a finalize job's fields are its capture's, a capture called
\* whole is written whole, and the one that was open when the shutdown began is
\* saved but for a failing save or a job the join leaves (streaming.py, the fields).
CapturesAreSound ==
  /\ TypeOK /\ FlagsAreOurOwn
  /\ Undisturbed => FieldsBelongToJob /\ WholeMeansWritten /\ OpenCaptureIsSaved

\* No capture begins on a storage check older than the last hold, nor, by the
\* trigger, on the transmission that was just stopped by hand (streaming.py,
\* _recording_refusal and _rearm_hold).
BeginsWhenFree == HoldWaitsForFreshCheck /\ StopHoldsTrigger

=============================================================================
