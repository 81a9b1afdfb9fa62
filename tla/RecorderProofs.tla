--------------------------- MODULE RecorderProofs ---------------------------
(***************************************************************************)
(* What the recorder promises for any number of clients, captures and      *)
(* checks: a finalize job is alone with its capture's fields, a capture    *)
(* called whole is whole, the one open at the shutdown is saved or its     *)
(* loss accounted for, and none begins on a stale storage check.  It       *)
(* implements Captures, step by step.                                      *)
(***************************************************************************)
EXTENDS Recorder, SequenceTheorems, TLAPS

\* The storage loop's tick that lifts a hold began after it; a trigger held off
\* by a manual stop stays so until the power has been below the threshold.
Holds ==
  /\ ~freshDone => hold # NoHold /\ (ticks = hold \/ (ticks = hold + 1 /\ fresh))
  /\ ~crossed => rearmHold

Types ==
  /\ TypeOK /\ FlagsAreOurOwn
  /\ state = "recording" \/ Pending => gen \in Gens

\* There is one job at most, for the capture that has the fields, and while it
\* runs nothing begins: the state is finalizing, or the receiver is leaving.
OneJob ==
  /\ state = "finalizing" => Pending
  /\ Pending =>
       /\ ~endDone
       /\ \/ rc = "idle" /\ jobs = <<gen>>
          \/ rc # "idle" /\ jobs = <<>> /\ rcJob = gen
       /\ \/ state = "finalizing"
          \/ /\ shut = "join" \/ Over
             /\ state = "idle" /\ rx \in {"top", "exit"}
  /\ rc \in {"sentinel", "join", "recheck", "save", "finish"} => rcName = gen

\* The server is gone before the pipeline stops; a capture the trigger begins
\* after that is the receiver's last.
Shutting ==
  shut # "up" =>
    /\ \A w \in Workers : wpc[w] = "idle"
    /\ stopGen <= gen
    /\ gen > stopGen => rx \in {"top", "exit"}
    /\ shut = "request" => gen = stopGen /\ (state = "recording" \/ rx \in {"top", "exit"})
    /\ shut # "request" /\ gen = stopGen => state # "recording"
    /\ shut = "idle" /\ Pending => rx \in {"top", "exit"}
    /\ Over => ~Pending \/ "join_timeout" \in happens

\* A client that is alone waits for the job it asked for.
Clients ==
  /\ "manual_stop" \notin happens => \A w \in Workers : wpc[w] \in {"idle", "start"}
  /\ Alone =>
       /\ \A w \in Workers : wpc[w] = "request" => state = "recording"
       /\ Pending /\ shut = "up" => \A w \in Workers : wpc[w] = "wait"
       /\ \A w \in Workers : wpc[w] = "start" => freshDone
       /\ floorHit = 0 /\ (state = "recording" => writerErr = 0)

\* Captures are saved, or their saving fails, one after another, each by its job.
Saves ==
  /\ \A g \in Gens : (g > gen => ~Settled(g)) /\ (g < gen => Settled(g))
  /\ \A g \in Gens : Settled(g) => Saved(g) \/ "save_fails" \in happens
  /\ gen \in Gens =>
       /\ state = "recording" \/ (Pending /\ rc # "finish") => ~Settled(gen)
       /\ rc = "finish" => Settled(gen)
       /\ \/ Settled(gen) \/ state = "recording" \/ Pending
          \/ (shut = "join" \/ Over) /\ gen > stopGen

\* A capture's writer that has failed or was given up has left its error.
Written ==
  /\ WholeMeansWritten
  /\ gen \in Gens =>
       /\ writer[gen] = "failed" => writerErr # 0
       /\ writer[gen] \in {"exiting", "noted", "dead"} => gen \in clean \/ writerErr # 0
  /\ rc = "recheck" => writerErr # 0
  /\ rc = "save" => writerErr # 0 \/ writer[gen] = "dead"

Quiet == OneJob /\ Shutting /\ Clients /\ Saves /\ Written
Inv == Types /\ Holds /\ (Undisturbed => Quiet)

-----------------------------------------------------------------------------
\* What the captures and the jobs are numbers of.
LEMMA Known ==
  MaxCaptures \in Nat /\ Gens = 1..MaxCaptures
BY RecorderAssumption DEF Gens

Reasons ==
  {"none", "manual", "shutdown", "max_duration", "trigger_end", "write_error", "disk_floor"}
Doings == {"none", "run", "failed", "exiting", "noted", "dead"}

\* What a new capture finds, and what the request that ends one leaves.
LEMMA BeginIs ==
  ASSUME Types, NEW byTrigger \in BOOLEAN, Begin(byTrigger)
  PROVE  /\ gen' = gen + 1 /\ gen' \in Gens /\ writerErr' = 0 /\ floorHit' = 0
         /\ stopReason' = "none" /\ trig' = byTrigger /\ state' = "recording"
         /\ writer' \in [Gens -> Doings] /\ writer'[gen'] = "run"
<1>1. gen' = gen + 1 /\ gen' \in Gens
  BY Known DEF Types, TypeOK, Begin
<1>2. writer' = [writer EXCEPT ![gen'] = "run"]
  BY <1>1 DEF Begin
<1> QED BY <1>1, <1>2 DEF Types, TypeOK, Begin, Doings

\* A request ends the capture at hand, or finds none and changes nothing.
LEMMA RequestIs ==
  ASSUME Types, NEW reason \in Reasons, RequestEnd(reason)
  PROVE  /\ state' \in {state, "finalizing"} /\ stopReason' \in Reasons /\ endDone' \in BOOLEAN
         /\ jobs' \in Seq(Gens) /\ (UNCHANGED jobs \/ (gen \in Gens /\ state = "recording"))
         /\ state' # "recording"
         /\ state # "recording" => UNCHANGED <<state, stopReason, endDone, jobs>>
<1>1. CASE state = "recording"
  <2>1. gen \in Gens /\ jobs' \in {jobs, Append(jobs, gen)}
    BY <1>1 DEF RequestEnd, Types
  <2>2. jobs' \in Seq(Gens)
    <3>1. jobs \in Seq(Gens) /\ Append(jobs, gen) \in Seq(Gens)
      BY <2>1, AppendProperties DEF Types, TypeOK
    <3> QED BY <2>1, <3>1
  <2> QED BY <1>1, <2>1, <2>2 DEF RequestEnd
<1>2. CASE state # "recording"
  BY <1>2 DEF RequestEnd, Types, TypeOK, Reasons
<1> QED BY <1>1, <1>2

\* The types, whose writer reports and which check lifts a hold, through every step.
LEMMA TypesStep ==
  ASSUME Types, Next
  PROVE  Types'
<1> USE DEF Types, TypeOK, FlagsAreOurOwn, Pending, control, flags, receiver, recctl, writers,
        governor
<1>1. CASE RxTop
  BY <1>1, Known DEF RxTop, Running
<1>2. CASE RxRead
  BY <1>2, Known DEF RxRead
<1>3. CASE RxWrite
  <2>1. CASE UNCHANGED <<state, stopReason, endDone, jobs>>
    BY <1>3, <2>1, Known DEF RxWrite
  <2>2. ASSUME NEW reason \in AutoStops, RequestEnd(reason) PROVE Types'
    <3>1. reason \in Reasons
      BY <2>2 DEF AutoStops, Reasons
    <3>2. /\ state' \in {state, "finalizing"} /\ stopReason' \in Reasons /\ endDone' \in BOOLEAN
          /\ jobs' \in Seq(Gens) /\ (UNCHANGED jobs \/ (gen \in Gens /\ state = "recording"))
          /\ state' # "recording"
      BY <2>2, <3>1, RequestIs
    <3> QED BY <1>3, <3>2, Known DEF RxWrite, Reasons
  <2> QED BY <1>3, <2>1, <2>2 DEF RxWrite
<1>4. CASE RxTrigger
  <2>1. PICK above \in BOOLEAN :
         /\ crossed' = (crossed \/ ~above)
         /\ \/ state \in {"idle", "armed"} /\ rxArmed /\ Fire(above)
            \/ /\ state = "armed" /\ ~rxArmed /\ state' = "idle"
               /\ UNCHANGED <<rearmHold, trig, stopReason, flags, writer>>
            \/ /\ state \in {"recording", "finalizing"} \/ (state = "idle" /\ ~rxArmed)
               /\ UNCHANGED <<state, rearmHold, trig, stopReason, flags, writer>>
    BY <1>4 DEF RxTrigger
  <2>2. CASE Begin(TRUE) /\ UNCHANGED rearmHold
    <3>1. /\ gen' = gen + 1 /\ gen' \in Gens /\ writerErr' = 0 /\ floorHit' = 0
          /\ stopReason' = "none" /\ trig' = TRUE /\ state' = "recording"
          /\ writer' \in [Gens -> Doings]
      BY <2>2, BeginIs
    <3>2. TypeOK'
      <4>1. /\ UNCHANGED <<armed, endDone, wpc, recctl, sentinel, clean, abandoned, meta,
                           governor, hold, freshDone, shut, stopGen, happens, rearmHold>>
            /\ rx' = "top" /\ rxArmed' \in BOOLEAN
        BY <1>4, <2>2 DEF RxTrigger
      <4>2. crossed' \in BOOLEAN
        BY <2>1
      <4> QED BY <3>1, <4>1, <4>2, Known DEF Doings
    <3>3. FlagsAreOurOwn'
      BY <1>4, <2>1, <2>2, <3>1, Known DEF RxTrigger, Doings
    <3>4. state' = "recording" \/ Pending' => gen' \in Gens
      BY <1>4, <2>1, <2>2, <3>1, Known DEF RxTrigger, Doings
    <3> QED BY <3>2, <3>3, <3>4
  <2>3. CASE /\ state' \in {"idle", "armed", state} /\ UNCHANGED <<trig, stopReason, flags, writer>>
             /\ rearmHold' \in BOOLEAN
    <3>1. crossed' \in BOOLEAN
      BY <2>1
    <3>2. TypeOK'
      <4>1. /\ UNCHANGED <<armed, endDone, wpc, recctl, sentinel, clean, abandoned, meta,
                           governor, hold, freshDone, shut, stopGen, happens>>
            /\ rx' = "top" /\ rxArmed' \in BOOLEAN
        BY <1>4 DEF RxTrigger
      <4>2. state' \in {"idle", "armed", "recording", "finalizing"}
        BY <2>3
      <4> QED BY <2>3, <3>1, <4>1, <4>2
    <3>3. FlagsAreOurOwn'
      BY <1>4, <2>3, <3>1, Known DEF RxTrigger
    <3>4. state' = "recording" \/ Pending' => gen' \in Gens
      BY <1>4, <2>3, <3>1, Known DEF RxTrigger
    <3> QED BY <3>2, <3>3, <3>4
  <2> QED BY <2>1, <2>2, <2>3 DEF Fire
<1>5. CASE Arm
  BY <1>5, Known DEF Arm
<1>6. CASE Disarm
  <2>1. state' \in {state, "idle"} /\ UNCHANGED <<jobs, rc, gen>>
    BY <1>6 DEF Disarm
  <2>2. TypeOK'
    <3>1. /\ state' \in {"idle", "armed", "recording", "finalizing"}
          /\ armed' \in BOOLEAN /\ rearmHold' \in BOOLEAN /\ crossed' \in BOOLEAN
      BY <1>6 DEF Disarm
    <3>2. UNCHANGED <<trig, stopReason, endDone, flags, receiver, wpc, recctl, writers, meta,
                      governor, hold, freshDone, shut, stopGen, happens>>
      BY <1>6 DEF Disarm
    <3> QED BY <3>1, <3>2
  <2>3. FlagsAreOurOwn'
    BY <1>6, <2>1, Known DEF Disarm
  <2>4. state' = "recording" \/ Pending' => gen' \in Gens
    BY <1>6, <2>1, Known DEF Disarm
  <2> QED BY <2>2, <2>3, <2>4
<1>7. CASE RcTake
  BY <1>7, Known DEF RcTake
<1>8. CASE RcName
  BY <1>8, Known DEF RcName
<1>9. CASE RcSentinel
  <2>1. sentinel' \subseteq Gens
    BY <1>9 DEF RcSentinel
  <2> QED BY <1>9, <2>1, Known DEF RcSentinel
<1>10. CASE RcJoin
  BY <1>10, Known DEF RcJoin
<1>11. CASE RcAbandon
  BY <1>11, Known DEF RcAbandon
<1>12. CASE RcRecheck
  BY <1>12, Known DEF RcRecheck
<1>13. CASE RcSave
  <2>1. meta' \in [Gens -> {"none", "ok", "failed", "lost"}]
    BY <1>13 DEF RcSave
  <2> QED BY <1>13, <2>1, Known DEF RcSave
<1>14. CASE RcFinish
  <2>1. /\ hold' \in Nat \cup {NoHold} /\ fresh' \in BOOLEAN /\ freshDone' \in BOOLEAN
    BY <1>14 DEF RcFinish
  <2> QED BY <1>14, <2>1, Known DEF RcFinish
<1>15. CASE TickBegins
  BY <1>15, Known DEF TickBegins
<1>16. CASE TickEnds
  BY <1>16, Known DEF TickEnds
<1>17. CASE ShutRead
  BY <1>17, Known DEF ShutRead
<1>18. CASE ShutRequest
  <2>1. /\ state' \in {state, "finalizing"} /\ stopReason' \in Reasons /\ endDone' \in BOOLEAN
        /\ jobs' \in Seq(Gens) /\ (UNCHANGED jobs \/ (gen \in Gens /\ state = "recording"))
        /\ state' # "recording"
    BY <1>18, RequestIs DEF ShutRequest, Reasons
  <2> QED BY <1>18, <2>1, Known DEF ShutRequest, Reasons
<1>19. CASE ShutWait
  BY <1>19, Known DEF ShutWait
<1>20. CASE ShutIdle
  BY <1>20, Known DEF ShutIdle
<1>21. CASE ShutJoin
  BY <1>21, Known DEF ShutJoin
<1>22. ASSUME NEW w \in Workers, StartCheck(w) PROVE Types'
  BY <1>22, Known DEF StartCheck, Goto
<1>23. ASSUME NEW w \in Workers, StartBegin(w) PROVE Types'
  <2>1. wpc' \in [Workers -> {"idle", "start", "request", "wait", "settle"}]
    BY <1>23 DEF StartBegin, Goto
  <2>2. CASE UNCHANGED <<state, trig, stopReason, flags, writer>>
    BY <1>23, <2>1, <2>2, Known DEF StartBegin
  <2>3. CASE Begin(FALSE)
    <3>1. /\ gen' = gen + 1 /\ gen' \in Gens /\ writerErr' = 0 /\ floorHit' = 0
          /\ stopReason' = "none" /\ trig' = FALSE /\ state' = "recording"
          /\ writer' \in [Gens -> Doings]
      BY <2>3, BeginIs
    <3>2. TypeOK'
      <4>1. UNCHANGED <<armed, rearmHold, endDone, receiver, recctl, sentinel, clean, abandoned,
                        meta,
                        governor, hold, freshDone, crossed, shut, stopGen, happens>>
        BY <1>23 DEF StartBegin
      <4>2. gen' \in 0..MaxCaptures
        BY <3>1, Known
      <4>3. trig' \in BOOLEAN
        BY <3>1
      <4>4. state' = "recording" /\ stopReason' = "none" /\ writerErr' = 0 /\ floorHit' = 0
            /\ writer' \in [Gens -> Doings]
        BY <3>1
      <4> QED BY <2>1, <4>1, <4>2, <4>3, <4>4, Known DEF Doings
    <3>3. FlagsAreOurOwn'
      BY <1>23, <2>1, <3>1, Known DEF StartBegin, Doings
    <3>4. state' = "recording" \/ Pending' => gen' \in Gens
      BY <1>23, <2>1, <3>1, Known DEF StartBegin, Doings
    <3> QED BY <3>2, <3>3, <3>4
  <2> QED BY <1>23, <2>2, <2>3 DEF StartBegin
<1>24. ASSUME NEW w \in Workers, StopRead(w) PROVE Types'
  <2>1. wpc' \in [Workers -> {"idle", "start", "request", "wait", "settle"}]
    BY <1>24 DEF StopRead, Goto
  <2>2. rearmHold' \in BOOLEAN /\ crossed' \in BOOLEAN
    BY <1>24 DEF StopRead
  <2> QED BY <1>24, <2>1, <2>2, Known DEF StopRead
<1>25. ASSUME NEW w \in Workers, StopRequest(w) PROVE Types'
  <2>1. /\ state' \in {state, "finalizing"} /\ stopReason' \in Reasons /\ endDone' \in BOOLEAN
        /\ jobs' \in Seq(Gens) /\ (UNCHANGED jobs \/ (gen \in Gens /\ state = "recording"))
        /\ state' # "recording"
    BY <1>25, RequestIs DEF StopRequest, Reasons
  <2> QED BY <1>25, <2>1, Known DEF StopRequest, Reasons, Goto
<1>26. ASSUME NEW w \in Workers, StopWait(w) PROVE Types'
  BY <1>26, Known DEF StopWait, Goto
<1>27. ASSUME NEW w \in Workers, StopSettle(w) PROVE Types'
  <2>1. state' \in {state, "idle", "armed"} /\ UNCHANGED <<jobs, rc, gen>>
    BY <1>27 DEF StopSettle
  <2>2. wpc' \in [Workers -> {"idle", "start", "request", "wait", "settle"}]
    BY <1>27 DEF StopSettle, Goto
  <2>3. TypeOK'
    <3>1. state' \in {"idle", "armed", "recording", "finalizing"} /\ trig' \in BOOLEAN
      BY <1>27, <2>1 DEF StopSettle
    <3>2. UNCHANGED <<armed, rearmHold, stopReason, endDone, flags, receiver, recctl, writers, meta,
                      governor, hold, freshDone, crossed, shut, stopGen, happens>>
      BY <1>27 DEF StopSettle
    <3> QED BY <2>2, <3>1, <3>2
  <2>4. FlagsAreOurOwn'
    BY <1>27, <2>1, <2>2, Known DEF StopSettle
  <2>5. state' = "recording" \/ Pending' => gen' \in Gens
    BY <1>27, <2>1, <2>2, Known DEF StopSettle
  <2> QED BY <2>3, <2>4, <2>5
<1>28. ASSUME NEW g \in Gens, WriterFails(g) PROVE Types'
  BY <1>28, Known DEF WriterFails
<1>29. ASSUME NEW g \in Gens, WriterSeesFloor(g) PROVE Types'
  BY <1>29, Known DEF WriterSeesFloor
<1>30. ASSUME NEW g \in Gens, WriterStops(g) PROVE Types'
  BY <1>30, Known DEF WriterStops
<1>31. ASSUME NEW g \in Gens, WriterNotes(g) PROVE Types'
  BY <1>31, Known DEF WriterNotes
<1>32. ASSUME NEW g \in Gens, WriterDies(g) PROVE Types'
  BY <1>32, Known DEF WriterDies
<1>33. CASE ProcessExits
  BY <1>33, Known DEF ProcessExits
<1> QED BY <1>1, <1>2, <1>3, <1>4, <1>5, <1>6, <1>7, <1>8, <1>9, <1>10, <1>11, <1>12, <1>13,
   <1>14, <1>15, <1>16, <1>17, <1>18, <1>19, <1>20, <1>21, <1>22, <1>23, <1>24, <1>25, <1>26,
   <1>27, <1>28, <1>29, <1>30, <1>31, <1>32, <1>33 DEF Next, RcStep, OtherStep

\* Which check lifts a hold, and which chunk a trigger that was stopped by hand.
LEMMA HoldsStep ==
  ASSUME Types, Holds, Next
  PROVE  Holds'
<1> USE DEF Holds, Types, TypeOK, NoHold, control, flags, receiver, recctl, writers, governor
<1>1. CASE RxTop
  BY <1>1, Known DEF RxTop, Running
<1>2. CASE RxRead
  BY <1>2, Known DEF RxRead
<1>3. CASE RxWrite
  BY <1>3, Known DEF RxWrite, RequestEnd
<1>4. CASE RxTrigger
  BY <1>4, Known DEF RxTrigger, Fire, Begin, Refused
<1>5. CASE Arm
  BY <1>5, Known DEF Arm
<1>6. CASE Disarm
  BY <1>6, Known DEF Disarm
<1>7. CASE RcTake
  BY <1>7, Known DEF RcTake
<1>8. CASE RcName
  BY <1>8, Known DEF RcName
<1>9. CASE RcSentinel
  BY <1>9, Known DEF RcSentinel
<1>10. CASE RcJoin
  BY <1>10, Known DEF RcJoin
<1>11. CASE RcAbandon
  BY <1>11, Known DEF RcAbandon
<1>12. CASE RcRecheck
  BY <1>12, Known DEF RcRecheck
<1>13. CASE RcSave
  BY <1>13, Known DEF RcSave
<1>14. CASE RcFinish
  BY <1>14, Known DEF RcFinish
<1>15. CASE TickBegins
  BY <1>15, Known DEF TickBegins
<1>16. CASE TickEnds
  BY <1>16, Known DEF TickEnds
<1>17. CASE ShutRead
  BY <1>17, Known DEF ShutRead
<1>18. CASE ShutRequest
  BY <1>18, Known DEF ShutRequest, RequestEnd
<1>19. CASE ShutWait
  BY <1>19, Known DEF ShutWait
<1>20. CASE ShutIdle
  BY <1>20, Known DEF ShutIdle
<1>21. CASE ShutJoin
  BY <1>21, Known DEF ShutJoin
<1>22. ASSUME NEW w \in Workers, StartCheck(w) PROVE Holds'
  BY <1>22, Known DEF StartCheck, Goto
<1>23. ASSUME NEW w \in Workers, StartBegin(w) PROVE Holds'
  BY <1>23, Known DEF StartBegin, Begin, Goto
<1>24. ASSUME NEW w \in Workers, StopRead(w) PROVE Holds'
  BY <1>24, Known DEF StopRead, Goto
<1>25. ASSUME NEW w \in Workers, StopRequest(w) PROVE Holds'
  BY <1>25, Known DEF StopRequest, Goto, RequestEnd
<1>26. ASSUME NEW w \in Workers, StopWait(w) PROVE Holds'
  BY <1>26, Known DEF StopWait, Goto
<1>27. ASSUME NEW w \in Workers, StopSettle(w) PROVE Holds'
  BY <1>27, Known DEF StopSettle, Goto
<1>28. ASSUME NEW g \in Gens, WriterFails(g) PROVE Holds'
  BY <1>28, Known DEF WriterFails
<1>29. ASSUME NEW g \in Gens, WriterSeesFloor(g) PROVE Holds'
  BY <1>29, Known DEF WriterSeesFloor
<1>30. ASSUME NEW g \in Gens, WriterStops(g) PROVE Holds'
  BY <1>30, Known DEF WriterStops
<1>31. ASSUME NEW g \in Gens, WriterNotes(g) PROVE Holds'
  BY <1>31, Known DEF WriterNotes
<1>32. ASSUME NEW g \in Gens, WriterDies(g) PROVE Holds'
  BY <1>32, Known DEF WriterDies
<1>33. CASE ProcessExits
  BY <1>33, Known DEF ProcessExits
<1> QED BY <1>1, <1>2, <1>3, <1>4, <1>5, <1>6, <1>7, <1>8, <1>9, <1>10, <1>11, <1>12, <1>13,
   <1>14, <1>15, <1>16, <1>17, <1>18, <1>19, <1>20, <1>21, <1>22, <1>23, <1>24, <1>25, <1>26,
   <1>27, <1>28, <1>29, <1>30, <1>31, <1>32, <1>33 DEF Next, RcStep, OtherStep

\* A finalize job is alone, in behaviours that no race of stops disturbs.
LEMMA OneJobStep ==
  ASSUME Types, Holds, Undisturbed, Quiet, Next
  PROVE  OneJob'
<1> USE DEF Over, Quiet, OneJob, Shutting, Clients, Types, TypeOK, FlagsAreOurOwn, Pending,
        Undisturbed, Alone, OwnStops, control, flags, receiver, recctl, writers, governor
<1>1. CASE RxTop
  BY <1>1, Known DEF RxTop, Running
<1>2. CASE RxRead
  BY <1>2, Known DEF RxRead
<1>3. CASE RxWrite
  <2>1. CASE UNCHANGED <<state, stopReason, endDone, jobs>>
    BY <1>3, <2>1 DEF RxWrite
  <2>2. ASSUME NEW reason \in AutoStops, RequestEnd(reason) PROVE OneJob'
    <3>1. CASE state = "recording"
      <4>1. ~Pending
        BY <3>1
      <4>2. ~Over
        <5>1. rx = "write"
          BY <1>3 DEF RxWrite
        <5> QED BY <3>1, <5>1
      <4>3. jobs' = <<gen>> /\ state' = "finalizing" /\ ~endDone' /\ UNCHANGED <<rc, gen>>
        BY <1>3, <2>2, <3>1, <4>1, <4>2 DEF RxWrite, RequestEnd
      <4> QED BY <4>1, <4>3
    <3>2. CASE state # "recording"
      BY <1>3, <2>2, <3>2 DEF RxWrite, RequestEnd
    <3> QED BY <3>1, <3>2
  <2> QED BY <1>3, <2>1, <2>2 DEF RxWrite
<1>4. CASE RxTrigger
  BY <1>4, Known DEF RxTrigger, Fire, Begin, Refused
<1>5. CASE Arm
  <2>1. state' = "armed" => state \in {"idle", "armed"}
    BY <1>5 DEF Arm
  <2>2. UNCHANGED <<endDone, jobs, rc, rcJob, rcName, gen, rx, shut>> /\ shut = "up"
    BY <1>5 DEF Arm, Serves
  <2>3. state' = "finalizing" <=> state = "finalizing"
    BY <1>5 DEF Arm
  <2> QED BY <2>1, <2>2, <2>3
<1>6. CASE Disarm
  <2>1. UNCHANGED <<endDone, jobs, rc, rcJob, rcName, gen, rx, shut>> /\ shut = "up"
    BY <1>6 DEF Disarm, Serves
  <2>2. state' = "finalizing" <=> state = "finalizing"
    BY <1>6 DEF Disarm
  <2> QED BY <2>1, <2>2
<1>7. CASE RcTake
  <2>1. Pending /\ rc = "idle" /\ jobs = <<gen>>
    BY <1>7 DEF RcTake
  <2>2. rc' = "tail" /\ rcJob' = gen /\ jobs' = <<>>
    BY <1>7, <2>1 DEF RcTake
  <2>3. UNCHANGED <<state, endDone, gen, shut, rx, rcName>>
    BY <1>7 DEF RcTake
  <2> QED BY <2>1, <2>2, <2>3
<1>8. CASE RcName
  BY <1>8, Known DEF RcName
<1>9. CASE RcSentinel
  BY <1>9, Known DEF RcSentinel
<1>10. CASE RcJoin
  BY <1>10, Known DEF RcJoin
<1>11. CASE RcAbandon
  BY <1>11, Known DEF RcAbandon
<1>12. CASE RcRecheck
  BY <1>12, Known DEF RcRecheck
<1>13. CASE RcSave
  BY <1>13, Known DEF RcSave
<1>14. CASE RcFinish
  BY <1>14, Known DEF RcFinish
<1>15. CASE TickBegins
  BY <1>15, Known DEF TickBegins
<1>16. CASE TickEnds
  BY <1>16, Known DEF TickEnds
<1>17. CASE ShutRead
  BY <1>17, Known DEF ShutRead
<1>18. CASE ShutRequest
  <2>1. CASE state = "recording"
    <3>1. ~Pending
      BY <2>1
    <3>2. jobs' = <<gen>> /\ state' = "finalizing" /\ ~endDone' /\ UNCHANGED <<rc, gen>>
      BY <1>18, <2>1, <3>1 DEF ShutRequest, RequestEnd
    <3> QED BY <3>1, <3>2
  <2>2. CASE state # "recording"
    <3>1. UNCHANGED <<state, endDone, jobs, rc, rcJob, rcName, gen, rx>>
      BY <1>18, <2>2 DEF ShutRequest, RequestEnd
    <3> QED BY <1>18, <3>1 DEF ShutRequest
  <2> QED BY <2>1, <2>2
<1>19. CASE ShutWait
  BY <1>19, Known DEF ShutWait
<1>20. CASE ShutIdle
  BY <1>20, Known DEF ShutIdle
<1>21. CASE ShutJoin
  BY <1>21, Known DEF ShutJoin
<1>22. ASSUME NEW w \in Workers, StartCheck(w) PROVE OneJob'
  BY <1>22, Known DEF StartCheck, Goto
<1>23. ASSUME NEW w \in Workers, StartBegin(w) PROVE OneJob'
  BY <1>23, Known DEF StartBegin, Begin, Goto
<1>24. ASSUME NEW w \in Workers, StopRead(w) PROVE OneJob'
  BY <1>24, Known DEF StopRead, Goto
<1>25. ASSUME NEW w \in Workers, StopRequest(w) PROVE OneJob'
  <2>1. CASE state = "recording"
    <3>1. ~Pending
      BY <2>1
    <3>2. jobs' = <<gen>> /\ state' = "finalizing" /\ ~endDone' /\ UNCHANGED <<rc, gen>>
      <4>1. wpc[w] # "idle"
        BY <1>25 DEF StopRequest
      <4>2. ~Over
        BY <4>1
      <4> QED BY <1>25, <2>1, <3>1, <4>2 DEF StopRequest, RequestEnd
    <3> QED BY <3>1, <3>2
  <2>2. CASE state # "recording"
    <3>1. UNCHANGED <<state, endDone, jobs, rc, rcJob, rcName, gen, rx>>
      BY <1>25, <2>2 DEF StopRequest, RequestEnd
    <3> QED BY <1>25, <3>1 DEF StopRequest
  <2> QED BY <2>1, <2>2
<1>26. ASSUME NEW w \in Workers, StopWait(w) PROVE OneJob'
  BY <1>26, Known DEF StopWait, Goto
<1>27. ASSUME NEW w \in Workers, StopSettle(w) PROVE OneJob'
  BY <1>27, Known DEF StopSettle, Goto
<1>28. ASSUME NEW g \in Gens, WriterFails(g) PROVE OneJob'
  BY <1>28, Known DEF WriterFails
<1>29. ASSUME NEW g \in Gens, WriterSeesFloor(g) PROVE OneJob'
  BY <1>29, Known DEF WriterSeesFloor
<1>30. ASSUME NEW g \in Gens, WriterStops(g) PROVE OneJob'
  BY <1>30, Known DEF WriterStops
<1>31. ASSUME NEW g \in Gens, WriterNotes(g) PROVE OneJob'
  BY <1>31, Known DEF WriterNotes
<1>32. ASSUME NEW g \in Gens, WriterDies(g) PROVE OneJob'
  BY <1>32, Known DEF WriterDies
<1>33. CASE ProcessExits
  BY <1>33, Known DEF ProcessExits
<1> QED BY <1>1, <1>2, <1>3, <1>4, <1>5, <1>6, <1>7, <1>8, <1>9, <1>10, <1>11, <1>12, <1>13,
   <1>14, <1>15, <1>16, <1>17, <1>18, <1>19, <1>20, <1>21, <1>22, <1>23, <1>24, <1>25, <1>26,
   <1>27, <1>28, <1>29, <1>30, <1>31, <1>32, <1>33 DEF Next, RcStep, OtherStep

\* Nothing begins behind the shutdown's back but the receiver's last capture.
LEMMA ShuttingStep ==
  ASSUME Types, Holds, Undisturbed, Quiet, Next
  PROVE  Shutting'
<1> USE DEF Over, Quiet, OneJob, Shutting, Clients, Serves, Running, Types, TypeOK, FlagsAreOurOwn,
        Pending, Undisturbed, Alone, OwnStops, control, flags, receiver, recctl, writers,
        governor
<1>1. CASE RxTop
  BY <1>1, Known DEF RxTop, Running
<1>2. CASE RxRead
  BY <1>2, Known DEF RxRead
<1>3. CASE RxWrite
  BY <1>3, Known DEF RxWrite, RequestEnd
<1>4. CASE RxTrigger
  BY <1>4, Known DEF RxTrigger, Fire, Begin, Refused
<1>5. CASE Arm
  BY <1>5, Known DEF Arm
<1>6. CASE Disarm
  BY <1>6, Known DEF Disarm
<1>7. CASE RcTake
  BY <1>7, Known DEF RcTake
<1>8. CASE RcName
  BY <1>8, Known DEF RcName
<1>9. CASE RcSentinel
  BY <1>9, Known DEF RcSentinel
<1>10. CASE RcJoin
  BY <1>10, Known DEF RcJoin
<1>11. CASE RcAbandon
  BY <1>11, Known DEF RcAbandon
<1>12. CASE RcRecheck
  BY <1>12, Known DEF RcRecheck
<1>13. CASE RcSave
  BY <1>13, Known DEF RcSave
<1>14. CASE RcFinish
  BY <1>14, Known DEF RcFinish
<1>15. CASE TickBegins
  BY <1>15, Known DEF TickBegins
<1>16. CASE TickEnds
  BY <1>16, Known DEF TickEnds
<1>17. CASE ShutRead
  BY <1>17, Known DEF ShutRead
<1>18. CASE ShutRequest
  BY <1>18, Known DEF ShutRequest, RequestEnd
<1>19. CASE ShutWait
  BY <1>19, Known DEF ShutWait
<1>20. CASE ShutIdle
  BY <1>20, Known DEF ShutIdle
<1>21. CASE ShutJoin
  BY <1>21, Known DEF ShutJoin
<1>22. ASSUME NEW w \in Workers, StartCheck(w) PROVE Shutting'
  BY <1>22, Known DEF StartCheck, Goto
<1>23. ASSUME NEW w \in Workers, StartBegin(w) PROVE Shutting'
  BY <1>23, Known DEF StartBegin, Begin, Goto
<1>24. ASSUME NEW w \in Workers, StopRead(w) PROVE Shutting'
  BY <1>24, Known DEF StopRead, Goto
<1>25. ASSUME NEW w \in Workers, StopRequest(w) PROVE Shutting'
  BY <1>25, Known DEF StopRequest, Goto, RequestEnd
<1>26. ASSUME NEW w \in Workers, StopWait(w) PROVE Shutting'
  BY <1>26, Known DEF StopWait, Goto
<1>27. ASSUME NEW w \in Workers, StopSettle(w) PROVE Shutting'
  BY <1>27, Known DEF StopSettle, Goto
<1>28. ASSUME NEW g \in Gens, WriterFails(g) PROVE Shutting'
  BY <1>28, Known DEF WriterFails
<1>29. ASSUME NEW g \in Gens, WriterSeesFloor(g) PROVE Shutting'
  BY <1>29, Known DEF WriterSeesFloor
<1>30. ASSUME NEW g \in Gens, WriterStops(g) PROVE Shutting'
  BY <1>30, Known DEF WriterStops
<1>31. ASSUME NEW g \in Gens, WriterNotes(g) PROVE Shutting'
  BY <1>31, Known DEF WriterNotes
<1>32. ASSUME NEW g \in Gens, WriterDies(g) PROVE Shutting'
  BY <1>32, Known DEF WriterDies
<1>33. CASE ProcessExits
  BY <1>33, Known DEF ProcessExits
<1> QED BY <1>1, <1>2, <1>3, <1>4, <1>5, <1>6, <1>7, <1>8, <1>9, <1>10, <1>11, <1>12, <1>13,
   <1>14, <1>15, <1>16, <1>17, <1>18, <1>19, <1>20, <1>21, <1>22, <1>23, <1>24, <1>25, <1>26,
   <1>27, <1>28, <1>29, <1>30, <1>31, <1>32, <1>33 DEF Next, RcStep, OtherStep

\* A lone client starts on a fresh check and waits for its job.
LEMMA ClientsStep ==
  ASSUME Types, Holds, Undisturbed, Quiet, Next
  PROVE  Clients'
<1> USE DEF Over, Quiet, OneJob, Shutting, Clients, Holds, Serves, Types, TypeOK, FlagsAreOurOwn,
        Pending, Undisturbed, Alone, OwnStops, control, flags, receiver, recctl, writers,
        governor
<1>1. CASE RxTop
  BY <1>1, Known DEF RxTop, Running
<1>2. CASE RxRead
  BY <1>2, Known DEF RxRead
<1>3. CASE RxWrite
  <2>1. UNCHANGED <<wpc, freshDone, floorHit, writerErr, happens, rc, shut, trig>>
    BY <1>3 DEF RxWrite
  <2>2. CASE UNCHANGED <<state, jobs>>
    BY <2>1, <2>2
  <2>3. ASSUME NEW reason \in AutoStops, RequestEnd(reason), state = "recording",
               writerErr = 0 /\ floorHit = 0 => reason \in happens
        PROVE  Clients'
    <3>1. ~Alone
      <4>1. Alone => reason \in happens
        BY <2>3
      <4>2. reason \in OwnStops
        BY <2>3 DEF AutoStops
      <4> QED BY <4>1, <4>2
    <3> QED BY <2>1, <3>1
  <2>4. \/ UNCHANGED <<state, jobs>>
        \/ \E reason \in AutoStops : RequestEnd(reason) /\ state = "recording"
              /\ (writerErr = 0 /\ floorHit = 0 => reason \in happens)
    BY <1>3 DEF RxWrite, RequestEnd
  <2> QED BY <2>2, <2>3, <2>4
<1>4. CASE RxTrigger
  BY <1>4, Known DEF RxTrigger, Fire, Begin, Refused
<1>5. CASE Arm
  BY <1>5, Known DEF Arm
<1>6. CASE Disarm
  BY <1>6, Known DEF Disarm
<1>7. CASE RcTake
  BY <1>7, Known DEF RcTake
<1>8. CASE RcName
  BY <1>8, Known DEF RcName
<1>9. CASE RcSentinel
  BY <1>9, Known DEF RcSentinel
<1>10. CASE RcJoin
  BY <1>10, Known DEF RcJoin
<1>11. CASE RcAbandon
  BY <1>11, Known DEF RcAbandon
<1>12. CASE RcRecheck
  BY <1>12, Known DEF RcRecheck
<1>13. CASE RcSave
  BY <1>13, Known DEF RcSave
<1>14. CASE RcFinish
  BY <1>14, Known DEF RcFinish
<1>15. CASE TickBegins
  BY <1>15, Known DEF TickBegins
<1>16. CASE TickEnds
  BY <1>16, Known DEF TickEnds
<1>17. CASE ShutRead
  BY <1>17, Known DEF ShutRead
<1>18. CASE ShutRequest
  BY <1>18, Known DEF ShutRequest, RequestEnd
<1>19. CASE ShutWait
  BY <1>19, Known DEF ShutWait
<1>20. CASE ShutIdle
  BY <1>20, Known DEF ShutIdle
<1>21. CASE ShutJoin
  BY <1>21, Known DEF ShutJoin
<1>22. ASSUME NEW w \in Workers, StartCheck(w) PROVE Clients'
  <2>1. /\ UNCHANGED <<state, freshDone, floorHit, writerErr, happens, jobs, rc, shut>>
        /\ wpc' = [wpc EXCEPT ![w] = "start"] /\ wpc[w] = "idle" /\ shut = "up" /\ ~Refused
    BY <1>22 DEF StartCheck, Goto, Serves
  <2>2. Alone => ~Pending
    BY <2>1
  <2>3. freshDone
    BY <2>1 DEF Refused
  <2> QED BY <2>1, <2>2, <2>3
<1>23. ASSUME NEW w \in Workers, StartBegin(w) PROVE Clients'
  BY <1>23, Known DEF StartBegin, Begin, Goto
<1>24. ASSUME NEW w \in Workers, StopRead(w) PROVE Clients'
  BY <1>24, Known DEF StopRead, Goto
<1>25. ASSUME NEW w \in Workers, StopRequest(w) PROVE Clients'
  BY <1>25, Known DEF StopRequest, Goto, RequestEnd
<1>26. ASSUME NEW w \in Workers, StopWait(w) PROVE Clients'
  BY <1>26, Known DEF StopWait, Goto
<1>27. ASSUME NEW w \in Workers, StopSettle(w) PROVE Clients'
  BY <1>27, Known DEF StopSettle, Goto
<1>28. ASSUME NEW g \in Gens, WriterFails(g) PROVE Clients'
  BY <1>28, Known DEF WriterFails
<1>29. ASSUME NEW g \in Gens, WriterSeesFloor(g) PROVE Clients'
  BY <1>29, Known DEF WriterSeesFloor
<1>30. ASSUME NEW g \in Gens, WriterStops(g) PROVE Clients'
  BY <1>30, Known DEF WriterStops
<1>31. ASSUME NEW g \in Gens, WriterNotes(g) PROVE Clients'
  BY <1>31, Known DEF WriterNotes
<1>32. ASSUME NEW g \in Gens, WriterDies(g) PROVE Clients'
  BY <1>32, Known DEF WriterDies
<1>33. CASE ProcessExits
  BY <1>33, Known DEF ProcessExits
<1> QED BY <1>1, <1>2, <1>3, <1>4, <1>5, <1>6, <1>7, <1>8, <1>9, <1>10, <1>11, <1>12, <1>13,
   <1>14, <1>15, <1>16, <1>17, <1>18, <1>19, <1>20, <1>21, <1>22, <1>23, <1>24, <1>25, <1>26,
   <1>27, <1>28, <1>29, <1>30, <1>31, <1>32, <1>33 DEF Next, RcStep, OtherStep

\* Every capture before the one at hand is saved.
LEMMA SavesStep ==
  ASSUME Types, Holds, Undisturbed, Quiet, Next
  PROVE  Saves'
<1> USE DEF Over, Quiet, OneJob, Shutting, Saves, Saved, Settled, Types, TypeOK, FlagsAreOurOwn, Pending,
        Undisturbed, Alone, OwnStops, control, flags, receiver, recctl, writers, governor
<1>1. CASE RxTop
  BY <1>1, Known DEF RxTop, Running
<1>2. CASE RxRead
  BY <1>2, Known DEF RxRead
<1>3. CASE RxWrite
  BY <1>3, Known DEF RxWrite, RequestEnd
<1>4. CASE RxTrigger
  BY SMTT(30), <1>4, Known DEF RxTrigger, Fire, Begin, Refused
<1>5. CASE Arm
  BY <1>5, Known DEF Arm
<1>6. CASE Disarm
  BY <1>6, Known DEF Disarm
<1>7. CASE RcTake
  BY <1>7, Known DEF RcTake
<1>8. CASE RcName
  BY <1>8, Known DEF RcName
<1>9. CASE RcSentinel
  BY <1>9, Known DEF RcSentinel
<1>10. CASE RcJoin
  BY <1>10, Known DEF RcJoin
<1>11. CASE RcAbandon
  BY <1>11, Known DEF RcAbandon
<1>12. CASE RcRecheck
  BY <1>12, Known DEF RcRecheck
<1>13. CASE RcSave
  BY <1>13, Known DEF RcSave
<1>14. CASE RcFinish
  BY <1>14, Known DEF RcFinish
<1>15. CASE TickBegins
  BY <1>15, Known DEF TickBegins
<1>16. CASE TickEnds
  BY <1>16, Known DEF TickEnds
<1>17. CASE ShutRead
  BY <1>17, Known DEF ShutRead
<1>18. CASE ShutRequest
  BY <1>18, Known DEF ShutRequest, RequestEnd
<1>19. CASE ShutWait
  BY <1>19, Known DEF ShutWait
<1>20. CASE ShutIdle
  BY <1>20, Known DEF ShutIdle
<1>21. CASE ShutJoin
  BY <1>21, Known DEF ShutJoin
<1>22. ASSUME NEW w \in Workers, StartCheck(w) PROVE Saves'
  BY <1>22, Known DEF StartCheck, Goto
<1>23. ASSUME NEW w \in Workers, StartBegin(w) PROVE Saves'
  BY <1>23, Known DEF StartBegin, Begin, Goto
<1>24. ASSUME NEW w \in Workers, StopRead(w) PROVE Saves'
  BY <1>24, Known DEF StopRead, Goto
<1>25. ASSUME NEW w \in Workers, StopRequest(w) PROVE Saves'
  BY <1>25, Known DEF StopRequest, Goto, RequestEnd
<1>26. ASSUME NEW w \in Workers, StopWait(w) PROVE Saves'
  BY <1>26, Known DEF StopWait, Goto
<1>27. ASSUME NEW w \in Workers, StopSettle(w) PROVE Saves'
  BY <1>27, Known DEF StopSettle, Goto
<1>28. ASSUME NEW g \in Gens, WriterFails(g) PROVE Saves'
  BY <1>28, Known DEF WriterFails
<1>29. ASSUME NEW g \in Gens, WriterSeesFloor(g) PROVE Saves'
  BY <1>29, Known DEF WriterSeesFloor
<1>30. ASSUME NEW g \in Gens, WriterStops(g) PROVE Saves'
  BY <1>30, Known DEF WriterStops
<1>31. ASSUME NEW g \in Gens, WriterNotes(g) PROVE Saves'
  BY <1>31, Known DEF WriterNotes
<1>32. ASSUME NEW g \in Gens, WriterDies(g) PROVE Saves'
  BY <1>32, Known DEF WriterDies
<1>33. CASE ProcessExits
  BY <1>33, Known DEF ProcessExits
<1> QED BY <1>1, <1>2, <1>3, <1>4, <1>5, <1>6, <1>7, <1>8, <1>9, <1>10, <1>11, <1>12, <1>13,
   <1>14, <1>15, <1>16, <1>17, <1>18, <1>19, <1>20, <1>21, <1>22, <1>23, <1>24, <1>25, <1>26,
   <1>27, <1>28, <1>29, <1>30, <1>31, <1>32, <1>33 DEF Next, RcStep, OtherStep

\* What is called whole is whole.
LEMMA WrittenStep ==
  ASSUME Types, Holds, Undisturbed, Quiet, Next
  PROVE  Written'
<1> USE DEF Over, Quiet, OneJob, Shutting, Written, Saved, WholeMeansWritten, Types, TypeOK,
        FlagsAreOurOwn, Pending, Undisturbed, Alone, OwnStops, control, flags, receiver, recctl,
        writers, governor
<1>1. CASE RxTop
  BY <1>1, Known DEF RxTop, Running
<1>2. CASE RxRead
  BY <1>2, Known DEF RxRead
<1>3. CASE RxWrite
  BY <1>3, Known DEF RxWrite, RequestEnd
<1>4. CASE RxTrigger
  BY SMTT(30), <1>4, Known DEF RxTrigger, Fire, Begin, Refused
<1>5. CASE Arm
  BY <1>5, Known DEF Arm
<1>6. CASE Disarm
  BY <1>6, Known DEF Disarm
<1>7. CASE RcTake
  BY <1>7, Known DEF RcTake
<1>8. CASE RcName
  BY <1>8, Known DEF RcName
<1>9. CASE RcSentinel
  BY <1>9, Known DEF RcSentinel
<1>10. CASE RcJoin
  BY <1>10, Known DEF RcJoin
<1>11. CASE RcAbandon
  BY <1>11, Known DEF RcAbandon
<1>12. CASE RcRecheck
  BY <1>12, Known DEF RcRecheck
<1>13. CASE RcSave
  BY <1>13, Known DEF RcSave
<1>14. CASE RcFinish
  BY <1>14, Known DEF RcFinish
<1>15. CASE TickBegins
  BY <1>15, Known DEF TickBegins
<1>16. CASE TickEnds
  BY <1>16, Known DEF TickEnds
<1>17. CASE ShutRead
  BY <1>17, Known DEF ShutRead
<1>18. CASE ShutRequest
  BY <1>18, Known DEF ShutRequest, RequestEnd
<1>19. CASE ShutWait
  BY <1>19, Known DEF ShutWait
<1>20. CASE ShutIdle
  BY <1>20, Known DEF ShutIdle
<1>21. CASE ShutJoin
  BY <1>21, Known DEF ShutJoin
<1>22. ASSUME NEW w \in Workers, StartCheck(w) PROVE Written'
  BY <1>22, Known DEF StartCheck, Goto
<1>23. ASSUME NEW w \in Workers, StartBegin(w) PROVE Written'
  <2>1. UNCHANGED <<rc, clean, meta>>
    BY <1>23 DEF StartBegin
  <2>2. CASE UNCHANGED <<state, trig, stopReason, flags, writer>>
    BY <2>1, <2>2
  <2>3. CASE Begin(FALSE) /\ state \notin {"recording", "finalizing"}
    <3>1. gen' \in Gens /\ writer'[gen'] = "run" /\ writerErr' = 0
      BY <2>3, BeginIs
    <3>2. shut = "up"
      BY <1>23 DEF StartBegin
    <3>3. ~Pending
      BY <2>3, <3>2
    <3> QED BY <2>1, <3>1, <3>3
  <2> QED BY <1>23, <2>2, <2>3 DEF StartBegin
<1>24. ASSUME NEW w \in Workers, StopRead(w) PROVE Written'
  BY <1>24, Known DEF StopRead, Goto
<1>25. ASSUME NEW w \in Workers, StopRequest(w) PROVE Written'
  BY <1>25, Known DEF StopRequest, Goto, RequestEnd
<1>26. ASSUME NEW w \in Workers, StopWait(w) PROVE Written'
  BY <1>26, Known DEF StopWait, Goto
<1>27. ASSUME NEW w \in Workers, StopSettle(w) PROVE Written'
  BY <1>27, Known DEF StopSettle, Goto
<1>28. ASSUME NEW g \in Gens, WriterFails(g) PROVE Written'
  BY <1>28, Known DEF WriterFails
<1>29. ASSUME NEW g \in Gens, WriterSeesFloor(g) PROVE Written'
  BY <1>29, Known DEF WriterSeesFloor
<1>30. ASSUME NEW g \in Gens, WriterStops(g) PROVE Written'
  BY <1>30, Known DEF WriterStops
<1>31. ASSUME NEW g \in Gens, WriterNotes(g) PROVE Written'
  BY <1>31, Known DEF WriterNotes
<1>32. ASSUME NEW g \in Gens, WriterDies(g) PROVE Written'
  BY <1>32, Known DEF WriterDies
<1>33. CASE ProcessExits
  BY <1>33, Known DEF ProcessExits
<1> QED BY <1>1, <1>2, <1>3, <1>4, <1>5, <1>6, <1>7, <1>8, <1>9, <1>10, <1>11, <1>12, <1>13,
   <1>14, <1>15, <1>16, <1>17, <1>18, <1>19, <1>20, <1>21, <1>22, <1>23, <1>24, <1>25, <1>26,
   <1>27, <1>28, <1>29, <1>30, <1>31, <1>32, <1>33 DEF Next, RcStep, OtherStep

\* Only the trigger and a client begin captures, and what may happen stays.
LEMMA OnlyBegins ==
  ASSUME Next PROVE UNCHANGED gen \/ RxTrigger \/ \E w \in Workers : StartBegin(w)
<1> USE DEF control, flags
<1>1. CASE RxTop \/ RxRead \/ RxWrite \/ Arm \/ Disarm \/ TickBegins \/ TickEnds
  BY <1>1 DEF RxTop, RxRead, RxWrite, Arm, Disarm, TickBegins, TickEnds
<1>2. CASE RcStep
  BY <1>2 DEF RcStep, RcTake, RcName, RcSentinel, RcJoin, RcAbandon, RcRecheck, RcSave, RcFinish
<1>3. CASE ShutRead \/ ShutRequest \/ ShutWait \/ ShutIdle \/ ShutJoin \/ ProcessExits
  BY <1>3 DEF ShutRead, ShutRequest, ShutWait, ShutIdle, ShutJoin, ProcessExits
<1>4. ASSUME NEW w \in Workers,
             StartCheck(w) \/ StopRead(w) \/ StopRequest(w) \/ StopWait(w) \/ StopSettle(w)
      PROVE  UNCHANGED gen
  BY <1>4 DEF StartCheck, StopRead, StopRequest, StopWait, StopSettle
<1>5. ASSUME NEW g \in Gens, WriterFails(g) \/ WriterSeesFloor(g) \/ WriterStops(g)
                             \/ WriterNotes(g) \/ WriterDies(g)
      PROVE  UNCHANGED gen
  BY <1>5 DEF WriterFails, WriterSeesFloor, WriterStops, WriterNotes, WriterDies
<1> QED BY <1>1, <1>2, <1>3, <1>4, <1>5 DEF Next, OtherStep

\* What may happen is chosen once.
LEMMA HappensStays == Next => UNCHANGED happens
<1> SUFFICES ASSUME Next PROVE UNCHANGED happens
  OBVIOUS
<1>1. CASE RxTop \/ RxRead \/ RxWrite \/ RxTrigger \/ Arm \/ Disarm \/ TickBegins \/ TickEnds
  BY <1>1 DEF RxTop, RxRead, RxWrite, RxTrigger, Arm, Disarm, TickBegins, TickEnds
<1>2. CASE RcStep
  BY <1>2 DEF RcStep, RcTake, RcName, RcSentinel, RcJoin, RcAbandon, RcRecheck, RcSave, RcFinish
<1>3. CASE ShutRead \/ ShutRequest \/ ShutWait \/ ShutIdle \/ ShutJoin \/ ProcessExits
  BY <1>3 DEF ShutRead, ShutRequest, ShutWait, ShutIdle, ShutJoin, ProcessExits
<1>4. ASSUME NEW w \in Workers, StartCheck(w) \/ StartBegin(w) \/ StopRead(w) \/ StopRequest(w)
                                \/ StopWait(w) \/ StopSettle(w)
      PROVE  UNCHANGED happens
  BY <1>4 DEF StartCheck, StartBegin, StopRead, StopRequest, StopWait, StopSettle
<1>5. ASSUME NEW g \in Gens, WriterFails(g) \/ WriterSeesFloor(g) \/ WriterStops(g)
                             \/ WriterNotes(g) \/ WriterDies(g)
      PROVE  UNCHANGED happens
  BY <1>5 DEF WriterFails, WriterSeesFloor, WriterStops, WriterNotes, WriterDies
<1> QED BY <1>1, <1>2, <1>3, <1>4, <1>5 DEF Next, OtherStep

\* The invariant, from the first state on.
LEMMA InvInit == Init => Inv
<1> SUFFICES ASSUME Init PROVE Inv
  OBVIOUS
<1>1. gen = 0 /\ 0 \notin Gens /\ MaxCaptures \in Nat
  BY Known DEF Init
<1>2. TypeOK
  <2>1. jobs \in Seq(Gens)
    BY DEF Init
  <2>2. /\ gen \in 0..MaxCaptures /\ writerErr \in 0..MaxCaptures /\ floorHit \in 0..MaxCaptures
        /\ rcJob \in 0..MaxCaptures /\ rcName \in 0..MaxCaptures /\ stopGen \in 0..MaxCaptures
        /\ ticks \in Nat /\ hold \in Nat \cup {NoHold}
    BY <1>1 DEF Init
  <2>3. /\ wpc \in [Workers -> {"idle", "start", "request", "wait", "settle"}]
        /\ writer \in [Gens -> {"none", "run", "failed", "exiting", "noted", "dead"}]
        /\ meta \in [Gens -> {"none", "ok", "failed", "lost"}]
    BY DEF Init
  <2>4. /\ armed \in BOOLEAN /\ rearmHold \in BOOLEAN /\ trig \in BOOLEAN /\ endDone \in BOOLEAN
        /\ rxArmed \in BOOLEAN /\ refuse \in BOOLEAN /\ fresh \in BOOLEAN
        /\ freshDone \in BOOLEAN /\ crossed \in BOOLEAN
    BY Zenon DEF Init
  <2>5. /\ state \in {"idle", "armed", "recording", "finalizing"}
        /\ stopReason \in {"none", "manual", "shutdown", "max_duration", "trigger_end",
                           "write_error", "disk_floor"}
        /\ rx \in {"top", "chunk", "write", "trigger", "exit"}
        /\ rc \in {"idle", "tail", "sentinel", "join", "recheck", "save", "finish"}
        /\ gov \in {"idle", "sampling"}
        /\ shut \in {"up", "request", "wait", "idle", "join", "done", "gone"}
    BY DEF Init
  <2>6. sentinel \subseteq Gens /\ clean \subseteq Gens /\ abandoned \subseteq Gens
    BY DEF Init
  <2> QED BY <2>1, <2>2, <2>3, <2>4, <2>5, <2>6 DEF TypeOK
<1>3. Types
  BY <1>1, <1>2 DEF Init, Types, FlagsAreOurOwn, Pending
<1>4. Holds
  BY DEF Init, Holds
<1>5. Saves
  BY <1>1 DEF Init, Saves, Saved, Settled, Pending, Gens
<1>6. OneJob /\ Shutting /\ Clients /\ Written
  BY <1>1 DEF Init, OneJob, Shutting, Clients, Written, WholeMeansWritten, Pending, Over
<1> QED BY <1>3, <1>4, <1>5, <1>6 DEF Inv, Quiet

\* Every step keeps the invariant.
LEMMA InvStep == Inv /\ [Next]_vars => Inv'
<1> SUFFICES ASSUME Inv, [Next]_vars PROVE Inv'
  OBVIOUS
<1>1. CASE Next
  <2>1. Types' /\ Holds'
    BY <1>1, TypesStep, HoldsStep DEF Inv
  <2>2. Undisturbed' => Undisturbed
    BY <1>1, HappensStays DEF Undisturbed, Alone
  <2>3. Undisturbed => Quiet'
    BY <1>1, OneJobStep, ShuttingStep, ClientsStep, SavesStep, WrittenStep DEF Inv, Quiet
  <2> QED BY <2>1, <2>2, <2>3 DEF Inv
<1>2. CASE UNCHANGED vars
  <2> USE <1>2 DEF vars, control, flags, receiver, recctl, writers, governor
  <2>1. Types' /\ Holds'
    BY DEF Inv, Types, TypeOK, FlagsAreOurOwn, Holds, Pending
  <2>2. Undisturbed' => Undisturbed
    BY DEF Undisturbed, Alone
  <2>3. Quiet => Quiet'
    BY DEF Quiet, OneJob, Shutting, Clients, Saves, Written, WholeMeansWritten, Pending, Saved,
           Settled, Over, Alone
  <2> QED BY <2>1, <2>2, <2>3 DEF Inv
<1> QED BY <1>1, <1>2

\* The invariant always holds.
LEMMA Invariance == Spec => []Inv
<1> QED BY InvInit, InvStep, PTL DEF Spec

\* Whatever the clients, the writers, the storage checks and the shutdown do, what a
\* writer reports touches its own capture only; where no race of stops disturbs it,
\* a finalize job is alone with its capture's fields, a capture called whole is
\* whole, and the one open at the shutdown is saved, but for a failing save and a
\* job that outlasts the 5 s join (streaming.py).
THEOREM FinalizeIsSound == Spec => []CapturesAreSound
<1>1. Inv => CapturesAreSound
  <2> SUFFICES ASSUME Inv, Undisturbed
               PROVE  FieldsBelongToJob /\ WholeMeansWritten /\ OpenCaptureIsSaved
    BY DEF Inv, Types, CapturesAreSound
  <2>1. FieldsBelongToJob /\ WholeMeansWritten
    BY DEF Inv, Quiet, OneJob, Written, Pending, FieldsBelongToJob
  <2>2. ASSUME Over, NEW g \in 1..stopGen
        PROVE  \/ Saved(g)
               \/ "save_fails" \in happens /\ Settled(g)
               \/ "join_timeout" \in happens /\ g = gen /\ Pending
    <3>1. /\ stopGen <= gen /\ gen \in 0..MaxCaptures /\ stopGen \in 0..MaxCaptures
          /\ ~Pending \/ "join_timeout" \in happens
          /\ gen = stopGen => state # "recording"
      BY <2>2 DEF Inv, Types, TypeOK, Quiet, Shutting, Over
    <3>2. g \in Gens /\ (g < gen \/ (g = gen /\ gen = stopGen))
      BY <3>1, Known
    <3>3. Settled(g) \/ (Pending /\ g = gen)
      BY <3>1, <3>2 DEF Inv, Quiet, Saves
    <3>4. Settled(g) => Saved(g) \/ "save_fails" \in happens
      BY <3>2 DEF Inv, Quiet, Saves
    <3> QED BY <3>1, <3>3, <3>4
  <2> QED BY <2>1, <2>2 DEF OpenCaptureIsSaved
<1> QED BY <1>1, Invariance, PTL

\* No capture the trigger begins, and none a client begins that nothing disturbs, goes
\* by a storage check older than the last hold; and the trigger does not fire on the
\* transmission that was just stopped by hand (_recording_refusal, _rearm_hold).
THEOREM BeginsAreFree == Spec => BeginsWhenFree
<1>1. ASSUME Inv, Next, gen' > gen
      PROVE  /\ trig' \/ (Undisturbed /\ Alone) => freshDone
             /\ trig' => crossed
  <2>1. CASE \E w \in Workers : StartBegin(w)
    <3>1. PICK w \in Workers : StartBegin(w)
      BY <2>1
    <3>2. ~trig' /\ wpc[w] = "start"
      BY <1>1, <3>1 DEF StartBegin, Begin, Goto, flags, Inv, Types, TypeOK
    <3>3. Undisturbed /\ Alone => freshDone
      BY <1>1, <3>2 DEF Inv, Quiet, Clients
    <3> QED BY <3>2, <3>3
  <2>2. CASE RxTrigger
    <3>1. Begin(TRUE) /\ ~Refused /\ ~rearmHold
      <4>1. gen' # gen
        BY <1>1 DEF Inv, Types, TypeOK
      <4>2. PICK above \in BOOLEAN : Fire(above) \/ UNCHANGED gen
        BY <2>2 DEF RxTrigger, flags
      <4> QED BY <4>1, <4>2 DEF Fire, flags
    <3>2. ~(hold # NoHold /\ ticks <= hold + 1)
      BY <3>1 DEF Refused
    <3>3. freshDone
      BY <1>1, <3>2 DEF Inv, Holds, Types, TypeOK, NoHold
    <3>4. crossed
      BY <1>1, <3>1 DEF Inv, Holds
    <3> QED BY <3>3, <3>4
  <2>3. UNCHANGED gen => FALSE
    BY <1>1 DEF Inv, Types, TypeOK
  <2> QED BY <1>1, <2>1, <2>2, <2>3, OnlyBegins
<1>2. Inv /\ [Next]_vars =>
        /\ [gen' > gen /\ (trig' \/ (Undisturbed /\ Alone)) => freshDone]_vars
        /\ [gen' > gen /\ trig' => crossed]_vars
  BY <1>1
<1> QED BY <1>2, Invariance, PTL DEF Spec, BeginsWhenFree, HoldWaitsForFreshCheck, StopHoldsTrigger

-----------------------------------------------------------------------------
\* The recorder implements Captures.
Left(g) == g > gen \/ (shut # "up" /\ g > stopGen)
Phases == [g \in Gens |-> Phase(g)]

\* The phase of a capture, now and after a step.
LEMMA PhaseIs ==
  ASSUME NEW g \in Gens
  PROVE  /\ Phases[g] = IF Left(g) THEN "none" ELSE IF Saved(g) THEN "saved"
                        ELSE IF Settled(g) \/ shut = "gone" THEN "lost"
                        ELSE IF g = gen /\ state = "recording" THEN "open" ELSE "closing"
         /\ Phases'[g] = IF Left(g)' THEN "none" ELSE IF Saved(g)' THEN "saved"
                         ELSE IF Settled(g)' \/ shut' = "gone" THEN "lost"
                         ELSE IF g = gen' /\ state' = "recording" THEN "open" ELSE "closing"
BY DEF Phases, Phase, Left, Saved, Settled

\* A step that neither begins, ends nor saves a capture changes no phase.
LEMMA SamePhases ==
  ASSUME gen' = gen, shut' = "gone" <=> shut = "gone",
         \A g \in Gens : /\ Left(g)' <=> Left(g)
                         /\ Saved(g)' <=> Saved(g)
                         /\ Settled(g)' <=> Settled(g),
         (state' = "recording" <=> state = "recording") \/ Left(gen)
  PROVE  UNCHANGED Phases
<1>1. \A g \in Gens : Phases'[g] = Phases[g]
  BY PhaseIs
<1> QED BY <1>1 DEF Phases

\* A capture that begins opens, or the shutdown leaves it out.
LEMMA OpensIt ==
  ASSUME Types, Quiet, gen' = gen + 1, gen' \in Gens, state' = "recording", ~Pending,
         state \notin {"recording", "finalizing"}, UNCHANGED <<meta, shut, stopGen>>
  PROVE  UNCHANGED Phases \/ OneAfterAnother!Next
<1>1. /\ gen \in 0..MaxCaptures /\ stopGen \in 0..MaxCaptures /\ MaxCaptures \in Nat
      /\ Gens = 1..MaxCaptures
  BY Known DEF Types, TypeOK
<1>2. \A g \in Gens : /\ Saved(g)' <=> Saved(g)
                      /\ Settled(g)' <=> Settled(g)
                      /\ Saved(g) => Settled(g)
                      /\ g > gen => ~Settled(g)
                      /\ g <= gen => Settled(g) \/ Left(g)
  BY <1>1 DEF Quiet, Saves, Saved, Settled, Left, Over
<1>3. CASE shut = "up"
  <2>1. \A g \in Gens : /\ Left(g) <=> g > gen
                        /\ Left(g)' <=> g > gen'
    BY <1>3 DEF Left
  <2>2. \A g \in Gens : Phases'[g] = IF g = gen' THEN "open" ELSE Phases[g]
    <3>1. \A g \in Gens : g = gen' => ~Settled(g)' /\ ~Saved(g)' /\ ~Left(g)'
      BY <1>1, <1>2, <1>3, <2>1
    <3>2. \A g \in Gens : g = gen' => Phases'[g] = "open"
      BY <1>3, <3>1, PhaseIs
    <3>3. ASSUME NEW g \in Gens, g # gen' PROVE Phases'[g] = Phases[g]
      <4>1. CASE g > gen
        <5>1. Left(g) /\ Left(g)'
          BY <1>1, <2>1, <3>3, <4>1
        <5> QED BY <5>1, PhaseIs
      <4>2. CASE g <= gen
        <5>1. Settled(g) /\ ~Left(g) /\ ~Left(g)'
          BY <1>1, <1>2, <2>1, <4>2
        <5> QED BY <1>2, <5>1, PhaseIs
      <4> QED BY <1>1, <4>1, <4>2
    <3> QED BY <3>2, <3>3
  <2>3. Phases' = [Phases EXCEPT ![gen'] = "open"]
    BY <2>2 DEF Phases
  <2>4. Phases[gen'] = "none" /\ \A d \in 1..(gen' - 1) : Phases[d] \in {"saved", "lost"}
    BY <1>1, <1>2, <2>1, PhaseIs
  <2>5. OneAfterAnother!Open(gen')
    BY <2>3, <2>4 DEF OneAfterAnother!Open, Phases
  <2> QED BY <1>1, <2>5 DEF OneAfterAnother!Next, OneAfterAnother!Captured
<1>4. CASE shut # "up"
  <2>1. stopGen <= gen
    BY <1>4 DEF Quiet, Shutting
  <2>2. \A g \in Gens : Left(g)' <=> Left(g)
    BY <1>1, <1>4, <2>1 DEF Left
  <2>3. \A g \in Gens : Phases'[g] = Phases[g]
    BY <1>1, <1>2, <1>4, <2>1, <2>2, PhaseIs DEF Left
  <2> QED BY <2>3 DEF Phases
<1> QED BY <1>3, <1>4

\* A request closes the open capture.
LEMMA ClosesIt ==
  ASSUME Types, Quiet, state = "recording", state' # "recording",
         UNCHANGED <<gen, meta, stopGen>>, shut' = "up" <=> shut = "up",
         shut # "gone", shut' # "gone"
  PROVE  UNCHANGED Phases \/ OneAfterAnother!Next
<1>1. gen \in Gens /\ ~Settled(gen) /\ ~Saved(gen)
  BY DEF Types, Quiet, Saves, Saved, Settled
<1>2. \A g \in Gens : /\ Left(g)' <=> Left(g)
                      /\ Saved(g)' <=> Saved(g)
                      /\ Settled(g)' <=> Settled(g)
  BY DEF Left, Saved, Settled
<1>3. CASE Left(gen)
  BY <1>2, <1>3, SamePhases
<1>4. CASE ~Left(gen)
  <2>1. \A g \in Gens : Phases'[g] = IF g = gen THEN "closing" ELSE Phases[g]
    BY <1>1, <1>2, <1>4, PhaseIs
  <2>2. Phases' = [Phases EXCEPT ![gen] = "closing"]
    BY <2>1 DEF Phases
  <2>3. Phases[gen] = "open"
    BY <1>1, <1>4, PhaseIs
  <2>4. OneAfterAnother!Close(gen)
    BY <2>2, <2>3 DEF OneAfterAnother!Close, Phases
  <2> QED BY <1>1, <2>4, Known DEF OneAfterAnother!Next, OneAfterAnother!Captured
<1> QED BY <1>3, <1>4

\* The capture at hand, which is closing, is over: nothing else changes.
LEMMA EndsIt ==
  ASSUME gen \in Gens,
         Phases[gen] = "closing", Phases'[gen] \in {"saved", "lost"},
         \A g \in Gens : g # gen => Phases'[g] = Phases[g]
  PROVE  OneAfterAnother!Next
<1>1. gen \in OneAfterAnother!Captured
  BY Known DEF OneAfterAnother!Captured
<1>2. CASE Phases'[gen] = "saved"
  <2>1. Phases' = [Phases EXCEPT ![gen] = "saved"]
    BY <1>2 DEF Phases
  <2> QED BY <1>1, <2>1 DEF OneAfterAnother!Next, OneAfterAnother!Save, Phases
<1>3. CASE Phases'[gen] = "lost"
  <2>1. Phases' = [Phases EXCEPT ![gen] = "lost"]
    BY <1>3 DEF Phases
  <2> QED BY <1>1, <2>1 DEF OneAfterAnother!Next, OneAfterAnother!Lose, Phases
<1> QED BY <1>2, <1>3

\* The job saves the capture it closed, or fails to.
LEMMA SavesIt ==
  ASSUME Types, Quiet, RcSave, shut # "gone"
  PROVE  UNCHANGED Phases \/ OneAfterAnother!Next
<1>1. gen \in Gens /\ ~Settled(gen) /\ ~Saved(gen) /\ rcName = gen /\ state # "recording"
  BY DEF RcSave, Types, Quiet, Saves, Saved, Settled, OneJob, Pending
<1>2. /\ UNCHANGED <<gen, state, shut, stopGen>>
      /\ meta'[gen] \in {"ok", "failed", "lost"}
      /\ \A g \in Gens : g # gen => meta'[g] = meta[g]
  BY <1>1 DEF RcSave, Types, TypeOK, control, flags
<1>3. \A g \in Gens : /\ Left(g)' <=> Left(g)
                      /\ g # gen => (Saved(g)' <=> Saved(g)) /\ (Settled(g)' <=> Settled(g))
  BY <1>2 DEF Left, Saved, Settled
<1>4. \A g \in Gens : g # gen => Phases'[g] = Phases[g]
  BY <1>2, <1>3, PhaseIs
<1>5. CASE Left(gen)
  <2>1. Phases'[gen] = Phases[gen]
    BY <1>1, <1>3, <1>5, PhaseIs
  <2> QED BY <1>4, <2>1 DEF Phases
<1>6. CASE ~Left(gen)
  <2>1. \A g \in Gens : g = gen => Settled(g)' /\ ~Left(g)'
    BY <1>2, <1>3, <1>6 DEF Settled
  <2>2. \A g \in Gens : g = gen => Phases'[g] \in {"saved", "lost"}
    BY <2>1, PhaseIs
  <2>3. Phases[gen] = "closing"
    BY <1>1, <1>6, PhaseIs
  <2> QED BY <1>1, <1>4, <2>2, <2>3, EndsIt
<1> QED BY <1>5, <1>6

\* The exit of the process loses a capture whose job outlasted the join.
LEMMA ExitLosesIt ==
  ASSUME Types, Quiet, ProcessExits
  PROVE  UNCHANGED Phases \/ OneAfterAnother!Next
<1>1. /\ gen \in 0..MaxCaptures /\ stopGen \in 0..MaxCaptures /\ MaxCaptures \in Nat
      /\ shut = "done" /\ shut' = "gone" /\ UNCHANGED <<gen, state, meta, stopGen>>
      /\ stopGen <= gen /\ (gen = stopGen => state # "recording")
  BY Known DEF Types, TypeOK, Quiet, Shutting, ProcessExits, control, flags
<1>2. \A g \in Gens : /\ Left(g)' <=> Left(g)
                      /\ Saved(g)' <=> Saved(g)
                      /\ Settled(g)' <=> Settled(g)
                      /\ g # gen => Settled(g) \/ Left(g)
  BY <1>1, Known DEF Left, Saved, Settled, Quiet, Saves
<1>3. \A g \in Gens : g # gen => Phases'[g] = Phases[g]
  BY <1>1, <1>2, PhaseIs
<1>4. CASE gen \notin Gens \/ Left(gen) \/ Settled(gen)
  <2>1. \A g \in Gens : Phases'[g] = Phases[g]
    BY <1>2, <1>3, <1>4, PhaseIs
  <2> QED BY <2>1 DEF Phases
<1>5. CASE gen \in Gens /\ ~Left(gen) /\ ~Settled(gen)
  <2>1. state # "recording" /\ ~Saved(gen)
    BY <1>1, <1>5 DEF Left, Saved, Settled
  <2>2. \A g \in Gens : g = gen => ~Settled(g)' /\ ~Saved(g)' /\ ~Left(g)'
    BY <1>2, <1>5, <2>1
  <2>3. Phases[gen] = "closing"
    BY <1>1, <1>5, <2>1, PhaseIs
  <2>4. \A g \in Gens : g = gen => Phases'[g] = "lost"
    BY <1>1, <2>2, PhaseIs
  <2> QED BY <1>3, <1>5, <2>3, <2>4, EndsIt
<1> QED BY <1>4, <1>5

\* Every step is one of Captures or changes no phase.
LEMMA PhaseStep ==
  ASSUME Types, Undisturbed, Quiet, Next
  PROVE  UNCHANGED Phases \/ OneAfterAnother!Next
<1>34. shut # "gone"
  BY DEF Next, RcStep, OtherStep
<1> USE DEF Types, TypeOK, Left, Saved, Settled, control, flags, receiver, recctl, writers, governor
<1>1. CASE RxTop
  BY <1>1, SamePhases DEF RxTop, Running
<1>2. CASE RxRead
  BY <1>2, SamePhases DEF RxRead
<1>3. CASE RxWrite
  <2>1. CASE UNCHANGED state
    BY <1>3, <2>1, SamePhases DEF RxWrite
  <2>2. CASE state = "recording" /\ state' # "recording"
    BY <1>3, <1>34, <2>2, ClosesIt DEF RxWrite
  <2> QED BY <1>3, <2>1, <2>2 DEF RxWrite, RequestEnd
<1>4. CASE RxTrigger
  <2>1. \/ /\ UNCHANGED <<gen, meta, shut, stopGen>>
           /\ state' = "recording" <=> state = "recording"
        \/ Begin(TRUE) /\ state \in {"idle", "armed"} /\ UNCHANGED <<meta, shut, stopGen>>
    BY <1>4 DEF RxTrigger, Fire
  <2>2. CASE Begin(TRUE) /\ state \in {"idle", "armed"} /\ UNCHANGED <<meta, shut, stopGen>>
    <3>1. gen' = gen + 1 /\ gen' \in Gens /\ state' = "recording"
      BY <2>2, BeginIs
    <3>2. ~Pending
      BY <1>4, <2>2 DEF RxTrigger, Quiet, OneJob
    <3> QED BY <2>2, <3>1, <3>2, OpensIt
  <2> QED BY <2>1, <2>2, SamePhases
<1>5. CASE Arm
  BY <1>5, SamePhases DEF Arm
<1>6. CASE Disarm
  BY <1>6, SamePhases DEF Disarm
<1>7. CASE RcTake
  BY <1>7, SamePhases DEF RcTake
<1>8. CASE RcName
  BY <1>8, SamePhases DEF RcName
<1>9. CASE RcSentinel
  BY <1>9, SamePhases DEF RcSentinel
<1>10. CASE RcJoin
  BY <1>10, SamePhases DEF RcJoin
<1>11. CASE RcAbandon
  BY <1>11, SamePhases DEF RcAbandon
<1>12. CASE RcRecheck
  BY <1>12, SamePhases DEF RcRecheck
<1>13. CASE RcSave
  BY <1>13, <1>34, SavesIt
<1>14. CASE RcFinish
  <2>1. state # "recording" /\ state' # "recording" /\ UNCHANGED <<gen, meta, shut, stopGen>>
    BY <1>14 DEF RcFinish, Quiet, OneJob, Pending
  <2> QED BY <2>1, SamePhases
<1>15. CASE TickBegins
  BY <1>15, SamePhases DEF TickBegins
<1>16. CASE TickEnds
  BY <1>16, SamePhases DEF TickEnds
<1>17. CASE ShutRead
  <2>1. UNCHANGED <<gen, meta, state>> /\ shut = "up" /\ stopGen' = gen /\ shut' # "gone"
    BY <1>17 DEF ShutRead
  <2> QED BY <2>1, SamePhases
<1>18. CASE ShutRequest
  <2>1. /\ UNCHANGED <<gen, meta, stopGen>> /\ (shut' = "up" <=> shut = "up") /\ shut' # "gone"
        /\ UNCHANGED state \/ (state = "recording" /\ state' # "recording")
    BY <1>18, <1>34 DEF ShutRequest, RequestEnd
  <2>2. CASE UNCHANGED state
    BY <1>34, <2>1, <2>2, SamePhases
  <2>3. CASE state = "recording" /\ state' # "recording"
    BY <1>34, <2>1, <2>3, ClosesIt
  <2> QED BY <2>1, <2>2, <2>3
<1>19. CASE ShutWait
  BY <1>19, SamePhases DEF ShutWait
<1>20. CASE ShutIdle
  <2>1. /\ shut = "idle" /\ shut' = "join" /\ UNCHANGED <<gen, meta, stopGen>>
        /\ state' # "recording"
        /\ state = "recording" => gen > stopGen
    BY <1>20 DEF ShutIdle, Quiet, Shutting
  <2> QED BY <2>1, SamePhases
<1>21. CASE ShutJoin
  BY <1>21, SamePhases DEF ShutJoin
<1>22. ASSUME NEW w \in Workers, StartCheck(w) PROVE UNCHANGED Phases \/ OneAfterAnother!Next
  BY <1>22, SamePhases DEF StartCheck, Goto
<1>23. ASSUME NEW w \in Workers, StartBegin(w) PROVE UNCHANGED Phases \/ OneAfterAnother!Next
  <2>1. CASE UNCHANGED <<state, trig, stopReason, flags, writer>>
    BY <1>23, <2>1, SamePhases DEF StartBegin
  <2>2. CASE Begin(FALSE) /\ state \notin {"recording", "finalizing"}
    <3>1. gen' = gen + 1 /\ gen' \in Gens /\ state' = "recording"
      BY <2>2, BeginIs
    <3>2. shut = "up" /\ UNCHANGED <<meta, shut, stopGen>>
      BY <1>23 DEF StartBegin, Quiet, Shutting
    <3>3. ~Pending
      BY <2>2, <3>2 DEF Quiet, OneJob, Over
    <3> QED BY <2>2, <3>1, <3>2, <3>3, OpensIt
  <2> QED BY <1>23, <2>1, <2>2 DEF StartBegin
<1>24. ASSUME NEW w \in Workers, StopRead(w) PROVE UNCHANGED Phases \/ OneAfterAnother!Next
  BY <1>24, SamePhases DEF StopRead, Goto
<1>25. ASSUME NEW w \in Workers, StopRequest(w) PROVE UNCHANGED Phases \/ OneAfterAnother!Next
  <2>1. /\ UNCHANGED <<gen, meta, stopGen>> /\ (shut' = "up" <=> shut = "up") /\ shut' # "gone"
        /\ UNCHANGED state \/ (state = "recording" /\ state' # "recording")
    BY <1>25, <1>34 DEF StopRequest, RequestEnd
  <2>2. CASE UNCHANGED state
    BY <1>34, <2>1, <2>2, SamePhases
  <2>3. CASE state = "recording" /\ state' # "recording"
    BY <1>34, <2>1, <2>3, ClosesIt
  <2> QED BY <2>1, <2>2, <2>3
<1>26. ASSUME NEW w \in Workers, StopWait(w) PROVE UNCHANGED Phases \/ OneAfterAnother!Next
  BY <1>26, SamePhases DEF StopWait, Goto
<1>27. ASSUME NEW w \in Workers, StopSettle(w) PROVE UNCHANGED Phases \/ OneAfterAnother!Next
  BY <1>27, SamePhases DEF StopSettle, Goto
<1>28. ASSUME NEW g \in Gens, WriterFails(g) PROVE UNCHANGED Phases \/ OneAfterAnother!Next
  BY <1>28, SamePhases DEF WriterFails
<1>29. ASSUME NEW g \in Gens, WriterSeesFloor(g) PROVE UNCHANGED Phases \/ OneAfterAnother!Next
  BY <1>29, SamePhases DEF WriterSeesFloor
<1>30. ASSUME NEW g \in Gens, WriterStops(g) PROVE UNCHANGED Phases \/ OneAfterAnother!Next
  BY <1>30, SamePhases DEF WriterStops
<1>31. ASSUME NEW g \in Gens, WriterNotes(g) PROVE UNCHANGED Phases \/ OneAfterAnother!Next
  BY <1>31, SamePhases DEF WriterNotes
<1>32. ASSUME NEW g \in Gens, WriterDies(g) PROVE UNCHANGED Phases \/ OneAfterAnother!Next
  BY <1>32, SamePhases DEF WriterDies
<1>33. CASE ProcessExits
  BY <1>33, ExitLosesIt
<1> QED BY <1>1, <1>2, <1>3, <1>4, <1>5, <1>6, <1>7, <1>8, <1>9, <1>10, <1>11, <1>12, <1>13,
   <1>14, <1>15, <1>16, <1>17, <1>18, <1>19, <1>20, <1>21, <1>22, <1>23, <1>24, <1>25, <1>26,
   <1>27, <1>28, <1>29, <1>30, <1>31, <1>32, <1>33 DEF Next, RcStep, OtherStep

\* Where no race of stops disturbs it, the recorder takes captures one after another: one
\* opens only when every earlier one is over, it is closed once, and then saved once or
\* lost for good, because it could not be saved or the process exited first.
THEOREM ImplementsCaptures == Spec /\ Undisturbed => OneAfterAnother!Safety
<1>1. Init => OneAfterAnother!Init
  <2> SUFFICES ASSUME Init PROVE OneAfterAnother!Init
    OBVIOUS
  <2>1. \A g \in Gens : Left(g)
    BY Known DEF Init, Left
  <2>2. \A g \in Gens : Phases[g] = "none"
    BY <2>1, PhaseIs
  <2> QED BY <2>2, Known DEF OneAfterAnother!Init, OneAfterAnother!Captured, Phases
<1>2. Inv /\ Undisturbed /\ [Next]_vars => Undisturbed' /\ [OneAfterAnother!Next]_Phases
  <2> SUFFICES ASSUME Inv, Undisturbed, [Next]_vars
               PROVE  Undisturbed' /\ [OneAfterAnother!Next]_Phases
    OBVIOUS
  <2>1. CASE Next
    <3>1. Undisturbed'
      BY <2>1, HappensStays DEF Undisturbed, Alone
    <3>2. UNCHANGED Phases \/ OneAfterAnother!Next
      BY <2>1, PhaseStep DEF Inv
    <3> QED BY <3>1, <3>2
  <2>2. CASE UNCHANGED vars
    <3>1. Undisturbed'
      BY <2>2 DEF vars, Undisturbed, Alone
    <3>2. UNCHANGED Phases
      BY <2>2, SamePhases DEF vars, Left, Saved, Settled, flags, control
    <3> QED BY <3>1, <3>2
  <2> QED BY <2>1, <2>2
<1> QED BY <1>1, <1>2, Invariance, PTL DEF Spec, OneAfterAnother!Safety, Phases

=============================================================================
