----------------------------- MODULE MCProcess ------------------------------
(***************************************************************************)
(* The process, its parts side by side: run() from its start to its        *)
(* shutdown (Lifecycle) and the disk-space governor its storage loop       *)
(* drives (Governor).  One part runs in a behaviour; the other rests in    *)
(* its initial state.                                                      *)
(***************************************************************************)
EXTENDS Governor, Lifecycle

CONSTANT r1

VARIABLES
  part   \* "governor" or "run"

allVars == <<part, vars, runVars>>

\* Governor.  Units of space: with a floor of 20 the levels
\* are one below half, half (short), the floor, one below the margin, and 23, the
\* margin; with a floor of 10 one below it, at it and above.
AllLevels == {9, 10, 20, 22, 23}
\* Old bursts that reach the floor of 20 from 10 but not from 9, or none.
AllBursts == {0, 10}
\* 400 \div 20 = 20, the automatic floor; 20 is its minimum as well.
Volumes == {400}
\* The automatic floor, and an explicit one the user may switch to.
MinFree == {0, 10}

\* Lifecycle: everything configured; a headless standby; a sensor whose
\* supervisor may give up.
Setups == {{"web", "rfdb", "zms", "active", "watchdog"}, {}, {"web", "active", "give_up"}}

MCInit ==
  /\ part \in {"governor", "run"}
  /\ Init
  /\ RunInit /\ (part # "run" => settings = {})

Governing(A) == part = "governor" /\ A /\ UNCHANGED <<part, runVars>>
Stepping(A) == part = "run" /\ A /\ UNCHANGED <<part, vars>>

MCNext ==
  \/ Governing(\E s \in Sample, m \in MinFreeSettings : Tick(s, m)) \/ Governing(Act)
  \/ Governing(ReportWriteError) \/ Governing(\E r \in Routes : ClearDegraded(r))
  \/ Governing(\E p \in Persisters : TakeChange(p))
  \/ Governing(\E p \in Persisters : PutSince(p))
  \/ Governing(\E p \in Persisters : PutErr(p))
  \/ Governing(\E p \in Persisters : PutFails(p)) \/ Governing(BeginStop)
  \/ Governing(FinishStop) \/ Governing(Crash) \/ Governing(Restart)
  \/ Stepping(StepDone) \/ Stepping(StepForgiven) \/ Stepping(StepRaises)
  \/ Stepping(Ready) \/ Stepping(Signal) \/ Stepping(Stall) \/ Stepping(Restarted)
  \/ Stepping(DeadlinePasses) \/ Stepping(GivesUp) \/ Stepping(GiveUpExits)
  \/ Stepping(WorkerEnds) \/ Stepping(WorkerFails) \/ Stepping(LoopLeft)
  \/ Stepping(LeavesTry) \/ Stepping(WebStops) \/ Stepping(WebDone)
  \/ Stepping(WebTimesOut) \/ Stepping(CancelWorkers) \/ Stepping(WorkerStops)
  \/ Stepping(GatherWorkers) \/ Stepping(StopPipeline) \/ Stepping(FlushFigures)
  \/ Stepping(Wedges) \/ Stepping(StopZms) \/ Stepping(Close) \/ Stepping(SignalsOff) \/ Stepping(Exit)

\* The fairness of Governor!Fairness and of Lifecycle!RunLiveSpec.
MCFairness ==
  /\ WF_allVars(Governing(\E s \in Sample, m \in MinFreeSettings : Tick(s, m)))
  /\ SF_allVars(Governing(EvictionDone))
  /\ \A p \in Persisters :
       /\ SF_allVars(Governing(TakeChange(p)))
       /\ SF_allVars(Governing(PutSince(p)))
       /\ SF_allVars(Governing(PutErr(p)))
       /\ WF_allVars(Governing(PutFails(p) \/ PutSince(p) \/ PutErr(p)))
  /\ WF_allVars(Stepping(LeavesTry)) /\ WF_allVars(Stepping(Shutdown)) /\ WF_allVars(Stepping(Exit))

MCSpec == MCInit /\ [][MCNext]_allVars /\ MCFairness
=============================================================================
