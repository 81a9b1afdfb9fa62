----------------------------- MODULE Supervisor -----------------------------
(***************************************************************************)
(* The pipeline supervisor (pipeline/supervisor.py), the requests that     *)
(* reach it (web/routes/api.py), its crash restarts, the watchdog thread   *)
(* (utils/watchdog.py) and the process around them (pipeline/app.py, with  *)
(* systemd's Restart=on-failure).                                          *)
(*                                                                         *)
(* Everything but the watchdog is a coroutine of one event loop: an actor  *)
(* runs from one await to the next in one action.  The awaits are the      *)
(* asyncio lock, the end of a stop, the end of a start and the backoff.    *)
(* The lock is fair: its queue's head holds it.                            *)
(***************************************************************************)
EXTENDS Integers, Sequences, FiniteSets

CONSTANTS
  Callers,            \* web requests in flight
  Recoveries,         \* bound on the crash restarts in flight
  Watchdog, Boot,     \* the watchdog thread; the startup code
  MaxCrashRestarts,   \* _MAX_CONSECUTIVE_CRASH_RESTARTS
  MaxPipelines,       \* bound on the pipelines that exist at once
  MaxRequests,        \* bound on the requests
  MaxTroubles,        \* bound on the crashes, stalls and failures
  MaxExits,           \* bound on the processes systemd starts again
  Happens             \* what may happen, out of Occurrences

Occurrences ==
  {"toggle", "replay",          \* requests to /api/sensor and /api/replay
   "replay_race",               \* replays are asked for amid other operations
   "crash", "stall", "wedge",   \* a wedged pipeline cannot even be cancelled
   "start_fails", "boot_fails", "close_fails",
   "give_up_exit"}              \* EXIT_ON_CRASH_GIVE_UP

ASSUME SupervisorAssumption ==
  /\ Callers \cap Recoveries = {} /\ {Watchdog, Boot} \cap (Callers \cup Recoveries) = {}
  /\ Watchdog # Boot
  /\ MaxPipelines \in Nat

VARIABLES
  watched,   \* settings.WATCHDOG_ENABLED
  up,        \* the process: "up", "hung" (exiting, but never gone), "down"
  pipes,     \* the pipelines: task and receiver
  cur,       \* the one in _task, _processor and _receiver; 0 for None
  active,    \* _active
  replay,    \* _replay, and whether _receiver_override is set
  stopping,  \* _stopping
  crashes,   \* _consecutive_crashes
  gaveUp,    \* _gave_up
  lock,      \* _lock: its holder, then its waiters
  at, op,    \* where each actor is, and what it runs
  intent,    \* settings.SENSOR_ACTIVE, persisted
  snap,      \* app.state._replay_snapshot["_active"]
  exitDue,   \* the give-up handler's delayed exit is scheduled
  requests, troubles, exits,
  settled    \* history: what the last request to finish a transition left

vars == <<watched, up, pipes, cur, active, replay, stopping, crashes, gaveUp, lock, at, op,
          intent, snap, exitDue, requests, troubles, exits, settled>>

Actors == Callers \cup Recoveries \cup {Watchdog, Boot}
Pipelines == 1 .. MaxPipelines
Ops == {"none", "on", "off", "play", "playoff", "unplay", "resume", "boot",
        "restart", "recover", "giveup"}
Activations == {"on", "boot", "resume"}  \* set_active(True)
Standbys == {"off", "playoff", "unplay"} \* those that stop whatever runs
Automatic == {"restart", "recover", "giveup"}

PipeStates ==
  {"none", "run",
   "stalled", "wedged",  \* no progress
   "died", "crashed",    \* raised; the done callback has run
   "ended"}              \* stopped, but its receiver failed to close

TypeOK ==
  /\ watched \in BOOLEAN /\ up \in {"up", "hung", "down"}
  /\ pipes \in [Pipelines -> PipeStates]
  /\ cur \in 0 .. MaxPipelines
  /\ active \in BOOLEAN /\ (active <=> cur # 0)
  /\ replay \in BOOLEAN /\ stopping \in BOOLEAN /\ gaveUp \in BOOLEAN
  /\ stopping <=> \E a \in Actors : at[a] = "stopping"
  /\ crashes \in Nat
  /\ lock \in Seq(Actors)
  /\ at \in [Actors -> {"idle", "new", "sleep", "entered", "stopping", "starting"}]
  /\ op \in [Actors -> Ops]
  /\ intent \in BOOLEAN /\ exitDue \in BOOLEAN
  /\ snap \in {"none", "active", "standby"}
  /\ settled \in {"live", "restored", "replay", "standby", "failed"}

(***************************************************************************)
(* Actors and the lock.                                                    *)
(***************************************************************************)
Holds(a) == lock # <<>> /\ Head(lock) = a

EnterAs(a, o) ==
  /\ op' = [op EXCEPT ![a] = o]
  /\ at' = [at EXCEPT ![a] = "entered"]

Goes(a, place) == at' = [at EXCEPT ![a] = place] /\ UNCHANGED <<op, lock>>

Leaves(a) ==
  /\ lock' = Tail(lock)
  /\ at' = [at EXCEPT ![a] = "idle"]
  /\ op' = [op EXCEPT ![a] = "none"]

\* It leaves the lock and asks for it again.
Reenters(a, o) == lock' = Append(Tail(lock), a) /\ EnterAs(a, o)

(***************************************************************************)
(* A new process: the last one is gone with its pipelines.  It starts the  *)
(* sensor when the persisted setting says so.                              *)
(***************************************************************************)
Fresh ==
  /\ pipes' = [n \in Pipelines |-> "none"]
  /\ cur' = 0
  /\ active' = FALSE /\ replay' = FALSE /\ stopping' = FALSE
  /\ crashes' = 0 /\ gaveUp' = FALSE /\ exitDue' = FALSE
  /\ snap' = "none" /\ settled' = "standby"
  /\ lock' = IF up' = "up" /\ intent THEN <<Boot>> ELSE <<>>
  /\ at' = [a \in Actors |-> IF lock' = <<a>> THEN "entered" ELSE "idle"]
  /\ op' = [a \in Actors |-> IF lock' = <<a>> THEN "boot" ELSE "none"]

Exit ==
  /\ up' = IF exits < MaxExits THEN "up" ELSE "down"
  /\ exits' = exits + 1
  /\ Fresh
  /\ UNCHANGED <<watched, intent, requests, troubles>>

Init ==
  /\ watched \in BOOLEAN
  /\ up = "up" /\ cur = 0 /\ active = FALSE /\ replay = FALSE /\ stopping = FALSE
  /\ pipes = [n \in Pipelines |-> "none"]
  /\ crashes = 0 /\ gaveUp = FALSE /\ exitDue = FALSE
  /\ intent \in BOOLEAN
  /\ lock = IF intent THEN <<Boot>> ELSE <<>>
  /\ at = [a \in Actors |-> IF lock = <<a>> THEN "entered" ELSE "idle"]
  /\ op = [a \in Actors |-> IF lock = <<a>> THEN "boot" ELSE "none"]
  /\ snap = "none" /\ settled = "standby"
  /\ requests = 0 /\ troubles = 0 /\ exits = 0

(***************************************************************************)
(* Requests.  The web server runs once the startup code is through.        *)
(***************************************************************************)
Replaying(c) == op[c] \in {"play", "playoff", "unplay", "resume"}

Asks(c, kind) ==
  /\ up = "up" /\ kind \in Happens
  /\ \/ "replay_race" \in Happens
     \/ kind # "replay" /\ ~\E b \in Callers : Replaying(b)
     \/ lock = <<>>
  /\ at[c] = "idle" /\ at[Boot] = "idle"
  /\ requests < MaxRequests
  /\ requests' = requests + 1
  /\ lock' = Append(lock, c)
  /\ UNCHANGED <<watched, up, pipes, cur, active, replay, stopping, crashes, gaveUp, exitDue,
                 troubles, exits, settled>>

AskOn(c) ==
  /\ Asks(c, "toggle")
  /\ EnterAs(c, "on")
  /\ UNCHANGED <<intent, snap>>

\* A stop persists its intent before it waits.
AskOff(c) ==
  /\ Asks(c, "toggle")
  /\ EnterAs(c, "off")
  /\ intent' = FALSE
  /\ UNCHANGED snap

\* The snapshot is the first replay's of a session; start_replay looks at
\* _active before it takes the lock.
AskPlay(c) ==
  /\ Asks(c, "replay")
  /\ snap' = IF snap # "none" THEN snap ELSE IF active THEN "active" ELSE "standby"
  /\ EnterAs(c, IF active THEN "playoff" ELSE "play")
  /\ UNCHANGED <<intent>>

AskUnplay(c) ==
  /\ Asks(c, "replay")
  /\ EnterAs(c, "unplay")
  /\ UNCHANGED <<intent, snap>>

(***************************************************************************)
(* Under the lock: an actor's turn, then the stop and the start it runs.   *)
(***************************************************************************)
MayStop(o) == active /\ (o \in Standbys \/ (o \in Automatic /\ ~replay))
MayStart(o) == (o \in Activations /\ ~active) \/ o = "play"

TurnStops(a) ==
  /\ Holds(a) /\ at[a] = "entered" /\ MayStop(op[a])
  /\ stopping' = TRUE
  /\ Goes(a, "stopping")
  /\ UNCHANGED <<watched, up, pipes, cur, active, replay, crashes, gaveUp, intent, snap, exitDue,
                 requests, troubles, exits, settled>>

TurnStarts(a) ==
  /\ Holds(a) /\ at[a] = "entered" /\ MayStart(op[a])
  /\ gaveUp' = FALSE
  /\ IF op[a] = "play" THEN replay' = TRUE /\ UNCHANGED crashes
                       ELSE crashes' = 0 /\ UNCHANGED replay
  /\ Goes(a, "starting")
  /\ UNCHANGED <<watched, up, pipes, cur, active, stopping, intent, snap, exitDue, requests,
                 troubles, exits, settled>>

CompletesUnconfirmed(a, now) ==
  /\ intent' = IF op[a] = "off" THEN now ELSE intent
  /\ snap' = IF op[a] = "unplay" THEN "none" ELSE snap
  /\ CASE op[a] = "playoff" -> Reenters(a, "play")
       [] op[a] = "unplay" /\ snap = "active" -> Reenters(a, "resume")
       [] OTHER -> Leaves(a)

\* What an actor does once its operation is through, with _active left as
\* `now`: the handler persists what a toggle confirmed, start_replay goes on to
\* its own start, and /replay/stop restores the sensor the replay replaced.
Completes(a, now) ==
  /\ intent' = IF op[a] \in {"on", "off"} THEN now ELSE intent
  /\ snap' = IF op[a] = "unplay" THEN "none" ELSE snap
  /\ CASE op[a] = "playoff" -> Reenters(a, "play")
       [] op[a] = "unplay" /\ snap = "active" -> Reenters(a, "resume")
       [] OTHER -> Leaves(a)

TurnSkips(a) ==
  /\ Holds(a) /\ at[a] = "entered" /\ ~MayStop(op[a]) /\ ~MayStart(op[a])
  /\ Completes(a, active)
  /\ replay' = (replay /\ op[a] # "unplay")
  /\ UNCHANGED <<watched, up, pipes, cur, active, stopping, crashes, gaveUp, exitDue, requests,
                 troubles, exits, settled>>

Stopped ==
  /\ pipes' = [pipes EXCEPT ![cur] = "none"]
  /\ cur' = 0 /\ active' = FALSE /\ replay' = FALSE /\ stopping' = FALSE
  /\ UNCHANGED <<watched, up, crashes, requests, troubles, exits>>

\* The task has ended, cancelled if it must be, and the receiver is closed.
StopCanEnd(a) == Holds(a) /\ at[a] = "stopping" /\ pipes[cur] \notin {"wedged", "died"}

StopEnds(a) ==
  /\ StopCanEnd(a) /\ op[a] \in Standbys
  /\ Stopped
  /\ Completes(a, FALSE)
  /\ settled' = "standby"
  /\ UNCHANGED <<gaveUp, exitDue>>

StopThenStarts(a) ==
  /\ StopCanEnd(a) /\ op[a] \in {"restart", "recover"}
  /\ Stopped
  /\ Goes(a, "starting")
  /\ UNCHANGED <<gaveUp, exitDue, intent, snap, settled>>

StopThenGivesUp(a) ==
  /\ StopCanEnd(a) /\ op[a] = "giveup"
  /\ Stopped
  /\ gaveUp' = TRUE
  /\ exitDue' = (exitDue \/ "give_up_exit" \in Happens)
  /\ Leaves(a)
  /\ UNCHANGED <<intent, snap, settled>>

\* receiver.close() raises: the fields keep the dead pipeline.  A crash
\* restart ends with it; the watchdog leaves the process.
CloseFails(a) ==
  /\ "close_fails" \in Happens /\ troubles < MaxTroubles
  /\ StopCanEnd(a)
  /\ IF op[a] = "restart" THEN Exit ELSE
       /\ troubles' = troubles + 1
       /\ pipes' = [pipes EXCEPT ![cur] = "ended"]
       /\ stopping' = FALSE
       /\ Leaves(a)
       /\ snap' = IF op[a] = "playoff" THEN "none" ELSE snap
       /\ settled' = IF op[a] \in Standbys THEN "failed" ELSE settled
       /\ UNCHANGED <<watched, up, cur, active, replay, crashes, gaveUp, intent, exitDue, requests,
                      exits>>

StartEnds(a) ==
  /\ Holds(a) /\ at[a] = "starting"
  /\ \E n \in Pipelines :
       /\ pipes[n] = "none"
       /\ pipes' = [pipes EXCEPT ![n] = "run"]
       /\ cur' = n
  /\ active' = TRUE
  /\ Completes(a, TRUE)
  /\ settled' = CASE op[a] = "play" -> "replay"
                  [] op[a] = "resume" -> "restored"
                  [] op[a] \in {"on", "boot"} -> "live"
                  [] OTHER -> settled
  /\ UNCHANGED <<watched, up, replay, stopping, crashes, gaveUp, exitDue, requests, troubles,
                 exits>>

StartFailing(a, kind) ==
  /\ kind \in Happens /\ troubles < MaxTroubles
  /\ Holds(a) /\ at[a] = "starting"

\* receiver.initialize() raises.  A failed /replay/start drops the snapshot;
\* a crash restart gives up.
StartFails(a) ==
  /\ StartFailing(a, "start_fails") /\ op[a] \notin {"restart", "boot"}
  /\ troubles' = troubles + 1
  /\ Leaves(a)
  /\ snap' = IF op[a] = "play" THEN "none" ELSE snap
  /\ gaveUp' = (gaveUp \/ op[a] = "recover")
  /\ exitDue' = (exitDue \/ (op[a] = "recover" /\ "give_up_exit" \in Happens))
  /\ settled' = IF op[a] = "recover" THEN settled ELSE "failed"
  /\ UNCHANGED <<watched, up, pipes, cur, active, replay, stopping, crashes, intent, requests,
                 exits>>

RestartFails == StartFailing(Watchdog, "start_fails") /\ Exit

\* The startup call is not inside run()'s try: the databases stay open, and
\* their threads keep the interpreter from exiting.
BootFails ==
  /\ StartFailing(Boot, "boot_fails")
  /\ up' = "hung"
  /\ Fresh
  /\ troubles' = troubles + 1
  /\ UNCHANGED <<watched, intent, requests, exits>>

(***************************************************************************)
(* Trouble, and who answers it.                                            *)
(***************************************************************************)
Trouble(n, how, kind) ==
  /\ kind \in Happens /\ troubles < MaxTroubles
  /\ pipes[n] = "run"
  /\ pipes' = [pipes EXCEPT ![n] = how]
  /\ troubles' = troubles + 1
  /\ UNCHANGED <<watched, up, cur, active, replay, stopping, crashes, gaveUp, lock, at, op, intent,
                 snap, exitDue, requests, exits, settled>>

Crash(n) == Trouble(n, "died", "crash")
Stall(n) == Trouble(n, "stalled", "stall")
Wedge(n) == Trouble(n, "wedged", "wedge")

\* _on_task_done: a death nobody asked for schedules a restart.
TaskDone(n) ==
  /\ pipes[n] = "died"
  /\ pipes' = [pipes EXCEPT ![n] = "crashed"]
  /\ IF stopping \/ ~active THEN UNCHANGED at ELSE
       \E r \in Recoveries : at[r] = "idle" /\ at' = [at EXCEPT ![r] = "new"]
  /\ UNCHANGED <<watched, up, cur, active, replay, stopping, crashes, gaveUp, lock, op, intent,
                 snap, exitDue, requests, troubles, exits, settled>>

RecoverBegins(r) ==
  /\ at[r] = "new"
  /\ \E quiet \in BOOLEAN :  \* _CRASH_RESET_WINDOW_SEC went by since the last crash
       crashes' = 1 + IF quiet THEN 0 ELSE crashes
  /\ IF crashes' > MaxCrashRestarts
       THEN lock' = Append(lock, r) /\ EnterAs(r, "giveup")
       ELSE Goes(r, "sleep")
  /\ UNCHANGED <<watched, up, pipes, cur, active, replay, stopping, gaveUp, intent, snap, exitDue,
                 requests, troubles, exits, settled>>

RecoverWakes(r) ==
  /\ at[r] = "sleep"
  /\ lock' = Append(lock, r)
  /\ EnterAs(r, "recover")
  /\ UNCHANGED <<watched, up, pipes, cur, active, replay, stopping, crashes, gaveUp, intent, snap,
                 exitDue, requests, troubles, exits, settled>>

\* The beacon is stale when the pipeline makes no progress.
Stale == active /\ pipes[cur] # "run"

WatchdogTicks ==
  /\ up = "up" /\ watched
  /\ at[Watchdog] = "idle" /\ at[Boot] = "idle"
  /\ Stale
  /\ lock' = Append(lock, Watchdog)
  /\ EnterAs(Watchdog, "restart")
  /\ UNCHANGED <<watched, up, pipes, cur, active, replay, stopping, crashes, gaveUp, intent, snap,
                 exitDue, requests, troubles, exits, settled>>

\* The deadline is counted from the start alone.
WatchdogDeadlineLate == at[Watchdog] = "starting" /\ Exit

\* The restart it waits for takes too long.
WatchdogDeadline == at[Watchdog] # "idle" /\ Exit

GiveUpExit == exitDue /\ Exit

UnderLock(a) ==
  \/ TurnStops(a) \/ TurnStarts(a) \/ TurnSkips(a)
  \/ StopEnds(a) \/ StopThenStarts(a) \/ StopThenGivesUp(a) \/ StartEnds(a)

Next ==
  \/ \E c \in Callers : AskOn(c) \/ AskOff(c) \/ AskPlay(c) \/ AskUnplay(c)
  \/ \E a \in Actors : UnderLock(a) \/ CloseFails(a) \/ StartFails(a)
  \/ RestartFails \/ BootFails
  \/ \E n \in Pipelines : Crash(n) \/ Stall(n) \/ Wedge(n) \/ TaskDone(n)
  \/ \E r \in Recoveries : RecoverBegins(r) \/ RecoverWakes(r)
  \/ WatchdogTicks \/ WatchdogDeadline \/ GiveUpExit

\* The loop runs every ready coroutine, a backoff and a delayed exit end, and
\* the watchdog's thread keeps ticking.
Fairness ==
  /\ \A a \in Actors : WF_vars(UnderLock(a))
  /\ \A n \in Pipelines : WF_vars(TaskDone(n))
  /\ \A r \in Recoveries : WF_vars(RecoverBegins(r) \/ RecoverWakes(r))
  /\ WF_vars(WatchdogTicks) /\ WF_vars(WatchdogDeadline) /\ WF_vars(GiveUpExit)

Spec == Init /\ [][Next]_vars /\ Fairness

(***************************************************************************)
(* Properties.                                                             *)
(***************************************************************************)
Free == lock = <<>>

\* No pipeline runs, and holds a receiver, that the supervisor has lost:
\* "Starts/stops the capture pipeline and releases the SDR when inactive".
NoOrphan == \A n \in Pipelines : pipes[n] # "none" => n = cur

\* Once a request has put the sensor into standby nothing opens the SDR until
\* somebody asks for it: not a crash restart that was asleep, not the watchdog.
StandbyHolds == Free /\ settled = "standby" => \A n \in Pipelines : pipes[n] = "none"

\* A sensor somebody switched on is never off behind their back: a crash
\* restart that fails to start it says so with _gave_up.
NotSilentlyDown ==
  Free /\ up = "up" /\ settled \in {"live", "restored"} /\ ~active => gaveUp

\* When no request is in flight, the live SDR runs only if the persisted
\* setting wants it to, unless a request failed or a /replay/stop restored it.
ActiveIsWanted ==
  /\ Free /\ \A c \in Callers : at[c] = "idle"
  /\ active /\ ~replay /\ settled \notin {"failed", "restored"}
  => intent

\* The sensor is as it was asked to be: once one has switched it on it is down only
\* with _gave_up set; a live SDR at rest is wanted by the setting; and where no
\* replay is asked for amid other operations (start_replay looks at _active before
\* it takes the lock) no pipeline runs that the supervisor has lost, and one put
\* into standby stays there (supervisor.py).
SensorIsAsAsked ==
  /\ TypeOK /\ NotSilentlyDown /\ ActiveIsWanted
  /\ "replay_race" \notin Happens => NoOrphan /\ StandbyHolds

\* A crash of the live pipeline does not last, nor, with the watchdog on, does
\* a stall, a wedge or a receiver that failed to close.
Troubled ==
  active /\ ~replay /\ pipes[cur] \in IF watched THEN PipeStates \ {"run"} ELSE {"died", "crashed"}

TroubleIsAnswered == Troubled ~> ~Troubled
=============================================================================
