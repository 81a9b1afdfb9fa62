----------------------------- MODULE Lifecycle -----------------------------
(***************************************************************************)
(* run() of pipeline/app.py: the start, step by step, each able to fail;   *)
(* the workers; the stop signals; and the shutdown, whose order and nested *)
(* finally blocks decide whether the databases are closed.  aiosqlite's    *)
(* thread of an open connection is not a daemon: the interpreter waits for *)
(* it, so a connection left open keeps a process that has ended run().     *)
(***************************************************************************)
EXTENDS Naturals, Sequences, FiniteSets, SequencesExt

CONSTANTS
  Settings,   \* the settings to explore: sets of "web", "rfdb", "zms", "active", "watchdog", "give_up"
  MaxSignals  \* bound: stop signals sent

VARIABLES
  settings,  \* what is configured
  at,        \* where run() is; "wedged": in a wait of the shutdown that never ends
  open,      \* the databases whose connection thread lives
  zms,       \* the ZMS client is started
  sdr,       \* the pipeline runs and holds the receiver
  watchdog,  \* "none", "watching", "restarting" (a restart is on the loop), "stopped",
             \* or "stopped_restarting": stop() came after the restart was put there
  exiting,   \* the give-up handler's timer is set
  handlers,  \* SIGINT and SIGTERM are run()'s
  signals,   \* stop signals sent
  received,  \* on_signal has had one
  stop,      \* the stop event
  worker,    \* worker -> "none", "running", "ended", "failed" or "cancelled"
  served,    \* history: the try block was entered
  cancelled, \* the main task was cancelled, with every other task
  slipped,   \* history: stopping the pipeline or the ZMS client failed
  process    \* "alive", "hung" (run() over, a thread left) or "gone"

partVars == <<open, zms, sdr>>
guardVars == <<watchdog, exiting>>
signalVars == <<handlers, signals, received, stop>>
historyVars == <<served, cancelled, slipped>>
runVars == <<settings, at, partVars, guardVars, signalVars, worker, historyVars, process>>

Databases == {"db", "read_db", "rfdb_reader"}
\* The web server and the heartbeat read; the loops write; the rf-db writer does both.
Workers == {"web", "heartbeat", "loops", "rfdb"}
Uses(w) ==
  CASE w = "web" -> {"db", "read_db"}
    [] w = "heartbeat" -> {"read_db"}
    [] w = "loops" -> {"db"}
    [] w = "rfdb" -> {"db", "rfdb_reader"}
Has(x) == x \in settings

StartSteps == <<"db", "read_db", "rfdb_reader", "storage", "flag", "schedules", "zms", "active">>
ShutdownSteps ==
  <<"web", "cancel", "gather", "pipeline", "figures", "zms_stop",
    "close_rfdb_reader", "close_read_db", "close_db", "signals_off">>
After(steps, s) == steps[CHOOSE i \in 2..Len(steps) : steps[i - 1] = s]
Closes == {"close_rfdb_reader", "close_read_db", "close_db"}
Alive == process = "alive"
Starting == Alive /\ at \in ToSet(StartSteps)

RunInit ==
  /\ settings \in Settings
  /\ at = "db" /\ open = {} /\ zms = FALSE /\ sdr = FALSE
  /\ watchdog = "none" /\ exiting = FALSE /\ handlers = FALSE /\ signals = 0 /\ received = FALSE /\ stop = FALSE
  /\ worker = [w \in Workers |-> "none"]
  /\ served = FALSE /\ cancelled = FALSE /\ slipped = FALSE /\ process = "alive"

-----------------------------------------------------------------------------
(* The start.                                                              *)

Needed(s) ==
  CASE s = "read_db" -> Has("web")
    [] s = "rfdb_reader" -> Has("rfdb")
    [] s = "zms" -> Has("zms")
    [] s = "active" -> Has("active")
    [] OTHER -> TRUE

NextStart == IF at = "active" THEN "ready" ELSE After(StartSteps, at)

StepDone ==
  /\ Starting
  /\ at' = NextStart
  /\ open' = IF at \in Databases /\ Needed(at) THEN open \cup {at} ELSE open
  /\ zms' = (zms \/ (at = "zms" /\ Needed(at)))
  /\ sdr' = (sdr \/ (at = "active" /\ Needed(at)))
  /\ UNCHANGED <<settings, guardVars, signalVars, worker, historyVars, process>>

\* These catch an Exception and go on: without rf-db, with the flag unread, with
\* no schedules.
StepForgiven ==
  /\ Starting /\ at \in {"rfdb_reader", "flag", "schedules"} /\ Needed(at)
  /\ at' = NextStart
  /\ UNCHANGED <<settings, partVars, guardVars, signalVars, worker, historyVars, process>>

\* What a step that raises closes before it does; only the reader's, the rf-db
\* reader's and the storage's have a handler.  A cancelled step is never forgiven.
Rescued(s) ==
  CASE s = "read_db" -> {"db"}
    [] s = "rfdb_reader" -> {"read_db", "db"}
    [] s = "storage" -> Databases
    [] OTHER -> {}

\* An exception, or SIGINT's cancellation of the main task while the handlers are
\* not yet installed.  A connection may be half made when its step fails.
StepRaises ==
  /\ Starting /\ Needed(at)
  /\ \E half \in IF at \in Databases THEN {{}, {at}} ELSE {{}} : open' = (open \cup half) \ Rescued(at)
  /\ at' = "ended"
  /\ UNCHANGED <<settings, zms, sdr, guardVars, signalVars, worker, historyVars, process>>

\* No await from here to the try: the watchdog, the signals, the workers.
Ready ==
  /\ Alive /\ at = "ready"
  /\ at' = "serving" /\ served' = TRUE
  /\ watchdog' = IF Has("watchdog") THEN "watching" ELSE "none"
  /\ handlers' = TRUE
  /\ worker' = [w \in Workers |->
       CASE w \in {"web", "heartbeat"} -> IF "read_db" \in open THEN "running" ELSE "none"
         [] w = "rfdb" -> IF "rfdb_reader" \in open THEN "running" ELSE "none"
         [] OTHER -> "running"]
  /\ UNCHANGED <<settings, partVars, exiting, signals, received, stop, cancelled, slipped, process>>

-----------------------------------------------------------------------------
(* Signals and the other ways out.                                         *)

\* on_signal: the first sets stop, the second exits at once.  Without run()'s
\* handlers SIGTERM ends the process.
Signal ==
  /\ Alive /\ signals < MaxSignals
  /\ signals' = signals + 1
  /\ received' = (received \/ handlers)
  /\ stop' = (stop \/ handlers)
  /\ process' = IF ~handlers \/ received THEN "gone" ELSE process
  /\ UNCHANGED <<settings, at, partVars, guardVars, handlers, worker, historyVars>>

\* A stalled pipeline: the watchdog's thread puts a restart on the loop and waits.
\* watchdog.stop() does not take back a restart already there.
Stall ==
  /\ Alive /\ at # "ended" /\ watchdog = "watching" /\ sdr
  /\ watchdog' = "restarting"
  /\ UNCHANGED <<settings, at, partVars, exiting, signalVars, worker, historyVars, process>>

\* supervisor.restart: only a sensor that is still active is started again, and
\* the start may fail.
RestartsTo == {sdr, FALSE}
Stopped ==
  CASE watchdog = "restarting" -> "stopped_restarting"
    [] watchdog = "watching" -> "stopped"
    [] OTHER -> watchdog
Restarted ==
  /\ Alive /\ at # "ended" /\ watchdog \in {"restarting", "stopped_restarting"}
  /\ sdr' \in RestartsTo
  /\ watchdog' = IF watchdog = "restarting" THEN "watching" ELSE "stopped"
  /\ UNCHANGED <<settings, at, open, zms, exiting, signalVars, worker, historyVars, process>>
DeadlinePasses ==
  /\ Alive /\ watchdog \in {"restarting", "stopped_restarting"}
  /\ process' = "gone"
  /\ UNCHANGED <<settings, at, partVars, guardVars, signalVars, worker, historyVars>>

\* The supervisor gives up restarting a crashed pipeline: it is stopped, and
\* the handler exits the process a little later.
GivesUp ==
  /\ Alive /\ at = "serving" /\ sdr /\ Has("give_up")
  /\ sdr' = FALSE /\ exiting' = TRUE
  /\ UNCHANGED <<settings, at, open, zms, watchdog, signalVars, worker, historyVars, process>>
GiveUpExits ==
  /\ Alive /\ exiting /\ at # "ended"
  /\ process' = "gone"
  /\ UNCHANGED <<settings, at, partVars, guardVars, signalVars, worker, historyVars>>

-----------------------------------------------------------------------------
(* Serving.                                                                *)

Running == {w \in Workers : worker[w] = "running"}

WorkerEnds ==
  /\ Alive /\ at = "serving" /\ worker["web"] = "running"
  /\ worker' = [worker EXCEPT !["web"] = "ended"]
  /\ UNCHANGED <<settings, at, partVars, guardVars, signalVars, historyVars, process>>
WorkerFails ==
  /\ Alive /\ at = "serving"
  /\ \E w \in Running : worker' = [worker EXCEPT ![w] = "failed"]
  /\ UNCHANGED <<settings, at, partVars, guardVars, signalVars, historyVars, process>>

\* uvicorn cannot bind its port: SystemExit leaves the event loop and asyncio.run
\* cancels every task, the main one and the processor's among them.
LoopLeft ==
  /\ Alive /\ at = "serving" /\ worker["web"] = "running"
  /\ worker' = [w \in Workers |->
                  IF w = "web" THEN "failed"
                  ELSE IF worker[w] = "running" THEN "cancelled" ELSE worker[w]]
  /\ cancelled' = TRUE /\ at' = "web"
  /\ watchdog' = Stopped
  /\ stop' = TRUE
  /\ UNCHANGED <<settings, partVars, exiting, handlers, signals, received, served, slipped, process>>

\* The wait ends on the stop event, or on a worker that failed, whose exception
\* run() raises: the finally block runs, and its first steps cannot fail.
LeavesTry ==
  /\ Alive /\ at = "serving"
  /\ stop \/ \E w \in Workers : worker[w] = "failed"
  /\ at' = "web" /\ stop' = TRUE
  /\ watchdog' = Stopped
  /\ UNCHANGED <<settings, partVars, exiting, handlers, signals, received, worker, historyVars, process>>

-----------------------------------------------------------------------------
(* The shutdown.                                                           *)

\* _exit_on_stop: the server sees the stop event and finishes, in its own time
\* or never; the wait for it ends after _WEB_SHUTDOWN_TIMEOUT_SEC.
WebStops ==
  /\ Alive /\ at = "web" /\ worker["web"] = "running"
  /\ worker' = [worker EXCEPT !["web"] = "ended"]
  /\ at' = "cancel"
  /\ UNCHANGED <<settings, partVars, guardVars, signalVars, historyVars, process>>
WebDone ==
  /\ Alive /\ at = "web" /\ worker["web"] # "running"
  /\ at' = "cancel"
  /\ UNCHANGED <<settings, partVars, guardVars, signalVars, worker, historyVars, process>>
NoTimeout == FALSE
WebTimesOut ==
  /\ Alive /\ at = "web" /\ worker["web"] = "running"
  /\ at' = "cancel"
  /\ UNCHANGED <<settings, partVars, guardVars, signalVars, worker, historyVars, process>>

CancelWorkers ==
  /\ Alive /\ at = "cancel"
  /\ at' = "gather"
  /\ UNCHANGED <<settings, partVars, guardVars, signalVars, worker, historyVars, process>>

WorkerStops ==
  /\ Alive /\ at \in ToSet(ShutdownSteps) \ {"web", "cancel"}
  /\ \E w \in Running : \E as \in {"cancelled", "failed"} : worker' = [worker EXCEPT ![w] = as]
  /\ UNCHANGED <<settings, at, partVars, guardVars, signalVars, historyVars, process>>

GatheredAtOnce == TRUE
Gathered == Running = {}
GatherWorkers ==
  /\ Alive /\ at = "gather" /\ Gathered
  /\ at' = "pipeline"
  /\ UNCHANGED <<settings, partVars, guardVars, signalVars, worker, historyVars, process>>

\* The three steps of the inner try: each may raise an Exception, which is
\* logged, or a CancelledError, which goes to the closes.
StopPipeline ==
  /\ Alive /\ at = "pipeline"
  /\ \/ ~cancelled /\ sdr' = FALSE /\ at' = "figures" /\ UNCHANGED slipped
     \/ sdr /\ at' \in (IF cancelled THEN {"close_rfdb_reader"} ELSE {"figures", "close_rfdb_reader"})
            /\ slipped' = TRUE /\ UNCHANGED sdr
     \/ cancelled /\ ~sdr /\ at' = "figures" /\ UNCHANGED <<sdr, slipped>>
  /\ UNCHANGED <<settings, open, zms, guardVars, signalVars, worker, served, cancelled, process>>
FlushFigures ==
  /\ Alive /\ at = "figures"
  /\ at' = "zms_stop"
  /\ UNCHANGED <<settings, partVars, guardVars, signalVars, worker, historyVars, process>>
StopZms ==
  /\ Alive /\ at = "zms_stop"
  /\ at' = "close_rfdb_reader"
  /\ \/ zms' = FALSE /\ UNCHANGED slipped
     \/ zms /\ slipped' = TRUE /\ UNCHANGED zms
  /\ UNCHANGED <<settings, open, sdr, guardVars, signalVars, worker, served, cancelled, process>>

\* What a close gives back.
Closing(s) ==
  CASE s = "close_rfdb_reader" -> "rfdb_reader" [] s = "close_read_db" -> "read_db" [] OTHER -> "db"

\* A close that raises has ended its connection's thread all the same; the next
\* close is in the finally of this one.
AfterRaise(s) == After(ShutdownSteps, s)
Close ==
  /\ Alive /\ at \in Closes
  /\ open' = open \ {Closing(at)}
  /\ at' \in {After(ShutdownSteps, at), AfterRaise(at)}
  /\ UNCHANGED <<settings, zms, sdr, guardVars, signalVars, worker, historyVars, process>>

SignalsOff ==
  /\ Alive /\ at = "signals_off"
  /\ at' = "ended" /\ handlers' = FALSE
  /\ UNCHANGED <<settings, partVars, guardVars, signals, received, stop, worker, historyVars, process>>

\* These waits have no bound: a worker that ignores its cancellation, a pipeline
\* task or a receiver that does not stop, or the supervisor's lock in the hands of
\* such a stop; a connection whose thread is stuck in a statement.  The watchdog
\* has been stopped, so only a restart it had already asked for has a deadline.
Wedges ==
  /\ Alive
  /\ \/ at = "gather" /\ Running # {}
     \/ at = "pipeline" /\ (sdr \/ watchdog = "stopped_restarting")
     \/ at \in Closes /\ Closing(at) \in open
  /\ at' = "wedged"
  /\ UNCHANGED <<settings, partVars, guardVars, signalVars, worker, historyVars, process>>

\* The interpreter waits for the threads of the open connections.
Exit ==
  /\ Alive /\ at = "ended"
  /\ process' = IF open = {} THEN "gone" ELSE "hung"
  /\ UNCHANGED <<settings, at, partVars, guardVars, signalVars, worker, historyVars>>

Shutdown ==
  \/ WebDone \/ WebTimesOut \/ CancelWorkers \/ WorkerStops \/ GatherWorkers
  \/ StopPipeline \/ FlushFigures \/ StopZms \/ Close \/ SignalsOff

RunNext ==
  \/ StepDone \/ StepForgiven \/ StepRaises \/ Ready
  \/ Signal \/ Stall \/ Restarted \/ DeadlinePasses \/ GivesUp \/ GiveUpExits
  \/ WorkerEnds \/ WorkerFails \/ LoopLeft \/ LeavesTry \/ WebStops \/ Wedges \/ Shutdown \/ Exit

RunSpec == RunInit /\ [][RunNext]_runVars
RunLiveSpec == RunSpec /\ WF_runVars(LeavesTry) /\ WF_runVars(Shutdown) /\ WF_runVars(Exit)

-----------------------------------------------------------------------------
\* Once run() is in its try, it ends with every database closed and, when their
\* stops did not fail, the pipeline stopped and the ZMS client too, whatever
\* worker, step or close fails and whatever a late watchdog restart does (the
\* nested finally blocks of run(), supervisor.restart).
EndsClosed ==
  at = "ended" /\ served => open = {} /\ (slipped \/ (~sdr /\ ~zms))

\* No worker ever runs on a database that has been closed (_stop_workers, before
\* the closes).
UsersStopFirst ==
  \A w \in Workers : worker[w] = "running" => Uses(w) \subseteq open

\* A stop signal that run() receives ends the process, whatever the web server
\* does and whatever worker, step or close fails, unless one of the waits that
\* have no bound never ends.
StopIsObeyed == received ~> (process = "gone" \/ at = "wedged")

\* The process never outlives run(): "otherwise the non-daemon aiosqlite thread
\* hangs interpreter exit forever" (app.py, before the closes).
NeverHangs == process # "hung"

\* Types; a process that is gone or hung has no more to do.
RunTypeOK ==
  /\ settings \in Settings
  /\ at \in ToSet(StartSteps) \cup ToSet(ShutdownSteps) \cup {"ready", "serving", "ended", "wedged"}
  /\ open \subseteq Databases
  /\ watchdog \in {"none", "watching", "restarting", "stopped", "stopped_restarting"}
  /\ {zms, sdr, exiting, handlers, received, stop, served, cancelled, slipped} \subseteq BOOLEAN
  /\ signals \in Nat
  /\ worker \in [Workers -> {"none", "running", "ended", "failed", "cancelled"}]
  /\ process \in {"alive", "hung", "gone"}

\* run() ends with its databases closed and its parts stopped, and no worker
\* ever uses a closed database, whatever fails (app.py, run and _stop_workers).
ShutsDownInOrder == RunTypeOK /\ EndsClosed /\ UsersStopFirst
=============================================================================
