----------------------------- MODULE FleetLive -----------------------------
(***************************************************************************)
(* The fleet's live hub (fleet/live.py) for one sensor: the feed that the  *)
(* hub keeps open while someone watches, the browsers on the Live page,    *)
(* and the sensor's side of the socket.  The feeds of several sensors      *)
(* share nothing but the viewers.                                          *)
(***************************************************************************)
EXTENDS Integers, Sequences, FiniteSets

CONSTANTS
  Viewers,       \* browsers
  OfflineAfter,  \* OFFLINE_AFTER_FAILURES
  MaxJoins,      \* bound on the joins of a behaviour
  MaxSwitches,   \* bound on its High Res switches
  MaxDrops,      \* bound on lost connections and failed connects
  MaxRetunes,    \* bound on the sensor's retunes
  MaxToggles,    \* bound on enabling and disabling the sensor
  Lives          \* what may happen in one behaviour: sets of Occurrences

Occurrences == {"switch", "drop", "retune", "toggle", "standby", "send fails"}

NoFrame == [mode |-> "none", tune |-> 0]
NotShown == [tune |-> 0, axis |-> 0]
NotTold == "none"
Modes == {"averaged", "high_res"}

ASSUME FleetLiveAssumption ==
  /\ {OfflineAfter, MaxJoins, MaxSwitches, MaxDrops, MaxRetunes, MaxToggles} \subseteq Nat
  /\ OfflineAfter > 0
  /\ Lives \subseteq SUBSET Occurrences

VARIABLES
  happens,
  enabled,   \* the sensor is in the registry and enabled
  in,        \* _viewers
  high,      \* viewer -> its High Res switch
  pending,   \* viewer -> the psd frame queued for it: [mode, tune], or NoFrame
  taken,     \* viewer -> the tuning of the frame its sender holds (0: none)
  told,      \* viewer -> the newest status put for it
  sig,       \* viewer -> the frequency axis it holds (freq_sig)
  list,      \* viewer -> the roster queued for it: "none", "with", "without" it
  tile,      \* viewer -> the axis its page's tile holds (0: none yet), or -1: no tile
  shown,     \* viewer -> the frame it took last, with the axis its tile then held
  idle,      \* _idle_since: "no", "grace", "over"
  feed,      \* its task: "none", "connecting", "up", "waiting"
  failures, seen,  \* of the feed: failures, and last_seen is set
  quiet,     \* no psd for PSD_STALE_SEC
  asked,     \* feed.high_res
  frames,    \* mode -> the newest frame's tuning, or NoFrame
  axis,      \* feed.frequencies
  published, \* published_status
  roster,    \* _roster_sig: the sensor is on the roster last published
  sends,     \* _send_mode tasks that have not run
  sensorHigh, tune, axisSent,  \* the sensor: mode, tuning, axis sent on this socket
  joins, switches, drops, retunes, toggles

viewerVars == <<in, high, pending, taken, told, sig, list, tile, shown>>
feedVars == <<feed, failures, seen, quiet, asked, frames, axis, published>>
sensorVars == <<sensorHigh, tune, axisSent>>
boundVars == <<joins, switches, drops, retunes, toggles>>
vars == <<happens, enabled, roster, viewerVars, idle, feedVars, sends, sensorVars, boundVars>>

NoFrames == [m \in Modes |-> 0]

Init ==
  /\ happens \in Lives
  /\ enabled = TRUE
  /\ in = {} /\ high = [v \in Viewers |-> FALSE]
  /\ pending = [v \in Viewers |-> NoFrame] /\ told = [v \in Viewers |-> NotTold]
  /\ taken = [v \in Viewers |-> 0]
  /\ sig = [v \in Viewers |-> 0] /\ shown = [v \in Viewers |-> NotShown]
  /\ list = [v \in Viewers |-> "none"] /\ tile = [v \in Viewers |-> -1] /\ roster = TRUE
  /\ idle = "over"
  /\ feed = "none" /\ failures = 0 /\ seen = FALSE /\ quiet = TRUE /\ asked = FALSE
  /\ frames = NoFrames /\ axis = 0 /\ published = NotTold
  /\ sends = <<>>
  /\ sensorHigh = FALSE /\ tune = 1 /\ axisSent = FALSE
  /\ joins = 0 /\ switches = 0 /\ drops = 0 /\ retunes = 0 /\ toggles = 0

----------------------------------------------------------------------------
(* What the hub derives                                                    *)

\* _Feed.state
State(f, still, ever, fails) ==
  IF f = "up" THEN (IF still THEN "standby" ELSE "live")
  ELSE IF ~ever /\ fails = 0 THEN "connecting"
  ELSE IF fails >= OfflineAfter THEN "offline" ELSE "reconnecting"

Wanted(v) == IF high[v] THEN "high_res" ELSE "averaged"
WantsHigh(vs, h) == \E v \in vs : h[v]

\* _publish_status: to the viewers, if it differs from the last one.
Publish(st) ==
  /\ published' = st
  /\ told' = IF st = published THEN told
             ELSE [v \in Viewers |-> IF v \in in THEN st ELSE told[v]]

\* _apply_mode: a task is scheduled when the sensor was last asked otherwise.
ApplyMode(vs, h) ==
  sends' = IF feed = "up" /\ asked # WantsHigh(vs, h) THEN Append(sends, WantsHigh(vs, h)) ELSE sends

Fresh == /\ failures' = 0 /\ seen' = FALSE /\ quiet' = TRUE /\ asked' = FALSE
         /\ frames' = NoFrames /\ axis' = 0 /\ published' = NotTold

Listing == IF enabled THEN "with" ELSE "without"

\* _reconcile: a new feed, or the old one's task cancelled (a _send_mode of
\* its finds the socket closed).
Reconcile(watching) ==
  IF watching /\ enabled
  THEN /\ IF feed = "none" THEN feed' = "connecting" /\ Fresh ELSE UNCHANGED feedVars
       /\ UNCHANGED sends
  ELSE /\ IF feed = "none" THEN UNCHANGED feedVars ELSE feed' = "none" /\ Fresh
       /\ sends' = <<>>

----------------------------------------------------------------------------
(* Browsers                                                                *)

\* join: the roster, the newest status and the newest frame are put at once.
Join(v) ==
  /\ v \notin in /\ joins < MaxJoins /\ joins' = joins + 1
  /\ in' = in \cup {v} /\ idle' = "no"
  /\ high' = [high EXCEPT ![v] = FALSE]
  /\ Reconcile(TRUE)
  /\ told' = [told EXCEPT ![v] =
       IF feed' = "none" THEN NotTold ELSE State(feed', quiet', seen', failures')]
  /\ pending' = [pending EXCEPT ![v] =
       IF frames'["averaged"] = 0 THEN NoFrame ELSE [mode |-> "averaged", tune |-> frames'["averaged"]]]
  /\ roster' = enabled
  /\ list' = [w \in Viewers |-> IF w = v \/ (w \in in /\ roster # enabled) THEN Listing ELSE list[w]]
  /\ UNCHANGED <<happens, enabled, taken, sig, tile, shown, sensorVars, switches, drops, retunes, toggles>>

Leave(v) ==
  /\ v \in in /\ in' = in \ {v}
  /\ idle' = IF in' = {} THEN "grace" ELSE idle
  /\ ApplyMode(in', high)
  /\ pending' = [pending EXCEPT ![v] = NoFrame] /\ told' = [told EXCEPT ![v] = NotTold]
  /\ taken' = [taken EXCEPT ![v] = 0]
  /\ shown' = [shown EXCEPT ![v] = NotShown] /\ sig' = [sig EXCEPT ![v] = 0]
  /\ list' = [list EXCEPT ![v] = "none"] /\ tile' = [tile EXCEPT ![v] = -1]
  /\ high' = [high EXCEPT ![v] = FALSE]
  /\ UNCHANGED <<happens, enabled, roster, feedVars, sensorVars, boundVars>>

\* set_high_res drops what is queued in the old mode.
QueueDropped(v) == pending' = [pending EXCEPT ![v] = NoFrame]

Switch(v) ==
  /\ v \in in /\ "switch" \in happens /\ switches < MaxSwitches /\ switches' = switches + 1
  /\ high' = [high EXCEPT ![v] = ~@]
  /\ QueueDropped(v)
  /\ ApplyMode(in, high')
  /\ UNCHANGED <<happens, enabled, roster, in, taken, told, sig, list, tile, shown, idle, feedVars, sensorVars,
                 joins, drops, retunes, toggles>>

\* Mutant: the axis is sent only once to a browser.
SigFirst(v) == IF sig[v] = 0 THEN axis ELSE sig[v]

\* _axis_for: the feed's axis goes with the frame unless the browser has it.
SigNow(v) == IF axis = 0 THEN sig[v] ELSE axis

\* The send loop takes all that is queued.  The page adds or removes its
\* tile: the roster comes before the sensor's first frame.
Take(v) ==
  /\ v \in in /\ taken[v] = 0 /\ (pending[v] # NoFrame \/ list[v] # "none")
  /\ taken' = [taken EXCEPT ![v] = pending[v].tune]
  /\ pending' = [pending EXCEPT ![v] = NoFrame] /\ list' = [list EXCEPT ![v] = "none"]
  /\ tile' = [tile EXCEPT ![v] =
       CASE list[v] = "without" -> -1
         [] list[v] = "with" /\ @ = -1 -> 0
         [] OTHER -> @]
  /\ shown' = [shown EXCEPT ![v] = IF list[v] = "without" THEN NotShown ELSE @]
  /\ UNCHANGED <<happens, enabled, roster, in, high, told, sig, idle, feedVars, sends, sensorVars, boundVars>>

\* It encodes the frame it took when what went before it has been sent, and
\* adds the feed's axis of that moment.  The page draws the frame, if it has
\* a tile, on the axis the tile holds.
Send(v) ==
  /\ v \in in /\ taken[v] # 0 /\ taken' = [taken EXCEPT ![v] = 0]
  /\ sig' = [sig EXCEPT ![v] = SigNow(v)]
  /\ LET drawn == IF tile[v] # -1 /\ SigNow(v) # sig[v] THEN SigNow(v) ELSE tile[v]
     IN /\ tile' = [tile EXCEPT ![v] = drawn]
        /\ shown' = [shown EXCEPT ![v] =
             IF drawn = -1 THEN @ ELSE [tune |-> taken[v], axis |-> drawn]]
  /\ UNCHANGED <<happens, enabled, roster, in, high, pending, told, list, idle, feedVars, sends,
                 sensorVars, boundVars>>

----------------------------------------------------------------------------
(* The hub's loops                                                         *)

\* IDLE_GRACE_SEC after the last viewer left.
GraceEnds ==
  /\ idle = "grace" /\ idle' = "over"
  /\ UNCHANGED <<happens, enabled, roster, viewerVars, feedVars, sends, sensorVars, boundVars>>

\* Mutant: nobody looks whether the grace has run out.
WatchingEver == idle # "never"

Watching == in # {} \/ idle = "grace"

\* The tick reconciles; the one after publishes what time has changed.
TickReconcile ==
  /\ (feed = "none") = (Watching /\ enabled) \/ roster # enabled
  /\ Reconcile(Watching)
  /\ roster' = enabled
  /\ list' = [v \in Viewers |-> IF v \in in /\ roster # enabled THEN Listing ELSE list[v]]
  /\ UNCHANGED <<happens, enabled, in, high, pending, taken, told, sig, tile, shown, idle, sensorVars, boundVars>>

TickStatus ==
  /\ feed # "none" /\ published # State(feed, quiet, seen, failures)
  /\ Publish(State(feed, quiet, seen, failures))
  /\ UNCHANGED <<happens, enabled, roster, in, high, pending, taken, sig, list, tile, shown, idle,
                 feed, failures, seen, quiet, asked, frames, axis, sends, sensorVars, boundVars>>

\* _run: connected, and High Res asked for if anyone wants it.
Connect ==
  /\ feed = "connecting"
  /\ feed' = "up" /\ failures' = 0 /\ axisSent' = FALSE
  /\ Publish(State("up", quiet, seen, 0))
  /\ \/ /\ asked' = WantsHigh(in, high) /\ sensorHigh' = WantsHigh(in, high)
     \/ /\ WantsHigh(in, high) /\ "send fails" \in happens
        /\ asked' = FALSE /\ sensorHigh' = FALSE
  /\ UNCHANGED <<happens, enabled, roster, in, high, pending, taken, sig, list, tile, shown, idle, seen, quiet,
                 frames, axis, sends, tune, boundVars>>

\* The connect fails, the socket closes or goes silent.
Lose ==
  /\ feed \in {"connecting", "up"} /\ "drop" \in happens /\ drops < MaxDrops
  /\ drops' = drops + 1
  /\ feed' = "waiting"
  /\ failures' = IF failures < OfflineAfter THEN failures + 1 ELSE failures
  /\ Publish(State("waiting", quiet, seen, failures'))
  /\ UNCHANGED <<happens, enabled, roster, in, high, pending, taken, sig, list, tile, shown, idle, seen, quiet, asked,
                 frames, axis, sends, sensorVars, joins, switches, retunes, toggles>>

\* The wait before the next connect is far longer than a task's turn.
Backoff ==
  /\ feed = "waiting" /\ sends = <<>> /\ feed' = "connecting"
  /\ UNCHANGED <<happens, enabled, roster, viewerVars, idle, failures, seen, quiet, asked, frames, axis,
                 published, sends, sensorVars, boundVars>>

\* A scheduled _send_mode runs: nothing without a socket; a send that fails
\* is undone and left to the next change or connect.
SendMode ==
  /\ sends # <<>> /\ sends' = Tail(sends)
  /\ IF feed = "up"
     THEN \/ asked' = Head(sends) /\ sensorHigh' = Head(sends)
          \/ "send fails" \in happens /\ asked' = ~Head(sends) /\ UNCHANGED sensorHigh
     ELSE UNCHANGED <<asked, sensorHigh>>
  /\ UNCHANGED <<happens, enabled, roster, viewerVars, idle, feed, failures, seen, quiet, frames, axis,
                 published, tune, axisSent, boundVars>>

\* A psd frame of mode m: kept as the newest of its mode, put for the viewers
\* that want it; the sensor sends its axis when it is new on this socket.
Frame(m) ==
  /\ feed = "up" /\ (m = "high_res" => sensorHigh)
  /\ axis' = IF axisSent THEN axis ELSE tune
  /\ axisSent' = TRUE
  /\ frames' = [frames EXCEPT ![m] = tune]
  /\ pending' = [v \in Viewers |->
       IF v \in in /\ Wanted(v) = m THEN [mode |-> m, tune |-> tune] ELSE pending[v]]
  /\ quiet' = FALSE /\ seen' = TRUE
  /\ IF quiet THEN Publish("live") ELSE UNCHANGED <<published, told>>
  /\ UNCHANGED <<happens, enabled, roster, in, high, taken, sig, list, tile, shown, idle, feed, failures, asked, sends,
                 sensorHigh, tune, boundVars>>

----------------------------------------------------------------------------
(* The sensor and the registry                                             *)

Quiet ==
  /\ "standby" \in happens /\ feed = "up" /\ ~quiet /\ quiet' = TRUE
  /\ UNCHANGED <<happens, enabled, roster, viewerVars, idle, feed, failures, seen, asked, frames, axis,
                 published, sends, sensorVars, boundVars>>

\* The sensor sends its axis again with the first frame after a retune.
Retune ==
  /\ "retune" \in happens /\ retunes < MaxRetunes /\ retunes' = retunes + 1
  /\ tune' = tune + 1 /\ axisSent' = FALSE
  /\ UNCHANGED <<happens, enabled, roster, viewerVars, idle, feedVars, sends, sensorHigh,
                 joins, switches, drops, toggles>>

Toggle ==
  /\ "toggle" \in happens /\ toggles < MaxToggles /\ toggles' = toggles + 1
  /\ enabled' = ~enabled
  /\ UNCHANGED <<happens, roster, viewerVars, idle, feedVars, sends, sensorVars,
                 joins, switches, drops, retunes>>

Next ==
  \/ \E v \in Viewers : Join(v)
  \/ \E v \in Viewers : Leave(v)
  \/ \E v \in Viewers : Switch(v)
  \/ \E v \in Viewers : Take(v)
  \/ \E v \in Viewers : Send(v)
  \/ GraceEnds \/ TickReconcile \/ TickStatus \/ Connect \/ Lose \/ Backoff \/ SendMode
  \/ \E m \in Modes : Frame(m)
  \/ Quiet \/ Retune \/ Toggle

Spec == Init /\ [][Next]_vars

LiveSpec ==
  /\ Spec /\ WF_vars(GraceEnds) /\ WF_vars(TickReconcile) /\ WF_vars(TickStatus)
  /\ WF_vars(Connect) /\ WF_vars(Backoff) /\ WF_vars(SendMode)

----------------------------------------------------------------------------
(* Properties                                                              *)

\* Types.
TypeOK ==
  /\ happens \in Lives /\ in \subseteq Viewers
  /\ high \in [Viewers -> BOOLEAN] /\ list \in [Viewers -> {"none", "with", "without"}]
  /\ pending \in [Viewers -> {NoFrame} \cup [mode : Modes, tune : 1..tune]]
  /\ {taken, sig} \subseteq [Viewers -> 0..tune] /\ tile \in [Viewers -> -1..tune]
  /\ shown \in [Viewers -> [tune : 0..tune, axis : 0..tune]]
  /\ idle \in {"no", "grace", "over"} /\ feed \in {"none", "connecting", "up", "waiting"}
  /\ {enabled, seen, quiet, asked, roster, sensorHigh, axisSent} \subseteq BOOLEAN
  /\ failures \in Nat /\ frames \in [Modes -> 0..tune] /\ axis \in 0..tune
  /\ tune \in 1..(MaxRetunes + 1)

\* A browser is never sent a frame of the mode it did not choose, and what is
\* queued for it is the sensor's newest of that mode.
FramesFollowMode ==
  \A v \in in : pending[v] # NoFrame =>
    /\ pending[v].mode = Wanted(v)
    /\ feed # "none" => pending[v].tune = frames[Wanted(v)] \/ frames[Wanted(v)] = 0

\* A frame of a new tuning is never drawn on the axis of an old one, unless the
\* sensor was disabled and its feed let go meanwhile.  A frame that is drawn on
\* another tuning's axis (an old one that was sent after the new axis had come)
\* is about to be replaced, if its browser stays in its mode.
AxisIsTheFrames ==
  \A v \in in : shown[v].axis \notin {0, shown[v].tune} =>
    /\ "toggle" \notin happens => shown[v].tune < shown[v].axis
    /\ "switch" \notin happens /\ axis # 0 => axis \in {taken[v], pending[v].tune}

\* A browser is queued the frames of the mode it chose, and none stays drawn
\* on the axis of another tuning (live.py).
FramesAndAxis == TypeOK /\ FramesFollowMode /\ AxisIsTheFrames

\* The hub lets go of a sensor nobody watches, and of a disabled one, and
\* comes back to one that is watched.
SocketFollowsViewers ==
  /\ []<>(in # {} \/ feed = "none")
  /\ []<>(in = {} \/ ~enabled \/ feed = "up")

=============================================================================
