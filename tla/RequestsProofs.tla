--------------------------- MODULE RequestsProofs ---------------------------
(***************************************************************************)
(* What is asked of the sensor, and that it is done.  The supervisor, for  *)
(* any number of requests, crash restarts, pipelines, troubles and process *)
(* exits: the sensor is as it was asked to be.  The schedules, for any     *)
(* schedules, ring, budget and grace, and any stops, retunes and deaths:   *)
(* every run is answered, the answer is true of the run's file, and final. *)
(***************************************************************************)
EXTENDS Supervisor, Schedules, FiniteSetTheorems, SequenceTheorems, WellFoundedInduction, TLAPS

-----------------------------------------------------------------------------
(* The supervisor: the inductive invariant.                                *)

InLock == {"entered", "stopping", "starting"}
Waits(q, a) == \E i \in 1 .. Len(q) : q[i] = a
NoTwice(q) == \A i, j \in 1 .. Len(q) : q[i] = q[j] => i = j

\* An actor is in the lock's queue once, and only its head stops or starts.
Queue ==
  /\ NoTwice(lock)
  /\ \A a \in Actors : at[a] \in InLock <=> Waits(lock, a)
  /\ \A a \in Actors : at[a] \in {"stopping", "starting"} => Holds(a)

\* Who may run what, and what one that stops or starts has found.
Roles ==
  /\ \A a \in Actors : op[a] = "none" <=> at[a] \notin InLock
  /\ \A a \in Actors : at[a] \in {"new", "sleep"} => a \in Recoveries
  /\ \A c \in Callers : op[c] \notin Automatic \cup {"boot"}
  /\ \A r \in Recoveries : op[r] \in {"none", "recover", "giveup"}
  /\ op[Watchdog] \in {"none", "restart"}
  /\ op[Boot] \in {"none", "boot"}
  /\ \A a \in Actors :
       /\ at[a] = "stopping" => op[a] \in Standbys \cup Automatic
       /\ at[a] = "starting" => op[a] \in Activations \cup {"play", "restart", "recover"}

Restarts(a) == at[a] = "starting" /\ op[a] \in {"restart", "recover"}

\* What the last request left is what runs, or is about to: a restart never
\* brings back what a request has put into standby.
Settled ==
  /\ stopping => active
  /\ \A a \in Actors : at[a] = "stopping" /\ op[a] \in Automatic => ~replay
  /\ \A a \in Actors : at[a] = "starting" /\ op[a] = "play" => replay
  /\ active => settled # "standby"
  /\ active /\ settled = "replay" => replay
  /\ \A a \in Actors : Restarts(a) => ~active /\ ~replay /\ settled \notin {"standby", "replay"}

\* A live sensor that is down has been given up, or is being started.
NotDown ==
  settled \in {"live", "restored"} /\ ~active => gaveUp \/ \E a \in Actors : at[a] = "starting"

\* The setting wants the live sensor, or somebody is switching it off.
Wanted ==
  /\ op[Boot] = "boot" => intent /\ \A c \in Callers : at[c] = "idle"
  /\ (active \/ \E a \in Actors : Restarts(a)) /\ ~replay /\ settled \notin {"failed", "restored"}
     => intent \/ \E c \in Callers : op[c] = "off"

\* Without the race of replays: a replay has the supervisor to itself, and
\* whatever starts finds no pipeline.
Unraced ==
  /\ NoOrphan
  /\ \A c \in Callers : Replaying(c) => \A b \in (Callers \cup {Boot}) \ {c} : at[b] = "idle"
  /\ \A c \in Callers : op[c] = "play" =>
       ~active /\ \A a \in Actors \ {c} : at[a] # "starting"
  /\ \A a \in Actors : at[a] = "starting" => ~active

Inv ==
  TypeOK /\ Queue /\ Roles /\ Settled /\ NotDown /\ Wanted
    /\ ("replay_race" \notin Happens => Unraced)

-----------------------------------------------------------------------------
(* Queues, and what entering and leaving the lock does to them.            *)

\* The last to join waits behind the others.
LEMMA Joined ==
  ASSUME NEW S, NEW q \in Seq(S), NEW a \in S, ~Waits(q, a), NoTwice(q),
         NEW r, r = Append(q, a)
  PROVE  /\ r \in Seq(S) /\ NoTwice(r)
         /\ \A b \in S : Waits(r, b) <=> b = a \/ Waits(q, b)
         /\ q # <<>> => r # <<>> /\ Head(r) = Head(q)
         /\ r # <<>>
<1>1. r \in Seq(S) /\ Len(r) = Len(q) + 1 /\ Len(q) \in Nat
      /\ (\A i \in 1 .. Len(q) : r[i] = q[i]) /\ r[Len(q) + 1] = a
  BY AppendProperties, LenProperties
<1>2. NoTwice(r)
  BY <1>1 DEF NoTwice, Waits
<1>3. ASSUME NEW b \in S PROVE Waits(r, b) <=> b = a \/ Waits(q, b)
  <2>1. CASE b = a
    BY <2>1, <1>1 DEF Waits
  <2>2. CASE b # a
    BY <2>2, <1>1 DEF Waits
  <2> QED BY <2>1, <2>2
<1>4. q # <<>> => r # <<>> /\ Head(r) = Head(q)
  BY <1>1, EmptySeq, HeadTailProperties
<1>5. r # <<>>
  BY <1>1, EmptySeq
<1> QED BY <1>1, <1>2, <1>3, <1>4, <1>5

\* When the head leaves, the others wait on.
LEMMA Left ==
  ASSUME NEW S, NEW q \in Seq(S), q # <<>>, NoTwice(q), NEW r, r = Tail(q)
  PROVE  /\ r \in Seq(S) /\ NoTwice(r) /\ Head(q) \in S
         /\ \A b \in S : Waits(r, b) <=> b # Head(q) /\ Waits(q, b)
<1>1. r \in Seq(S) /\ Len(q) \in Nat \ {0} /\ Len(r) = Len(q) - 1 /\ Head(q) = q[1]
      /\ (\A i \in 1 .. Len(q) - 1 : r[i] = q[i + 1]) /\ Head(q) \in S
  BY HeadTailProperties, LenProperties, EmptySeq
<1>2. NoTwice(r)
  BY <1>1 DEF NoTwice
<1>3. ASSUME NEW b \in S PROVE Waits(r, b) <=> b # Head(q) /\ Waits(q, b)
  <2>1. ASSUME Waits(r, b) PROVE b # Head(q) /\ Waits(q, b)
    <3>1. PICK i \in 1 .. Len(q) - 1 : q[i + 1] = b
      BY <2>1, <1>1 DEF Waits
    <3>2. i + 1 \in 1 .. Len(q) /\ i + 1 # 1 /\ 1 \in 1 .. Len(q)
      BY <1>1
    <3> QED BY <3>1, <3>2, <1>1 DEF Waits, NoTwice
  <2>2. ASSUME b # Head(q), Waits(q, b) PROVE Waits(r, b)
    <3>1. PICK i \in 1 .. Len(q) : q[i] = b
      BY <2>2 DEF Waits
    <3>2. i - 1 \in 1 .. Len(q) - 1 /\ (i - 1) + 1 = i
      BY <3>1, <2>2, <1>1
    <3> QED BY <3>1, <3>2, <1>1 DEF Waits
  <2> QED BY <2>1, <2>2
<1> QED BY <1>1, <1>2, <1>3

\* One that waits at the head of the queue is in it.
LEMMA HeadWaits ==
  ASSUME NEW S, NEW q \in Seq(S), q # <<>>
  PROVE  Head(q) \in S /\ Waits(q, Head(q))
<1>1. Len(q) \in Nat \ {0} /\ Head(q) = q[1] /\ Head(q) \in S
  BY HeadTailProperties, LenProperties, EmptySeq
<1> QED BY <1>1 DEF Waits

Typed == lock \in Seq(Actors) /\ at \in [Actors -> {"idle", "new", "sleep"} \cup InLock]
         /\ op \in [Actors -> Ops]

\* One that asks for the lock waits for it.
LEMMA Enters ==
  ASSUME Queue, Typed, NEW a \in Actors, NEW o \in Ops, at[a] \notin InLock,
         lock' = Append(lock, a), EnterAs(a, o)
  PROVE  Queue' /\ Typed' /\ at'[a] = "entered" /\ op'[a] = o
         /\ \A b \in Actors \ {a} : at'[b] = at[b] /\ op'[b] = op[b]
<1>1. ~Waits(lock, a) /\ NoTwice(lock)
  BY DEF Queue
<1>2. /\ lock' \in Seq(Actors) /\ NoTwice(lock')
      /\ \A b \in Actors : Waits(lock', b) <=> b = a \/ Waits(lock, b)
      /\ lock # <<>> => lock' # <<>> /\ Head(lock') = Head(lock)
  BY <1>1, Joined DEF Typed
<1>3. /\ at'[a] = "entered" /\ op'[a] = o /\ Typed'
      /\ \A b \in Actors \ {a} : at'[b] = at[b] /\ op'[b] = op[b]
  BY <1>2 DEF Typed, EnterAs, InLock
<1>4. Queue'
  BY <1>2, <1>3 DEF Queue, InLock, Holds
<1> QED BY <1>3, <1>4

\* One that leaves the lock is through.
LEMMA LeavesIt ==
  ASSUME Queue, Typed, NEW a \in Actors, Holds(a), Leaves(a)
  PROVE  Queue' /\ Typed' /\ at'[a] = "idle" /\ op'[a] = "none"
         /\ \A b \in Actors \ {a} :
              at'[b] = at[b] /\ op'[b] = op[b] /\ at'[b] \notin {"stopping", "starting"}
<1>1. /\ lock' \in Seq(Actors) /\ NoTwice(lock')
      /\ \A b \in Actors : Waits(lock', b) <=> b # a /\ Waits(lock, b)
  BY Left DEF Typed, Queue, Holds, Leaves
<1>2. /\ at'[a] = "idle" /\ op'[a] = "none" /\ Typed'
      /\ \A b \in Actors \ {a} : at'[b] = at[b] /\ op'[b] = op[b]
  BY <1>1 DEF Typed, Leaves, InLock, Ops
<1>3. \A b \in Actors \ {a} : at[b] \notin {"stopping", "starting"}
  BY DEF Queue, Holds
<1>4. Queue'
  BY <1>1, <1>2, <1>3 DEF Queue, InLock
<1> QED BY <1>2, <1>3, <1>4

\* One that leaves the lock and asks again is the last to wait.
LEMMA ReentersIt ==
  ASSUME Queue, Typed, NEW a \in Actors, NEW o \in Ops, Holds(a), Reenters(a, o)
  PROVE  Queue' /\ Typed' /\ at'[a] = "entered" /\ op'[a] = o
         /\ \A b \in Actors \ {a} :
              at'[b] = at[b] /\ op'[b] = op[b] /\ at'[b] \notin {"stopping", "starting"}
<1> DEFINE rest == Tail(lock)
<1>1. /\ rest \in Seq(Actors) /\ NoTwice(rest)
      /\ \A b \in Actors : Waits(rest, b) <=> b # a /\ Waits(lock, b)
  BY Left DEF Typed, Queue, Holds
<1>2. lock' = Append(rest, a)
  BY DEF Reenters
<1> HIDE DEF rest
<1>3. /\ lock' \in Seq(Actors) /\ NoTwice(lock')
      /\ \A b \in Actors : Waits(lock', b) <=> b = a \/ Waits(rest, b)
  BY <1>1, <1>2, Joined
<1>4. /\ at'[a] = "entered" /\ op'[a] = o /\ Typed'
      /\ \A b \in Actors \ {a} : at'[b] = at[b] /\ op'[b] = op[b]
  BY <1>3 DEF Typed, Reenters, EnterAs, InLock
<1>5. \A b \in Actors \ {a} : at[b] \notin {"stopping", "starting"}
  BY DEF Queue, Holds
<1>6. Queue'
  BY <1>1, <1>3, <1>4, <1>5 DEF Queue, InLock
<1> QED BY <1>4, <1>5, <1>6

\* The head of the queue goes on to stop or to start.
LEMMA GoesOn ==
  ASSUME Queue, Typed, NEW a \in Actors, NEW place \in {"stopping", "starting"}, Holds(a),
         Goes(a, place)
  PROVE  Queue' /\ Typed' /\ at'[a] = place /\ op' = op /\ Holds(a)'
         /\ \A b \in Actors \ {a} : at'[b] = at[b] /\ at'[b] \notin {"stopping", "starting"}
<1>1. /\ at'[a] = place /\ Typed' /\ op' = op /\ lock' = lock
      /\ \A b \in Actors \ {a} : at'[b] = at[b]
  BY DEF Typed, Goes, InLock
<1>2. Waits(lock, a)
  BY HeadWaits DEF Typed, Holds
<1>3. \A b \in Actors \ {a} : at[b] \notin {"stopping", "starting"}
  BY DEF Queue, Holds
<1>4. Queue'
  BY <1>1, <1>2, <1>3 DEF Queue, InLock, Holds
<1> QED BY <1>1, <1>3, <1>4 DEF Holds

\* An operation that is through leaves the lock, or goes on to its next one.
LEMMA CompletesIs ==
  ASSUME Queue, Typed, NEW a \in Actors, NEW wanted, Holds(a), Completes(a, wanted)
  PROVE  /\ Queue' /\ Typed'
         /\ \/ at'[a] = "idle" /\ op'[a] = "none" /\ op[a] # "playoff"
            \/ at'[a] = "entered" /\ op'[a] = "play" /\ op[a] = "playoff"
            \/ at'[a] = "entered" /\ op'[a] = "resume" /\ op[a] = "unplay"
         /\ \A b \in Actors \ {a} :
              at'[b] = at[b] /\ op'[b] = op[b] /\ at'[b] \notin {"stopping", "starting"}
         /\ intent' = IF op[a] \in {"on", "off"} THEN wanted ELSE intent
         /\ snap' = IF op[a] = "unplay" THEN "none" ELSE snap
<1>1. CASE op[a] = "playoff"
  BY <1>1, ReentersIt DEF Completes, Ops
<1>2. CASE op[a] = "unplay" /\ snap = "active"
  BY <1>2, ReentersIt DEF Completes, Ops
<1>3. CASE op[a] # "playoff" /\ ~(op[a] = "unplay" /\ snap = "active")
  <2>1. Leaves(a)
    BY <1>3 DEF Completes
  <2> QED BY <1>3, <2>1, LeavesIt DEF Completes
<1> QED BY <1>1, <1>2, <1>3

\* Who the actors are, and what the invariant says of the types.
LEMMA Known ==
  /\ Callers \subseteq Actors /\ Recoveries \subseteq Actors /\ Watchdog \in Actors
  /\ Boot \in Actors
  /\ \A c \in Callers : c \notin Recoveries /\ c # Watchdog /\ c # Boot
  /\ \A r \in Recoveries : r # Watchdog /\ r # Boot
  /\ Watchdog # Boot /\ MaxPipelines \in Nat
  /\ Inv => Typed /\ Queue
  /\ Inv => \A a \in Actors : Holds(a) => at[a] \in InLock
  /\ Inv /\ lock = <<>> => \A a \in Actors : at[a] \notin InLock /\ op[a] = "none"
<1>1. Inv => Typed /\ Queue
  BY DEF Inv, TypeOK, Typed, InLock
<1>2. ASSUME Inv, NEW a \in Actors, Holds(a) PROVE at[a] \in InLock
  BY <1>1, <1>2, HeadWaits DEF Typed, Queue, Holds
<1>3. ASSUME Inv, lock = <<>>, NEW a \in Actors PROVE at[a] \notin InLock /\ op[a] = "none"
  BY <1>3, EmptySeq DEF Inv, Queue, Waits, Roles
<1> QED BY <1>1, <1>2, <1>3, SupervisorAssumption DEF Actors

\* The requests.
LEMMA AskOnKeeps ==
  ASSUME Inv, NEW c \in Callers, AskOn(c)
  PROVE  Inv'
<1> USE DEF Activations, Standbys, Automatic
<1>1. Queue' /\ Typed' /\ at'[c] = "entered" /\ op'[c] = "on"
     /\ at[c] \notin InLock /\ \A b \in Actors \ {c} : at'[b] = at[b] /\ op'[b] = op[b]
  BY Enters, Known DEF AskOn, InLock, Ops, Asks
<1>2. TypeOK'
  BY <1>1, Known DEF Inv, TypeOK, PipeStates, Typed, InLock, Roles, Settled, Restarts, AskOn, Asks
<1>3. Roles'
  BY SMTT(30), <1>1, Known DEF Inv, TypeOK, InLock, Roles, AskOn, Asks
<1>4. Settled'
  BY <1>1, Known DEF Inv, TypeOK, InLock, Roles, Settled, Restarts, AskOn, Asks
<1>5. NotDown'
  BY <1>1, Known DEF Inv, TypeOK, InLock, Roles, Settled, Restarts, NotDown, AskOn, Asks
<1>6. Wanted'
  <2>1. op'[Boot] # "boot"
    BY <1>1, Known DEF Inv, TypeOK, Roles, AskOn, Asks, InLock
  <2>2. \A a \in Actors : Restarts(a)' => Restarts(a)
    BY <1>1 DEF Restarts
  <2>3. \A b \in Callers : op[b] = "off" => op'[b] = "off"
    BY <1>1, Known DEF Inv, Roles
  <2> QED BY <2>1, <2>2, <2>3, <1>1 DEF Inv, Wanted, AskOn, Asks
<1>7. "replay_race" \notin Happens => Unraced'
  BY <1>1, Known DEF Inv, TypeOK, InLock, Roles, Settled, Restarts, Unraced, NoOrphan,
     Replaying, AskOn, Asks
<1> QED BY <1>1, <1>2, <1>3, <1>4, <1>5, <1>6, <1>7 DEF Inv

LEMMA AskOffKeeps ==
  ASSUME Inv, NEW c \in Callers, AskOff(c)
  PROVE  Inv'
<1> USE DEF Activations, Standbys, Automatic
<1>1. Queue' /\ Typed' /\ at'[c] = "entered" /\ op'[c] = "off"
     /\ at[c] \notin InLock /\ \A b \in Actors \ {c} : at'[b] = at[b] /\ op'[b] = op[b]
  BY Enters, Known DEF AskOff, InLock, Ops, Asks
<1>2. TypeOK'
  <2>1. stopping' <=> \E b \in Actors : at'[b] = "stopping"
    BY <1>1, Known DEF Inv, TypeOK, Queue, AskOff, Asks
  <2>2. active' \in BOOLEAN /\ (active' <=> cur' # 0) /\ cur' \in 0 .. MaxPipelines
    BY <1>1, Known DEF Inv, TypeOK, Pipelines, AskOff, Asks
  <2>3. pipes' \in [Pipelines -> PipeStates] /\ up' \in {"up", "hung", "down"} /\ crashes' \in Nat
        /\ snap' \in {"none", "active", "standby"}
        /\ settled' \in {"live", "restored", "replay", "standby", "failed"}
    BY <1>1, Known DEF Inv, TypeOK, PipeStates, AskOff, Asks
  <2>4. watched' \in BOOLEAN /\ replay' \in BOOLEAN /\ stopping' \in BOOLEAN /\ gaveUp' \in BOOLEAN
    BY <1>1 DEF Inv, TypeOK, AskOff, Asks
  <2>5. intent' \in BOOLEAN /\ exitDue' \in BOOLEAN
    BY <1>1 DEF Inv, TypeOK, AskOff, Asks
  <2> QED BY <1>1, <2>1, <2>2, <2>3, <2>4, <2>5 DEF TypeOK, Typed, InLock
<1>3. Roles'
  BY <1>1, Known DEF Inv, TypeOK, InLock, Roles, AskOff, Asks
<1>4. Settled'
  <2>1. UNCHANGED <<stopping, active, replay, settled>>
    BY DEF AskOff, Asks
  <2> QED BY <1>1, <2>1 DEF Inv, Settled, Restarts
<1>5. NotDown'
  BY <1>1, Known DEF Inv, TypeOK, InLock, Roles, Settled, Restarts, NotDown, AskOff, Asks
<1>6. Wanted'
  BY <1>1, Known DEF Inv, TypeOK, InLock, Roles, Settled, Restarts, Wanted, AskOff, Asks
<1>7. "replay_race" \notin Happens => Unraced'
  BY <1>1, Known DEF Inv, TypeOK, InLock, Roles, Settled, Restarts, Unraced, NoOrphan,
     Replaying, AskOff, Asks
<1> QED BY <1>1, <1>2, <1>3, <1>4, <1>5, <1>6, <1>7 DEF Inv

LEMMA AskPlayKeeps ==
  ASSUME Inv, NEW c \in Callers, AskPlay(c)
  PROVE  Inv'
<1> USE DEF Activations, Standbys, Automatic
<1>1. Queue' /\ Typed' /\ at'[c] = "entered" /\ op'[c] = (IF active THEN "playoff" ELSE "play")
     /\ at[c] \notin InLock /\ \A b \in Actors \ {c} : at'[b] = at[b] /\ op'[b] = op[b]
  BY Enters, Known DEF AskPlay, InLock, Ops, Asks
<1>2. TypeOK'
  BY <1>1, Known DEF Inv, TypeOK, PipeStates, Typed, InLock, Roles, Settled, Restarts, AskPlay, Asks
<1>3. Roles'
  BY <1>1, Known DEF Inv, TypeOK, InLock, Roles, AskPlay, Asks
<1>4. Settled'
  BY SMTT(30), <1>1, Known DEF Inv, TypeOK, InLock, Roles, Settled, Restarts, AskPlay, Asks
<1>5. NotDown'
  BY <1>1, Known DEF Inv, TypeOK, InLock, Roles, Settled, Restarts, NotDown, AskPlay, Asks
<1>6. Wanted'
  BY <1>1, Known DEF Inv, TypeOK, InLock, Roles, Settled, Restarts, Wanted, AskPlay, Asks
<1>7. "replay_race" \notin Happens => Unraced'
  BY <1>1, Known DEF Inv, TypeOK, InLock, Roles, Settled, Restarts, Unraced, NoOrphan,
     Replaying, AskPlay, Asks
<1> QED BY <1>1, <1>2, <1>3, <1>4, <1>5, <1>6, <1>7 DEF Inv

LEMMA AskUnplayKeeps ==
  ASSUME Inv, NEW c \in Callers, AskUnplay(c)
  PROVE  Inv'
<1> USE DEF Activations, Standbys, Automatic
<1>1. Queue' /\ Typed' /\ at'[c] = "entered" /\ op'[c] = "unplay"
     /\ at[c] \notin InLock /\ \A b \in Actors \ {c} : at'[b] = at[b] /\ op'[b] = op[b]
  BY Enters, Known DEF AskUnplay, InLock, Ops, Asks
<1>2. TypeOK'
  BY <1>1, Known DEF Inv, TypeOK, PipeStates, Typed, InLock, Roles, Settled, Restarts,
     AskUnplay, Asks
<1>3. Roles'
  BY SMTT(30), <1>1, Known DEF Inv, TypeOK, InLock, Roles, AskUnplay, Asks
<1>4. Settled'
  BY <1>1, Known DEF Inv, TypeOK, InLock, Roles, Settled, Restarts, AskUnplay, Asks
<1>5. NotDown'
  BY <1>1, Known DEF Inv, TypeOK, InLock, Roles, Settled, Restarts, NotDown, AskUnplay, Asks
<1>6. Wanted'
  BY <1>1, Known DEF Inv, TypeOK, InLock, Roles, Settled, Restarts, Wanted, AskUnplay, Asks
<1>7. "replay_race" \notin Happens => Unraced'
  BY <1>1, Known DEF Inv, TypeOK, InLock, Roles, Settled, Restarts, Unraced, NoOrphan,
     Replaying, AskUnplay, Asks
<1> QED BY <1>1, <1>2, <1>3, <1>4, <1>5, <1>6, <1>7 DEF Inv

\* Under the lock: the turn, the stop and the start.
LEMMA TurnStopsKeeps ==
  ASSUME Inv, NEW a \in Actors, TurnStops(a)
  PROVE  Inv'
<1> USE DEF Activations, Standbys, Automatic
<1>1. Queue' /\ Typed' /\ at'[a] = "stopping" /\ op' = op /\ Holds(a) /\ Holds(a)'
     /\ \A b \in Actors \ {a} : at'[b] = at[b] /\ at'[b] \notin {"stopping", "starting"}
  BY GoesOn, Known DEF TurnStops, InLock, Ops
<1>2. TypeOK'
  <2>1. stopping' <=> \E b \in Actors : at'[b] = "stopping"
    BY <1>1, Known DEF Inv, TypeOK, Queue, TurnStops, MayStop
  <2>2. active' \in BOOLEAN /\ (active' <=> cur' # 0) /\ cur' \in 0 .. MaxPipelines
    BY <1>1, Known DEF Inv, TypeOK, Pipelines, TurnStops, MayStop
  <2>3. pipes' \in [Pipelines -> PipeStates] /\ up' \in {"up", "hung", "down"} /\ crashes' \in Nat
        /\ snap' \in {"none", "active", "standby"}
        /\ settled' \in {"live", "restored", "replay", "standby", "failed"}
    BY <1>1, Known DEF Inv, TypeOK, PipeStates, TurnStops, MayStop
  <2>4. watched' \in BOOLEAN /\ replay' \in BOOLEAN /\ stopping' \in BOOLEAN /\ gaveUp' \in BOOLEAN
    BY <1>1 DEF Inv, TypeOK, TurnStops, MayStop
  <2>5. intent' \in BOOLEAN /\ exitDue' \in BOOLEAN
    BY <1>1 DEF Inv, TypeOK, TurnStops, MayStop
  <2> QED BY <1>1, <2>1, <2>2, <2>3, <2>4, <2>5 DEF TypeOK, Typed, InLock
<1>3. Roles'
  BY <1>1, Known DEF Inv, TypeOK, InLock, Roles, TurnStops, MayStop, MayStart
<1>4. Settled'
  BY <1>1, Known DEF Inv, TypeOK, InLock, Roles, Settled, Restarts, TurnStops, MayStop, MayStart
<1>5. NotDown'
  BY <1>1, Known DEF Inv, TypeOK, InLock, Roles, Settled, Restarts, NotDown, TurnStops,
     MayStop, MayStart
<1>6. Wanted'
  BY <1>1, Known DEF Inv, TypeOK, InLock, Roles, Settled, Restarts, Wanted, TurnStops, MayStop,
     MayStart
<1>7. "replay_race" \notin Happens => Unraced'
  BY <1>1, Known DEF Inv, TypeOK, InLock, Roles, Settled, Restarts, Unraced, NoOrphan,
     Replaying, TurnStops, MayStop, MayStart
<1> QED BY <1>1, <1>2, <1>3, <1>4, <1>5, <1>6, <1>7 DEF Inv

LEMMA TurnStartsKeeps ==
  ASSUME Inv, NEW a \in Actors, TurnStarts(a)
  PROVE  Inv'
<1> USE DEF Activations, Standbys, Automatic
<1>1. Queue' /\ Typed' /\ at'[a] = "starting" /\ op' = op /\ Holds(a) /\ Holds(a)'
     /\ \A b \in Actors \ {a} : at'[b] = at[b] /\ at'[b] \notin {"stopping", "starting"}
  BY GoesOn, Known DEF TurnStarts, InLock, Ops
<1>2. TypeOK'
  <2>1. stopping' <=> \E b \in Actors : at'[b] = "stopping"
    BY <1>1, Known DEF Inv, TypeOK, Queue, TurnStarts, MayStart
  <2>2. active' \in BOOLEAN /\ (active' <=> cur' # 0) /\ cur' \in 0 .. MaxPipelines
    BY <1>1, Known DEF Inv, TypeOK, Pipelines, TurnStarts, MayStart
  <2>3. pipes' \in [Pipelines -> PipeStates] /\ up' \in {"up", "hung", "down"} /\ crashes' \in Nat
        /\ snap' \in {"none", "active", "standby"}
        /\ settled' \in {"live", "restored", "replay", "standby", "failed"}
    BY <1>1, Known DEF Inv, TypeOK, PipeStates, TurnStarts, MayStart
  <2>4. watched' \in BOOLEAN /\ replay' \in BOOLEAN /\ stopping' \in BOOLEAN /\ gaveUp' \in BOOLEAN
    BY <1>1 DEF Inv, TypeOK, TurnStarts, MayStart
  <2>5. intent' \in BOOLEAN /\ exitDue' \in BOOLEAN
    BY <1>1 DEF Inv, TypeOK, TurnStarts, MayStart
  <2> QED BY <1>1, <2>1, <2>2, <2>3, <2>4, <2>5 DEF TypeOK, Typed, InLock
<1>3. Roles'
  BY <1>1, Known DEF Inv, TypeOK, InLock, Roles, TurnStarts, MayStop, MayStart
<1>4. Settled'
  BY <1>1, Known DEF Inv, TypeOK, InLock, Roles, Settled, Restarts, TurnStarts, MayStop, MayStart
<1>5. NotDown'
  BY <1>1, Known DEF Inv, TypeOK, InLock, Roles, Settled, Restarts, NotDown, TurnStarts,
     MayStop, MayStart
<1>6. Wanted'
  BY <1>1, Known DEF Inv, TypeOK, InLock, Roles, Settled, Restarts, Wanted, TurnStarts,
     MayStop, MayStart
<1>7. "replay_race" \notin Happens => Unraced'
  <2> SUFFICES ASSUME "replay_race" \notin Happens PROVE Unraced'
    OBVIOUS
  <2>1. a \in Callers \cup {Boot} /\ at[a] = "entered" /\ op[a] \in Activations \cup {"play"}
    BY <1>1, Known DEF TurnStarts, MayStart, Inv, Roles, Actors
  <2>2. ~active
    BY <2>1, Known DEF TurnStarts, MayStart, Inv, Unraced, Roles
  <2>3. \A c \in Callers \ {a} : op[c] # "play"
    BY <2>1 DEF Inv, Unraced, Replaying
  <2>4. UNCHANGED <<pipes, cur, active>>
    BY DEF TurnStarts
  <2> QED BY <1>1, <2>1, <2>2, <2>3, <2>4, Known DEF Inv, Unraced, NoOrphan, Replaying
<1> QED BY <1>1, <1>2, <1>3, <1>4, <1>5, <1>6, <1>7 DEF Inv

LEMMA TurnSkipsKeeps ==
  ASSUME Inv, NEW a \in Actors, TurnSkips(a)
  PROVE  Inv'
<1> USE DEF Activations, Standbys, Automatic
<1>1. Queue' /\ Typed' /\ Holds(a)
     /\ \/ at'[a] = "idle" /\ op'[a] = "none" /\ op[a] # "playoff"
        \/ at'[a] = "entered" /\ op'[a] = "play" /\ op[a] = "playoff"
        \/ at'[a] = "entered" /\ op'[a] = "resume" /\ op[a] = "unplay"
     /\ \A b \in Actors \ {a} :
          at'[b] = at[b] /\ op'[b] = op[b] /\ at'[b] \notin {"stopping", "starting"}
     /\ snap' = (IF op[a] = "unplay" THEN "none" ELSE snap)
  BY CompletesIs, Known DEF TurnSkips, InLock, Ops
<1>2. TypeOK'
  <2>1. stopping' <=> \E b \in Actors : at'[b] = "stopping"
    BY <1>1, Known DEF Inv, TypeOK, Queue, TurnSkips
  <2>2. active' \in BOOLEAN /\ (active' <=> cur' # 0) /\ cur' \in 0 .. MaxPipelines
    BY <1>1, Known DEF Inv, TypeOK, Pipelines, TurnSkips
  <2>3. pipes' \in [Pipelines -> PipeStates] /\ up' \in {"up", "hung", "down"} /\ crashes' \in Nat
        /\ snap' \in {"none", "active", "standby"}
        /\ settled' \in {"live", "restored", "replay", "standby", "failed"}
    BY <1>1, Known DEF Inv, TypeOK, PipeStates, TurnSkips
  <2>4. watched' \in BOOLEAN /\ replay' \in BOOLEAN /\ stopping' \in BOOLEAN /\ gaveUp' \in BOOLEAN
    BY <1>1 DEF Inv, TypeOK, TurnSkips
  <2>5. intent' \in BOOLEAN /\ exitDue' \in BOOLEAN
    <3>1. intent' \in {intent, active}
      BY DEF TurnSkips, Completes
    <3> QED BY <3>1 DEF Inv, TypeOK, TurnSkips
  <2> QED BY <1>1, <2>1, <2>2, <2>3, <2>4, <2>5 DEF TypeOK, Typed, InLock
<1>3. Roles'
  BY <1>1, Known DEF Inv, TypeOK, InLock, Roles, TurnSkips, MayStop, MayStart
<1>4. Settled'
  BY <1>1, Known DEF Inv, TypeOK, InLock, Roles, Settled, Restarts, TurnSkips, MayStop, MayStart
<1>5. NotDown'
  BY <1>1, Known DEF Inv, TypeOK, InLock, Roles, Settled, Restarts, NotDown, TurnSkips,
     MayStop, MayStart
<1>6. Wanted'
  <2>1. op'[Boot] = "boot" => intent' /\ \A c \in Callers : at'[c] = "idle"
    <3> SUFFICES ASSUME op'[Boot] = "boot" PROVE intent' /\ \A c \in Callers : at'[c] = "idle"
      OBVIOUS
    <3>1. a # Boot /\ op[Boot] = "boot"
      BY <1>1, Known
    <3>2. intent /\ a \notin Callers
      <4>1. intent /\ \A c \in Callers : at[c] = "idle"
        BY <3>1 DEF Inv, Wanted
      <4>2. at[a] \in InLock
        BY <1>1, Known
      <4> QED BY <4>1, <4>2 DEF InLock
    <3>3. op[a] \notin {"on", "off"}
      BY <3>2, Known DEF Inv, Roles, Actors
    <3>4. intent' = intent
      BY <3>3 DEF TurnSkips, Completes
    <3> QED BY <3>1, <3>2, <3>4, <1>1, Known DEF Inv, Wanted
  <2>2. \A b \in Actors : ~Restarts(b)'
    BY <1>1 DEF Restarts
  <2>3. CASE ~active
    BY <2>1, <2>2, <2>3 DEF Wanted, TurnSkips
  <2>4. CASE active
    <3>1. op[a] \notin {"off", "unplay"} /\ active' = active /\ settled' = settled
          /\ (replay' => replay)
      BY <2>4 DEF TurnSkips, MayStop
    <3>2. replay' = replay
      BY <3>1 DEF TurnSkips, Inv, TypeOK
    <3>3. op[a] = "on" => intent' = TRUE
      BY <2>4 DEF TurnSkips, Completes, Inv, TypeOK
    <3>4. op[a] # "on" => intent' = intent
      BY <3>1 DEF TurnSkips, Completes
    <3>5. \A c \in Callers : op[c] = "off" => op'[c] = "off"
      BY <3>1, <1>1, Known
    <3> QED BY <2>1, <2>2, <2>4, <3>1, <3>2, <3>3, <3>4, <3>5 DEF Inv, Wanted
  <2> QED BY <2>3, <2>4
<1>7. "replay_race" \notin Happens => Unraced'
  BY <1>1, Known DEF Inv, TypeOK, InLock, Roles, Settled, Restarts, Unraced, NoOrphan,
     Replaying, TurnSkips, MayStop, MayStart
<1> QED BY <1>1, <1>2, <1>3, <1>4, <1>5, <1>6, <1>7 DEF Inv

LEMMA StopEndsKeeps ==
  ASSUME Inv, NEW a \in Actors, StopEnds(a)
  PROVE  Inv'
<1> USE DEF Activations, Standbys, Automatic
<1>1. Queue' /\ Typed' /\ Holds(a)
     /\ \/ at'[a] = "idle" /\ op'[a] = "none" /\ op[a] # "playoff"
        \/ at'[a] = "entered" /\ op'[a] = "play" /\ op[a] = "playoff"
        \/ at'[a] = "entered" /\ op'[a] = "resume" /\ op[a] = "unplay"
     /\ \A b \in Actors \ {a} :
          at'[b] = at[b] /\ op'[b] = op[b] /\ at'[b] \notin {"stopping", "starting"}
     /\ snap' = (IF op[a] = "unplay" THEN "none" ELSE snap)
  BY CompletesIs, Known DEF StopEnds, InLock, Ops, StopCanEnd
<1>2. TypeOK'
  <2>1. stopping' <=> \E b \in Actors : at'[b] = "stopping"
    BY <1>1, Known DEF Inv, TypeOK, Queue, StopEnds, StopCanEnd, Stopped
  <2>2. active' \in BOOLEAN /\ (active' <=> cur' # 0) /\ cur' \in 0 .. MaxPipelines
    <3>1. active' = FALSE /\ cur' = 0
      BY DEF StopEnds, Stopped
    <3>2. cur' \in 0 .. MaxPipelines
      BY <3>1, Known
    <3> QED BY <3>1, <3>2
  <2>3. pipes' \in [Pipelines -> PipeStates] /\ up' \in {"up", "hung", "down"} /\ crashes' \in Nat
        /\ snap' \in {"none", "active", "standby"}
        /\ settled' \in {"live", "restored", "replay", "standby", "failed"}
    <3>1. pipes' = [pipes EXCEPT ![cur] = "none"] /\ settled' = "standby"
          /\ UNCHANGED <<up, crashes>>
      BY DEF StopEnds, Stopped
    <3>2. pipes' \in [Pipelines -> PipeStates]
      BY <3>1 DEF Inv, TypeOK, PipeStates
    <3>3. snap' \in {"none", "active", "standby"}
      <4>1. snap' \in {snap, "none"}
        BY DEF StopEnds, Completes
      <4> QED BY <4>1 DEF Inv, TypeOK
    <3> QED BY <3>1, <3>2, <3>3 DEF Inv, TypeOK
  <2>4. watched' \in BOOLEAN /\ replay' \in BOOLEAN /\ stopping' \in BOOLEAN /\ gaveUp' \in BOOLEAN
    BY <1>1 DEF Inv, TypeOK, StopEnds, StopCanEnd, Stopped
  <2>5. intent' \in BOOLEAN /\ exitDue' \in BOOLEAN
    <3>1. intent' \in {intent, FALSE}
      BY DEF StopEnds, Completes
    <3> QED BY <3>1 DEF Inv, TypeOK, StopEnds, StopCanEnd, Stopped
  <2> QED BY <1>1, <2>1, <2>2, <2>3, <2>4, <2>5 DEF TypeOK, Typed, InLock
<1>3. Roles'
  BY <1>1, Known DEF Inv, TypeOK, InLock, Roles, StopEnds, StopCanEnd, Stopped
<1>4. Settled'
  BY <1>1, Known DEF Inv, TypeOK, InLock, Roles, Settled, Restarts, StopEnds, StopCanEnd, Stopped
<1>5. NotDown'
  BY <1>1, Known DEF Inv, TypeOK, InLock, Roles, Settled, Restarts, NotDown, StopEnds,
     StopCanEnd, Stopped
<1>6. Wanted'
  <2>1. op'[Boot] = "boot" => intent' /\ \A c \in Callers : at'[c] = "idle"
    <3> SUFFICES ASSUME op'[Boot] = "boot" PROVE intent' /\ \A c \in Callers : at'[c] = "idle"
      OBVIOUS
    <3>1. a # Boot /\ op[Boot] = "boot"
      BY <1>1, Known
    <3>2. intent /\ a \notin Callers
      <4>1. intent /\ \A c \in Callers : at[c] = "idle"
        BY <3>1 DEF Inv, Wanted
      <4>2. at[a] \in InLock
        BY <1>1, Known
      <4> QED BY <4>1, <4>2 DEF InLock
    <3>3. op[a] \notin {"on", "off"}
      BY <3>2, Known DEF Inv, Roles, Actors
    <3>4. intent' = intent
      BY <3>3 DEF StopEnds, Completes
    <3> QED BY <3>1, <3>2, <3>4, <1>1, Known DEF Inv, Wanted
  <2>2. ~active'
    BY DEF StopEnds, Stopped
  <2>3. \A b \in Actors : ~Restarts(b)'
    BY <1>1 DEF Restarts
  <2> QED BY <2>1, <2>2, <2>3 DEF Wanted
<1>7. "replay_race" \notin Happens => Unraced'
  BY <1>1, Known DEF Inv, TypeOK, InLock, Roles, Settled, Restarts, Unraced, NoOrphan,
     Replaying, StopEnds, StopCanEnd, Stopped
<1> QED BY <1>1, <1>2, <1>3, <1>4, <1>5, <1>6, <1>7 DEF Inv

LEMMA StopThenStartsKeeps ==
  ASSUME Inv, NEW a \in Actors, StopThenStarts(a)
  PROVE  Inv'
<1> USE DEF Activations, Standbys, Automatic
<1>1. Queue' /\ Typed' /\ at'[a] = "starting" /\ op' = op /\ Holds(a) /\ Holds(a)'
     /\ \A b \in Actors \ {a} : at'[b] = at[b] /\ at'[b] \notin {"stopping", "starting"}
  BY GoesOn, Known DEF StopThenStarts, InLock, Ops, StopCanEnd
<1>2. TypeOK'
  <2>1. stopping' <=> \E b \in Actors : at'[b] = "stopping"
    BY <1>1, Known DEF Inv, TypeOK, Queue, StopThenStarts, StopCanEnd, Stopped
  <2>2. active' \in BOOLEAN /\ (active' <=> cur' # 0) /\ cur' \in 0 .. MaxPipelines
    <3>1. active' = FALSE /\ cur' = 0
      BY DEF StopThenStarts, Stopped
    <3>2. cur' \in 0 .. MaxPipelines
      BY <3>1, Known
    <3> QED BY <3>1, <3>2
  <2>3. pipes' \in [Pipelines -> PipeStates] /\ up' \in {"up", "hung", "down"} /\ crashes' \in Nat
        /\ snap' \in {"none", "active", "standby"}
        /\ settled' \in {"live", "restored", "replay", "standby", "failed"}
    BY <1>1, Known DEF Inv, TypeOK, PipeStates, StopThenStarts, StopCanEnd, Stopped
  <2>4. watched' \in BOOLEAN /\ replay' \in BOOLEAN /\ stopping' \in BOOLEAN /\ gaveUp' \in BOOLEAN
    BY <1>1 DEF Inv, TypeOK, StopThenStarts, StopCanEnd, Stopped
  <2>5. intent' \in BOOLEAN /\ exitDue' \in BOOLEAN
    BY <1>1 DEF Inv, TypeOK, StopThenStarts, StopCanEnd, Stopped
  <2> QED BY <1>1, <2>1, <2>2, <2>3, <2>4, <2>5 DEF TypeOK, Typed, InLock
<1>3. Roles'
  BY <1>1, Known DEF Inv, TypeOK, InLock, Roles, StopThenStarts, StopCanEnd, Stopped
<1>4. Settled'
  BY <1>1, Known DEF Inv, TypeOK, InLock, Roles, Settled, Restarts, StopThenStarts, StopCanEnd,
     Stopped
<1>5. NotDown'
  BY <1>1, Known DEF Inv, TypeOK, InLock, Roles, Settled, Restarts, NotDown, StopThenStarts,
     StopCanEnd, Stopped
<1>6. Wanted'
  BY <1>1, Known DEF Inv, TypeOK, InLock, Roles, Settled, Restarts, Wanted, StopThenStarts,
     StopCanEnd, Stopped
<1>7. "replay_race" \notin Happens => Unraced'
  BY <1>1, Known DEF Inv, TypeOK, InLock, Roles, Settled, Restarts, Unraced, NoOrphan,
     Replaying, StopThenStarts, StopCanEnd, Stopped
<1> QED BY <1>1, <1>2, <1>3, <1>4, <1>5, <1>6, <1>7 DEF Inv

LEMMA StopThenGivesUpKeeps ==
  ASSUME Inv, NEW a \in Actors, StopThenGivesUp(a)
  PROVE  Inv'
<1> USE DEF Activations, Standbys, Automatic
<1>1. Queue' /\ Typed' /\ Holds(a) /\ at'[a] = "idle" /\ op'[a] = "none"
     /\ \A b \in Actors \ {a} :
          at'[b] = at[b] /\ op'[b] = op[b] /\ at'[b] \notin {"stopping", "starting"}
  BY LeavesIt, Known DEF StopThenGivesUp, InLock, Ops, StopCanEnd
<1>2. TypeOK'
  <2>1. stopping' <=> \E b \in Actors : at'[b] = "stopping"
    BY <1>1, Known DEF Inv, TypeOK, Queue, StopThenGivesUp, StopCanEnd, Stopped
  <2>2. active' \in BOOLEAN /\ (active' <=> cur' # 0) /\ cur' \in 0 .. MaxPipelines
    <3>1. active' = FALSE /\ cur' = 0
      BY DEF StopThenGivesUp, Stopped
    <3>2. cur' \in 0 .. MaxPipelines
      BY <3>1, Known
    <3> QED BY <3>1, <3>2
  <2>3. pipes' \in [Pipelines -> PipeStates] /\ up' \in {"up", "hung", "down"} /\ crashes' \in Nat
        /\ snap' \in {"none", "active", "standby"}
        /\ settled' \in {"live", "restored", "replay", "standby", "failed"}
    BY <1>1, Known DEF Inv, TypeOK, PipeStates, StopThenGivesUp, StopCanEnd, Stopped
  <2>4. watched' \in BOOLEAN /\ replay' \in BOOLEAN /\ stopping' \in BOOLEAN /\ gaveUp' \in BOOLEAN
    BY <1>1 DEF Inv, TypeOK, StopThenGivesUp, StopCanEnd, Stopped
  <2>5. intent' \in BOOLEAN /\ exitDue' \in BOOLEAN
    BY <1>1 DEF Inv, TypeOK, StopThenGivesUp, StopCanEnd, Stopped
  <2> QED BY <1>1, <2>1, <2>2, <2>3, <2>4, <2>5 DEF TypeOK, Typed, InLock
<1>3. Roles'
  BY <1>1, Known DEF Inv, TypeOK, InLock, Roles, StopThenGivesUp, StopCanEnd, Stopped
<1>4. Settled'
  BY <1>1, Known DEF Inv, TypeOK, InLock, Roles, Settled, Restarts, StopThenGivesUp,
     StopCanEnd, Stopped
<1>5. NotDown'
  BY <1>1, Known DEF Inv, TypeOK, InLock, Roles, Settled, Restarts, NotDown, StopThenGivesUp,
     StopCanEnd, Stopped
<1>6. Wanted'
  BY <1>1, Known DEF Inv, TypeOK, InLock, Roles, Settled, Restarts, Wanted, StopThenGivesUp,
     StopCanEnd, Stopped
<1>7. "replay_race" \notin Happens => Unraced'
  BY <1>1, Known DEF Inv, TypeOK, InLock, Roles, Settled, Restarts, Unraced, NoOrphan,
     Replaying, StopThenGivesUp, StopCanEnd, Stopped
<1> QED BY <1>1, <1>2, <1>3, <1>4, <1>5, <1>6, <1>7 DEF Inv

LEMMA StartEndsKeeps ==
  ASSUME Inv, NEW a \in Actors, StartEnds(a)
  PROVE  Inv'
<1> USE DEF Activations, Standbys, Automatic
<1>1. Queue' /\ Typed' /\ Holds(a)
     /\ \/ at'[a] = "idle" /\ op'[a] = "none" /\ op[a] # "playoff"
        \/ at'[a] = "entered" /\ op'[a] = "play" /\ op[a] = "playoff"
        \/ at'[a] = "entered" /\ op'[a] = "resume" /\ op[a] = "unplay"
     /\ \A b \in Actors \ {a} :
          at'[b] = at[b] /\ op'[b] = op[b] /\ at'[b] \notin {"stopping", "starting"}
     /\ snap' = (IF op[a] = "unplay" THEN "none" ELSE snap)
  <2>1. Holds(a) /\ Completes(a, TRUE)
    BY DEF StartEnds
  <2> QED BY <2>1, CompletesIs, Known
<1>2. TypeOK'
  <2>1. stopping' <=> \E b \in Actors : at'[b] = "stopping"
    BY <1>1, Known DEF Inv, TypeOK, Queue, StartEnds
  <2>2. active' \in BOOLEAN /\ (active' <=> cur' # 0) /\ cur' \in 0 .. MaxPipelines
    BY <1>1, Known DEF Inv, TypeOK, Pipelines, StartEnds
  <2>3. pipes' \in [Pipelines -> PipeStates] /\ up' \in {"up", "hung", "down"} /\ crashes' \in Nat
        /\ snap' \in {"none", "active", "standby"}
        /\ settled' \in {"live", "restored", "replay", "standby", "failed"}
    BY <1>1, Known DEF Inv, TypeOK, PipeStates, StartEnds
  <2>4. watched' \in BOOLEAN /\ replay' \in BOOLEAN /\ stopping' \in BOOLEAN /\ gaveUp' \in BOOLEAN
    BY <1>1 DEF Inv, TypeOK, StartEnds
  <2>5. intent' \in BOOLEAN /\ exitDue' \in BOOLEAN
    <3>1. intent' \in {intent, TRUE}
      BY DEF StartEnds, Completes
    <3> QED BY <3>1 DEF Inv, TypeOK, StartEnds
  <2> QED BY <1>1, <2>1, <2>2, <2>3, <2>4, <2>5 DEF TypeOK, Typed, InLock
<1>3. Roles'
  BY <1>1, Known DEF Inv, TypeOK, InLock, Roles, StartEnds
<1>4. Settled'
  <2>1. at[a] = "starting" /\ active' = TRUE /\ UNCHANGED <<replay, stopping>>
    BY DEF StartEnds
  <2>2. op[a] \in Activations \cup {"play", "restart", "recover"}
    BY <2>1 DEF Inv, Roles
  <2>3. settled' # "standby"
    BY <2>1, <2>2 DEF StartEnds, Inv, Settled, Restarts
  <2>4. settled' = "replay" => op[a] = "play"
    BY <2>1, <2>2 DEF StartEnds, Inv, Settled, Restarts
  <2>5. \A b \in Actors : at'[b] \notin {"stopping", "starting"}
    BY <1>1
  <2> QED BY <2>1, <2>3, <2>4, <2>5 DEF Inv, Settled, Restarts
<1>5. NotDown'
  BY <1>1, Known DEF Inv, TypeOK, InLock, Roles, Settled, Restarts, NotDown, StartEnds
<1>6. Wanted'
  <2>1. op'[Boot] = "boot" => intent' /\ \A c \in Callers : at'[c] = "idle"
    <3> SUFFICES ASSUME op'[Boot] = "boot" PROVE intent' /\ \A c \in Callers : at'[c] = "idle"
      OBVIOUS
    <3>1. a # Boot /\ op[Boot] = "boot"
      BY <1>1, Known
    <3>2. intent /\ a \notin Callers
      <4>1. intent /\ \A c \in Callers : at[c] = "idle"
        BY <3>1 DEF Inv, Wanted
      <4>2. at[a] \in InLock
        BY <1>1, Known
      <4> QED BY <4>1, <4>2 DEF InLock
    <3>3. op[a] \notin {"on", "off"}
      BY <3>2, Known DEF Inv, Roles, Actors
    <3>4. intent' = intent
      BY <3>3 DEF StartEnds, Completes
    <3> QED BY <3>1, <3>2, <3>4, <1>1, Known DEF Inv, Wanted
  <2>2. at[a] = "starting" /\ UNCHANGED replay
    BY DEF StartEnds
  <2>3. op[a] \in Activations \cup {"play", "restart", "recover"}
    BY <2>2 DEF Inv, Roles
  <2>4. CASE op[a] = "play"
    BY <2>1, <2>2, <2>4 DEF Inv, Settled, Wanted
  <2>5. CASE op[a] = "resume"
    <3>1. settled' = "restored"
      BY <2>5 DEF StartEnds
    <3> QED BY <2>1, <3>1 DEF Wanted
  <2>6. CASE op[a] \in {"on", "boot"}
    <3>1. op[a] = "on" => intent' = TRUE
      BY DEF StartEnds, Completes
    <3>2. op[a] = "boot" => a = Boot /\ intent' = intent
      BY Known DEF StartEnds, Completes, Inv, Roles, Actors
    <3>3. intent'
      BY <2>6, <3>1, <3>2 DEF Inv, Wanted
    <3> QED BY <2>1, <3>3 DEF Wanted
  <2>7. CASE op[a] \in {"restart", "recover"}
    <3>1. a \notin Callers /\ intent' = intent /\ settled' = settled
      BY <2>7, Known DEF StartEnds, Completes, Inv, Roles
    <3>2. Restarts(a)
      BY <2>2, <2>7 DEF Restarts
    <3>3. \A c \in Callers : op'[c] = op[c]
      BY <1>1, <3>1, Known
    <3> QED BY <2>1, <2>2, <3>1, <3>2, <3>3 DEF Inv, Wanted
  <2> QED BY <2>3, <2>4, <2>5, <2>6, <2>7
<1>7. "replay_race" \notin Happens => Unraced'
  <2> SUFFICES ASSUME "replay_race" \notin Happens PROVE Unraced'
    OBVIOUS
  <2>1. at[a] = "starting" /\ op[a] # "playoff"
    BY DEF StartEnds, Inv, Roles
  <2>2. ~active /\ cur = 0
    BY <2>1 DEF Inv, Unraced, TypeOK
  <2>3. PICK n \in Pipelines : pipes' = [pipes EXCEPT ![n] = "run"] /\ cur' = n
    BY DEF StartEnds
  <2>4. NoOrphan'
    BY <2>2, <2>3 DEF Inv, TypeOK, Unraced, NoOrphan, Pipelines
  <2>5. \A c \in Callers : op'[c] # "play"
    BY <1>1, <2>1, Known DEF Inv, Unraced
  <2>6. \A b \in Actors : at'[b] # "starting"
    BY <1>1
  <2>7. \A c \in Callers : Replaying(c)' =>
          \A b \in (Callers \cup {Boot}) \ {c} : at'[b] = "idle"
    BY <1>1, <2>1, Known DEF Inv, Unraced, Replaying, InLock, Roles
  <2> QED BY <2>4, <2>5, <2>6, <2>7 DEF Unraced
<1> QED BY <1>1, <1>2, <1>3, <1>4, <1>5, <1>6, <1>7 DEF Inv

LEMMA CloseFailsKeeps ==
  ASSUME Inv, NEW a \in Actors, op[a] # "restart", CloseFails(a)
  PROVE  Inv'
<1> USE DEF Activations, Standbys, Automatic
<1>1. Queue' /\ Typed' /\ Holds(a) /\ at'[a] = "idle" /\ op'[a] = "none"
     /\ \A b \in Actors \ {a} :
          at'[b] = at[b] /\ op'[b] = op[b] /\ at'[b] \notin {"stopping", "starting"}
  BY LeavesIt, Known DEF CloseFails, InLock, Ops, StopCanEnd
<1>2. TypeOK'
  <2>1. stopping' <=> \E b \in Actors : at'[b] = "stopping"
    BY <1>1, Known DEF Inv, TypeOK, Queue, CloseFails, StopCanEnd
  <2>2. active' \in BOOLEAN /\ (active' <=> cur' # 0) /\ cur' \in 0 .. MaxPipelines
    BY <1>1, Known DEF Inv, TypeOK, Pipelines, CloseFails, StopCanEnd
  <2>3. pipes' \in [Pipelines -> PipeStates] /\ up' \in {"up", "hung", "down"} /\ crashes' \in Nat
        /\ snap' \in {"none", "active", "standby"}
        /\ settled' \in {"live", "restored", "replay", "standby", "failed"}
    BY <1>1, Known DEF Inv, TypeOK, PipeStates, CloseFails, StopCanEnd
  <2>4. watched' \in BOOLEAN /\ replay' \in BOOLEAN /\ stopping' \in BOOLEAN /\ gaveUp' \in BOOLEAN
    BY <1>1 DEF Inv, TypeOK, CloseFails, StopCanEnd
  <2>5. intent' \in BOOLEAN /\ exitDue' \in BOOLEAN
    BY <1>1 DEF Inv, TypeOK, CloseFails, StopCanEnd
  <2> QED BY <1>1, <2>1, <2>2, <2>3, <2>4, <2>5 DEF TypeOK, Typed, InLock
<1>3. Roles'
  BY <1>1, Known DEF Inv, TypeOK, InLock, Roles, CloseFails, StopCanEnd
<1>4. Settled'
  BY <1>1, Known DEF Inv, TypeOK, InLock, Roles, Settled, Restarts, CloseFails, StopCanEnd
<1>5. NotDown'
  BY <1>1, Known DEF Inv, TypeOK, InLock, Roles, Settled, Restarts, NotDown, CloseFails, StopCanEnd
<1>6. Wanted'
  BY <1>1, Known DEF Inv, TypeOK, InLock, Roles, Settled, Restarts, Wanted, CloseFails, StopCanEnd
<1>7. "replay_race" \notin Happens => Unraced'
  BY <1>1, Known DEF Inv, TypeOK, InLock, Roles, Settled, Restarts, Unraced, NoOrphan,
     Replaying, CloseFails, StopCanEnd
<1> QED BY <1>1, <1>2, <1>3, <1>4, <1>5, <1>6, <1>7 DEF Inv

LEMMA StartFailsKeeps ==
  ASSUME Inv, NEW a \in Actors, StartFails(a)
  PROVE  Inv'
<1> USE DEF Activations, Standbys, Automatic
<1>1. Queue' /\ Typed' /\ Holds(a) /\ at'[a] = "idle" /\ op'[a] = "none"
     /\ \A b \in Actors \ {a} :
          at'[b] = at[b] /\ op'[b] = op[b] /\ at'[b] \notin {"stopping", "starting"}
  BY LeavesIt, Known DEF StartFails, InLock, Ops, StartFailing
<1>2. TypeOK'
  BY <1>1, Known DEF Inv, TypeOK, PipeStates, Typed, InLock, Roles, Settled, Restarts,
     StartFails, StartFailing
<1>3. Roles'
  BY <1>1, Known DEF Inv, TypeOK, InLock, Roles, StartFails, StartFailing
<1>4. Settled'
  BY <1>1, Known DEF Inv, TypeOK, InLock, Roles, Settled, Restarts, StartFails, StartFailing
<1>5. NotDown'
  BY <1>1, Known DEF Inv, TypeOK, InLock, Roles, Settled, Restarts, NotDown, StartFails,
     StartFailing
<1>6. Wanted'
  BY <1>1, Known DEF Inv, TypeOK, InLock, Roles, Settled, Restarts, Wanted, StartFails, StartFailing
<1>7. "replay_race" \notin Happens => Unraced'
  BY <1>1, Known DEF Inv, TypeOK, InLock, Roles, Settled, Restarts, Unraced, NoOrphan,
     Replaying, StartFails, StartFailing
<1> QED BY <1>1, <1>2, <1>3, <1>4, <1>5, <1>6, <1>7 DEF Inv

\* Trouble, the crash restarts and the watchdog.
LEMMA CrashKeeps ==
  ASSUME Inv, NEW n \in Pipelines, Crash(n)
  PROVE  Inv'
<1> USE DEF Activations, Standbys, Automatic
<1>1. Queue' /\ Typed' /\ at' = at /\ op' = op
  BY Known DEF Inv, Typed, Queue, Holds, InLock, Crash, Trouble
<1>2. TypeOK'
  BY <1>1, Known DEF Inv, TypeOK, PipeStates, Typed, InLock, Roles, Settled, Restarts, Crash,
     Trouble
<1>3. Roles'
  BY <1>1, Known DEF Inv, TypeOK, InLock, Roles, Crash, Trouble
<1>4. Settled'
  BY <1>1, Known DEF Inv, TypeOK, InLock, Roles, Settled, Restarts, Crash, Trouble
<1>5. NotDown'
  BY <1>1, Known DEF Inv, TypeOK, InLock, Roles, Settled, Restarts, NotDown, Crash, Trouble
<1>6. Wanted'
  BY <1>1, Known DEF Inv, TypeOK, InLock, Roles, Settled, Restarts, Wanted, Crash, Trouble
<1>7. "replay_race" \notin Happens => Unraced'
  BY <1>1, Known DEF Inv, TypeOK, InLock, Roles, Settled, Restarts, Unraced, NoOrphan,
     Replaying, Crash, Trouble
<1> QED BY <1>1, <1>2, <1>3, <1>4, <1>5, <1>6, <1>7 DEF Inv

LEMMA StallKeeps ==
  ASSUME Inv, NEW n \in Pipelines, Stall(n)
  PROVE  Inv'
<1> USE DEF Activations, Standbys, Automatic
<1>1. Queue' /\ Typed' /\ at' = at /\ op' = op
  BY Known DEF Inv, Typed, Queue, Holds, InLock, Stall, Trouble
<1>2. TypeOK'
  BY <1>1, Known DEF Inv, TypeOK, PipeStates, Typed, InLock, Roles, Settled, Restarts, Stall,
     Trouble
<1>3. Roles'
  BY <1>1, Known DEF Inv, TypeOK, InLock, Roles, Stall, Trouble
<1>4. Settled'
  BY <1>1, Known DEF Inv, TypeOK, InLock, Roles, Settled, Restarts, Stall, Trouble
<1>5. NotDown'
  BY <1>1, Known DEF Inv, TypeOK, InLock, Roles, Settled, Restarts, NotDown, Stall, Trouble
<1>6. Wanted'
  BY <1>1, Known DEF Inv, TypeOK, InLock, Roles, Settled, Restarts, Wanted, Stall, Trouble
<1>7. "replay_race" \notin Happens => Unraced'
  BY <1>1, Known DEF Inv, TypeOK, InLock, Roles, Settled, Restarts, Unraced, NoOrphan,
     Replaying, Stall, Trouble
<1> QED BY <1>1, <1>2, <1>3, <1>4, <1>5, <1>6, <1>7 DEF Inv

LEMMA WedgeKeeps ==
  ASSUME Inv, NEW n \in Pipelines, Wedge(n)
  PROVE  Inv'
<1> USE DEF Activations, Standbys, Automatic
<1>1. Queue' /\ Typed' /\ at' = at /\ op' = op
  BY Known DEF Inv, Typed, Queue, Holds, InLock, Wedge, Trouble
<1>2. TypeOK'
  BY <1>1, Known DEF Inv, TypeOK, PipeStates, Typed, InLock, Roles, Settled, Restarts, Wedge,
     Trouble
<1>3. Roles'
  BY <1>1, Known DEF Inv, TypeOK, InLock, Roles, Wedge, Trouble
<1>4. Settled'
  BY <1>1, Known DEF Inv, TypeOK, InLock, Roles, Settled, Restarts, Wedge, Trouble
<1>5. NotDown'
  BY <1>1, Known DEF Inv, TypeOK, InLock, Roles, Settled, Restarts, NotDown, Wedge, Trouble
<1>6. Wanted'
  BY <1>1, Known DEF Inv, TypeOK, InLock, Roles, Settled, Restarts, Wanted, Wedge, Trouble
<1>7. "replay_race" \notin Happens => Unraced'
  BY <1>1, Known DEF Inv, TypeOK, InLock, Roles, Settled, Restarts, Unraced, NoOrphan,
     Replaying, Wedge, Trouble
<1> QED BY <1>1, <1>2, <1>3, <1>4, <1>5, <1>6, <1>7 DEF Inv

LEMMA TaskDoneKeeps ==
  ASSUME Inv, NEW n \in Pipelines, TaskDone(n)
  PROVE  Inv'
<1> USE DEF Activations, Standbys, Automatic
<1>1. Queue' /\ Typed' /\ op' = op
     /\ \A b \in Actors : at'[b] = at[b] \/ (b \in Recoveries /\ at[b] = "idle" /\ at'[b] = "new")
  BY Known DEF Inv, Typed, Queue, Holds, InLock, TaskDone
<1>2. TypeOK'
  BY <1>1, Known DEF Inv, TypeOK, PipeStates, Typed, InLock, Roles, Settled, Restarts, TaskDone
<1>3. Roles'
  BY <1>1, Known DEF Inv, TypeOK, InLock, Roles, TaskDone
<1>4. Settled'
  BY <1>1, Known DEF Inv, TypeOK, InLock, Roles, Settled, Restarts, TaskDone
<1>5. NotDown'
  BY <1>1, Known DEF Inv, TypeOK, InLock, Roles, Settled, Restarts, NotDown, TaskDone
<1>6. Wanted'
  BY <1>1, Known DEF Inv, TypeOK, InLock, Roles, Settled, Restarts, Wanted, TaskDone
<1>7. "replay_race" \notin Happens => Unraced'
  BY <1>1, Known DEF Inv, TypeOK, InLock, Roles, Settled, Restarts, Unraced, NoOrphan,
     Replaying, TaskDone
<1> QED BY <1>1, <1>2, <1>3, <1>4, <1>5, <1>6, <1>7 DEF Inv

LEMMA RecoverBeginsKeeps ==
  ASSUME Inv, NEW r \in Recoveries, RecoverBegins(r)
  PROVE  Inv'
<1> USE DEF Activations, Standbys, Automatic
<1>1. Queue' /\ Typed' /\ at[r] = "new"
     /\ \/ at'[r] = "sleep" /\ op'[r] = op[r]
        \/ at'[r] = "entered" /\ op'[r] = "giveup"
     /\ \A b \in Actors \ {r} : at'[b] = at[b] /\ op'[b] = op[b]
  <2>1. CASE lock' = Append(lock, r) /\ EnterAs(r, "giveup")
    BY <2>1, Enters, Known DEF RecoverBegins, InLock, Ops
  <2>2. CASE Goes(r, "sleep")
    <3>1. /\ at[r] = "new" /\ at'[r] = "sleep" /\ op' = op /\ lock' = lock /\ Typed'
          /\ \A b \in Actors \ {r} : at'[b] = at[b]
      BY <2>2, Known DEF RecoverBegins, Goes, Typed, InLock
    <3>2. Queue'
      BY <3>1, Known DEF Queue, InLock, Holds
    <3> QED BY <3>1, <3>2
  <2> QED BY <2>1, <2>2 DEF RecoverBegins
<1>2. TypeOK'
  BY <1>1, Known DEF Inv, TypeOK, PipeStates, Typed, InLock, Roles, Settled, Restarts, RecoverBegins
<1>3. Roles'
  BY <1>1, Known DEF Inv, TypeOK, InLock, Roles, RecoverBegins
<1>4. Settled'
  BY <1>1, Known DEF Inv, TypeOK, InLock, Roles, Settled, Restarts, RecoverBegins
<1>5. NotDown'
  BY <1>1, Known DEF Inv, TypeOK, InLock, Roles, Settled, Restarts, NotDown, RecoverBegins
<1>6. Wanted'
  BY <1>1, Known DEF Inv, TypeOK, InLock, Roles, Settled, Restarts, Wanted, RecoverBegins
<1>7. "replay_race" \notin Happens => Unraced'
  BY <1>1, Known DEF Inv, TypeOK, InLock, Roles, Settled, Restarts, Unraced, NoOrphan,
     Replaying, RecoverBegins
<1> QED BY <1>1, <1>2, <1>3, <1>4, <1>5, <1>6, <1>7 DEF Inv

LEMMA RecoverWakesKeeps ==
  ASSUME Inv, NEW r \in Recoveries, RecoverWakes(r)
  PROVE  Inv'
<1> USE DEF Activations, Standbys, Automatic
<1>1. Queue' /\ Typed' /\ at'[r] = "entered" /\ op'[r] = "recover"
     /\ at[r] \notin InLock /\ \A b \in Actors \ {r} : at'[b] = at[b] /\ op'[b] = op[b]
  BY Enters, Known DEF RecoverWakes, InLock, Ops
<1>2. TypeOK'
  BY <1>1, Known DEF Inv, TypeOK, PipeStates, Typed, InLock, Roles, Settled, Restarts, RecoverWakes
<1>3. Roles'
  BY SMTT(30), <1>1, Known DEF Inv, TypeOK, InLock, Roles, RecoverWakes
<1>4. Settled'
  BY <1>1, Known DEF Inv, TypeOK, InLock, Roles, Settled, Restarts, RecoverWakes
<1>5. NotDown'
  BY <1>1, Known DEF Inv, TypeOK, InLock, Roles, Settled, Restarts, NotDown, RecoverWakes
<1>6. Wanted'
  BY <1>1, Known DEF Inv, TypeOK, InLock, Roles, Settled, Restarts, Wanted, RecoverWakes
<1>7. "replay_race" \notin Happens => Unraced'
  BY <1>1, Known DEF Inv, TypeOK, InLock, Roles, Settled, Restarts, Unraced, NoOrphan,
     Replaying, RecoverWakes
<1> QED BY <1>1, <1>2, <1>3, <1>4, <1>5, <1>6, <1>7 DEF Inv

LEMMA WatchdogTicksKeeps ==
  ASSUME Inv, WatchdogTicks
  PROVE  Inv'
<1> USE DEF Activations, Standbys, Automatic
<1>1. Queue' /\ Typed' /\ at'[Watchdog] = "entered" /\ op'[Watchdog] = "restart"
     /\ at[Watchdog] \notin InLock /\ \A b \in Actors \ {Watchdog} : at'[b] = at[b]
     /\ op'[b] = op[b]
  BY Enters, Known DEF WatchdogTicks, InLock, Ops
<1>2. TypeOK'
  BY <1>1, Known DEF Inv, TypeOK, PipeStates, Typed, InLock, Roles, Settled, Restarts, WatchdogTicks
<1>3. Roles'
  BY <1>1, Known DEF Inv, TypeOK, InLock, Roles, WatchdogTicks
<1>4. Settled'
  BY <1>1, Known DEF Inv, TypeOK, InLock, Roles, Settled, Restarts, WatchdogTicks
<1>5. NotDown'
  BY <1>1, Known DEF Inv, TypeOK, InLock, Roles, Settled, Restarts, NotDown, WatchdogTicks
<1>6. Wanted'
  BY <1>1, Known DEF Inv, TypeOK, InLock, Roles, Settled, Restarts, Wanted, WatchdogTicks
<1>7. "replay_race" \notin Happens => Unraced'
  BY <1>1, Known DEF Inv, TypeOK, InLock, Roles, Settled, Restarts, Unraced, NoOrphan,
     Replaying, WatchdogTicks
<1> QED BY <1>1, <1>2, <1>3, <1>4, <1>5, <1>6, <1>7 DEF Inv

-----------------------------------------------------------------------------
(* A new process, and the whole invariant.                                 *)

\* A queue of one, and none.
LEMMA Singles ==
  /\ <<Boot>> \in Seq(Actors) /\ Len(<<Boot>>) = 1 /\ <<Boot>>[1] = Boot /\ Head(<<Boot>>) = Boot
  /\ <<Boot>> # <<>> /\ Len(<<>>) = 0 /\ <<>> \in Seq(Actors)
  /\ \A a \in Actors : (<<Boot>> = <<a>> <=> a = Boot) /\ <<>> # <<a>>
BY Known

\* A process that begins starts the sensor, or nothing.
LEMMA FreshKeeps ==
  ASSUME Inv, Fresh, UNCHANGED <<watched, intent>>, up' \in {"up", "hung", "down"}
  PROVE  Inv'
<1>1. lock' \in {<<>>, <<Boot>>} /\ (lock' = <<Boot>> => intent')
  BY DEF Fresh
<1>2. \A a \in Actors :
        /\ at'[a] = IF lock' = <<Boot>> /\ a = Boot THEN "entered" ELSE "idle"
        /\ op'[a] = IF lock' = <<Boot>> /\ a = Boot THEN "boot" ELSE "none"
  BY <1>1, Singles DEF Fresh
<1>3. Typed'
  BY <1>1, Singles DEF Fresh, Typed, InLock, Ops
<1>4. Queue'
  <2>1. NoTwice(lock')
    BY <1>1, Singles DEF NoTwice
  <2>2. \A a \in Actors : Waits(lock', a) <=> lock' = <<Boot>> /\ a = Boot
    BY <1>1, Singles DEF Waits
  <2> QED BY <1>2, <2>1, <2>2 DEF Queue, InLock
<1>5. TypeOK'
  <2>1. watched' \in BOOLEAN /\ intent' \in BOOLEAN
    BY DEF Inv, TypeOK
  <2>2. active' = FALSE /\ replay' = FALSE /\ stopping' = FALSE /\ gaveUp' = FALSE
        /\ exitDue' = FALSE
    BY DEF Fresh
  <2>3. cur' = 0 /\ cur' \in 0 .. MaxPipelines /\ crashes' \in Nat
    BY Known DEF Fresh
  <2>4. pipes' \in [Pipelines -> PipeStates] /\ snap' = "none" /\ settled' = "standby"
    BY DEF Fresh, PipeStates
  <2>5. \A a \in Actors : at'[a] # "stopping"
    BY <1>2
  <2> QED BY <1>3, <2>1, <2>2, <2>3, <2>4, <2>5 DEF TypeOK, Typed, InLock
<1>6. Roles'
  BY <1>2, Known DEF Roles, InLock, Automatic
<1>7. Settled' /\ NotDown'
  BY <1>2 DEF Fresh, Settled, NotDown, Restarts
<1>8. Wanted'
  <2>1. op'[Boot] = "boot" => intent'
    BY <1>1, <1>2, Known
  <2>2. \A c \in Callers : at'[c] = "idle" /\ op'[c] = "none"
    BY <1>2, Known
  <2>3. ~active' /\ \A a \in Actors : ~Restarts(a)'
    BY <1>2 DEF Fresh, Restarts
  <2> QED BY <2>1, <2>2, <2>3 DEF Wanted
<1>9. Unraced'
  BY <1>2, Known DEF Fresh, Unraced, NoOrphan, Replaying
<1> QED BY <1>4, <1>5, <1>6, <1>7, <1>8, <1>9 DEF Inv

\* A process that exits is started again, or stays down.
LEMMA ExitKeeps == Inv /\ Exit => Inv'
BY FreshKeeps DEF Exit

\* The invariant, from the first state on.
LEMMA InvInit == Init => Inv
<1> SUFFICES ASSUME Init PROVE Inv
  OBVIOUS
<1>1. lock \in {<<>>, <<Boot>>} /\ (lock = <<Boot>> => intent)
  BY DEF Init
<1>2. \A a \in Actors :
        /\ at[a] = IF lock = <<Boot>> /\ a = Boot THEN "entered" ELSE "idle"
        /\ op[a] = IF lock = <<Boot>> /\ a = Boot THEN "boot" ELSE "none"
  BY <1>1, Singles DEF Init
<1>3. Typed
  BY <1>1, Singles DEF Init, Typed, InLock, Ops
<1>4. Queue
  <2>1. NoTwice(lock)
    BY <1>1, Singles DEF NoTwice
  <2>2. \A a \in Actors : Waits(lock, a) <=> lock = <<Boot>> /\ a = Boot
    BY <1>1, Singles DEF Waits
  <2> QED BY <1>2, <2>1, <2>2 DEF Queue, InLock
<1>5. TypeOK
  <2>1. watched \in BOOLEAN /\ intent \in BOOLEAN
    BY DEF Init
  <2>2. active = FALSE /\ replay = FALSE /\ stopping = FALSE /\ gaveUp = FALSE /\ exitDue = FALSE
    BY DEF Init
  <2>3. cur = 0 /\ cur \in 0 .. MaxPipelines /\ crashes \in Nat
    BY Known DEF Init
  <2>4. pipes \in [Pipelines -> PipeStates] /\ snap = "none" /\ settled = "standby" /\ up = "up"
    BY DEF Init, PipeStates
  <2>5. \A a \in Actors : at[a] # "stopping"
    BY <1>2
  <2> QED BY <1>3, <2>1, <2>2, <2>3, <2>4, <2>5 DEF TypeOK, Typed, InLock
<1>6. Roles
  BY <1>2, Known DEF Roles, InLock, Automatic
<1>7. Settled /\ NotDown
  BY <1>2 DEF Init, Settled, NotDown, Restarts
<1>8. Wanted
  <2>1. op[Boot] = "boot" => intent
    BY <1>1, <1>2, Known
  <2>2. \A c \in Callers : at[c] = "idle" /\ op[c] = "none"
    BY <1>2, Known
  <2>3. ~active /\ \A a \in Actors : ~Restarts(a)
    BY <1>2 DEF Init, Restarts
  <2> QED BY <2>1, <2>2, <2>3 DEF Wanted
<1>9. Unraced
  BY <1>2, Known DEF Init, Unraced, NoOrphan, Replaying
<1> QED BY <1>4, <1>5, <1>6, <1>7, <1>8, <1>9 DEF Inv

\* Every step keeps the invariant.
LEMMA InvStep == Inv /\ [Next]_vars => Inv'
<1> SUFFICES ASSUME Inv, [Next]_vars PROVE Inv'
  OBVIOUS
<1>1. ASSUME NEW c \in Callers, AskOn(c) \/ AskOff(c) \/ AskPlay(c) \/ AskUnplay(c) PROVE Inv'
  BY <1>1, AskOnKeeps, AskOffKeeps, AskPlayKeeps, AskUnplayKeeps
<1>2. ASSUME NEW a \in Actors, UnderLock(a) PROVE Inv'
  BY <1>2, TurnStopsKeeps, TurnStartsKeeps, TurnSkipsKeeps, StopEndsKeeps, StopThenStartsKeeps,
     StopThenGivesUpKeeps, StartEndsKeeps DEF UnderLock
<1>3. ASSUME NEW a \in Actors, CloseFails(a) PROVE Inv'
  <2>1. CASE op[a] = "restart"
    BY <1>3, <2>1, ExitKeeps DEF CloseFails
  <2> QED BY <1>3, <2>1, CloseFailsKeeps
<1>4. ASSUME NEW a \in Actors, StartFails(a) PROVE Inv'
  BY <1>4, StartFailsKeeps
<1>5. CASE RestartFails \/ WatchdogDeadline \/ GiveUpExit
  BY <1>5, ExitKeeps DEF RestartFails, WatchdogDeadline, GiveUpExit
<1>6. CASE BootFails
  BY <1>6, FreshKeeps DEF BootFails
<1>7. ASSUME NEW n \in Pipelines, Crash(n) \/ Stall(n) \/ Wedge(n) \/ TaskDone(n) PROVE Inv'
  BY <1>7, CrashKeeps, StallKeeps, WedgeKeeps, TaskDoneKeeps
<1>8. ASSUME NEW r \in Recoveries, RecoverBegins(r) \/ RecoverWakes(r) PROVE Inv'
  BY <1>8, RecoverBeginsKeeps, RecoverWakesKeeps
<1>9. CASE WatchdogTicks
  BY <1>9, WatchdogTicksKeeps
<1>10. CASE UNCHANGED vars
  BY <1>10 DEF vars, Inv, TypeOK, Queue, Holds, Roles, Settled, Restarts, NotDown, Wanted, Unraced,
     NoOrphan, Replaying
<1> QED BY <1>1, <1>2, <1>3, <1>4, <1>5, <1>6, <1>7, <1>8, <1>9, <1>10 DEF Next

\* Whatever the clients ask for, whatever crashes, stalls or fails, and however often the
\* process starts again: a sensor switched on is down only with _gave_up set, a live one
\* at rest is wanted, none runs that is lost, and a standby holds (supervisor.py).
THEOREM KeepsAsAsked == Spec => []SensorIsAsAsked
<1>1. Inv => SensorIsAsAsked
  <2> SUFFICES ASSUME Inv PROVE SensorIsAsAsked
    OBVIOUS
  <2>1. Free => \A a \in Actors : at[a] \notin InLock /\ op[a] = "none"
    BY Known DEF Free
  <2>2. NotSilentlyDown
    BY <2>1 DEF Inv, NotDown, NotSilentlyDown, InLock
  <2>3. ActiveIsWanted
    BY <2>1, Known DEF Inv, Wanted, ActiveIsWanted
  <2>4. ASSUME "replay_race" \notin Happens PROVE NoOrphan /\ StandbyHolds
    BY <2>4 DEF Inv, TypeOK, Unraced, NoOrphan, Settled, StandbyHolds, Pipelines
  <2> QED BY <2>2, <2>3, <2>4 DEF Inv, SensorIsAsAsked
<1> QED BY <1>1, InvInit, InvStep, PTL DEF Spec

-----------------------------------------------------------------------------
(* The schedules: the inductive invariant.                                 *)

\* What the variables hold.
Cuts ==
  [written : Nat, zeros : Nat, refused : Nat, since : {NoTime} \cup Nat, ended : BOOLEAN]
Items ==
  [kind : {"open"}, run : Runs] \cup [kind : {"iq", "zeros"}, run : Runs, n : Nat]
    \cup [kind : {"close"}, run : Runs, status : {"recorded", "partial"}] \cup [kind : {"stop"}]
Reports == [run : Runs, status : Final \cup {"recording"}]
RunFiles ==
  [state : {"none", "open", "closed", "left"}, iq : Nat, zeros : Nat, error : BOOLEAN]

Types ==
  /\ now \in 0..MaxTime /\ ringFrom \in Nat /\ ringFrom <= now
  /\ table \in [Ids -> {"none", "live", "deleted"}] /\ created \in [Ids -> Nat]
  /\ rows \in [Runs -> Final \cup {"none", "recording"}]
  /\ latest \in [Runs -> Final \cup {"none", "recording"}]
  /\ book \in Seq(Ids) /\ saving \in Seq(Reports) /\ queue \in Seq(Items)
  /\ last \in [Ids -> Int] /\ \A i \in Ids : last[i] \in NoRun..(TotalRuns(i) - 1)
  /\ plan \in [Ids -> Int] /\ \A i \in Ids : plan[i] \in Unplanned..(TotalRuns(i) - 1)
  /\ stale \in BOOLEAN /\ marked \in BOOLEAN
  /\ cut \in [Runs -> Cuts \cup {NoCut}]
  /\ rx \in {"off", "idle", "feed"} /\ todo \subseteq Runs /\ writer \in {"run", "exited"}
  /\ inFlight \in 0..Budget
  /\ files \in [Runs -> RunFiles] /\ begun \in [Runs -> Nat]
  /\ failedSaves \subseteq Runs /\ lostSaves \subseteq Runs

\* A run's outcome is on its way to the table; it is there, or was lost on it.
OnItsWay(r) == \E n \in DOMAIN saving : saving[n].run = r
Answered(r) == rows[r] # "none" \/ r \in failedSaves \/ OnItsWay(r)
Lost(r) == r \in lostSaves \cup failedSaves
\* A run that was over before its schedule could be recorded.
Early(r) == StartOf(r) < created[r[1]] - Grace
\* The schedule has come to the run.
Come(r) == r[2] <= last[r[1]]

\* The writer's queue.
IsOf(item, r) == item.kind # "stop" /\ item.run = r
Queued(kind, r) == \E n \in DOMAIN queue : queue[n].kind = kind /\ IsOf(queue[n], r)
IsOpen(r) == files[r].state = "open"

\* The book has every live schedule once.
BookInv ==
  /\ IsInjective(book)
  /\ \A i \in Ids : (\E n \in DOMAIN book : book[n] = i) <=> table[i] = "live"
  /\ \A i \in Ids : table[i] = "none" => last[i] = NoRun /\ plan[i] = Unplanned

\* Of a run its schedule has not come to there is nothing.
AheadInv ==
  \A r \in Runs : ~Come(r) =>
    /\ latest[r] = "none" /\ rows[r] = "none" /\ ~OnItsWay(r)
    /\ cut[r] = NoCut /\ ~IsOpen(r)
    /\ \A n \in DOMAIN queue : ~IsOf(queue[n], r)

\* The outcomes on their way, against the table and the memory.
SavesInv ==
  /\ \A m, n \in DOMAIN saving : m < n /\ saving[m].run = saving[n].run =>
       saving[m].status = "recording" /\ saving[n].status \in Final
  /\ \A n \in DOMAIN saving :
       /\ latest[saving[n].run] # "none" /\ rows[saving[n].run] \notin Final
       /\ rows[saving[n].run] # "none" => saving[n].status \in Final
       /\ saving[n].status \in Final => saving[n].status = latest[saving[n].run]
  /\ \A r \in Runs :
       /\ latest[r] = "recording" => rows[r] \notin Final
       /\ latest[r] \in Final /\ rows[r] \in Final => rows[r] = latest[r]
       /\ latest[r] \in Final /\ r \notin failedSaves =>
            rows[r] = latest[r]
              \/ \E n \in DOMAIN saving : saving[n] = [run |-> r, status |-> latest[r]]

\* A schedule's outcomes are saved in the order of its runs, and none is left out.
Before(s, r) == s[1] = r[1] /\ s[2] < r[2]
OrderInv ==
  /\ \A r \in Runs : Come(r) => Answered(r) \/ Early(r)
  /\ \A r, s \in Runs : Before(s, r) /\ rows[r] # "none" =>
       rows[s] # "none" \/ s \in failedSaves \/ Early(s)
  /\ \A n \in DOMAIN saving : \A s \in Runs : Before(s, saving[n].run) =>
       \/ rows[s] # "none" \/ s \in failedSaves \/ Early(s)
       \/ \E m \in DOMAIN saving : m < n /\ saving[m].run = s

\* A run is cut, or its file is closed soon, or neither is the case.
StageInv ==
  /\ \A r \in Runs : cut[r] # NoCut =>
       /\ latest[r] = "recording" /\ ~Queued("close", r)
       /\ Queued("open", r) \/ IsOpen(r)
       /\ StartOf(r) <= now /\ ~cut[r].ended /\ cut[r].written <= Samples(r)
       /\ cut[r].since = NoTime <=> cut[r].written < Samples(r)
  /\ \A r \in Runs :
       /\ Queued("open", r) \/ IsOpen(r) => cut[r] # NoCut \/ Queued("close", r)
       /\ Queued("close", r) => latest[r] = "recording"

\* A file's items are in the queue in order, and the stop is the last of all.
ItemsInv ==
  /\ \A r \in Runs : \A m, n \in DOMAIN queue :
       m < n /\ IsOf(queue[m], r) /\ IsOf(queue[n], r) =>
         queue[m].kind # "close" /\ queue[n].kind # "open"
  /\ \A r \in Runs : \A n \in DOMAIN queue :
       IsOf(queue[n], r) /\ queue[n].kind # "open" =>
         IsOpen(r) \/ \E m \in DOMAIN queue : m < n /\ queue[m].kind = "open" /\ IsOf(queue[m], r)
  /\ \A n \in DOMAIN queue : queue[n].kind = "stop" => n = Len(queue)

\* What the threads' states say of the queue and the cuts.
ThreadsInv ==
  /\ \A n \in DOMAIN queue : queue[n].kind = "stop" => rx = "off"
  /\ writer = "exited" => queue = <<>> /\ rx = "off"
  /\ rx = "off" => \A r \in Runs : cut[r] = NoCut
  /\ rx = "feed" => now < MaxTime /\ marked /\ \A r \in todo : cut[r] # NoCut

\* x is the IQ of the runs rs in the queue q.
IqIn(item, rs) == IF item.kind = "iq" /\ item.run \in rs THEN item.n ELSE 0
Carries(q, rs, x) ==
  \E g \in [0..Len(q) -> Nat] :
    /\ g[0] = 0 /\ \A n \in 1..Len(q) : g[n] = g[n - 1] + IqIn(q[n], rs)
    /\ x = g[Len(q)]

\* What a run's file holds once its items in the queue begin to be written.
Had(r) == IF Queued("open", r) THEN 0 ELSE files[r].iq

\* Every sample of a run's cut is in its file, in the queue, or was left out.
AccountsInv ==
  /\ Carries(queue, Runs, inFlight)
  /\ \A r \in Runs : cut[r] # NoCut =>
       \E x \in Nat : Carries(queue, {r}, x)
                      /\ Had(r) + x + cut[r].zeros + cut[r].refused <= cut[r].written
  /\ \A r \in Runs : \A n \in DOMAIN queue :
       IsOf(queue[n], r) /\ queue[n].kind = "close" /\ queue[n].status = "partial" =>
         \E x \in Nat : Carries(queue, {r}, x) /\ Had(r) + x < Samples(r)

\* An outcome that tells the truth about a file.
Honest(status, f, r) ==
  status \in {"recorded", "partial"} => (status = "recorded" <=> Whole(f, r))

\* A file that was begun is known of; one that was closed is as its outcome says.
FilesInv ==
  \A r \in Runs :
    /\ Queued("open", r) => (begun[r] = 0 \/ Lost(r)) /\ (Answered(r) \/ Lost(r))
    /\ begun[r] > 0 => Answered(r) \/ Lost(r)
    /\ begun[r] > 1 => Lost(r)
    /\ files[r].state # "none" => begun[r] > 0
    /\ files[r].state = "closed" =>
         Lost(r) \/ (Outcome(r) \in Final /\ Honest(Outcome(r), files[r], r))

\* A plan is ahead of the last outcome, and of the time.
PlansInv ==
  /\ ~marked => stale /\ \A i \in Ids : plan[i] = Unplanned
  /\ \A i \in Ids : plan[i] >= 0 => plan[i] > last[i]
  /\ ~stale => \A i \in Ids : table[i] = "live" => plan[i] # Unplanned
  /\ rx = "feed" => \A i \in Ids : plan[i] >= 0 => RunStart(i, plan[i]) > now
  /\ rx = "idle" /\ marked /\ ringFrom < now =>
       \A i \in Ids : plan[i] >= 0 => RunStart(i, plan[i]) >= now

\* No run is behind a plan without an outcome, and a schedule without a plan is new.
BehindInv ==
  /\ \A r \in Runs : table[r[1]] = "live" /\ (r[2] < plan[r[1]] \/ plan[r[1]] = NoRun) =>
       Come(r) \/ Early(r)
  /\ rx # "off" /\ marked => \A i \in Ids : table[i] = "live" /\ plan[i] = Unplanned =>
       now <= created[i] /\ (now < created[i] \/ rx # "feed")

\* All of it: what every reachable state satisfies.
ScheduleInv ==
  /\ Types /\ BookInv /\ AheadInv /\ SavesInv /\ StageInv /\ ItemsInv /\ ThreadsInv
  /\ AccountsInv /\ FilesInv /\ PlansInv
  /\ "late_add" \notin happens => OrderInv /\ BehindInv

-----------------------------------------------------------------------------
(* The instants of a schedule's runs.                                      *)

\* A schedule's numbers.
LEMMA BodyIs ==
  ASSUME NEW i \in Ids
  PROVE  /\ Schedule(i).start \in Nat /\ Schedule(i).every \in Nat
         /\ Schedule(i).count \in Nat /\ Schedule(i).until \in Nat
         /\ Schedule(i).duration \in Nat /\ Schedule(i).duration > 0
PROOF
  BY ScheduleAssumption DEF Schedule

\* A quotient rounded up: the numbers below it.
LEMMA RoundedUp ==
  ASSUME NEW a \in Nat, NEW b \in Nat \ {0}
  PROVE  /\ CeilDiv(a, b) \in Nat
         /\ \A k \in Nat : k < CeilDiv(a, b) <=> k * b < a
PROOF
  <1>. DEFINE q == (-a) \div b
              m == (-a) % b
  <1>1. q \in Int /\ m \in Int /\ -a = b * q + m /\ 0 <= m /\ m < b
    BY Z3
  <1>2. CeilDiv(a, b) = -q
    BY DEF CeilDiv
  <1>. HIDE DEF q, m
  <1>3. a = b * (-q) - m
    BY <1>1
  <1>4. -q \in Nat
    <2>1. SUFFICES ASSUME -q <= -1 PROVE FALSE
      BY <1>1
    <2>2. b * (-q) <= -b
      BY <1>1, <2>1
    <2>. QED
      BY <1>1, <1>3, <2>2
  <1>5. ASSUME NEW k \in Nat, k < -q PROVE k * b < a
    <2>1. k * b <= (-q - 1) * b
      BY <1>4, <1>5
    <2>2. (-q - 1) * b = b * (-q) - b
      BY <1>1
    <2>. QED
      BY <1>1, <1>3, <2>1, <2>2
  <1>6. ASSUME NEW k \in Nat, -q <= k PROVE a <= k * b
    <2>1. (-q) * b <= k * b
      BY <1>4, <1>6
    <2>. QED
      BY <1>1, <1>3, <2>1
  <1>. QED
    BY <1>1, <1>2, <1>4, <1>5, <1>6

\* A schedule has so many runs, and they start one after the other.
LEMMA RunsAre ==
  ASSUME NEW i \in Ids
  PROVE  /\ TotalRuns(i) \in Nat
         /\ \A k \in Int : RunStart(i, k) \in Int
         /\ \A j, k \in Int : j <= k => RunStart(i, j) <= RunStart(i, k)
         /\ Schedule(i).every = 0 => TotalRuns(i) = 1
         /\ RunStart(i, 0) = Schedule(i).start
PROOF
  <1>. DEFINE e == Schedule(i).every
              s == Schedule(i).start
              c == CeilDiv(Schedule(i).until - Schedule(i).start, Schedule(i).every)
  <1>1. e \in Nat /\ s \in Nat /\ Schedule(i).count \in Nat /\ Schedule(i).until \in Nat
    BY BodyIs
  <1>2. e # 0 => c \in Int
    <2>1. ASSUME NEW x \in Int, NEW y \in Nat \ {0} PROVE CeilDiv(x, y) \in Int
      BY Z3 DEF CeilDiv
    <2>. QED
      BY <1>1, <2>1
  <1>3. TotalRuns(i) = IF e = 0 THEN 1 ELSE IF Schedule(i).count # 0 THEN Schedule(i).count
                       ELSE IF c < 0 THEN 0 ELSE c
    BY DEF TotalRuns
  <1>4. \A k \in Int : RunStart(i, k) = s + k * e
    BY DEF RunStart
  <1>. HIDE DEF e, s, c
  <1>5. ASSUME NEW j \in Int, NEW k \in Int, j <= k PROVE j * e <= k * e
    BY <1>1, <1>5
  <1>6. \A k \in Int : k * e \in Int
    BY <1>1
  <1>7. TotalRuns(i) \in Nat /\ (e = 0 => TotalRuns(i) = 1)
    BY <1>1, <1>2, <1>3
  <1>8. ASSUME NEW k \in Int PROVE RunStart(i, k) \in Int
    BY <1>1, <1>4, <1>6
  <1>9. ASSUME NEW j \in Int, NEW k \in Int, j <= k PROVE RunStart(i, j) <= RunStart(i, k)
    <2>1. j * e \in Int /\ k * e \in Int /\ j * e <= k * e
      BY <1>5, <1>6, <1>9
    <2>2. RunStart(i, j) = s + j * e /\ RunStart(i, k) = s + k * e
      BY <1>4
    <2>. QED
      BY <1>1, <2>1, <2>2
  <1>10. RunStart(i, 0) = s
    BY <1>1, <1>4
  <1>. QED
    BY <1>7, <1>8, <1>9, <1>10 DEF e, s

\* How many runs start before t.
CountBefore(i, t) ==
  IF FirstRunFrom(i, t) = NoRun THEN TotalRuns(i) ELSE FirstRunFrom(i, t)

\* Of a schedule's runs, those before the first that starts at t or later are
\* the ones that start before t.
LEMMA RunsBefore ==
  ASSUME NEW i \in Ids, NEW t \in Int
  PROVE  /\ CountBefore(i, t) \in 0..TotalRuns(i)
         /\ FirstRunFrom(i, t) = IF CountBefore(i, t) < TotalRuns(i) THEN CountBefore(i, t)
              ELSE NoRun
         /\ \A k \in 0..(TotalRuns(i) - 1) : RunStart(i, k) < t <=> k < CountBefore(i, t)
PROOF
  <1>. DEFINE e == Schedule(i).every
              s == Schedule(i).start
              N == TotalRuns(i)
              k0 == IF t <= s THEN 0 ELSE IF e = 0 THEN N ELSE CeilDiv(t - s, e)
  <1>1. e \in Nat /\ s \in Nat /\ N \in Nat /\ (e = 0 => N = 1)
    BY BodyIs, RunsAre
  <1>2. FirstRunFrom(i, t) = IF k0 < N THEN k0 ELSE NoRun
    BY DEF FirstRunFrom
  <1>3. \A k \in Int : RunStart(i, k) = s + k * e
    BY DEF RunStart
  <1>4. k0 \in Nat /\ \A k \in 0..(N - 1) : RunStart(i, k) < t <=> k < k0
    <2>1. CASE t <= s
      <3>1. \A k \in Nat : k * e >= 0
        BY <1>1
      <3>2. \A k \in 0..(N - 1) : k * e \in Int
        BY <1>1
      <3>. QED
        BY <1>1, <1>3, <2>1, <3>1, <3>2
    <2>2. CASE t > s /\ e = 0
      <3>1. \A k \in Int : k * e = 0
        BY <2>2
      <3>. QED
        BY <1>1, <1>3, <2>2, <3>1
    <2>3. CASE t > s /\ e # 0
      <3>1. k0 = CeilDiv(t - s, e) /\ t - s \in Nat /\ e \in Nat \ {0}
        BY <1>1, <2>3
      <3>2. k0 \in Nat /\ \A k \in Nat : k < k0 <=> k * e < t - s
        BY <3>1, RoundedUp
      <3>3. \A k \in Nat : k * e \in Int
        BY <1>1
      <3>4. ASSUME NEW k \in 0..(N - 1) PROVE RunStart(i, k) < t <=> k < k0
        <4>1. k \in Nat /\ k * e \in Int
          BY <1>1, <3>3
        <4>2. k < k0 <=> k * e < t - s
          BY <3>2, <4>1
        <4>3. RunStart(i, k) = s + k * e
          BY <1>3, <4>1
        <4>. HIDE DEF k0, e, s, N
        <4>. QED
          BY <1>1, <4>1, <4>2, <4>3
      <3>. QED
        BY <3>2, <3>4
    <2>. QED
      BY <1>1, <2>1, <2>2, <2>3
  <1>. HIDE DEF k0, e, s
  <1>. QED
    BY <1>1, <1>2, <1>4 DEF CountBefore, NoRun

\* A sequence of a schedule's runs, in their order.
Ascends(ks, i) ==
  /\ ks \in Seq(0..(TotalRuns(i) - 1))
  /\ \A m, n \in DOMAIN ks : m < n => ks[m] < ks[n]
Has(ks, k) == \E n \in DOMAIN ks : ks[n] = k

\* The runs from k on that start before t.
LEMMA RunsUntilIs ==
  ASSUME NEW i \in Ids, NEW k \in Int, k < TotalRuns(i), NEW t \in Int
  PROVE  /\ Ascends(RunsUntil(i, k, t), i)
         /\ \A j \in 0..(TotalRuns(i) - 1) :
              Has(RunsUntil(i, k, t), j) <=> k >= 0 /\ k <= j /\ RunStart(i, j) < t
         /\ Len(RunsUntil(i, k, t)) = IF k < 0 \/ CountBefore(i, t) <= k THEN 0
              ELSE CountBefore(i, t) - k
PROOF
  <1>. DEFINE N == TotalRuns(i)
              c == CountBefore(i, t)
              u == RunsUntil(i, k, t)
  <1>1. N \in Nat /\ c \in 0..N /\ \A j \in 0..(N - 1) : RunStart(i, j) < t <=> j < c
    BY RunsAre, RunsBefore
  <1>2. u = IF k < 0 \/ c - 1 < k THEN <<>> ELSE [n \in 1..(c - 1 - k + 1) |-> k + n - 1]
    BY DEF RunsUntil, CountBefore
  <1>. HIDE DEF N, c, u
  <1>3. CASE k < 0 \/ c - 1 < k
    <2>1. u = <<>>
      BY <1>2, <1>3
    <2>2. u \in Seq(0..(N - 1)) /\ DOMAIN u = {} /\ Len(u) = 0
      BY <2>1
    <2>. QED
      BY <1>1, <1>3, <2>2 DEF Ascends, Has, N, u, c
  <1>4. CASE k >= 0 /\ k <= c - 1
    <2>. DEFINE d == c - k
    <2>1. u = [n \in 1..d |-> k + n - 1] /\ d \in Nat /\ d # 0
      BY <1>1, <1>2, <1>4
    <2>2. \A n \in 1..d : k + n - 1 \in 0..(N - 1)
      BY <1>1, <1>4
    <2>3. \A j \in 0..(N - 1) : k <= j /\ j < c => j - k + 1 \in 1..d
      BY <1>1, <1>4
    <2>4. \A n \in 1..d : k + n - 1 < c
      BY <1>1, <1>4
    <2>. HIDE DEF d
    <2>5. u \in Seq(0..(N - 1)) /\ DOMAIN u = 1..d /\ Len(u) = d
      BY <2>1, <2>2
    <2>6. \A n \in 1..d : u[n] = k + n - 1
      BY <2>1
    <2>7. Ascends(u, i)
      BY <2>5, <2>6 DEF Ascends, N
    <2>8. ASSUME NEW j \in 0..(N - 1) PROVE Has(u, j) <=> k <= j /\ j < c
      <3>1. ASSUME k <= j, j < c PROVE Has(u, j)
        <4>1. j - k + 1 \in 1..d
          BY <2>3, <3>1
        <4>2. u[j - k + 1] = k + (j - k + 1) - 1
          BY <2>6, <4>1
        <4>. QED
          BY <1>1, <2>5, <4>1, <4>2 DEF Has
      <3>2. ASSUME Has(u, j) PROVE k <= j /\ j < c
        <4>1. PICK n \in 1..d : u[n] = j
          BY <2>5, <3>2 DEF Has
        <4>. QED
          BY <2>4, <2>6, <4>1
      <3>. QED
        BY <3>1, <3>2
    <2>9. Len(u) = c - k
      BY <2>5 DEF d
    <2>. QED
      BY <1>1, <1>4, <2>7, <2>8, <2>9 DEF N, u, c
  <1>. QED
    BY <1>1, <1>3, <1>4

\* The runs that start in t0..t1-1.
LEMMA RunsBetweenIs ==
  ASSUME NEW i \in Ids, NEW t0 \in Int, NEW t1 \in Int
  PROVE  /\ Ascends(RunsBetween(i, t0, t1), i)
         /\ \A j \in 0..(TotalRuns(i) - 1) :
              Has(RunsBetween(i, t0, t1), j) <=> t0 <= RunStart(i, j) /\ RunStart(i, j) < t1
PROOF
  <1>. DEFINE k == FirstRunFrom(i, t0)
              c == CountBefore(i, t0)
  <1>1. /\ TotalRuns(i) \in Nat /\ c \in 0..TotalRuns(i)
        /\ k = IF c < TotalRuns(i) THEN c ELSE -1
        /\ \A j \in 0..(TotalRuns(i) - 1) :
             RunStart(i, j) \in Int /\ (RunStart(i, j) < t0 <=> j < c)
    BY RunsAre, RunsBefore DEF NoRun
  <1>2. RunsBetween(i, t0, t1) = RunsUntil(i, k, t1)
    BY DEF RunsBetween
  <1>. HIDE DEF k, c
  <1>3. k \in Int /\ k < TotalRuns(i)
    BY <1>1
  <1>4. \A j \in 0..(TotalRuns(i) - 1) : k >= 0 /\ k <= j <=> t0 <= RunStart(i, j)
    BY <1>1
  <1>. QED
    BY <1>2, <1>3, <1>4, RunsUntilIs

-----------------------------------------------------------------------------
(* Numbers and sequences.                                                  *)

\* A set of numbers that is not empty has a least one.
LEMMA LeastOf ==
  ASSUME NEW T \in SUBSET Nat, T # {}
  PROVE  \E x \in T : \A y \in T : x <= y
PROOF
  <1>1. IsWellFoundedOn(OpToRel(<, Nat), Nat)
    BY NatLessThanWellFounded
  <1>2. PICK x \in T : \A y \in T : <<y, x>> \notin OpToRel(<, Nat)
    BY <1>1, WFMin
  <1>3. ASSUME NEW y \in T, y < x PROVE <<y, x>> \in OpToRel(<, Nat)
    <2>1. <<y, x>> \in Nat \X Nat /\ <<y, x>>[1] = y /\ <<y, x>>[2] = x
      OBVIOUS
    <2>. QED
      BY <1>3, <2>1 DEF OpToRel
  <1>4. x \in Nat /\ \A y \in T : y \in Nat /\ ~(y < x)
    BY <1>2, <1>3
  <1>5. \A y \in T : x <= y
    BY <1>4
  <1>. QED
    BY <1>5

\* A set of integers below a bound that is not empty has a greatest one.
LEMMA GreatestOf ==
  ASSUME NEW T \in SUBSET Int, T # {}, NEW b \in Int, \A x \in T : x <= b
  PROVE  \E x \in T : \A y \in T : y <= x
PROOF
  <1>. DEFINE U == {b - x : x \in T}
  <1>1. \A x \in T : b - x \in Nat
    OBVIOUS
  <1>2. U \in SUBSET Nat /\ U # {}
    BY <1>1
  <1>3. PICK z \in U : \A y \in U : z <= y
    <2>. HIDE DEF U
    <2>. QED
      BY <1>2, LeastOf
  <1>4. PICK x \in T : z = b - x
    OBVIOUS
  <1>5. \A y \in T : b - x <= b - y
    BY <1>3, <1>4
  <1>6. \A y \in T : y \in Int /\ x \in Int
    OBVIOUS
  <1>. QED
    BY <1>5, <1>6

\* Induction on the numbers to m, for a set.
LEMMA CountingUp ==
  ASSUME NEW m \in Nat, NEW S, 0 \in S, \A k \in 1..m : k - 1 \in S => k \in S
  PROVE  \A k \in 0..m : k \in S
PROOF
  <1>. DEFINE T == {k \in 0..m : k \notin S}
  <1>1. SUFFICES ASSUME T # {} PROVE FALSE
    OBVIOUS
  <1>2. T \in SUBSET Nat
    OBVIOUS
  <1>3. PICK k \in T : \A j \in T : k <= j
    BY <1>1, <1>2, LeastOf
  <1>. QED
    BY <1>3

\* Two sequences, one after the other.
LEMMA Joining ==
  ASSUME NEW S, NEW s \in Seq(S), NEW t \in Seq(S)
  PROVE  /\ s \o t \in Seq(S) /\ Len(s) \in Nat /\ Len(t) \in Nat
         /\ DOMAIN s = 1..Len(s) /\ DOMAIN t = 1..Len(t)
         /\ DOMAIN (s \o t) = 1..(Len(s) + Len(t)) /\ Len(s \o t) = Len(s) + Len(t)
         /\ \A n \in 1..Len(s) : (s \o t)[n] = s[n]
         /\ \A n \in 1..Len(t) : (s \o t)[Len(s) + n] = t[n]
         /\ \A n \in 1..(Len(s) + Len(t)) :
              n \in 1..Len(s) \/ (n - Len(s) \in 1..Len(t) /\ (s \o t)[n] = t[n - Len(s)])
PROOF
  OBVIOUS

\* A sequence that is not empty is its head and its tail.
LEMMA Unjoining ==
  ASSUME NEW S, NEW s \in Seq(S), s # <<>>
  PROVE  /\ Len(s) \in Nat \ {0} /\ DOMAIN s = 1..Len(s)
         /\ Head(s) \in S /\ Head(s) = s[1] /\ 1 \in DOMAIN s
         /\ Tail(s) \in Seq(S) /\ Len(Tail(s)) = Len(s) - 1 /\ DOMAIN Tail(s) = 1..(Len(s) - 1)
         /\ \A n \in 1..(Len(s) - 1) : Tail(s)[n] = s[n + 1]
PROOF
  <1>1. Len(s) \in Nat \ {0} /\ DOMAIN s = 1..Len(s)
    OBVIOUS
  <1>2. Head(s) \in S /\ Head(s) = s[1] /\ 1 \in DOMAIN s
    BY <1>1
  <1>3. /\ Tail(s) \in Seq(S) /\ DOMAIN Tail(s) = 1..(Len(s) - 1) /\ Len(Tail(s)) = Len(s) - 1
        /\ \A n \in 1..(Len(s) - 1) : Tail(s)[n] = s[n + 1]
    BY <1>1
  <1>. QED
    BY <1>1, <1>2, <1>3

\* There is a function that joins a sequence's parts up, one after the other.
LEMMA JoinedUp ==
  ASSUME NEW N \in Nat, NEW ss
  PROVE  \E h : h = [n \in 1..N |-> IF n = 1 THEN ss[n] ELSE h[n - 1] \o ss[n]]
PROOF
  <1>. DEFINE Up(n, h) == h = [k \in 1..n |-> IF k = 1 THEN ss[k] ELSE h[k - 1] \o ss[k]]
              Made == {n \in 0..N : \E h : Up(n, h)}
  <1>1. 0 \in Made
    <2>. DEFINE z == [k \in 1..0 |-> k]
    <2>1. Up(0, z)
      OBVIOUS
    <2>. HIDE DEF Up
    <2>. QED
      BY <2>1
  <1>2. ASSUME NEW n \in 1..N, n - 1 \in Made PROVE n \in Made
    <2>1. PICK h : Up(n - 1, h)
      BY <1>2
    <2>2. \A k \in 1..(n - 1) : h[k] = IF k = 1 THEN ss[k] ELSE h[k - 1] \o ss[k]
      BY <2>1
    <2>. HIDE DEF Up
    <2>. DEFINE last0 == IF n = 1 THEN ss[n] ELSE h[n - 1] \o ss[n]
                w == [k \in 1..n |-> IF k < n THEN h[k] ELSE last0]
    <2>. HIDE DEF last0
    <2>0. n \in 1..n /\ ~(n < n) /\ \A k \in 1..(n - 1) : k \in 1..n /\ k < n
      OBVIOUS
    <2>3. w[n] = last0 /\ \A k \in 1..(n - 1) : w[k] = h[k]
      BY <2>0
    <2>4. DOMAIN w = 1..n /\ w = [k \in 1..n |-> w[k]]
      OBVIOUS
    <2>. HIDE DEF w
    <2>5. ASSUME NEW k \in 1..n PROVE w[k] = IF k = 1 THEN ss[k] ELSE w[k - 1] \o ss[k]
      <3>1. CASE k = n
        <4>1. n # 1 => n - 1 \in 1..(n - 1)
          OBVIOUS
        <4>. QED
          BY <2>3, <3>1, <4>1 DEF last0
      <3>2. CASE k # n
        <4>1. k \in 1..(n - 1) /\ (k # 1 => k - 1 \in 1..(n - 1))
          BY <3>2
        <4>. QED
          BY <2>2, <2>3, <4>1
      <3>. QED
        BY <3>1, <3>2
    <2>6. Up(n, w)
      <3>1. w = [k \in 1..n |-> IF k = 1 THEN ss[k] ELSE w[k - 1] \o ss[k]]
        BY <2>4, <2>5
      <3>. QED
        BY <3>1 DEF Up
    <2>. QED
      BY <2>6
  <1>3. \A k \in 0..N : k \in Made
    <2>. HIDE DEF Made
    <2>1. \A k \in 1..N : k - 1 \in Made => k \in Made
      BY <1>2
    <2>. QED
      BY <1>1, <2>1, CountingUp
  <1>4. N \in Made
    <2>. HIDE DEF Made
    <2>. QED
      BY <1>3
  <1>5. PICK h : Up(N, h)
    BY <1>4
  <1>6. h = [n \in 1..N |-> IF n = 1 THEN ss[n] ELSE h[n - 1] \o ss[n]]
    BY <1>5
  <1>. QED
    BY <1>6

\* The flat sequence F, of n entries, of the k sequences ss: where each of its
\* entries is from, in order.
FlatBy(F, n, ss, k, p, q) ==
  /\ \A m \in 1..n : p[m] \in 1..k /\ q[m] \in 1..Len(ss[p[m]]) /\ F[m] = ss[p[m]][q[m]]
  /\ \A m, l \in 1..n : m < l => p[m] < p[l] \/ (p[m] = p[l] /\ q[m] < q[l])
  /\ \A i \in 1..k : \A j \in 1..Len(ss[i]) : \E m \in 1..n : p[m] = i /\ q[m] = j
Flat(F, ss, k) == \E p, q : FlatBy(F, Len(F), ss, k, p, q)

\* One more sequence at the end.
LEMMA FlatGrows ==
  ASSUME NEW S, NEW F \in Seq(S), NEW k \in Nat, NEW f,
         \A n \in 1..k : f[n] \in Seq(S), Flat(F, f, k), f[k + 1] \in Seq(S)
  PROVE  F \o f[k + 1] \in Seq(S) /\ Flat(F \o f[k + 1], f, k + 1)
PROOF
  <1>. DEFINE t == f[k + 1]
              G == F \o t
              a == Len(F)
              b == Len(t)
  <1>1. /\ G \in Seq(S) /\ a \in Nat /\ b \in Nat /\ Len(G) = a + b
        /\ \A n \in 1..a : G[n] = F[n]
        /\ \A n \in 1..(a + b) : n \in 1..a \/ (n - a \in 1..b /\ G[n] = t[n - a])
    BY Joining
  <1>2. PICK p, q : FlatBy(F, a, f, k, p, q)
    BY DEF Flat
  <1>3. k + 1 \in 1..(k + 1) /\ \A i \in 1..(k + 1) : i \in 1..k \/ i = k + 1
    OBVIOUS
  <1>4. Len(f[k + 1]) = b
    OBVIOUS
  <1>5. G[0] = G[0] /\ t = f[k + 1]
    OBVIOUS
  <1>. HIDE DEF G, a, b, t
  <1>. DEFINE P == [m \in 1..(a + b) |-> IF m \in 1..a THEN p[m] ELSE k + 1]
              Q == [m \in 1..(a + b) |-> IF m \in 1..a THEN q[m] ELSE m - a]
  <1>6. \A m \in 1..a : m \in 1..(a + b)
    BY <1>1
  <1>7. /\ \A m \in 1..a : P[m] = p[m] /\ Q[m] = q[m]
        /\ \A m \in 1..(a + b) : m \notin 1..a => P[m] = k + 1 /\ Q[m] = m - a
    BY <1>6
  <1>8. \A m \in 1..b : \E n \in 1..(a + b) : n \notin 1..a /\ n - a = m
    <2>1. ASSUME NEW m \in 1..b PROVE a + m \in 1..(a + b) /\ a + m \notin 1..a /\ (a + m) - a = m
      BY <1>1
    <2>2. ASSUME NEW m \in 1..b PROVE \E n \in 1..(a + b) : n \notin 1..a /\ n - a = m
      <3>. DEFINE n == a + m
      <3>1. n \in 1..(a + b) /\ n \notin 1..a /\ n - a = m
        BY <2>1
      <3>. HIDE DEF n
      <3>. QED
        BY <3>1
    <2>. QED
      BY <2>2
  <1>. HIDE DEF P, Q
  <1>9. ASSUME NEW m \in 1..(a + b)
        PROVE P[m] \in 1..(k + 1) /\ Q[m] \in 1..Len(f[P[m]]) /\ G[m] = f[P[m]][Q[m]]
    <2>1. CASE m \in 1..a
      <3>1. p[m] \in 1..k /\ q[m] \in 1..Len(f[p[m]]) /\ F[m] = f[p[m]][q[m]]
        BY <1>2, <2>1 DEF FlatBy
      <3>2. P[m] = p[m] /\ Q[m] = q[m] /\ G[m] = F[m]
        BY <1>1, <1>7, <2>1
      <3>3. p[m] \in 1..(k + 1)
        BY <3>1
      <3>. QED
        BY <3>1, <3>2, <3>3
    <2>2. CASE m \notin 1..a
      <3>1. P[m] = k + 1 /\ Q[m] = m - a /\ m - a \in 1..b /\ G[m] = t[m - a]
        BY <1>1, <1>7, <2>2
      <3>. QED
        BY <1>3, <1>4, <1>5, <3>1
    <2>. QED
      BY <2>1, <2>2
  <1>10. ASSUME NEW m \in 1..(a + b), NEW n \in 1..(a + b), m < n
         PROVE  P[m] < P[n] \/ (P[m] = P[n] /\ Q[m] < Q[n])
    <2>1. CASE n \in 1..a
      <3>1. m \in 1..a
        BY <1>1, <1>10, <2>1
      <3>2. p[m] < p[n] \/ (p[m] = p[n] /\ q[m] < q[n])
        BY <1>2, <1>10, <2>1, <3>1 DEF FlatBy
      <3>. QED
        BY <1>7, <2>1, <3>1, <3>2
    <2>2. CASE n \notin 1..a /\ m \in 1..a
      <3>1. p[m] \in 1..k
        BY <1>2, <2>2 DEF FlatBy
      <3>2. P[m] = p[m] /\ P[n] = k + 1
        BY <1>7, <2>2
      <3>. QED
        BY <3>1, <3>2
    <2>3. CASE n \notin 1..a /\ m \notin 1..a
      <3>1. P[m] = k + 1 /\ P[n] = k + 1 /\ Q[m] = m - a /\ Q[n] = n - a
        BY <1>7, <2>3
      <3>2. m - a < n - a
        BY <1>1, <1>10
      <3>. QED
        BY <3>1, <3>2
    <2>. QED
      BY <2>1, <2>2, <2>3
  <1>11. ASSUME NEW i \in 1..(k + 1), NEW j \in 1..Len(f[i])
         PROVE  \E m \in 1..(a + b) : P[m] = i /\ Q[m] = j
    <2>1. CASE i \in 1..k
      <3>1. PICK m \in 1..a : p[m] = i /\ q[m] = j
        BY <1>2, <2>1 DEF FlatBy
      <3>. QED
        BY <1>6, <1>7, <3>1
    <2>2. CASE i = k + 1
      <3>1. j \in 1..b
        BY <1>4, <2>2
      <3>5. PICK m \in 1..(a + b) : m \notin 1..a /\ m - a = j
        BY <1>8, <3>1
      <3>3. P[m] = k + 1 /\ Q[m] = j
        BY <1>7, <3>5
      <3>. QED
        BY <2>2, <3>3, <3>5
    <2>. QED
      BY <1>3, <2>1, <2>2
  <1>12. FlatBy(G, a + b, f, k + 1, P, Q)
    BY <1>9, <1>10, <1>11 DEF FlatBy
  <1>13. Flat(G, f, k + 1)
    BY <1>1, <1>12 DEF Flat
  <1>. QED
    BY <1>1, <1>13 DEF G, t

\* The flattened sequence has the entries of its parts, in order.
LEMMA Flattened ==
  ASSUME NEW S, NEW ss \in Seq(Seq(S))
  PROVE  FlattenSeq(ss) \in Seq(S) /\ Flat(FlattenSeq(ss), ss, Len(ss))
PROOF
  <1>1. Len(ss) \in Nat /\ DOMAIN ss = 1..Len(ss) /\ \A n \in 1..Len(ss) : ss[n] \in Seq(S)
    OBVIOUS
  <1>2. CASE Len(ss) = 0
    <2>1. ss = <<>>
      BY <1>1, <1>2
    <2>2. FlattenSeq(ss) = <<>>
      BY <1>2, <2>1 DEF FlattenSeq
    <2>3. <<>> \in Seq(S) /\ Len(<<>>) = 0
      OBVIOUS
    <2>4. FlatBy(<<>>, 0, ss, 0, <<>>, <<>>)
      BY DEF FlatBy
    <2>. QED
      BY <1>2, <2>2, <2>3, <2>4 DEF Flat
  <1>3. CASE Len(ss) # 0
    <2>. DEFINE N == Len(ss)
                Step(h) == [n \in 1..N |-> IF n = 1 THEN ss[n] ELSE h[n - 1] \o ss[n]]
                flatten == CHOOSE h : h = Step(h)
    <2>1. FlattenSeq(ss) = flatten[N]
      BY <1>3 DEF FlattenSeq
    <2>2. N \in Nat /\ N # 0 /\ \A n \in 1..N : ss[n] \in Seq(S)
      BY <1>1, <1>3
    <2>. HIDE DEF N
    <2>3. \E h : h = Step(h)
      BY <2>2, JoinedUp
    <2>4. flatten = Step(flatten)
      <3>. HIDE DEF Step
      <3>. QED
        BY <2>3
    <2>. HIDE DEF flatten
    <2>5. \A n \in 1..N : flatten[n] = IF n = 1 THEN ss[n] ELSE flatten[n - 1] \o ss[n]
      BY <2>4
    <2>. DEFINE Good == {n \in 0..N : n = 0 \/ (flatten[n] \in Seq(S) /\ Flat(flatten[n], ss, n))}
    <2>6. 0 \in Good
      BY <2>2
    <2>7. ASSUME NEW n \in 1..N, n - 1 \in Good PROVE n \in Good
      <3>1. ss[n] \in Seq(S) /\ n \in 0..N
        BY <2>2
      <3>2. CASE n = 1
        <4>1. flatten[1] = ss[1]
          BY <2>5, <3>2
        <4>2. Len(ss[1]) \in Nat /\ ss[1] \in Seq(S)
          BY <3>1, <3>2
        <4>. DEFINE p == [m \in 1..Len(ss[1]) |-> 1]
                    q == [m \in 1..Len(ss[1]) |-> m]
        <4>3. \A m \in 1..Len(ss[1]) : p[m] = 1 /\ q[m] = m
          OBVIOUS
        <4>4. 1..1 = {1}
          OBVIOUS
        <4>. HIDE DEF p, q
        <4>5. FlatBy(ss[1], Len(ss[1]), ss, 1, p, q)
          <5>1. \A m \in 1..Len(ss[1]) :
                  p[m] \in 1..1 /\ q[m] \in 1..Len(ss[p[m]]) /\ ss[1][m] = ss[p[m]][q[m]]
            BY <4>3, <4>4
          <5>2. \A m, l \in 1..Len(ss[1]) : m < l => p[m] < p[l] \/ (p[m] = p[l] /\ q[m] < q[l])
            BY <4>3
          <5>3. \A i \in 1..1 : \A j \in 1..Len(ss[i]) : \E m \in 1..Len(ss[1]) :
                  p[m] = i /\ q[m] = j
            BY <4>3, <4>4
          <5>. QED
            BY <5>1, <5>2, <5>3 DEF FlatBy
        <4>. QED
          BY <3>1, <3>2, <4>1, <4>2, <4>5 DEF Flat
      <3>3. CASE n # 1
        <4>1. n - 1 \in 1..N /\ n - 1 \in Nat /\ n - 1 # 0 /\ n - 1 + 1 = n
          BY <2>2, <3>3
        <4>2. flatten[n - 1] \in Seq(S) /\ Flat(flatten[n - 1], ss, n - 1)
          BY <2>7, <4>1
        <4>3. flatten[n] = flatten[n - 1] \o ss[n]
          BY <2>5, <3>3
        <4>4. \A k \in 1..(n - 1) : ss[k] \in Seq(S)
          BY <2>2
        <4>. DEFINE u == n - 1
        <4>5. u \in Nat /\ u + 1 = n /\ flatten[u] \in Seq(S) /\ Flat(flatten[u], ss, u)
              /\ \A k \in 1..u : ss[k] \in Seq(S)
          BY <4>1, <4>2, <4>4
        <4>6. flatten[n] = flatten[u] \o ss[n]
          BY <4>3
        <4>. HIDE DEF u
        <4>7. ss[u + 1] \in Seq(S)
          BY <3>1, <4>5
        <4>8. flatten[u] \o ss[u + 1] \in Seq(S) /\ Flat(flatten[u] \o ss[u + 1], ss, u + 1)
          BY <4>5, <4>7, FlatGrows
        <4>. QED
          BY <3>1, <4>5, <4>6, <4>8
      <3>. QED
        BY <3>2, <3>3
    <2>8. N \in Good
      <3>. HIDE DEF Good
      <3>1. \A k \in 1..N : k - 1 \in Good => k \in Good
        BY <2>7
      <3>2. \A k \in 0..N : k \in Good
        BY <2>2, <2>6, <3>1, CountingUp
      <3>. QED
        BY <2>2, <3>2
    <2>. QED
      BY <2>1, <2>2, <2>8 DEF N
  <1>. QED
    BY <1>1, <1>2, <1>3

\* A sequence without one of its entries.
LEMMA Removing ==
  ASSUME NEW S, NEW s \in Seq(S), NEW n \in DOMAIN s, IsInjective(s)
  PROVE  /\ RemoveAt(s, n) \in Seq(S) /\ IsInjective(RemoveAt(s, n))
         /\ \A e \in S : (\E m \in DOMAIN RemoveAt(s, n) : RemoveAt(s, n)[m] = e)
                           <=> e # s[n] /\ \E m \in DOMAIN s : s[m] = e
PROOF
  <1>. DEFINE a == SubSeq(s, 1, n - 1)
              b == SubSeq(s, n + 1, Len(s))
              w == a \o b
              L == Len(s)
  <1>1. L \in Nat /\ DOMAIN s = 1..L /\ n \in 1..L
    OBVIOUS
  <1>2. a \in Seq(S) /\ Len(a) = n - 1 /\ \A m \in 1..(n - 1) : a[m] = s[m]
    BY <1>1
  <1>3. b \in Seq(S) /\ Len(b) = L - n /\ \A m \in 1..(L - n) : b[m] = s[n + m]
    BY <1>1
  <1>4. RemoveAt(s, n) = w
    BY DEF RemoveAt
  <1>. HIDE DEF a, b
  <1>5. w \in Seq(S) /\ DOMAIN w = 1..(Len(a) + Len(b))
        /\ (\A m \in 1..Len(a) : w[m] = a[m]) /\ \A m \in 1..Len(b) : w[Len(a) + m] = b[m]
    <2>1. a \in Seq(S) /\ b \in Seq(S)
      BY <1>2, <1>3
    <2>. HIDE DEF w
    <2>2. w = a \o b
      BY DEF w
    <2>3. a \o b \in Seq(S) /\ DOMAIN (a \o b) = 1..(Len(a) + Len(b))
          /\ \A m \in 1..Len(a) : (a \o b)[m] = a[m]
      BY <2>1, Joining
    <2>4. \A m \in 1..Len(b) : (a \o b)[Len(a) + m] = b[m]
      BY <2>1, Joining
    <2>. QED
      BY <2>2, <2>3, <2>4
  <1>. HIDE DEF w, L
  <1>6. DOMAIN w = 1..(L - 1)
    BY <1>1, <1>2, <1>3, <1>5
  <1>7. \A m \in 1..(L - 1) : m < n => w[m] = s[m]
    BY <1>1, <1>2, <1>5
  <1>8. ASSUME NEW m \in 1..(L - 1), m >= n PROVE w[m] = s[m + 1]
    <2>1. m - (n - 1) \in 1..(L - n) /\ (n - 1) + (m - (n - 1)) = m /\ n + (m - (n - 1)) = m + 1
      BY <1>1, <1>8
    <2>2. w[(n - 1) + (m - (n - 1))] = b[m - (n - 1)]
      BY <1>2, <1>3, <1>5, <2>1
    <2>3. b[m - (n - 1)] = s[n + (m - (n - 1))]
      BY <1>3, <2>1
    <2>. QED
      BY <2>1, <2>2, <2>3
  <1>9. \A m, l \in 1..L : s[m] = s[l] => m = l
    BY <1>1 DEF IsInjective
  <1>10. ASSUME NEW m \in 1..(L - 1), NEW l \in 1..(L - 1), w[m] = w[l] PROVE m = l
    <2>1. m \in 1..L /\ m + 1 \in 1..L /\ l \in 1..L /\ l + 1 \in 1..L
      BY <1>1
    <2>. QED
      BY <1>1, <1>7, <1>8, <1>9, <1>10, <2>1
  <1>11. IsInjective(w)
    BY <1>6, <1>10 DEF IsInjective
  <1>12. ASSUME NEW m \in 1..(L - 1) PROVE \E l \in 1..L : l # n /\ s[l] = w[m]
    <2>1. m \in 1..L /\ m + 1 \in 1..L
      BY <1>1
    <2>. QED
      BY <1>1, <1>7, <1>8, <2>1
  <1>13. ASSUME NEW l \in 1..L, l # n PROVE \E m \in 1..(L - 1) : w[m] = s[l]
    <2>1. CASE l < n
      BY <1>1, <1>7, <2>1
    <2>2. CASE l > n
      <3>1. l - 1 \in 1..(L - 1) /\ l - 1 >= n /\ l - 1 + 1 = l
        BY <1>1, <2>2
      <3>2. w[l - 1] = s[l - 1 + 1]
        BY <1>8, <3>1
      <3>. QED
        BY <3>1, <3>2
    <2>. QED
      BY <1>1, <1>13, <2>1, <2>2
  <1>14. \A e \in S : (\E m \in 1..(L - 1) : w[m] = e) <=> e # s[n] /\ \E l \in 1..L : s[l] = e
    BY <1>1, <1>9, <1>12, <1>13
  <1>. QED
    BY <1>1, <1>4, <1>5, <1>6, <1>11, <1>14

\* A finite set's elements, one after the other.
LEMMA Enumerated ==
  ASSUME NEW S, IsFiniteSet(S)
  PROVE  /\ SetToSeq(S) \in Seq(S) /\ IsInjective(SetToSeq(S))
         /\ \A e \in S : \E n \in DOMAIN SetToSeq(S) : SetToSeq(S)[n] = e
         /\ S = {} => SetToSeq(S) = <<>>
PROOF
  <1>. DEFINE c == Cardinality(S)
              s == SetToSeq(S)
  <1>1. c \in Nat /\ ExistsBijection(1..c, S)
    BY FS_CardinalityType
  <1>2. \E f \in [1..c -> S] : IsInjective(f)
    <2>1. PICK f \in Bijection(1..c, S) : TRUE
      BY <1>1 DEF ExistsBijection
    <2>2. f \in [1..c -> S] /\ IsInjective(f)
      BY <2>1 DEF Bijection, Injection, IsInjective
    <2>. QED
      BY <2>2
  <1>3. s \in [1..c -> S] /\ IsInjective(s)
    BY <1>2 DEF SetToSeq
  <1>. HIDE DEF s
  <1>4. s \in Seq(S) /\ DOMAIN s = 1..c /\ Len(s) = c
    BY <1>1, <1>3
  <1>5. s \in Surjection(1..c, S)
    <2>1. s \in Injection(1..c, S)
      BY <1>3 DEF Injection
    <2>2. IsFiniteSet(1..c) /\ Cardinality(1..c) = c
      BY <1>1, FS_Interval
    <2>. QED
      BY <2>1, <2>2, FS_Injection
  <1>6. \A e \in S : \E n \in 1..c : s[n] = e
    BY <1>5 DEF Surjection
  <1>7. ASSUME S = {} PROVE s = <<>>
    <2>1. c = 0
      BY <1>1, <1>4, <1>7
    <2>. QED
      BY <1>4, <2>1
  <1>. QED
    BY <1>3, <1>4, <1>6, <1>7 DEF s

-----------------------------------------------------------------------------
(* The runs and their reports.                                             *)

\* A run is one of a schedule's runs.
LEMMA RunIs ==
  ASSUME NEW r \in Runs
  PROVE  /\ r[1] \in Ids /\ r[2] \in 0..(TotalRuns(r[1]) - 1) /\ r = <<r[1], r[2]>>
         /\ TotalRuns(r[1]) \in Nat /\ r[2] \in Nat
         /\ StartOf(r) \in Int /\ Samples(r) \in Nat \ {0}
PROOF
  <1>1. PICK i \in Ids : \E k \in 0..(TotalRuns(i) - 1) : r = <<i, k>>
    BY DEF Runs
  <1>2. PICK k \in 0..(TotalRuns(i) - 1) : r = <<i, k>>
    BY <1>1
  <1>3. r[1] = i /\ r[2] = k
    BY <1>2
  <1>4. TotalRuns(i) \in Nat /\ k \in Int /\ k \in Nat /\ RunStart(i, k) \in Int
    BY RunsAre
  <1>5. Schedule(i).duration \in Nat \ {0}
    BY BodyIs
  <1>. QED
    BY <1>2, <1>3, <1>4, <1>5 DEF StartOf, Samples

\* One of a schedule's runs is a run.
LEMMA IsRun ==
  ASSUME NEW i \in Ids, NEW k \in 0..(TotalRuns(i) - 1)
  PROVE  <<i, k>> \in Runs /\ <<i, k>>[1] = i /\ <<i, k>>[2] = k
PROOF
  BY DEF Runs

\* There are finitely many runs.
LEMMA RunsAreFinite ==
  \A T \in SUBSET Runs : IsFiniteSet(T)
PROOF
  <1>. DEFINE Of(i) == {<<i, k>> : k \in 0..(TotalRuns(i) - 1)}
              All == {Of(i) : i \in Ids}
  <1>1. IsFiniteSet(Ids)
    BY ScheduleAssumption
  <1>2. IsFiniteSet(All)
    <2>. DEFINE f == [i \in Ids |-> Of(i)]
    <2>1. f \in Surjection(Ids, All)
      BY DEF Surjection
    <2>. QED
      BY <1>1, <2>1, FS_Surjection
  <1>3. ASSUME NEW i \in Ids PROVE IsFiniteSet(Of(i))
    <2>. DEFINE K == 0..(TotalRuns(i) - 1)
                f == [k \in K |-> <<i, k>>]
    <2>1. IsFiniteSet(K)
      BY RunsAre, FS_Interval
    <2>2. f \in Surjection(K, Of(i))
      BY DEF Surjection
    <2>. QED
      BY <2>1, <2>2, FS_Surjection
  <1>4. \A T \in All : IsFiniteSet(T)
    BY <1>3
  <1>5. IsFiniteSet(UNION All)
    BY <1>2, <1>4, FS_UNION
  <1>6. Runs = UNION All
    BY DEF Runs
  <1>. QED
    BY <1>5, <1>6, FS_Subset

\* What a report is.
LEMMA ReportIs ==
  ASSUME NEW o \in Reports
  PROVE  o.run \in Runs /\ o.status \in Final \cup {"recording"}
         /\ o.run[1] \in Ids /\ o.run[2] \in 0..(TotalRuns(o.run[1]) - 1)
PROOF
  <1>1. o.run \in Runs /\ o.status \in Final \cup {"recording"}
    BY DEF Reports
  <1>. QED
    BY <1>1, RunIs

\* A schedule's last outcome, with those of the reports.
LEMMA LastOfIs ==
  ASSUME NEW i \in Ids, NEW b \in Seq(Reports),
         last[i] \in NoRun..(TotalRuns(i) - 1)
  PROVE  /\ LastOf(i, b) \in Int /\ last[i] <= LastOf(i, b) /\ LastOf(i, b) <= TotalRuns(i) - 1
         /\ \A n \in DOMAIN b : b[n].run[1] = i => b[n].run[2] <= LastOf(i, b)
         /\ LastOf(i, b) = last[i] \/ \E n \in DOMAIN b : b[n].run = <<i, LastOf(i, b)>>
PROOF
  <1>. DEFINE ks == {b[n].run[2] : n \in {m \in DOMAIN b : b[m].run[1] = i}}
              T == ks \cup {last[i]}
              N == TotalRuns(i)
              x == LastOf(i, b)
  <1>1. N \in Nat /\ last[i] \in Int /\ last[i] <= N - 1
    BY RunsAre DEF NoRun
  <1>2. ASSUME NEW n \in DOMAIN b PROVE b[n] \in Reports
    BY <1>2
  <1>3. ASSUME NEW n \in DOMAIN b, b[n].run[1] = i
        PROVE b[n].run[2] \in 0..(N - 1) /\ b[n].run = <<i, b[n].run[2]>>
    <2>1. b[n].run \in Runs
      BY <1>2, ReportIs
    <2>. QED
      BY <1>3, <2>1, RunIs
  <1>4. T \in SUBSET Int /\ T # {} /\ N - 1 \in Int /\ \A k \in T : k <= N - 1
    <2>. HIDE DEF N
    <2>. QED
      BY <1>1, <1>3
  <1>5. \E k \in T : \A j \in T : j <= k
    <2>. HIDE DEF T, N
    <2>. QED
      BY <1>4, GreatestOf
  <1>6. x = CHOOSE k \in T : \A j \in T : j <= k
    BY DEF LastOf
  <1>. HIDE DEF x, N
  <1>7. x \in T /\ \A j \in T : j <= x
    <2>. HIDE DEF T
    <2>. QED
      BY <1>5, <1>6
  <1>8. x = last[i] \/ \E n \in DOMAIN b : b[n].run[1] = i /\ x = b[n].run[2]
    BY <1>7
  <1>9. x = last[i] \/ \E n \in DOMAIN b : b[n].run = <<i, x>>
    BY <1>3, <1>8
  <1>10. \A n \in DOMAIN b : b[n].run[1] = i => b[n].run[2] <= x
    BY <1>7
  <1>11. x \in Int /\ last[i] <= x /\ x <= N - 1
    BY <1>4, <1>7
  <1>. QED
    BY <1>9, <1>10, <1>11 DEF x, N

\* Reports of different runs.
Apart(b) == \A m, n \in DOMAIN b : b[m].run = b[n].run => m = n
IsIn(b, r) == \E n \in DOMAIN b : b[n].run = r

\* What is reported is the latest outcome, and on its way to the table.
LEMMA Reported ==
  ASSUME NEW b \in Seq(Reports), Apart(b), Report(b),
         \A i \in Ids : last[i] \in NoRun..(TotalRuns(i) - 1),
         latest \in [Runs -> Final \cup {"none", "recording"}]
  PROVE  /\ saving' = saving \o b
         /\ latest' \in [Runs -> Final \cup {"none", "recording"}]
         /\ \A n \in DOMAIN b : latest'[b[n].run] = b[n].status
         /\ \A r \in Runs : ~IsIn(b, r) => latest'[r] = latest[r]
         /\ last' \in [Ids -> Int]
         /\ \A i \in Ids : last'[i] = LastOf(i, b)
         /\ \A i \in Ids : last'[i] \in NoRun..(TotalRuns(i) - 1) /\ last[i] <= last'[i]
         /\ \A n \in DOMAIN b : b[n].run[2] <= last'[b[n].run[1]]
         /\ \A i \in Ids : last'[i] = last[i] \/ IsIn(b, <<i, last'[i]>>)
PROOF
  <1>1. \A n \in DOMAIN b : b[n] \in Reports
    OBVIOUS
  <1>2. \A n \in DOMAIN b : b[n].run \in Runs /\ b[n].status \in Final \cup {"recording"}
                            /\ b[n].run[1] \in Ids
    BY <1>1, ReportIs
  <1>. DEFINE Ns(r) == {n \in DOMAIN b : b[n].run = r}
              New(r) == IF Ns(r) = {} THEN latest[r]
                        ELSE b[CHOOSE n \in Ns(r) : \A m \in Ns(r) : m <= n].status
  <1>3. /\ latest' = [r \in Runs |-> New(r)]
        /\ last' = [i \in Ids |-> LastOf(i, b)] /\ saving' = saving \o b
    BY DEF Report
  <1>4. ASSUME NEW n \in DOMAIN b PROVE New(b[n].run) = b[n].status
    <2>1. Ns(b[n].run) = {n}
      BY <1>4 DEF Apart
    <2>2. n <= n
      OBVIOUS
    <2>. QED
      BY <2>1, <2>2
  <1>5. \A r \in Runs : ~IsIn(b, r) => New(r) = latest[r]
    BY DEF IsIn
  <1>6. \A r \in Runs : New(r) \in Final \cup {"none", "recording"}
    <2>1. ASSUME NEW r \in Runs, IsIn(b, r) PROVE New(r) \in Final \cup {"none", "recording"}
      <3>. HIDE DEF New
      <3>1. PICK n \in DOMAIN b : b[n].run = r
        BY <2>1 DEF IsIn
      <3>. QED
        BY <1>2, <1>4, <3>1
    <2>. HIDE DEF New
    <2>. QED
      BY <1>5, <2>1
  <1>. HIDE DEF New
  <1>7. /\ latest' \in [Runs -> Final \cup {"none", "recording"}]
        /\ \A n \in DOMAIN b : latest'[b[n].run] = b[n].status
        /\ \A r \in Runs : ~IsIn(b, r) => latest'[r] = latest[r]
    BY <1>2, <1>3, <1>4, <1>5, <1>6
  <1>8. ASSUME NEW i \in Ids
        PROVE /\ last'[i] = LastOf(i, b) /\ last'[i] \in Int
              /\ last'[i] \in NoRun..(TotalRuns(i) - 1)
              /\ last[i] <= last'[i]
              /\ \A n \in DOMAIN b : b[n].run[1] = i => b[n].run[2] <= last'[i]
              /\ last'[i] = last[i] \/ IsIn(b, <<i, last'[i]>>)
    <2>1. last'[i] = LastOf(i, b)
      BY <1>3
    <2>2. /\ LastOf(i, b) \in Int /\ last[i] <= LastOf(i, b) /\ LastOf(i, b) <= TotalRuns(i) - 1
          /\ \A n \in DOMAIN b : b[n].run[1] = i => b[n].run[2] <= LastOf(i, b)
          /\ LastOf(i, b) = last[i] \/ \E n \in DOMAIN b : b[n].run = <<i, LastOf(i, b)>>
      BY LastOfIs
    <2>3. TotalRuns(i) \in Nat /\ last[i] \in Int /\ -1 <= last[i]
      BY RunsAre DEF NoRun
    <2>. QED
      BY <2>1, <2>2, <2>3 DEF IsIn, NoRun
  <1>9. last' \in [Ids -> Int]
    BY <1>3, <1>8
  <1>. QED
    BY <1>2, <1>3, <1>7, <1>8, <1>9

-----------------------------------------------------------------------------
(* The writer's queue.                                                     *)

\* What an item of the queue is.
LEMMA ItemIs ==
  ASSUME NEW item \in Items
  PROVE  /\ item.kind \in {"open", "iq", "zeros", "close", "stop"}
         /\ item.kind # "stop" => item.run \in Runs
         /\ item.kind \in {"iq", "zeros"} => item.n \in Nat
         /\ item.kind = "close" => item.status \in {"recorded", "partial"}
         /\ \A rs : IqIn(item, rs) \in Nat
PROOF
  BY DEF Items, IqIn

\* What is queued once more items are.
LEMMA QueueGrows ==
  ASSUME queue \in Seq(Items), NEW t \in Seq(Items), queue' = queue \o t, NEW kind, NEW r
  PROVE  Queued(kind, r)' <=> Queued(kind, r) \/ \E n \in DOMAIN t :
           t[n].kind = kind /\ IsOf(t[n], r)
PROOF
  <1>. DEFINE a == Len(queue)
              b == Len(t)
  <1>1. /\ a \in Nat /\ b \in Nat /\ DOMAIN queue = 1..a /\ DOMAIN t = 1..b
        /\ DOMAIN (queue \o t) = 1..(a + b)
        /\ \A n \in 1..a : (queue \o t)[n] = queue[n]
        /\ \A n \in 1..b : (queue \o t)[a + n] = t[n]
        /\ \A n \in 1..(a + b) : n \in 1..a \/ (n - a \in 1..b /\ (queue \o t)[n] = t[n - a])
    BY Joining
  <1>2. \A n \in 1..a : n \in 1..(a + b)
    BY <1>1
  <1>3. \A n \in 1..b : a + n \in 1..(a + b)
    BY <1>1
  <1>. HIDE DEF a, b
  <1>4. ASSUME Queued(kind, r)'
        PROVE  Queued(kind, r) \/ \E n \in 1..b : t[n].kind = kind /\ IsOf(t[n], r)
    <2>1. PICK n \in 1..(a + b) : (queue \o t)[n].kind = kind /\ IsOf((queue \o t)[n], r)
      BY <1>1, <1>4 DEF Queued
    <2>2. CASE n \in 1..a
      BY <1>1, <2>1, <2>2 DEF Queued
    <2>3. CASE n \notin 1..a
      BY <1>1, <2>1, <2>3
    <2>. QED
      BY <2>2, <2>3
  <1>5. ASSUME Queued(kind, r) PROVE Queued(kind, r)'
    <2>1. PICK n \in 1..a : queue[n].kind = kind /\ IsOf(queue[n], r)
      BY <1>1, <1>5 DEF Queued
    <2>2. n \in DOMAIN queue' /\ queue'[n] = queue[n]
      BY <1>1, <1>2, <2>1
    <2>. QED
      BY <2>1, <2>2 DEF Queued
  <1>6. ASSUME NEW n \in 1..b, t[n].kind = kind, IsOf(t[n], r) PROVE Queued(kind, r)'
    <2>1. a + n \in DOMAIN queue' /\ queue'[a + n] = t[n]
      BY <1>1, <1>3
    <2>. QED
      BY <1>6, <2>1 DEF Queued
  <1>. QED
    BY <1>1, <1>4, <1>5, <1>6

\* What is queued once the first item is gone.
LEMMA QueueShrinks ==
  ASSUME queue \in Seq(Items), queue # <<>>, queue' = Tail(queue), NEW kind, NEW r
  PROVE  Queued(kind, r) <=> Queued(kind, r)' \/ (Head(queue).kind = kind /\ IsOf(Head(queue), r))
PROOF
  <1>. DEFINE L == Len(queue)
  <1>1. /\ L \in Nat \ {0} /\ DOMAIN queue = 1..L /\ Head(queue) = queue[1] /\ 1 \in 1..L
        /\ DOMAIN Tail(queue) = 1..(L - 1) /\ \A n \in 1..(L - 1) : Tail(queue)[n] = queue[n + 1]
    BY Unjoining
  <1>2. (\A n \in 1..(L - 1) : n + 1 \in 1..L) /\ \A n \in 1..L : n = 1 \/ n - 1 \in 1..(L - 1)
    BY <1>1
  <1>. HIDE DEF L
  <1>3. ASSUME Queued(kind, r)
        PROVE  Queued(kind, r)' \/ (Head(queue).kind = kind /\ IsOf(Head(queue), r))
    <2>1. PICK n \in 1..L : queue[n].kind = kind /\ IsOf(queue[n], r)
      BY <1>1, <1>3 DEF Queued
    <2>2. CASE n # 1
      <3>1. n - 1 \in 1..(L - 1) /\ n - 1 + 1 = n
        BY <1>1, <1>2, <2>2
      <3>2. n - 1 \in DOMAIN queue' /\ queue'[n - 1] = queue[n]
        BY <1>1, <3>1
      <3>. QED
        BY <2>1, <3>2 DEF Queued
    <2>. QED
      BY <1>1, <2>1, <2>2
  <1>4. ASSUME Queued(kind, r)' PROVE Queued(kind, r)
    <2>1. PICK n \in 1..(L - 1) : Tail(queue)[n].kind = kind /\ IsOf(Tail(queue)[n], r)
      BY <1>1, <1>4 DEF Queued
    <2>2. n + 1 \in DOMAIN queue /\ queue[n + 1].kind = kind /\ IsOf(queue[n + 1], r)
      BY <1>1, <1>2, <2>1
    <2>. QED
      BY <2>2 DEF Queued
  <1>5. ASSUME Head(queue).kind = kind, IsOf(Head(queue), r) PROVE Queued(kind, r)
    BY <1>1, <1>5 DEF Queued
  <1>. QED
    BY <1>3, <1>4, <1>5

\* Items that are put to the queue in order.
LEMMA ItemsGrow ==
  ASSUME queue \in Seq(Items), NEW t \in Seq(Items), queue' = queue \o t,
         ItemsInv, UNCHANGED files,
         \A n \in DOMAIN queue : queue[n].kind # "stop",
         \A n \in DOMAIN t : t[n].kind = "stop" => n = Len(t),
         \A r \in Runs : \A n \in DOMAIN t : IsOf(t[n], r) =>
           /\ ~Queued("close", r)
           /\ t[n].kind = "open" => \A m \in DOMAIN queue : ~IsOf(queue[m], r)
           /\ t[n].kind # "open" => Queued("open", r) \/ IsOpen(r),
         \A r \in Runs : \A m, n \in DOMAIN t : m < n /\ IsOf(t[m], r) /\ IsOf(t[n], r) =>
           t[m].kind # "close" /\ t[n].kind # "open"
  PROVE  ItemsInv'
PROOF
  <1>. DEFINE a == Len(queue)
              b == Len(t)
              w == queue \o t
  <1>1. /\ a \in Nat /\ b \in Nat /\ DOMAIN queue = 1..a /\ DOMAIN t = 1..b
        /\ DOMAIN w = 1..(a + b) /\ Len(w) = a + b
        /\ \A n \in 1..a : w[n] = queue[n]
        /\ \A n \in 1..(a + b) : n \in 1..a \/ (n - a \in 1..b /\ w[n] = t[n - a])
    BY Joining
  <1>2. \A n \in 1..a : n \in 1..(a + b)
    BY <1>1
  <1>3. queue' = w /\ \A r \in Runs : IsOpen(r)' <=> IsOpen(r)
    BY DEF IsOpen
  <1>. HIDE DEF a, b, w
  <1>4. ASSUME NEW r \in Runs, NEW m \in 1..(a + b), NEW n \in 1..(a + b),
               m < n, IsOf(w[m], r), IsOf(w[n], r)
        PROVE  w[m].kind # "close" /\ w[n].kind # "open"
    <2>1. CASE n \in 1..a
      <3>1. m \in 1..a
        BY <1>1, <1>4, <2>1
      <3>. QED
        <4>1. m \in DOMAIN queue /\ n \in DOMAIN queue /\ w[m] = queue[m] /\ w[n] = queue[n]
          BY <1>1, <2>1, <3>1
        <4>. QED
          BY <1>4, <4>1 DEF ItemsInv
    <2>2. CASE n \notin 1..a /\ m \in 1..a
      <3>1. n - a \in 1..b /\ w[n] = t[n - a] /\ w[m] = queue[m]
        BY <1>1, <2>2
      <3>2. ~Queued("close", r) /\ (t[n - a].kind = "open" => \A l \in 1..a : ~IsOf(queue[l], r))
        BY <1>1, <1>4, <3>1
      <3>3. queue[m].kind # "close"
        BY <1>1, <1>4, <2>2, <3>1, <3>2 DEF Queued
      <3>. QED
        BY <1>4, <2>2, <3>1, <3>2, <3>3
    <2>3. CASE n \notin 1..a /\ m \notin 1..a
      <3>1. n - a \in 1..b /\ w[n] = t[n - a] /\ m - a \in 1..b /\ w[m] = t[m - a] /\ m - a < n - a
        BY <1>1, <1>4, <2>3
      <3>2. m - a \in DOMAIN t /\ n - a \in DOMAIN t /\ IsOf(t[m - a], r) /\ IsOf(t[n - a], r)
        BY <1>1, <1>4, <3>1
      <3>3. t[m - a].kind # "close" /\ t[n - a].kind # "open"
        BY <3>1, <3>2
      <3>. QED
        BY <3>1, <3>3
    <2>. QED
      BY <2>1, <2>2, <2>3
  <1>5. ASSUME NEW r \in Runs, NEW n \in 1..(a + b), IsOf(w[n], r), w[n].kind # "open"
        PROVE  IsOpen(r) \/ \E m \in 1..(a + b) : m < n /\ w[m].kind = "open" /\ IsOf(w[m], r)
    <2>1. CASE n \in 1..a
      <3>1. IsOpen(r) \/ \E m \in 1..a : m < n /\ queue[m].kind = "open" /\ IsOf(queue[m], r)
        BY <1>1, <1>5, <2>1 DEF ItemsInv
      <3>. QED
        BY <1>1, <1>2, <3>1
    <2>2. CASE n \notin 1..a
      <3>1. n - a \in 1..b /\ w[n] = t[n - a]
        BY <1>1, <2>2
      <3>2. Queued("open", r) \/ IsOpen(r)
        BY <1>1, <1>5, <3>1
      <3>3. ASSUME Queued("open", r)
            PROVE  \E m \in 1..(a + b) : m < n /\ w[m].kind = "open" /\ IsOf(w[m], r)
        <4>1. PICK m \in 1..a : queue[m].kind = "open" /\ IsOf(queue[m], r)
          BY <1>1, <3>3 DEF Queued
        <4>2. m < n
          BY <1>1, <2>2
        <4>. QED
          BY <1>1, <1>2, <4>1, <4>2
      <3>. QED
        BY <3>2, <3>3
    <2>. QED
      BY <2>1, <2>2
  <1>6. ASSUME NEW n \in 1..(a + b), w[n].kind = "stop" PROVE n = a + b
    <2>1. n \notin 1..a
      BY <1>1, <1>6
    <2>2. n - a \in 1..b /\ w[n] = t[n - a]
      BY <1>1, <2>1
    <2>3. n - a = b
      BY <1>1, <1>6, <2>2 DEF b
    <2>. QED
      BY <1>1, <2>3
  <1>7. \A r \in Runs : \A m, n \in DOMAIN queue' :
          m < n /\ IsOf(queue'[m], r) /\ IsOf(queue'[n], r) =>
            queue'[m].kind # "close" /\ queue'[n].kind # "open"
    BY <1>1, <1>3, <1>4
  <1>8. \A r \in Runs : \A n \in DOMAIN queue' : IsOf(queue'[n], r) /\ queue'[n].kind # "open" =>
          IsOpen(r)' \/ \E m \in DOMAIN queue' : m < n /\ queue'[m].kind = "open"
            /\ IsOf(queue'[m], r)
    BY <1>1, <1>3, <1>5
  <1>9. \A n \in DOMAIN queue' : queue'[n].kind = "stop" => n = Len(queue')
    BY <1>1, <1>3, <1>6
  <1>. QED
    BY <1>7, <1>8, <1>9 DEF ItemsInv, IsOf

\* The first item is worked off: of its run's file there is no more once it is closed.
LEMMA ItemsShrink ==
  ASSUME queue \in Seq(Items), queue # <<>>, queue' = Tail(queue), ItemsInv,
         \A r \in Runs : IF IsOf(Head(queue), r) THEN Head(queue).kind # "close" => IsOpen(r)'
                         ELSE IsOpen(r) => IsOpen(r)'
  PROVE  /\ ItemsInv'
         /\ \A r \in Runs : IsOf(Head(queue), r) => ~Queued("open", r)'
         /\ \A r \in Runs : IsOf(Head(queue), r) /\ Head(queue).kind = "close" =>
              \A n \in DOMAIN queue' : ~IsOf(queue'[n], r)
PROOF
  <1>. DEFINE L == Len(queue)
              w == Tail(queue)
              h == Head(queue)
  <1>1. /\ L \in Nat \ {0} /\ DOMAIN queue = 1..L /\ h = queue[1] /\ 1 \in 1..L
        /\ DOMAIN w = 1..(L - 1) /\ Len(w) = L - 1 /\ \A n \in 1..(L - 1) : w[n] = queue[n + 1]
    BY Unjoining
  <1>2. \A n \in 1..(L - 1) : n + 1 \in 1..L /\ 1 < n + 1
    BY <1>1
  <1>3. queue' = w
    OBVIOUS
  <1>. HIDE DEF L, w, h
  <1>4. ASSUME NEW r \in Runs, NEW m \in 1..(L - 1), NEW n \in 1..(L - 1),
               m < n, IsOf(w[m], r), IsOf(w[n], r)
        PROVE  w[m].kind # "close" /\ w[n].kind # "open"
    <2>1. m + 1 < n + 1 /\ m + 1 \in DOMAIN queue /\ n + 1 \in DOMAIN queue
          /\ w[m] = queue[m + 1] /\ w[n] = queue[n + 1]
      BY <1>1, <1>2, <1>4
    <2>. QED
      BY <1>4, <2>1 DEF ItemsInv
  <1>5. ASSUME NEW r \in Runs, IsOf(h, r), NEW n \in 1..(L - 1), IsOf(w[n], r)
        PROVE  h.kind # "close" /\ w[n].kind # "open"
    <2>1. 1 < n + 1 /\ 1 \in DOMAIN queue /\ n + 1 \in DOMAIN queue /\ w[n] = queue[n + 1]
            /\ h = queue[1]
      BY <1>1, <1>2
    <2>. QED
      BY <1>5, <2>1 DEF ItemsInv
  <1>6. ASSUME NEW r \in Runs, NEW n \in 1..(L - 1), IsOf(w[n], r), w[n].kind # "open"
        PROVE  IsOpen(r)' \/ \E m \in 1..(L - 1) : m < n /\ w[m].kind = "open" /\ IsOf(w[m], r)
    <2>1. CASE IsOf(h, r)
      <3>1. h.kind # "close"
        BY <1>5, <1>6, <2>1
      <3>. QED
        BY <2>1, <3>1 DEF h
    <2>2. CASE ~IsOf(h, r)
      <3>1. n + 1 \in DOMAIN queue /\ w[n] = queue[n + 1]
        BY <1>1, <1>2
      <3>2. IsOpen(r) \/ \E m \in DOMAIN queue : m < n + 1 /\ queue[m].kind = "open"
              /\ IsOf(queue[m], r)
        BY <1>6, <3>1 DEF ItemsInv
      <3>3. ASSUME NEW m \in 1..L, m < n + 1, queue[m].kind = "open", IsOf(queue[m], r)
            PROVE  \E l \in 1..(L - 1) : l < n /\ w[l].kind = "open" /\ IsOf(w[l], r)
        <4>1. m # 1
          BY <1>1, <2>2, <3>3
        <4>2. m - 1 \in 1..(L - 1) /\ m - 1 < n /\ m - 1 + 1 = m
          BY <1>1, <3>3, <4>1
        <4>3. w[m - 1] = queue[m]
          BY <1>1, <4>2
        <4>. QED
          BY <3>3, <4>2, <4>3
      <3>. QED
        BY <1>1, <2>2, <3>2, <3>3 DEF h
    <2>. QED
      BY <2>1, <2>2
  <1>7. ASSUME NEW n \in 1..(L - 1), w[n].kind = "stop" PROVE n = L - 1
    <2>1. n + 1 \in DOMAIN queue /\ w[n] = queue[n + 1]
      BY <1>1, <1>2
    <2>2. n + 1 = Len(queue)
      BY <1>7, <2>1 DEF ItemsInv
    <2>3. n + 1 = L
      BY <2>2 DEF L
    <2>4. L \in Nat /\ n \in Int
      BY <1>1
    <2>. QED
      BY <2>3, <2>4
  <1>8. \A r \in Runs : \A m, n \in DOMAIN queue' :
          m < n /\ IsOf(queue'[m], r) /\ IsOf(queue'[n], r) =>
            queue'[m].kind # "close" /\ queue'[n].kind # "open"
    BY <1>1, <1>3, <1>4
  <1>9. \A r \in Runs : \A n \in DOMAIN queue' : IsOf(queue'[n], r) /\ queue'[n].kind # "open" =>
          IsOpen(r)' \/ \E m \in DOMAIN queue' : m < n /\ queue'[m].kind = "open"
            /\ IsOf(queue'[m], r)
    BY <1>1, <1>3, <1>6
  <1>10. \A n \in DOMAIN queue' : queue'[n].kind = "stop" => n = Len(queue')
    BY <1>1, <1>3, <1>7
  <1>11. ItemsInv'
    BY <1>8, <1>9, <1>10 DEF ItemsInv, IsOf
  <1>12. ASSUME NEW r \in Runs, IsOf(h, r) PROVE ~Queued("open", r)'
    BY <1>1, <1>3, <1>5, <1>12 DEF Queued, IsOf
  <1>13. ASSUME NEW r \in Runs, IsOf(h, r), h.kind = "close", NEW n \in DOMAIN queue'
         PROVE  ~IsOf(queue'[n], r)
    BY <1>1, <1>3, <1>5, <1>13
  <1>. QED
    BY <1>11, <1>12, <1>13 DEF h

\* A sum over the queue is a number, and grows from item to item.
LEMMA CarriedIsNat ==
  ASSUME NEW q \in Seq(Items), NEW rs, NEW g \in [0..Len(q) -> Nat],
         g[0] = 0, \A n \in 1..Len(q) : g[n] = g[n - 1] + IqIn(q[n], rs)
  PROVE  \A n \in 1..Len(q) : IqIn(q[n], rs) \in Nat /\ g[1] <= g[n]
PROOF
  <1>1. Len(q) \in Nat /\ \A n \in 1..Len(q) : q[n] \in Items
    OBVIOUS
  <1>2. \A n \in 1..Len(q) : IqIn(q[n], rs) \in Nat
    BY <1>1, ItemIs
  <1>. DEFINE L == Len(q)
              S == {n \in 0..L : n >= 1 => g[1] <= g[n]}
  <1>3. 0 \in S
    BY <1>1
  <1>4. ASSUME NEW n \in 1..L, n - 1 \in S PROVE n \in S
    <2>1. g[n] = g[n - 1] + IqIn(q[n], rs) /\ IqIn(q[n], rs) \in Nat
      BY <1>2
    <2>2. n - 1 \in 0..L /\ n \in 0..L
      BY <1>1
    <2>3. g[n - 1] \in Nat /\ g[n] \in Nat
      BY <2>2
    <2>. HIDE DEF L
    <2>4. n = 1 \/ g[1] <= g[n - 1]
      BY <1>4
    <2>5. n = 1 => g[1] <= g[n]
      BY <2>3
    <2>6. g[1] \in Nat
      <3>1. 1 \in 0..L
        BY <1>1, <2>2 DEF L
      <3>. QED
        BY <3>1 DEF L
    <2>. QED
      BY <2>1, <2>2, <2>3, <2>4, <2>5, <2>6
  <1>5. \A n \in 0..L : n \in S
    <2>. HIDE DEF S
    <2>. QED
      BY <1>1, <1>3, <1>4, CountingUp
  <1>. QED
    BY <1>1, <1>2, <1>5

\* An empty queue, and one item.
LEMMA CarriesLittle ==
  ASSUME NEW rs
  PROVE  /\ Carries(<<>>, rs, 0)
         /\ \A item \in Items : Carries(<<item>>, rs, IqIn(item, rs))
PROOF
  <1>1. Carries(<<>>, rs, 0)
    <2>. DEFINE g == [n \in 0..0 |-> 0]
    <2>1. g \in [0..0 -> Nat] /\ g[0] = 0 /\ Len(<<>>) = 0
      OBVIOUS
    <2>. HIDE DEF g
    <2>. QED
      BY <2>1 DEF Carries
  <1>2. ASSUME NEW item \in Items PROVE Carries(<<item>>, rs, IqIn(item, rs))
    <2>. DEFINE q == <<item>>
                y == IqIn(item, rs)
                g == [n \in 0..1 |-> IF n = 0 THEN 0 ELSE y]
    <2>1. y \in Nat
      BY ItemIs
    <2>2. Len(q) = 1 /\ q[1] = item
      OBVIOUS
    <2>. HIDE DEF q
    <2>3. IqIn(q[1], rs) = y
      BY <2>2
    <2>. HIDE DEF y
    <2>4. g \in [0..1 -> Nat] /\ g[0] = 0 /\ g[1] = y
      BY <2>1
    <2>. HIDE DEF g
    <2>5. \A n \in 1..Len(q) : g[n] = g[n - 1] + IqIn(q[n], rs)
      BY <2>1, <2>2, <2>3, <2>4
    <2>6. Carries(q, rs, y)
      BY <2>2, <2>4, <2>5 DEF Carries
    <2>. QED
      BY <2>6 DEF q, y
  <1>. QED
    BY <1>1, <1>2

\* More items carry what they carry.
LEMMA CarriesMore ==
  ASSUME NEW q \in Seq(Items), NEW t \in Seq(Items), NEW rs, NEW x, NEW y,
         Carries(q, rs, x), Carries(t, rs, y)
  PROVE  x \in Nat /\ y \in Nat /\ Carries(q \o t, rs, x + y)
PROOF
  <1>. DEFINE a == Len(q)
              b == Len(t)
              w == q \o t
  <1>1. /\ a \in Nat /\ b \in Nat /\ Len(w) = a + b /\ w \in Seq(Items)
        /\ \A n \in 1..a : w[n] = q[n]
        /\ \A n \in 1..(a + b) : n \in 1..a \/ (n - a \in 1..b /\ w[n] = t[n - a])
    BY Joining
  <1>2. PICK f \in [0..a -> Nat] : /\ f[0] = 0 /\ \A n \in 1..a : f[n] = f[n - 1] + IqIn(q[n], rs)
                                   /\ x = f[a]
    BY DEF Carries
  <1>3. PICK h \in [0..b -> Nat] : /\ h[0] = 0 /\ \A n \in 1..b : h[n] = h[n - 1] + IqIn(t[n], rs)
                                   /\ y = h[b]
    BY DEF Carries
  <1>. HIDE DEF a, b, w
  <1>4. a \in 0..a /\ b \in 0..b /\ 0 \in 0..b
    BY <1>1
  <1>5. x \in Nat /\ y \in Nat
    BY <1>2, <1>3, <1>4
  <1>. DEFINE g == [n \in 0..(a + b) |-> IF n <= a THEN f[n] ELSE x + h[n - a]]
  <1>6. \A n \in 0..(a + b) : n <= a => n \in 0..a
    BY <1>1
  <1>7. \A n \in 0..(a + b) : ~(n <= a) => n - a \in 0..b
    BY <1>1
  <1>8. g \in [0..(a + b) -> Nat]
    BY <1>5, <1>6, <1>7
  <1>9. /\ \A n \in 0..(a + b) : n <= a => g[n] = f[n]
        /\ \A n \in 0..(a + b) : ~(n <= a) => g[n] = x + h[n - a]
    OBVIOUS
  <1>. HIDE DEF g
  <1>10. \A n \in 0..(a + b) : n >= a => g[n] = x + h[n - a]
    <2>1. ASSUME NEW n \in 0..(a + b), n = a PROVE g[n] = x + h[n - a]
      <3>1. g[n] = f[a] /\ n - a = 0
        BY <1>1, <1>9, <2>1
      <3>. QED
        BY <1>2, <1>3, <1>5, <3>1
    <2>2. a \in Int /\ b \in Int
      BY <1>1
    <2>3. \A n \in 0..(a + b) : n >= a => n = a \/ ~(n <= a)
      BY <2>2
    <2>. QED
      BY <1>9, <2>1, <2>3
  <1>11. g[0] = 0
    BY <1>1, <1>2, <1>9
  <1>12. ASSUME NEW n \in 1..(a + b) PROVE g[n] = g[n - 1] + IqIn(w[n], rs)
    <2>1. n \in 0..(a + b) /\ n - 1 \in 0..(a + b)
      BY <1>1
    <2>2. CASE n \in 1..a
      <3>1. g[n] = f[n] /\ g[n - 1] = f[n - 1] /\ w[n] = q[n]
        BY <1>1, <1>9, <2>1, <2>2
      <3>. QED
        BY <1>2, <2>2, <3>1
    <2>3. CASE n \notin 1..a
      <3>1. n - a \in 1..b /\ w[n] = t[n - a] /\ n >= a /\ n - 1 >= a /\ (n - 1) - a = (n - a) - 1
        BY <1>1, <2>3
      <3>2. g[n] = x + h[n - a] /\ g[n - 1] = x + h[(n - a) - 1]
        BY <1>10, <2>1, <3>1
      <3>3. h[n - a] = h[(n - a) - 1] + IqIn(t[n - a], rs)
        BY <1>3, <3>1
      <3>4. (n - a) - 1 \in 0..b /\ h[(n - a) - 1] \in Nat
        BY <1>1, <1>3, <3>1
      <3>5. w[n] \in Items
        BY <1>1
      <3>6. IqIn(t[n - a], rs) \in Nat
        BY <3>1, <3>5, ItemIs
      <3>. QED
        BY <1>5, <3>1, <3>2, <3>3, <3>4, <3>6
    <2>. QED
      BY <2>2, <2>3
  <1>13. g[a + b] = x + y
    <2>1. a + b \in 0..(a + b) /\ a + b >= a /\ (a + b) - a = b
      BY <1>1
    <2>2. g[a + b] = x + h[(a + b) - a]
      BY <1>10, <2>1
    <2>. QED
      BY <1>3, <2>1, <2>2
  <1>14. Carries(w, rs, x + y)
    BY <1>1, <1>8, <1>11, <1>12, <1>13 DEF Carries
  <1>. QED
    BY <1>5, <1>14 DEF w

\* The items after the first carry what the first does not.
LEMMA CarriesLess ==
  ASSUME NEW q \in Seq(Items), q # <<>>, NEW rs, NEW x, Carries(q, rs, x)
  PROVE  /\ x \in Nat /\ IqIn(Head(q), rs) \in Nat /\ IqIn(Head(q), rs) <= x
         /\ Carries(Tail(q), rs, x - IqIn(Head(q), rs))
PROOF
  <1>. DEFINE L == Len(q)
              w == Tail(q)
              y == IqIn(Head(q), rs)
  <1>1. /\ L \in Nat \ {0} /\ Head(q) = q[1] /\ Head(q) \in Items
        /\ Len(w) = L - 1 /\ \A n \in 1..(L - 1) : w[n] = q[n + 1]
    BY Unjoining
  <1>2. PICK f \in [0..L -> Nat] : /\ f[0] = 0 /\ \A n \in 1..L : f[n] = f[n - 1] + IqIn(q[n], rs)
                                   /\ x = f[L]
    BY DEF Carries
  <1>3. \A n \in 1..L : IqIn(q[n], rs) \in Nat /\ f[1] <= f[n]
    BY <1>2, CarriedIsNat
  <1>4. y \in Nat
    BY <1>1, ItemIs
  <1>. HIDE DEF L, w
  <1>5. 1 \in 1..L /\ L \in 1..L /\ L \in 0..L /\ 1 \in 0..L /\ 1 - 1 = 0
    BY <1>1
  <1>6. f[1] = y
    <2>1. f[1] = f[1 - 1] + IqIn(q[1], rs)
      BY <1>2, <1>5
    <2>. QED
      BY <1>1, <1>2, <1>4, <1>5, <2>1
  <1>. HIDE DEF y
  <1>7. x \in Nat /\ y <= x
    BY <1>2, <1>3, <1>5, <1>6
  <1>. DEFINE g == [n \in 0..(L - 1) |-> f[n + 1] - y]
  <1>8. \A n \in 0..(L - 1) : n + 1 \in 1..L /\ n + 1 \in 0..L
    BY <1>1
  <1>9. \A n \in 0..(L - 1) : f[n + 1] \in Nat /\ y <= f[n + 1]
    BY <1>2, <1>3, <1>6, <1>8
  <1>10. g \in [0..(L - 1) -> Nat]
    BY <1>4, <1>9
  <1>11. \A n \in 0..(L - 1) : g[n] = f[n + 1] - y
    OBVIOUS
  <1>. HIDE DEF g
  <1>12. g[0] = 0
    <2>1. 0 \in 0..(L - 1) /\ 0 + 1 = 1
      BY <1>1
    <2>2. g[0] = f[0 + 1] - y
      BY <1>11, <2>1
    <2>. QED
      BY <1>4, <1>6, <2>1, <2>2
  <1>13. g[L - 1] = x - y
    <2>1. L - 1 \in 0..(L - 1) /\ (L - 1) + 1 = L
      BY <1>1
    <2>2. g[L - 1] = f[(L - 1) + 1] - y
      BY <1>11, <2>1
    <2>. QED
      BY <1>2, <2>1, <2>2
  <1>14. ASSUME NEW n \in 1..(L - 1) PROVE g[n] = g[n - 1] + IqIn(w[n], rs)
    <2>1. n \in 0..(L - 1) /\ n - 1 \in 0..(L - 1) /\ n + 1 \in 1..L /\ (n - 1) + 1 = n
            /\ (n + 1) - 1 = n
      BY <1>1
    <2>2. g[n] = f[n + 1] - y
      BY <1>11, <2>1
    <2>3. g[n - 1] = f[n] - y
      <3>1. g[n - 1] = f[(n - 1) + 1] - y
        BY <1>11, <2>1
      <3>. QED
        BY <2>1, <3>1
    <2>4. f[n + 1] = f[n] + IqIn(w[n], rs)
      <3>1. f[n + 1] = f[(n + 1) - 1] + IqIn(q[n + 1], rs)
        BY <1>2, <2>1
      <3>. QED
        BY <1>1, <2>1, <3>1
    <2>5. f[n] \in Nat
      BY <1>9, <2>1
    <2>6. IqIn(w[n], rs) \in Nat
      <3>1. w[n] = q[n + 1]
        BY <1>1
      <3>. QED
        BY <1>3, <2>1, <3>1
    <2>. QED
      BY <1>4, <2>2, <2>3, <2>4, <2>5, <2>6
  <1>15. Carries(w, rs, x - y)
    BY <1>1, <1>10, <1>12, <1>13, <1>14 DEF Carries
  <1>. QED
    BY <1>4, <1>7, <1>15 DEF w, y

\* Items without IQ of the runs carry nothing of it.
LEMMA CarriesNothing ==
  ASSUME NEW t \in Seq(Items), NEW rs, \A n \in DOMAIN t : IqIn(t[n], rs) = 0
  PROVE  Carries(t, rs, 0)
PROOF
  <1>. DEFINE L == Len(t)
              g == [n \in 0..L |-> 0]
  <1>1. L \in Nat /\ \A n \in 1..L : IqIn(t[n], rs) = 0
    OBVIOUS
  <1>. HIDE DEF L
  <1>2. g \in [0..L -> Nat] /\ \A n \in 0..L : g[n] = 0
    OBVIOUS
  <1>. HIDE DEF g
  <1>3. \A n \in 1..L : n \in 0..L /\ n - 1 \in 0..L
    BY <1>1
  <1>4. g[0] = 0 /\ g[L] = 0 /\ \A n \in 1..L : g[n] = g[n - 1] + IqIn(t[n], rs)
    BY <1>1, <1>2, <1>3
  <1>. QED
    BY <1>2, <1>4 DEF Carries, L

-----------------------------------------------------------------------------
(* The parts of the invariant, when their variables stay.                  *)

\* The book.
LEMMA BookSame ==
  ASSUME BookInv, UNCHANGED <<book, table, last, plan>>
  PROVE  BookInv'
PROOF
  BY DEF BookInv, IsInjective

\* What is ahead.
LEMMA AheadSame ==
  ASSUME AheadInv, UNCHANGED <<last, latest, rows, saving, cut, files, queue>>
  PROVE  AheadInv'
PROOF
  BY DEF AheadInv, Come, OnItsWay, IsOpen, IsOf

\* The outcomes on their way.
LEMMA SavesSame ==
  ASSUME SavesInv, UNCHANGED <<saving, latest, rows, failedSaves>>
  PROVE  SavesInv'
PROOF
  BY DEF SavesInv

\* Their order.
LEMMA OrderSame ==
  ASSUME OrderInv, UNCHANGED <<last, rows, failedSaves, saving, created>>
  PROVE  OrderInv'
PROOF
  BY DEF OrderInv, Come, Answered, OnItsWay, Early, Before

\* The stage a run is at.
LEMMA StageSame ==
  ASSUME Types, StageInv, UNCHANGED <<cut, latest, queue, files>>, now' \in Int, now <= now'
  PROVE  StageInv'
PROOF
  <1>1. ASSUME NEW r \in Runs, StartOf(r) <= now PROVE StartOf(r) <= now'
    <2>1. StartOf(r) \in Int /\ now \in Int
      BY RunIs DEF Types
    <2>. QED
      BY <1>1, <2>1
  <1>2. \A r, kind : (Queued(kind, r)' <=> Queued(kind, r)) /\ (IsOpen(r)' <=> IsOpen(r))
    BY DEF Queued, IsOpen, IsOf
  <1>. QED
    BY <1>1, <1>2 DEF StageInv

\* The items.
LEMMA ItemsSame ==
  ASSUME ItemsInv, UNCHANGED <<queue, files>>
  PROVE  ItemsInv'
PROOF
  BY DEF ItemsInv, IsOpen, IsOf

\* The threads.
LEMMA ThreadsSame ==
  ASSUME ThreadsInv, UNCHANGED <<queue, rx, writer, cut, todo, now, marked>>
  PROVE  ThreadsInv'
PROOF
  BY DEF ThreadsInv

\* The accounts.
LEMMA AccountsSame ==
  ASSUME AccountsInv, UNCHANGED <<queue, inFlight, files, cut>>
  PROVE  AccountsInv'
PROOF
  <1>1. /\ \A rs, x : Carries(queue', rs, x) <=> Carries(queue, rs, x)
        /\ \A r : Had(r)' = Had(r)
    BY DEF Carries, Had, Queued, IsOf
  <1>. QED
    BY <1>1 DEF AccountsInv, IsOf

\* The files.
LEMMA FilesSame ==
  ASSUME FilesInv,
         UNCHANGED <<queue, begun, lostSaves, failedSaves, rows, saving, files, latest>>
  PROVE  FilesInv'
PROOF
  BY DEF FilesInv, Queued, IsOf, Lost, Answered, OnItsWay, Outcome

\* The plans.
LEMMA PlansSame ==
  ASSUME PlansInv, UNCHANGED <<marked, stale, plan, last, table, rx, now, ringFrom>>
  PROVE  PlansInv'
PROOF
  BY DEF PlansInv

\* What is behind them.
LEMMA BehindSame ==
  ASSUME BehindInv, UNCHANGED <<table, plan, last, created, rx, marked, now>>
  PROVE  BehindInv'
PROOF
  BY DEF BehindInv, Come, Early

-----------------------------------------------------------------------------
(* The owner, and the table.                                               *)

\* A schedule is added.
LEMMA AddKeeps ==
  ASSUME ScheduleInv, NEW i \in Ids, Add(i)
  PROVE  ScheduleInv'
PROOF
  <1>1. /\ Types /\ BookInv /\ AheadInv /\ SavesInv /\ StageInv /\ ItemsInv /\ ThreadsInv
        /\ AccountsInv /\ FilesInv /\ PlansInv
        /\ "late_add" \notin happens => OrderInv /\ BehindInv
    BY DEF ScheduleInv
  <1>2. PICK t \in {now, now + 1} :
          /\ rx = "off" => t = now
          /\ rx = "feed" => t = now + 1
          /\ created' = [created EXCEPT ![i] = t]
    BY DEF Add
  <1>3. /\ table[i] = "none" /\ table' = [table EXCEPT ![i] = "live"]
        /\ book' = Append(book, i) /\ stale' = TRUE
        /\ UNCHANGED <<now, rows, last, latest, saving, cut, rx, todo, ringFrom, plan, marked,
                       queue, inFlight, files, writer, happens, stops, deaths, failedSaves,
                       lostSaves, begun>>
    BY DEF Add, recVars, diskVars, histVars
  <1>4. now \in Nat /\ t \in Nat /\ now <= t
    BY <1>1 DEF Types
  <1>5. Types'
    BY <1>1, <1>2, <1>3, <1>4 DEF Types
  <1>6. BookInv'
    <2>. DEFINE L == Len(book)
    <2>1. /\ L \in Nat /\ DOMAIN book = 1..L /\ DOMAIN book' = 1..(L + 1) /\ book'[L + 1] = i
          /\ \A n \in 1..L : book'[n] = book[n]
      BY <1>1, <1>3 DEF Types
    <2>. HIDE DEF L
    <2>2. \A n \in 1..(L + 1) : n \in 1..L \/ n = L + 1
      BY <2>1
    <2>3. \A n \in 1..L : n \in 1..(L + 1) /\ n # L + 1
      BY <2>1
    <2>4. L + 1 \in 1..(L + 1)
      BY <2>1
    <2>5. \A n \in 1..L : book[n] # i
      BY <1>1, <1>3, <2>1 DEF BookInv
    <2>6. IsInjective(book')
      BY <1>1, <2>1, <2>2, <2>3, <2>5 DEF BookInv, IsInjective
    <2>7. ASSUME NEW j \in Ids PROVE (\E n \in DOMAIN book' : book'[n] = j) <=> table'[j] = "live"
      <3>1. CASE j = i
        BY <1>1, <1>3, <2>1, <2>4, <3>1 DEF Types
      <3>2. CASE j # i
        <4>1. table'[j] = table[j]
          BY <1>1, <1>3, <3>2 DEF Types
        <4>2. (\E n \in 1..L : book[n] = j) <=> table[j] = "live"
          BY <1>1, <2>1 DEF BookInv
        <4>. QED
          BY <2>1, <2>2, <2>3, <3>2, <4>1, <4>2
      <3>. QED
        BY <3>1, <3>2
    <2>8. \A j \in Ids : table'[j] = "none" => table[j] = "none"
      BY <1>1, <1>3 DEF Types
    <2>. QED
      BY <1>1, <1>3, <2>6, <2>7, <2>8 DEF BookInv
  <1>7. \A r \in Runs : r[1] # i => created'[r[1]] = created[r[1]]
    BY <1>1, <1>2, RunIs DEF Types
  <1>8. \A r \in Runs : r[1] = i => ~Come(r) /\ plan[r[1]] = Unplanned
    BY <1>1, <1>3, RunIs DEF BookInv, Come, NoRun
  <1>9. ASSUME OrderInv PROVE OrderInv'
    <2>1. \A r \in Runs : r[1] = i => ~Come(r) /\ rows[r] = "none" /\ ~OnItsWay(r)
      BY <1>1, <1>8 DEF AheadInv
    <2>2. \A r \in Runs : r[1] # i => (Early(r)' <=> Early(r))
      BY <1>3, <1>7 DEF Early
    <2>3. \A r \in Runs : (Come(r)' <=> Come(r)) /\ (Answered(r)' <=> Answered(r))
      BY <1>3 DEF Come, Answered, OnItsWay
    <2>4. \A r \in Runs : Come(r) => Answered(r)' \/ Early(r)'
      BY <1>9, <2>1, <2>2, <2>3 DEF OrderInv
    <2>5. \A r, s \in Runs : Before(s, r) => s[1] = r[1]
      BY DEF Before
    <2>6. \A r, s \in Runs : Before(s, r) /\ rows[r] # "none" =>
            rows[s] # "none" \/ s \in failedSaves \/ Early(s)'
      BY <1>9, <2>1, <2>2, <2>5 DEF OrderInv
    <2>7. \A n \in DOMAIN saving : saving[n].run \in Runs /\ saving[n].run[1] # i
      <3>1. \A n \in DOMAIN saving : saving[n].run \in Runs
        BY <1>1, ReportIs DEF Types
      <3>. QED
        BY <2>1, <3>1 DEF OnItsWay
    <2>8. \A n \in DOMAIN saving : \A s \in Runs : Before(s, saving[n].run) =>
            \/ rows[s] # "none" \/ s \in failedSaves \/ Early(s)'
            \/ \E m \in DOMAIN saving : m < n /\ saving[m].run = s
      BY <1>9, <2>2, <2>5, <2>7 DEF OrderInv
    <2>. QED
      BY <1>3, <2>3, <2>4, <2>6, <2>8 DEF OrderInv, Before
  <1>10. PlansInv'
    BY <1>1, <1>3 DEF PlansInv
  <1>11. ASSUME BehindInv PROVE BehindInv'
    <2>1. \A r \in Runs : r[1] # i => (Early(r)' <=> Early(r)) /\ table'[r[1]] = table[r[1]]
      BY <1>1, <1>3, <1>7, RunIs DEF Early, Types
    <2>2. \A r \in Runs : Come(r)' <=> Come(r)
      BY <1>3 DEF Come
    <2>3. ASSUME NEW r \in Runs, table'[r[1]] = "live", r[2] < plan[r[1]] \/ plan[r[1]] = NoRun
          PROVE  Come(r)' \/ Early(r)'
      <3>1. r[1] # i
        <4>1. r[2] \in Nat
          BY RunIs
        <4>. QED
          BY <1>8, <2>3, <4>1 DEF Unplanned, NoRun
      <3>. QED
        BY <1>11, <2>1, <2>2, <2>3, <3>1 DEF BehindInv
    <2>4. ASSUME rx # "off", marked, NEW j \in Ids, table'[j] = "live", plan[j] = Unplanned
          PROVE  now <= created'[j] /\ (now < created'[j] \/ rx # "feed")
      <3>1. CASE j = i
        <4>1. created'[j] = t
          BY <1>1, <1>2, <3>1 DEF Types
        <4>2. rx = "feed" => now < t
          BY <1>2, <1>4
        <4>. QED
          BY <1>4, <4>1, <4>2
      <3>2. CASE j # i
        <4>1. created'[j] = created[j] /\ table'[j] = table[j]
          BY <1>1, <1>2, <1>3, <3>2 DEF Types
        <4>. QED
          BY <1>11, <2>4, <4>1 DEF BehindInv
      <3>. QED
        BY <3>1, <3>2
    <2>. QED
      BY <1>3, <2>3, <2>4 DEF BehindInv
  <1>12. AheadInv' /\ SavesInv' /\ ItemsInv' /\ ThreadsInv' /\ AccountsInv' /\ FilesInv'
    BY <1>1, <1>3, AheadSame, SavesSame, ItemsSame, ThreadsSame, AccountsSame, FilesSame
  <1>13. StageInv'
    BY <1>1, <1>3, <1>4, StageSame
  <1>. QED
    BY <1>1, <1>3, <1>5, <1>6, <1>9, <1>10, <1>11, <1>12, <1>13 DEF ScheduleInv

\* A schedule is deleted.
LEMMA DeleteKeeps ==
  ASSUME ScheduleInv, NEW i \in Ids, Delete(i)
  PROVE  ScheduleInv'
PROOF
  <1>1. /\ Types /\ BookInv /\ AheadInv /\ SavesInv /\ StageInv /\ ItemsInv /\ ThreadsInv
        /\ AccountsInv /\ FilesInv /\ PlansInv
        /\ "late_add" \notin happens => OrderInv /\ BehindInv
    BY DEF ScheduleInv
  <1>2. PICK n \in DOMAIN book : book[n] = i /\ book' = RemoveAt(book, n)
    BY DEF Delete
  <1>3. /\ table[i] = "live" /\ table' = [table EXCEPT ![i] = "deleted"] /\ stale' = TRUE
        /\ UNCHANGED <<now, created, rows, last, latest, saving, cut, rx, todo, ringFrom, plan,
                       marked, queue, inFlight, files, writer, happens, stops, deaths, failedSaves,
                       lostSaves, begun>>
    BY DEF Delete, recVars, diskVars, histVars
  <1>4. /\ book' \in Seq(Ids) /\ IsInjective(book')
        /\ \A j \in Ids : (\E m \in DOMAIN book' : book'[m] = j)
                            <=> j # i /\ \E m \in DOMAIN book : book[m] = j
    <2>1. book \in Seq(Ids) /\ IsInjective(book)
      BY <1>1 DEF Types, BookInv
    <2>2. /\ RemoveAt(book, n) \in Seq(Ids) /\ IsInjective(RemoveAt(book, n))
          /\ \A j \in Ids : (\E m \in DOMAIN RemoveAt(book, n) : RemoveAt(book, n)[m] = j)
                              <=> j # book[n] /\ \E m \in DOMAIN book : book[m] = j
      BY <2>1, Removing
    <2>. QED
      BY <1>2, <2>2
  <1>5. /\ table'[i] = "deleted" /\ \A j \in Ids : j # i => table'[j] = table[j]
        /\ table' \in [Ids -> {"none", "live", "deleted"}]
    BY <1>1, <1>3 DEF Types
  <1>6. Types'
    BY <1>1, <1>3, <1>4, <1>5 DEF Types
  <1>7. BookInv'
    BY <1>1, <1>3, <1>4, <1>5 DEF BookInv
  <1>8. \A j \in Ids : table'[j] = "live" => table[j] = "live"
    BY <1>5
  <1>9. PlansInv'
    BY <1>1, <1>3 DEF PlansInv
  <1>10. ASSUME BehindInv PROVE BehindInv'
    <2>1. \A r \in Runs : (Come(r)' <=> Come(r)) /\ (Early(r)' <=> Early(r)) /\ r[1] \in Ids
      BY <1>3, RunIs DEF Come, Early
    <2>. QED
      BY <1>3, <1>8, <1>10, <2>1 DEF BehindInv
  <1>11. AheadInv' /\ SavesInv' /\ ItemsInv' /\ ThreadsInv' /\ AccountsInv' /\ FilesInv'
    BY <1>1, <1>3, AheadSame, SavesSame, ItemsSame, ThreadsSame, AccountsSame, FilesSame
  <1>12. StageInv' /\ (OrderInv => OrderInv')
    <2>1. now \in Int /\ now <= now
      BY <1>1 DEF Types
    <2>. QED
      BY <1>1, <1>3, <2>1, StageSame, OrderSame
  <1>. QED
    BY <1>1, <1>3, <1>6, <1>7, <1>9, <1>10, <1>11, <1>12 DEF ScheduleInv

\* An outcome is saved, or is not.
LEMMA PersistKeeps ==
  ASSUME ScheduleInv, Persist
  PROVE  ScheduleInv'
PROOF
  <1>1. /\ Types /\ BookInv /\ AheadInv /\ SavesInv /\ StageInv /\ ItemsInv /\ ThreadsInv
        /\ AccountsInv /\ FilesInv /\ PlansInv
        /\ "late_add" \notin happens => OrderInv /\ BehindInv
    BY DEF ScheduleInv
  <1>. DEFINE o == Head(saving)
              L == Len(saving)
              w == Tail(saving)
  <1>2. saving # <<>> /\ saving' = w /\ saving \in Seq(Reports)
    BY <1>1 DEF Persist, Types
  <1>3. /\ L \in Nat \ {0} /\ DOMAIN saving = 1..L /\ o \in Reports /\ o = saving[1] /\ 1 \in 1..L
        /\ w \in Seq(Reports) /\ DOMAIN w = 1..(L - 1) /\ \A n \in 1..(L - 1) : w[n] = saving[n + 1]
    BY <1>2, Unjoining
  <1>4. o.run \in Runs /\ o.status \in Final \cup {"recording"}
    BY <1>3, ReportIs
  <1>5. /\ \/ rows' = [rows EXCEPT ![o.run] = o.status] /\ failedSaves' = failedSaves
           \/ failedSaves' = failedSaves \cup {o.run} /\ rows' = rows
        /\ UNCHANGED <<now, table, created, book, last, latest, stale, cut, rx, todo, ringFrom,
                       plan, marked, queue, inFlight, files, writer, happens, stops, deaths,
                       lostSaves, begun>>
    BY DEF Persist, recVars, diskVars
  <1>. HIDE DEF o, L, w
  <1>6. (\A n \in 1..(L - 1) : n + 1 \in 1..L /\ 1 < n + 1) /\ \A n \in 1..L :
          n = 1 \/ n - 1 \in 1..(L - 1)
    BY <1>3
  <1>7. /\ rows \in [Runs -> Final \cup {"none", "recording"}]
        /\ rows' \in [Runs -> Final \cup {"none", "recording"}]
        /\ failedSaves \subseteq failedSaves' /\ failedSaves' \subseteq Runs
        /\ \A r \in Runs : r # o.run => rows'[r] = rows[r]
             /\ (r \in failedSaves' <=> r \in failedSaves)
        /\ rows'[o.run] = o.status \/ (o.run \in failedSaves' /\ rows'[o.run] = rows[o.run])
    BY <1>1, <1>4, <1>5 DEF Types
  <1>8. Types'
    <2>1. saving' \in Seq(Reports)
      BY <1>2, <1>3
    <2>. QED
      BY <1>1, <1>5, <1>7, <2>1 DEF Types
  <1>9. \A r \in Runs : OnItsWay(r)' => OnItsWay(r)
    BY <1>2, <1>3, <1>6 DEF OnItsWay
  <1>10. \A r \in Runs : OnItsWay(r) => OnItsWay(r)' \/ r = o.run
    <2>1. ASSUME NEW n \in 1..L, saving[n].run # o.run
          PROVE  n - 1 \in DOMAIN saving' /\ saving'[n - 1] = saving[n]
      <3>1. n - 1 \in 1..(L - 1) /\ n - 1 + 1 = n
        BY <1>3, <1>6, <2>1
      <3>. QED
        BY <1>2, <1>3, <3>1
    <2>. QED
      BY <1>3, <2>1 DEF OnItsWay
  <1>11. OnItsWay(o.run)
    BY <1>3 DEF OnItsWay
  <1>12. AheadInv'
    <2>1. \A r \in Runs : (Come(r)' <=> Come(r)) /\ (IsOpen(r)' <=> IsOpen(r))
      BY <1>5 DEF Come, IsOpen
    <2>2. \A r \in Runs : ~Come(r) => r # o.run
      BY <1>1, <1>11 DEF AheadInv
    <2>. QED
      BY <1>1, <1>5, <1>7, <1>9, <2>1, <2>2 DEF AheadInv, IsOf
  <1>13. SavesInv'
    <2>1. ASSUME NEW m \in 1..(L - 1), NEW n \in 1..(L - 1), m < n, w[m].run = w[n].run
          PROVE  w[m].status = "recording" /\ w[n].status \in Final
      <3>1. m + 1 < n + 1 /\ m + 1 \in DOMAIN saving /\ n + 1 \in DOMAIN saving
            /\ w[m] = saving[m + 1] /\ w[n] = saving[n + 1]
        BY <1>3, <1>6, <2>1
      <3>. QED
        BY <1>1, <2>1, <3>1 DEF SavesInv
    <2>2. ASSUME NEW n \in 1..(L - 1)
          PROVE  /\ latest[w[n].run] # "none" /\ rows'[w[n].run] \notin Final
                 /\ rows'[w[n].run] # "none" => w[n].status \in Final
                 /\ w[n].status \in Final => w[n].status = latest[w[n].run]
      <3>1. 1 < n + 1 /\ 1 \in DOMAIN saving /\ n + 1 \in DOMAIN saving /\ w[n] = saving[n + 1]
        BY <1>3, <1>6
      <3>2. w[n].run \in Runs
        BY <1>3, ReportIs
      <3>3. /\ latest[w[n].run] # "none" /\ rows[w[n].run] \notin Final
            /\ rows[w[n].run] # "none" => w[n].status \in Final
            /\ w[n].status \in Final => w[n].status = latest[w[n].run]
        BY <1>1, <3>1 DEF SavesInv
      <3>4. CASE w[n].run = o.run
        <4>1. o.status = "recording" /\ w[n].status \in Final
          BY <1>1, <1>3, <3>1, <3>4 DEF SavesInv
        <4>2. "recording" \notin Final
          BY DEF Final
        <4>. QED
          BY <1>7, <3>3, <3>4, <4>1, <4>2
      <3>5. CASE w[n].run # o.run
        BY <1>7, <3>2, <3>3, <3>5
      <3>. QED
        BY <3>4, <3>5
    <2>3. ASSUME NEW r \in Runs
          PROVE /\ latest[r] = "recording" => rows'[r] \notin Final
                /\ latest[r] \in Final /\ rows'[r] \in Final => rows'[r] = latest[r]
                /\ latest[r] \in Final /\ r \notin failedSaves' =>
                     \/ rows'[r] = latest[r]
                     \/ \E n \in 1..(L - 1) : w[n] = [run |-> r, status |-> latest[r]]
      <3>1. /\ latest[r] = "recording" => rows[r] \notin Final
            /\ latest[r] \in Final /\ rows[r] \in Final => rows[r] = latest[r]
            /\ latest[r] \in Final /\ r \notin failedSaves =>
                 \/ rows[r] = latest[r]
                 \/ \E n \in 1..L : saving[n] = [run |-> r, status |-> latest[r]]
        BY <1>1, <1>3 DEF SavesInv
      <3>2. rows[o.run] \notin Final /\ (o.status \in Final => o.status = latest[o.run])
        BY <1>1, <1>3 DEF SavesInv
      <3>3. "recording" \notin Final
        BY DEF Final
      <3>4. ASSUME NEW n \in 1..L, saving[n] = [run |-> r, status |-> latest[r]]
            PROVE  (r = o.run /\ o.status = latest[r])
                   \/ \E m \in 1..(L - 1) : w[m] = [run |-> r, status |-> latest[r]]
        <4>1. CASE n = 1
          BY <1>3, <3>4, <4>1
        <4>2. CASE n # 1
          <5>1. n - 1 \in 1..(L - 1) /\ n - 1 + 1 = n
            BY <1>3, <1>6, <4>2
          <5>2. w[n - 1] = saving[n]
            BY <1>3, <5>1
          <5>. QED
            BY <3>4, <5>1, <5>2
        <4>. QED
          BY <4>1, <4>2
      <3>5. CASE r = o.run
        BY <1>7, <3>1, <3>2, <3>3, <3>4, <3>5
      <3>6. CASE r # o.run
        BY <1>7, <3>1, <3>4, <3>6
      <3>. QED
        BY <3>5, <3>6
    <2>. QED
      BY <1>2, <1>3, <1>5, <2>1, <2>2, <2>3 DEF SavesInv
  <1>14. \A r \in Runs : rows[r] # "none" \/ r \in failedSaves => rows'[r] # "none"
           \/ r \in failedSaves'
    <2>1. "none" \notin Final \cup {"recording"}
      BY DEF Final
    <2>. QED
      BY <1>4, <1>7, <2>1
  <1>15. rows'[o.run] # "none" \/ o.run \in failedSaves'
    <2>1. "none" \notin Final \cup {"recording"}
      BY DEF Final
    <2>. QED
      BY <1>4, <1>7, <2>1
  <1>16. \A r \in Runs : Answered(r) => Answered(r)'
    BY <1>10, <1>14, <1>15 DEF Answered
  <1>17. ASSUME OrderInv PROVE OrderInv'
    <2>1. \A r \in Runs : (Come(r)' <=> Come(r)) /\ (Early(r)' <=> Early(r))
      BY <1>5 DEF Come, Early
    <2>2. \A r \in Runs : Come(r)' => Answered(r)' \/ Early(r)'
      BY <1>16, <1>17, <2>1 DEF OrderInv
    <2>3. ASSUME NEW r \in Runs, NEW s \in Runs, Before(s, r), rows'[r] # "none"
          PROVE  rows'[s] # "none" \/ s \in failedSaves' \/ Early(s)
      <3>1. CASE rows[r] # "none"
        BY <1>14, <1>17, <2>3, <3>1 DEF OrderInv
      <3>2. CASE rows[r] = "none"
        <4>1. r = saving[1].run
          BY <1>3, <1>7, <2>3, <3>2
        <4>2. ~ \E m \in DOMAIN saving : m < 1 /\ saving[m].run = s
          BY <1>3
        <4>3. rows[s] # "none" \/ s \in failedSaves \/ Early(s)
          BY <1>3, <1>17, <2>3, <4>1, <4>2 DEF OrderInv
        <4>. QED
          BY <1>14, <4>3
      <3>. QED
        BY <3>1, <3>2
    <2>4. ASSUME NEW n \in 1..(L - 1), NEW s \in Runs, Before(s, w[n].run)
          PROVE  \/ rows'[s] # "none" \/ s \in failedSaves' \/ Early(s)
                 \/ \E m \in 1..(L - 1) : m < n /\ w[m].run = s
      <3>1. n + 1 \in DOMAIN saving /\ w[n] = saving[n + 1]
        BY <1>3, <1>6
      <3>2. \/ rows[s] # "none" \/ s \in failedSaves \/ Early(s)
            \/ \E m \in DOMAIN saving : m < n + 1 /\ saving[m].run = s
        BY <1>17, <2>4, <3>1 DEF OrderInv
      <3>3. ASSUME NEW m \in 1..L, m < n + 1, saving[m].run = s
            PROVE  s = o.run \/ \E l \in 1..(L - 1) : l < n /\ w[l].run = s
        <4>1. CASE m = 1
          BY <1>3, <3>3, <4>1
        <4>2. CASE m # 1
          <5>1. m - 1 \in 1..(L - 1) /\ m - 1 + 1 = m /\ m - 1 < n
            BY <1>3, <1>6, <3>3, <4>2
          <5>2. w[m - 1] = saving[m]
            BY <1>3, <5>1
          <5>. QED
            BY <3>3, <5>1, <5>2
        <4>. QED
          BY <4>1, <4>2
      <3>. QED
        BY <1>3, <1>14, <1>15, <3>2, <3>3
    <2>. QED
      BY <1>2, <1>3, <2>1, <2>2, <2>3, <2>4 DEF OrderInv, Before
  <1>18. FilesInv'
    <2>1. \A r \in Runs : Lost(r) => Lost(r)'
      BY <1>5, <1>7 DEF Lost
    <2>2. \A r \in Runs : Queued("open", r)' <=> Queued("open", r)
      BY <1>5 DEF Queued, IsOf
    <2>3. ASSUME NEW r \in Runs PROVE Outcome(r)' = Outcome(r)
      <3>1. latest[o.run] # "none"
        BY <1>1, <1>3 DEF SavesInv
      <3>. QED
        BY <1>5, <1>7, <3>1 DEF Outcome
    <2>. QED
      BY <1>1, <1>5, <1>16, <2>1, <2>2, <2>3 DEF FilesInv
  <1>19. BookInv' /\ ItemsInv' /\ ThreadsInv' /\ AccountsInv' /\ PlansInv'
           /\ (BehindInv => BehindInv')
    BY <1>1, <1>5, BookSame, ItemsSame, ThreadsSame, AccountsSame, PlansSame, BehindSame
  <1>20. StageInv'
    <2>1. now \in Int /\ now <= now
      BY <1>1 DEF Types
    <2>. QED
      BY <1>1, <1>5, <2>1, StageSame
  <1>. QED
    BY <1>1, <1>5, <1>8, <1>12, <1>13, <1>17, <1>18, <1>19, <1>20 DEF ScheduleInv

-----------------------------------------------------------------------------
(* Time, and a new pipeline.                                               *)

\* The receiver is through with a chunk.
LEMMA RxChunkDoneKeeps ==
  ASSUME ScheduleInv, RxChunkDone
  PROVE  ScheduleInv'
PROOF
  <1>1. /\ Types /\ BookInv /\ AheadInv /\ SavesInv /\ StageInv /\ ItemsInv /\ ThreadsInv
        /\ AccountsInv /\ FilesInv /\ PlansInv
        /\ "late_add" \notin happens => OrderInv /\ BehindInv
    BY DEF ScheduleInv
  <1>2. /\ rx = "feed" /\ todo = {} /\ rx' = "idle" /\ now' = now + 1
        /\ UNCHANGED <<table, created, rows, book, last, latest, saving, stale, cut, todo, ringFrom,
                       plan, marked, queue, inFlight, files, writer, happens, stops, deaths,
                       failedSaves, lostSaves, begun>>
    BY DEF RxChunkDone, bookVars, diskVars, histVars
  <1>3. now \in Nat /\ MaxTime \in Nat /\ now < MaxTime
    BY <1>1, <1>2, ScheduleAssumption DEF Types, ThreadsInv
  <1>4. Types'
    BY <1>1, <1>2, <1>3 DEF Types
  <1>5. ThreadsInv'
    BY <1>1, <1>2 DEF ThreadsInv
  <1>6. \A i \in Ids : RunStart(i, plan[i]) \in Int
    BY <1>1, RunsAre DEF Types
  <1>7. PlansInv'
    BY <1>1, <1>2, <1>3, <1>6 DEF PlansInv
  <1>8. ASSUME BehindInv PROVE BehindInv'
    <2>1. \A r \in Runs : (Come(r)' <=> Come(r)) /\ (Early(r)' <=> Early(r))
      BY <1>2 DEF Come, Early
    <2>2. \A i \in Ids : created[i] \in Nat
      BY <1>1 DEF Types
    <2>. QED
      BY <1>2, <1>3, <1>8, <2>1, <2>2 DEF BehindInv
  <1>9. /\ BookInv' /\ AheadInv' /\ SavesInv' /\ ItemsInv' /\ AccountsInv' /\ FilesInv'
        /\ (OrderInv => OrderInv')
    BY <1>1, <1>2, BookSame, AheadSame, SavesSame, ItemsSame, AccountsSame, FilesSame, OrderSame
  <1>10. StageInv'
    BY <1>1, <1>2, <1>3, StageSame
  <1>. QED
    BY <1>1, <1>2, <1>4, <1>5, <1>7, <1>8, <1>9, <1>10 DEF ScheduleInv

\* A new pipeline starts.
LEMMA PipelineStartKeeps ==
  ASSUME ScheduleInv, PipelineStart
  PROVE  ScheduleInv'
PROOF
  <1>1. /\ Types /\ BookInv /\ AheadInv /\ SavesInv /\ StageInv /\ ItemsInv /\ ThreadsInv
        /\ AccountsInv /\ FilesInv /\ PlansInv
        /\ "late_add" \notin happens => OrderInv /\ BehindInv
    BY DEF ScheduleInv
  <1>2. /\ rx = "off" /\ writer = "exited" /\ rx' = "idle" /\ marked' = FALSE /\ stale' = TRUE
        /\ plan' = [i \in Ids |-> Unplanned] /\ ringFrom' = now /\ writer' = "run"
        /\ UNCHANGED <<now, table, created, rows, book, last, latest, saving, cut, todo, queue,
                       inFlight, files, happens, stops, deaths, failedSaves, lostSaves, begun>>
    BY DEF PipelineStart, histVars
  <1>3. \A i \in Ids : plan'[i] = Unplanned
    BY <1>2
  <1>4. now \in Nat /\ now <= now
    BY <1>1 DEF Types
  <1>5. Types'
    <2>1. plan' \in [Ids -> Int] /\ \A i \in Ids : plan'[i] \in Unplanned..(TotalRuns(i) - 1)
      BY <1>2, RunsAre DEF Unplanned
    <2>. QED
      BY <1>1, <1>2, <1>4, <2>1 DEF Types
  <1>6. BookInv'
    BY <1>1, <1>2, <1>3 DEF BookInv, IsInjective
  <1>7. ThreadsInv'
    <2>1. queue = <<>>
      BY <1>1, <1>2 DEF ThreadsInv
    <2>2. \A n \in DOMAIN queue : FALSE
      BY <2>1
    <2>. QED
      BY <1>1, <1>2, <2>2 DEF ThreadsInv
  <1>8. PlansInv'
    BY <1>2, <1>3 DEF PlansInv, Unplanned
  <1>9. ASSUME BehindInv PROVE BehindInv'
    <2>1. \A r \in Runs : r[1] \in Ids /\ r[2] \in Nat
      BY RunIs
    <2>. QED
      BY <1>2, <1>3, <2>1 DEF BehindInv, Unplanned, NoRun
  <1>10. /\ AheadInv' /\ SavesInv' /\ ItemsInv' /\ AccountsInv' /\ FilesInv'
         /\ (OrderInv => OrderInv')
    BY <1>1, <1>2, AheadSame, SavesSame, ItemsSame, AccountsSame, FilesSame, OrderSame
  <1>11. StageInv'
    BY <1>1, <1>2, <1>4, StageSame
  <1>. QED
    BY <1>1, <1>2, <1>5, <1>6, <1>7, <1>8, <1>9, <1>10, <1>11 DEF ScheduleInv

\* Time passes without a pipeline.
LEMMA PassKeeps ==
  ASSUME ScheduleInv, Pass
  PROVE  ScheduleInv'
PROOF
  <1>1. /\ Types /\ BookInv /\ AheadInv /\ SavesInv /\ StageInv /\ ItemsInv /\ ThreadsInv
        /\ AccountsInv /\ FilesInv /\ PlansInv
        /\ "late_add" \notin happens => OrderInv /\ BehindInv
    BY DEF ScheduleInv
  <1>2. /\ rx = "off" /\ now < MaxTime /\ now' = now + 1
        /\ UNCHANGED <<table, created, rows, book, last, latest, saving, stale, cut, rx, todo,
                       ringFrom, plan, marked, queue, inFlight, files, writer, happens, stops,
                       deaths, failedSaves, lostSaves, begun>>
    BY DEF Pass, bookVars, recVars, diskVars, histVars
  <1>3. now \in Nat /\ MaxTime \in Nat
    BY <1>1, ScheduleAssumption DEF Types
  <1>4. Types'
    BY <1>1, <1>2, <1>3 DEF Types
  <1>5. ThreadsInv' /\ PlansInv'
    BY <1>1, <1>2 DEF ThreadsInv, PlansInv
  <1>6. ASSUME BehindInv PROVE BehindInv'
    <2>1. \A r \in Runs : (Come(r)' <=> Come(r)) /\ (Early(r)' <=> Early(r))
      BY <1>2 DEF Come, Early
    <2>. QED
      BY <1>2, <1>6, <2>1 DEF BehindInv
  <1>7. /\ BookInv' /\ AheadInv' /\ SavesInv' /\ ItemsInv' /\ AccountsInv' /\ FilesInv'
        /\ (OrderInv => OrderInv')
    BY <1>1, <1>2, BookSame, AheadSame, SavesSame, ItemsSame, AccountsSame, FilesSame, OrderSame
  <1>8. StageInv'
    BY <1>1, <1>2, <1>3, StageSame
  <1>. QED
    BY <1>1, <1>2, <1>4, <1>5, <1>6, <1>7, <1>8 DEF ScheduleInv

-----------------------------------------------------------------------------
(* The writer.                                                             *)

\* The writer takes the first item off the queue.
LEMMA WorkedOff ==
  ASSUME Types, ItemsInv, queue # <<>>, queue' = Tail(queue)
  PROVE  /\ queue \in Seq(Items) /\ queue' \in Seq(Items) /\ Head(queue) \in Items
         /\ Head(queue).kind \in {"open", "iq", "zeros", "close", "stop"}
         /\ Head(queue).kind # "stop" => Head(queue).run \in Runs
         /\ Head(queue).kind \in {"iq", "zeros"} => Head(queue).n \in Nat
         /\ \E n \in DOMAIN queue : queue[n] = Head(queue)
         /\ \A n \in DOMAIN queue' : \E m \in DOMAIN queue : queue'[n] = queue[m]
         /\ Head(queue).kind \in {"iq", "zeros", "close"} => IsOpen(Head(queue).run)
         /\ Head(queue).kind = "stop" => queue' = <<>>
PROOF
  <1>1. queue \in Seq(Items)
    BY DEF Types
  <1>2. /\ Len(queue) \in Nat \ {0} /\ DOMAIN queue = 1..Len(queue)
        /\ Head(queue) \in Items /\ Head(queue) = queue[1] /\ 1 \in DOMAIN queue
        /\ Tail(queue) \in Seq(Items) /\ Len(Tail(queue)) = Len(queue) - 1
        /\ DOMAIN Tail(queue) = 1..(Len(queue) - 1)
        /\ \A n \in 1..(Len(queue) - 1) : Tail(queue)[n] = queue[n + 1]
    BY <1>1, Unjoining
  <1>3. \A n \in 1..(Len(queue) - 1) : n + 1 \in 1..Len(queue)
    BY <1>2
  <1>4. \A n \in DOMAIN queue' : \E m \in DOMAIN queue : queue'[n] = queue[m]
    <2>. DEFINE L == Len(queue)
    <2>. HIDE DEF L
    <2>. QED
      BY <1>2, <1>3
  <1>5. ASSUME Head(queue).kind \in {"iq", "zeros", "close"} PROVE IsOpen(Head(queue).run)
    <2>1. Head(queue).run \in Runs /\ IsOf(queue[1], Head(queue).run) /\ queue[1].kind # "open"
      BY <1>2, <1>5, ItemIs DEF IsOf
    <2>2. ~ \E m \in DOMAIN queue : m < 1
      BY <1>2
    <2>. QED
      BY <1>2, <2>1, <2>2 DEF ItemsInv
  <1>6. ASSUME Head(queue).kind = "stop" PROVE queue' = <<>>
    <2>1. Len(queue) = 1
      BY <1>2, <1>6 DEF ItemsInv
    <2>2. Len(Tail(queue)) = 0
      BY <1>2, <2>1
    <2>. QED
      BY <1>2, <2>2
  <1>. QED
    BY <1>1, <1>2, <1>4, <1>5, <1>6, ItemIs

\* The writer's step, without what it does with the item.
LEMMA WriterStepIs ==
  ASSUME WriterStep
  PROVE  /\ writer = "run" /\ queue # <<>> /\ queue' = Tail(queue)
         /\ UNCHANGED <<now, table, created, rows, book, stale, cut, rx, todo, ringFrom, plan,
                        marked, happens, stops, deaths, failedSaves, lostSaves>>
         /\ \/ WriterOpens(Head(queue)) \/ WriterWrites(Head(queue))
            \/ WriterFinishes(Head(queue)) \/ WriterExits(Head(queue))
PROOF
  BY DEF WriterStep, recVars

\* What the queue still carries, once a file is opened or written to.
LEMMA AccountsShrink ==
  ASSUME Types, ItemsInv, AccountsInv, queue # <<>>, queue' = Tail(queue), cut' = cut,
         inFlight' = inFlight - IqIn(Head(queue), Runs), files' \in [Runs -> RunFiles],
         \A r \in Runs : Had(r)' <= Had(r) + IqIn(Head(queue), {r}),
         \A r \in Runs : \A n \in DOMAIN queue' : IsOf(queue'[n], r) => r \in Runs
  PROVE  AccountsInv' /\ inFlight' \in 0..Budget
PROOF
  <1>1. /\ queue \in Seq(Items) /\ queue' \in Seq(Items)
        /\ \A n \in DOMAIN queue' : \E m \in DOMAIN queue : queue'[n] = queue[m]
    BY WorkedOff
  <1>2. \A rs, x : Carries(queue, rs, x) =>
          /\ x \in Nat /\ IqIn(Head(queue), rs) \in Nat /\ IqIn(Head(queue), rs) <= x
          /\ Carries(queue', rs, x - IqIn(Head(queue), rs))
    BY <1>1, CarriesLess
  <1>3. Carries(queue', Runs, inFlight') /\ inFlight' \in 0..Budget
    <2>1. Carries(queue, Runs, inFlight) /\ inFlight \in 0..Budget /\ Budget \in Nat
      BY ScheduleAssumption DEF AccountsInv, Types
    <2>. QED
      BY <1>2, <2>1
  <1>4. \A r \in Runs : Had(r) \in Nat /\ Had(r)' \in Nat
    BY DEF Had, Types, RunFiles
  <1>5. ASSUME NEW r \in Runs, NEW x \in Nat, Carries(queue, {r}, x)
        PROVE \E y \in Nat : Carries(queue', {r}, y) /\ Had(r)' + y <= Had(r) + x
    <2>. DEFINE k == IqIn(Head(queue), {r})
                y == x - k
    <2>1. k \in Nat /\ k <= x /\ Carries(queue', {r}, y) /\ Had(r)' <= Had(r) + k
      BY <1>2, <1>5
    <2>. HIDE DEF k
    <2>2. y \in Nat /\ Had(r)' + y <= Had(r) + x
      BY <1>4, <2>1
    <2>. HIDE DEF y
    <2>. QED
      BY <2>1, <2>2
  <1>6. ASSUME NEW r \in Runs, cut[r] # NoCut
        PROVE  \E y \in Nat : Carries(queue', {r}, y)
                              /\ Had(r)' + y + cut[r].zeros + cut[r].refused <= cut[r].written
    <2>1. PICK x \in Nat : Carries(queue, {r}, x)
                           /\ Had(r) + x + cut[r].zeros + cut[r].refused <= cut[r].written
      BY <1>6 DEF AccountsInv
    <2>2. PICK y \in Nat : Carries(queue', {r}, y) /\ Had(r)' + y <= Had(r) + x
      BY <1>5, <2>1
    <2>3. cut[r].zeros \in Nat /\ cut[r].refused \in Nat /\ cut[r].written \in Nat
      BY <1>6 DEF Types, Cuts
    <2>4. Had(r)' + y + cut[r].zeros + cut[r].refused <= cut[r].written
      BY <1>4, <2>1, <2>2, <2>3
    <2>. QED
      BY <2>2, <2>4
  <1>7. ASSUME NEW r \in Runs, NEW n \in DOMAIN queue', IsOf(queue'[n], r),
               queue'[n].kind = "close", queue'[n].status = "partial"
        PROVE  \E y \in Nat : Carries(queue', {r}, y) /\ Had(r)' + y < Samples(r)
    <2>1. PICK m \in DOMAIN queue : queue'[n] = queue[m]
      BY <1>1
    <2>2. PICK x \in Nat : Carries(queue, {r}, x) /\ Had(r) + x < Samples(r)
      BY <1>7, <2>1 DEF AccountsInv
    <2>3. PICK y \in Nat : Carries(queue', {r}, y) /\ Had(r)' + y <= Had(r) + x
      BY <1>5, <2>2
    <2>4. Had(r)' + y < Samples(r)
      BY <1>4, <2>2, <2>3, RunIs
    <2>. QED
      BY <2>3, <2>4
  <1>8. Carries(queue, Runs, inFlight)' <=> Carries(queue', Runs, inFlight')
    BY DEF Carries, IqIn
  <1>9. \A r, y : Carries(queue, {r}, y)' <=> Carries(queue', {r}, y)
    BY DEF Carries, IqIn
  <1>. QED
    BY <1>3, <1>6, <1>7, <1>8, <1>9 DEF AccountsInv, IsOf

\* A file that is new, and one that is changed.
LEMMA FileIs ==
  /\ \A error \in BOOLEAN : LET v == [NoFile EXCEPT !.state = "open", !.error = error] IN
       v \in RunFiles /\ v.state = "open" /\ v.iq = 0
  /\ \A e \in RunFiles : \A k \in Nat : LET v == [e EXCEPT !.iq = @ + k] IN
       v \in RunFiles /\ v.state = e.state /\ v.iq = e.iq + k
  /\ \A e \in RunFiles : \A k \in Nat : LET v == [e EXCEPT !.zeros = @ + k] IN
       v \in RunFiles /\ v.state = e.state /\ v.iq = e.iq
  /\ \A e \in RunFiles : LET v == [e EXCEPT !.error = TRUE] IN
       v \in RunFiles /\ v.state = e.state /\ v.iq = e.iq
  /\ \A e \in RunFiles : \A s \in {"closed", "left"} : LET v == [e EXCEPT !.state = s] IN
       v \in RunFiles /\ v.state = s /\ v.iq = e.iq /\ v.zeros = e.zeros /\ v.error = e.error
  /\ \A e \in RunFiles : e.iq \in Nat /\ e.zeros \in Nat
PROOF
  <1>1. ASSUME NEW error \in BOOLEAN
        PROVE  LET v == [NoFile EXCEPT !.state = "open", !.error = error] IN
               v \in RunFiles /\ v.state = "open" /\ v.iq = 0
    BY DEF NoFile, RunFiles
  <1>2. ASSUME NEW e \in RunFiles, NEW k \in Nat
        PROVE  LET v == [e EXCEPT !.iq = @ + k] IN
               v \in RunFiles /\ v.state = e.state /\ v.iq = e.iq + k
    BY DEF RunFiles
  <1>3. ASSUME NEW e \in RunFiles, NEW k \in Nat
        PROVE  LET v == [e EXCEPT !.zeros = @ + k] IN
               v \in RunFiles /\ v.state = e.state /\ v.iq = e.iq
    BY DEF RunFiles
  <1>4. ASSUME NEW e \in RunFiles
        PROVE  LET v == [e EXCEPT !.error = TRUE] IN
               v \in RunFiles /\ v.state = e.state /\ v.iq = e.iq
    BY DEF RunFiles
  <1>5. ASSUME NEW e \in RunFiles, NEW s \in {"closed", "left"}
        PROVE  LET v == [e EXCEPT !.state = s] IN
               v \in RunFiles /\ v.state = s /\ v.iq = e.iq /\ v.zeros = e.zeros
                 /\ v.error = e.error
    BY DEF RunFiles
  <1>6. \A e \in RunFiles : e.iq \in Nat /\ e.zeros \in Nat
    BY DEF RunFiles
  <1>. QED
    BY <1>1, <1>2, <1>3, <1>4, <1>5, <1>6

\* A file is opened.
LEMMA WriterOpensKeeps ==
  ASSUME ScheduleInv, WriterStep, WriterOpens(Head(queue))
  PROVE  ScheduleInv'
PROOF
  <1>0. PICK h, f : h = Head(queue) /\ f = h.run
    OBVIOUS
  <1>1. /\ Types /\ BookInv /\ AheadInv /\ SavesInv /\ StageInv /\ ItemsInv /\ ThreadsInv
        /\ AccountsInv /\ FilesInv /\ PlansInv
        /\ "late_add" \notin happens => OrderInv /\ BehindInv
    BY DEF ScheduleInv
  <1>2. /\ writer = "run" /\ queue # <<>> /\ queue' = Tail(queue)
        /\ UNCHANGED <<now, table, created, rows, book, stale, cut, rx, todo, ringFrom, plan,
                       marked, happens, stops, deaths, failedSaves, lostSaves>>
    BY WriterStepIs
  <1>3. PICK error \in BOOLEAN :
          files' = [files EXCEPT ![f] = [NoFile EXCEPT !.state = "open", !.error = error]]
    BY <1>0 DEF WriterOpens
  <1>4. /\ h.kind = "open" /\ begun' = [begun EXCEPT ![f] = @ + 1]
        /\ UNCHANGED <<latest, last, saving, inFlight, writer>>
    BY <1>0 DEF WriterOpens
  <1>5. /\ queue \in Seq(Items) /\ queue' \in Seq(Items) /\ h \in Items /\ f \in Runs
        /\ \E n \in DOMAIN queue : queue[n] = h
        /\ \A n \in DOMAIN queue' : \E m \in DOMAIN queue : queue'[n] = queue[m]
    BY <1>0, <1>1, <1>2, <1>4, WorkedOff
  <1>6. \A r, kind : Queued(kind, r) <=> Queued(kind, r)' \/ (h.kind = kind /\ IsOf(h, r))
    BY <1>0, <1>2, <1>5, QueueShrinks
  <1>7. \A r : IsOf(h, r) <=> r = f
    BY <1>0, <1>4 DEF IsOf
  <1>8. /\ files' \in [Runs -> RunFiles] /\ \A r \in Runs : r # f => files'[r] = files[r]
        /\ files'[f].state = "open" /\ files'[f].iq = 0
        /\ begun' \in [Runs -> Nat] /\ \A r \in Runs : r # f => begun'[r] = begun[r]
        /\ begun'[f] = begun[f] + 1 /\ begun[f] \in Nat
    <2>. DEFINE v == [NoFile EXCEPT !.state = "open", !.error = error]
    <2>1. v \in RunFiles /\ v.state = "open" /\ v.iq = 0
      BY FileIs
    <2>2. files' = [files EXCEPT ![f] = v]
      BY <1>3
    <2>. HIDE DEF v
    <2>. QED
      BY <1>1, <1>4, <1>5, <2>1, <2>2 DEF Types
  <1>9. \A r \in Runs : IsOpen(r)' <=> IsOpen(r) \/ r = f
    BY <1>5, <1>8 DEF IsOpen
  <1>10. Types'
    BY <1>1, <1>2, <1>4, <1>5, <1>8 DEF Types
  <1>11. ItemsInv' /\ ~Queued("open", f)'
    <2>1. \A r \in Runs : IF IsOf(h, r) THEN h.kind # "close" => IsOpen(r)'
                          ELSE IsOpen(r) => IsOpen(r)'
      BY <1>7, <1>9
    <2>. QED
      BY <1>0, <1>1, <1>2, <1>5, <1>7, <2>1, ItemsShrink
  <1>12. Queued("open", f)
    BY <1>4, <1>6, <1>7
  <1>13. AheadInv'
    <2>1. Come(f)
      BY <1>1, <1>5, <1>7 DEF AheadInv
    <2>2. \A r \in Runs : ~Come(r) => \A n \in DOMAIN queue' : ~IsOf(queue'[n], r)
      BY <1>1, <1>5 DEF AheadInv
    <2>3. \A r \in Runs : Come(r)' <=> Come(r)
      BY <1>4 DEF Come
    <2>. QED
      BY <1>1, <1>2, <1>4, <1>9, <2>1, <2>2, <2>3 DEF AheadInv, OnItsWay, IsOf
  <1>14. StageInv'
    <2>1. \A r : Queued("close", r)' <=> Queued("close", r)
      BY <1>4, <1>6
    <2>2. \A r \in Runs : (Queued("open", r)' \/ IsOpen(r)') <=> (Queued("open", r) \/ IsOpen(r))
      BY <1>4, <1>6, <1>7, <1>9
    <2>. QED
      BY <1>1, <1>2, <1>4, <2>1, <2>2 DEF StageInv
  <1>15. ThreadsInv'
    BY <1>1, <1>2, <1>4, <1>5 DEF ThreadsInv
  <1>16. AccountsInv'
    <2>1. IqIn(h, Runs) = 0 /\ \A r \in Runs : IqIn(h, {r}) = 0
      BY <1>4 DEF IqIn
    <2>2. \A r \in Runs : Had(r) \in Nat /\ Had(r)' \in Nat
      BY <1>1, <1>8 DEF Had, Types, RunFiles
    <2>3. \A r \in Runs : Had(r)' = Had(r)
      <3>1. Had(f)' = 0 /\ Had(f) = 0
        BY <1>8, <1>11, <1>12 DEF Had
      <3>2. \A r \in Runs : r # f => Had(r)' = Had(r)
        BY <1>6, <1>7, <1>8 DEF Had
      <3>. QED
        BY <3>1, <3>2
    <2>4. inFlight' = inFlight - 0 /\ \A r \in Runs : Had(r)' <= Had(r) + 0
      BY <1>1, <1>4, <2>2, <2>3 DEF Types
    <2>. QED
      BY <1>0, <1>1, <1>2, <1>8, <2>1, <2>4, AccountsShrink
  <1>17. FilesInv'
    <2>1. \A r \in Runs : (Lost(r)' <=> Lost(r)) /\ (Answered(r)' <=> Answered(r))
            /\ Outcome(r)' = Outcome(r)
      BY <1>2, <1>4 DEF Lost, Answered, OnItsWay, Outcome
    <2>2. ASSUME NEW r \in Runs, r # f
          PROVE /\ Queued("open", r)' => (begun'[r] = 0 \/ Lost(r)) /\ (Answered(r) \/ Lost(r))
                /\ begun'[r] > 0 => Answered(r) \/ Lost(r)
                /\ begun'[r] > 1 => Lost(r)
                /\ files'[r].state # "none" => begun'[r] > 0
                /\ files'[r].state = "closed" =>
                     Lost(r) \/ (Outcome(r) \in Final /\ Honest(Outcome(r), files'[r], r))
      BY <1>1, <1>6, <1>8, <2>2 DEF FilesInv
    <2>3. /\ ~Queued("open", f)' /\ (Answered(f) \/ Lost(f)) /\ (begun'[f] > 1 => Lost(f))
          /\ begun'[f] > 0 /\ files'[f].state # "closed"
      BY <1>1, <1>5, <1>8, <1>11, <1>12 DEF FilesInv
    <2>. QED
      BY <2>1, <2>2, <2>3 DEF FilesInv
  <1>18. /\ BookInv' /\ SavesInv' /\ PlansInv' /\ (OrderInv => OrderInv')
              /\ (BehindInv => BehindInv')
    BY <1>1, <1>2, <1>4, BookSame, SavesSame, PlansSame, OrderSame, BehindSame
  <1>. QED
    BY <1>1, <1>2, <1>10, <1>11, <1>13, <1>14, <1>15, <1>16, <1>17, <1>18 DEF ScheduleInv

\* A file is written to.
LEMMA WriterWritesKeeps ==
  ASSUME ScheduleInv, WriterStep, WriterWrites(Head(queue))
  PROVE  ScheduleInv'
PROOF
  <1>0. PICK h, f : h = Head(queue) /\ f = h.run
    OBVIOUS
  <1>1. /\ Types /\ BookInv /\ AheadInv /\ SavesInv /\ StageInv /\ ItemsInv /\ ThreadsInv
        /\ AccountsInv /\ FilesInv /\ PlansInv
        /\ "late_add" \notin happens => OrderInv /\ BehindInv
    BY DEF ScheduleInv
  <1>2. /\ writer = "run" /\ queue # <<>> /\ queue' = Tail(queue)
        /\ UNCHANGED <<now, table, created, rows, book, stale, cut, rx, todo, ringFrom, plan,
                       marked, happens, stops, deaths, failedSaves, lostSaves>>
    BY WriterStepIs
  <1>. DEFINE written == IF h.kind = "iq" THEN [files[f] EXCEPT !.iq = @ + h.n]
                         ELSE [files[f] EXCEPT !.zeros = @ + h.n]
  <1>3. \/ files' = [files EXCEPT ![f] = IF files[f].error THEN files[f] ELSE written]
        \/ files' = [files EXCEPT ![f].error = TRUE]
    BY <1>0 DEF WriterWrites
  <1>4. /\ h.kind \in {"iq", "zeros"}
        /\ inFlight' = IF h.kind = "iq" THEN inFlight - h.n ELSE inFlight
        /\ UNCHANGED <<latest, last, saving, writer, begun>>
    BY <1>0 DEF WriterWrites
  <1>5. /\ queue \in Seq(Items) /\ queue' \in Seq(Items) /\ h \in Items /\ f \in Runs /\ h.n \in Nat
        /\ \E n \in DOMAIN queue : queue[n] = h
        /\ \A n \in DOMAIN queue' : \E m \in DOMAIN queue : queue'[n] = queue[m]
        /\ IsOpen(f)
    BY <1>0, <1>1, <1>2, <1>4, WorkedOff
  <1>6. \A r, kind : Queued(kind, r) <=> Queued(kind, r)' \/ (h.kind = kind /\ IsOf(h, r))
    BY <1>0, <1>2, <1>5, QueueShrinks
  <1>7. \A r : IsOf(h, r) <=> r = f
    BY <1>0, <1>4 DEF IsOf
  <1>8. /\ files' \in [Runs -> RunFiles] /\ \A r \in Runs : r # f => files'[r] = files[r]
        /\ files'[f].state = files[f].state
        /\ files[f].iq \in Nat /\ files'[f].iq \in Nat
        /\ files'[f].iq <= files[f].iq + (IF h.kind = "iq" THEN h.n ELSE 0)
    <2>. DEFINE e == files[f]
    <2>1. e \in RunFiles /\ files \in [Runs -> RunFiles]
      BY <1>1, <1>5 DEF Types
    <2>3. PICK v : files' = [files EXCEPT ![f] = v]
                   /\ (v = e \/ v = written \/ v = [e EXCEPT !.error = TRUE])
      BY <1>3
    <2>4. written = IF h.kind = "iq" THEN [e EXCEPT !.iq = @ + h.n]
            ELSE [e EXCEPT !.zeros = @ + h.n]
      OBVIOUS
    <2>. HIDE DEF written, e
    <2>5. /\ v \in RunFiles /\ v.state = e.state /\ e.iq \in Nat /\ v.iq \in Nat
          /\ v.iq <= e.iq + (IF h.kind = "iq" THEN h.n ELSE 0)
      <3>1. e.iq \in Nat /\ h.n \in Nat
        BY <1>5, <2>1, FileIs
      <3>2. CASE v = e
        BY <2>1, <3>1, <3>2
      <3>3. CASE v = written /\ h.kind = "iq"
        <4>1. v \in RunFiles /\ v.state = e.state /\ v.iq = e.iq + h.n
          BY <2>1, <2>4, <3>1, <3>3, FileIs
        <4>. QED
          BY <3>1, <3>3, <4>1
      <3>4. CASE v = written /\ h.kind # "iq"
        <4>1. v \in RunFiles /\ v.state = e.state /\ v.iq = e.iq
          BY <2>1, <2>4, <3>1, <3>4, FileIs
        <4>. QED
          BY <3>1, <3>4, <4>1
      <3>5. CASE v = [e EXCEPT !.error = TRUE]
        <4>1. v \in RunFiles /\ v.state = e.state /\ v.iq = e.iq
          BY <2>1, <3>5, FileIs
        <4>. QED
          BY <3>1, <4>1
      <3>. QED
        BY <2>3, <3>2, <3>3, <3>4, <3>5
    <2>6. files'[f] = v /\ \A r \in Runs : r # f => files'[r] = files[r]
      BY <1>5, <2>1, <2>3
    <2>7. files' \in [Runs -> RunFiles]
      BY <2>1, <2>3, <2>5
    <2>. QED
      BY <2>5, <2>6, <2>7 DEF e
  <1>9. \A r \in Runs : (IsOpen(r)' <=> IsOpen(r)) /\ files'[r].state = files[r].state
    BY <1>5, <1>8 DEF IsOpen
  <1>10. ItemsInv' /\ ~Queued("open", f)' /\ ~Queued("open", f)
    <2>1. \A r \in Runs : IF IsOf(h, r) THEN h.kind # "close" => IsOpen(r)'
                          ELSE IsOpen(r) => IsOpen(r)'
      BY <1>5, <1>7, <1>9
    <2>2. ItemsInv' /\ ~Queued("open", f)'
      BY <1>0, <1>1, <1>2, <1>5, <1>7, <2>1, ItemsShrink
    <2>. QED
      BY <1>4, <1>6, <2>2
  <1>11. \A r : /\ Queued("open", r)' <=> Queued("open", r)
                /\ Queued("close", r)' <=> Queued("close", r)
    BY <1>4, <1>6
  <1>12. AccountsInv' /\ inFlight' \in 0..Budget
    <2>1. /\ IqIn(h, Runs) = IF h.kind = "iq" THEN h.n ELSE 0
          /\ IqIn(h, {f}) = IF h.kind = "iq" THEN h.n ELSE 0
          /\ \A r \in Runs : r # f => IqIn(h, {r}) = 0
      BY <1>0, <1>5 DEF IqIn
    <2>2. \A r \in Runs : Had(r) \in Nat
      BY <1>1 DEF Had, Types, RunFiles
    <2>3. Had(f)' = files'[f].iq /\ Had(f) = files[f].iq
      BY <1>10 DEF Had
    <2>4. \A r \in Runs : r # f => Had(r)' = Had(r)
      BY <1>8, <1>11 DEF Had
    <2>5. \A r \in Runs : Had(r)' <= Had(r) + IqIn(h, {r})
      <3>1. Had(f)' <= Had(f) + IqIn(h, {f})
        BY <1>8, <2>1, <2>3
      <3>2. ASSUME NEW r \in Runs, r # f PROVE Had(r)' <= Had(r) + IqIn(h, {r})
        <4>1. Had(r)' = Had(r) /\ IqIn(h, {r}) = 0 /\ Had(r) \in Nat
          BY <2>1, <2>2, <2>4, <3>2
        <4>. QED
          BY <4>1
      <3>. QED
        BY <3>1, <3>2
    <2>6. inFlight' = inFlight - IqIn(h, Runs)
      <3>1. inFlight \in Int
        BY <1>1 DEF Types
      <3>. QED
        BY <1>4, <1>5, <2>1, <3>1
    <2>. QED
      BY <1>0, <1>1, <1>2, <1>8, <2>5, <2>6, AccountsShrink
  <1>13. Types'
    BY <1>1, <1>2, <1>4, <1>5, <1>8, <1>12 DEF Types
  <1>14. AheadInv'
    <2>1. \A r \in Runs : ~Come(r) => \A n \in DOMAIN queue' : ~IsOf(queue'[n], r)
      BY <1>1, <1>5 DEF AheadInv
    <2>2. \A r \in Runs : Come(r)' <=> Come(r)
      BY <1>4 DEF Come
    <2>. QED
      BY <1>1, <1>2, <1>4, <1>9, <2>1, <2>2 DEF AheadInv, OnItsWay, IsOf
  <1>15. StageInv'
    BY <1>1, <1>2, <1>4, <1>9, <1>11 DEF StageInv
  <1>16. ThreadsInv'
    BY <1>1, <1>2, <1>4, <1>5 DEF ThreadsInv
  <1>17. FilesInv'
    <2>1. \A r \in Runs : (Lost(r)' <=> Lost(r)) /\ (Answered(r)' <=> Answered(r))
            /\ Outcome(r)' = Outcome(r)
      BY <1>2, <1>4 DEF Lost, Answered, OnItsWay, Outcome
    <2>2. \A r \in Runs : files[r].state = "closed" => files'[r] = files[r]
      BY <1>5, <1>8 DEF IsOpen
    <2>. QED
      BY <1>1, <1>4, <1>9, <1>11, <2>1, <2>2 DEF FilesInv
  <1>18. /\ BookInv' /\ SavesInv' /\ PlansInv' /\ (OrderInv => OrderInv')
              /\ (BehindInv => BehindInv')
    BY <1>1, <1>2, <1>4, BookSame, SavesSame, PlansSame, OrderSame, BehindSame
  <1>. QED
    BY <1>1, <1>2, <1>10, <1>12, <1>13, <1>14, <1>15, <1>16, <1>17, <1>18 DEF ScheduleInv

\* The file of a run is finished, and its outcome reported.
LEMMA WriterFinishesKeeps ==
  ASSUME ScheduleInv, WriterStep, WriterFinishes(Head(queue))
  PROVE  ScheduleInv' /\ \A r \in Runs : latest[r] \in Final => latest'[r] = latest[r]
PROOF
  <1>0. PICK h, f : h = Head(queue) /\ f = h.run
    OBVIOUS
  <1>1. /\ Types /\ BookInv /\ AheadInv /\ SavesInv /\ StageInv /\ ItemsInv /\ ThreadsInv
        /\ AccountsInv /\ FilesInv /\ PlansInv
        /\ "late_add" \notin happens => OrderInv /\ BehindInv
    BY DEF ScheduleInv
  <1>2. /\ writer = "run" /\ queue # <<>> /\ queue' = Tail(queue)
        /\ UNCHANGED <<now, table, created, rows, book, stale, cut, rx, todo, ringFrom, plan,
                       marked, happens, stops, deaths, failedSaves, lostSaves>>
    BY WriterStepIs
  <1>3. PICK s : s = FinishStatus(files[f], f, h.status)
    OBVIOUS
  <1>4. /\ h.kind = "close" /\ files' = [files EXCEPT ![f].state = "closed"]
        /\ Report(<<[run |-> f, status |-> s]>>)
        /\ UNCHANGED <<inFlight, writer, begun>>
    BY <1>0, <1>3 DEF WriterFinishes
  <1>5. /\ queue \in Seq(Items) /\ queue' \in Seq(Items) /\ h \in Items /\ f \in Runs
        /\ \E n \in DOMAIN queue : queue[n] = h
        /\ \A n \in DOMAIN queue' : \E m \in DOMAIN queue : queue'[n] = queue[m]
        /\ IsOpen(f) /\ h.status \in {"recorded", "partial"}
    BY <1>0, <1>1, <1>2, <1>4, WorkedOff, ItemIs
  <1>6. \A r, kind : Queued(kind, r) <=> Queued(kind, r)' \/ (h.kind = kind /\ IsOf(h, r))
    BY <1>0, <1>2, <1>5, QueueShrinks
  <1>7. \A r : IsOf(h, r) <=> r = f
    BY <1>0, <1>4 DEF IsOf
  <1>8. /\ files' \in [Runs -> RunFiles] /\ \A r \in Runs : r # f => files'[r] = files[r]
        /\ files'[f].state = "closed" /\ files'[f].iq = files[f].iq
        /\ files'[f].zeros = files[f].zeros /\ files'[f].error = files[f].error
    <2>. DEFINE v == [files[f] EXCEPT !.state = "closed"]
    <2>1. files[f] \in RunFiles
      BY <1>1, <1>5 DEF Types
    <2>2. /\ v \in RunFiles /\ v.state = "closed" /\ v.iq = files[f].iq
          /\ v.zeros = files[f].zeros /\ v.error = files[f].error
      BY <2>1, FileIs
    <2>3. files' = [files EXCEPT ![f] = v]
      BY <1>4
    <2>. HIDE DEF v
    <2>. QED
      BY <1>1, <1>5, <2>2, <2>3 DEF Types
  <1>9. s \in Final /\ s # "none" /\ s # "recording"
    BY <1>3, <1>5 DEF FinishStatus, Final
  <1>10. Queued("close", f) /\ latest[f] = "recording" /\ Come(f)
    <2>1. Queued("close", f)
      BY <1>4, <1>6, <1>7
    <2>2. Come(f)
      BY <1>1, <1>5, <1>7 DEF AheadInv
    <2>. QED
      BY <1>1, <1>5, <2>1, <2>2 DEF StageInv
  \* What is reported.
  <1>. DEFINE o == [run |-> f, status |-> s]
              b == <<o>>
  <1>11. o \in Reports /\ o.run = f /\ o.status = s
    BY <1>5, <1>9 DEF Reports
  <1>. HIDE DEF o
  <1>12. b \in Seq(Reports) /\ DOMAIN b = {1} /\ b[1] = o /\ Len(b) = 1
    BY <1>11
  <1>13. Report(b)
    BY <1>4 DEF o
  <1>. HIDE DEF b
  <1>14. Apart(b) /\ \A r : IsIn(b, r) <=> r = f
    BY <1>11, <1>12 DEF Apart, IsIn
  <1>15. /\ saving' = saving \o b
         /\ latest' \in [Runs -> Final \cup {"none", "recording"}]
         /\ latest'[f] = s /\ \A r \in Runs : r # f => latest'[r] = latest[r]
         /\ last' \in [Ids -> Int] /\ \A i \in Ids : last'[i] = last[i] \/ <<i, last'[i]>> = f
         /\ \A i \in Ids : last[i] <= last'[i]
    <2>1. /\ \A i \in Ids : last[i] \in NoRun..(TotalRuns(i) - 1)
          /\ latest \in [Runs -> Final \cup {"none", "recording"}]
      BY <1>1 DEF Types
    <2>. QED
      BY <1>11, <1>12, <1>13, <1>14, <2>1, Reported
  <1>16. last' = last
    <2>1. last \in [Ids -> Int]
      BY <1>1 DEF Types
    <2>2. ASSUME NEW i \in Ids PROVE last'[i] = last[i]
      <3>1. CASE <<i, last'[i]>> = f
        <4>1. f[1] = i /\ f[2] = last'[i]
          BY <3>1
        <4>2. last'[i] <= last[i]
          BY <1>10, <4>1 DEF Come
        <4>. QED
          BY <1>15, <2>1, <4>2
      <3>. QED
        BY <1>15, <3>1
    <2>. QED
      BY <1>15, <2>1, <2>2
  <1>. DEFINE L == Len(saving)
  <1>17. /\ saving \in Seq(Reports) /\ saving' \in Seq(Reports) /\ L \in Nat /\ DOMAIN saving = 1..L
         /\ DOMAIN saving' = 1..(L + 1) /\ saving'[L + 1] = o
         /\ \A n \in 1..L : saving'[n] = saving[n]
    <2>1. saving \in Seq(Reports)
      BY <1>1 DEF Types
    <2>2. /\ saving \o b \in Seq(Reports) /\ L \in Nat /\ DOMAIN saving = 1..L
          /\ DOMAIN (saving \o b) = 1..(L + Len(b))
          /\ \A n \in 1..L : (saving \o b)[n] = saving[n]
          /\ \A n \in 1..Len(b) : (saving \o b)[L + n] = b[n]
      BY <1>12, <2>1, Joining
    <2>3. 1 \in 1..Len(b)
      BY <1>12
    <2>. QED
      BY <1>12, <1>15, <2>1, <2>2, <2>3
  <1>. HIDE DEF L
  <1>18. /\ \A n \in 1..(L + 1) : n \in 1..L \/ n = L + 1
         /\ \A n \in 1..L : n \in 1..(L + 1) /\ n # L + 1 /\ n < L + 1
         /\ L + 1 \in 1..(L + 1)
    BY <1>17
  <1>19. \A r \in Runs : OnItsWay(r)' <=> OnItsWay(r) \/ r = f
    BY <1>11, <1>17, <1>18 DEF OnItsWay
  \* The parts.
  <1>20. Types'
    BY <1>1, <1>2, <1>4, <1>5, <1>8, <1>15, <1>16, <1>17 DEF Types
  <1>21. \A r \in Runs : IsOpen(r)' <=> IsOpen(r) /\ r # f
    BY <1>5, <1>8 DEF IsOpen
  <1>22. ItemsInv' /\ ~Queued("open", f)' /\ \A n \in DOMAIN queue' : ~IsOf(queue'[n], f)
    <2>1. \A r \in Runs : IF IsOf(h, r) THEN h.kind # "close" => IsOpen(r)'
                          ELSE IsOpen(r) => IsOpen(r)'
      BY <1>4, <1>7, <1>21
    <2>. QED
      BY <1>0, <1>1, <1>2, <1>4, <1>5, <1>7, <2>1, ItemsShrink
  <1>23. AheadInv'
    <2>1. \A r \in Runs : ~Come(r) => (\A n \in DOMAIN queue' : ~IsOf(queue'[n], r)) /\ r # f
      BY <1>1, <1>5, <1>10 DEF AheadInv
    <2>2. \A r \in Runs : Come(r)' <=> Come(r)
      BY <1>16 DEF Come
    <2>. QED
      BY <1>1, <1>2, <1>15, <1>19, <1>21, <2>1, <2>2 DEF AheadInv, IsOf
  <1>24. SavesInv'
    <2>1. \A n \in 1..L : saving[n].run = f => saving[n].status = "recording"
      <3>1. \A n \in 1..L : saving[n].run = f /\ saving[n].status \in Final => FALSE
        BY <1>1, <1>10, <1>17 DEF SavesInv, Final
      <3>2. \A n \in 1..L : saving[n].status \in Final \cup {"recording"}
        BY <1>17, ReportIs
      <3>. QED
        BY <3>1, <3>2
    <2>2. ASSUME NEW m \in 1..(L + 1), NEW n \in 1..(L + 1), m < n, saving'[m].run = saving'[n].run
          PROVE  saving'[m].status = "recording" /\ saving'[n].status \in Final
      <3>1. m \in 1..L
        BY <1>17, <1>18, <2>2
      <3>2. CASE n \in 1..L
        BY <1>1, <1>17, <2>2, <3>1, <3>2 DEF SavesInv
      <3>3. CASE n = L + 1
        BY <1>9, <1>11, <1>17, <2>1, <2>2, <3>1, <3>3
      <3>. QED
        BY <1>18, <3>2, <3>3
    <2>3. rows[f] \notin Final
      BY <1>1, <1>5, <1>10 DEF SavesInv
    <2>4. ASSUME NEW n \in 1..(L + 1)
          PROVE  /\ latest'[saving'[n].run] # "none" /\ rows[saving'[n].run] \notin Final
                 /\ rows[saving'[n].run] # "none" => saving'[n].status \in Final
                 /\ saving'[n].status \in Final => saving'[n].status = latest'[saving'[n].run]
      <3>1. CASE n \in 1..L
        <4>1. saving'[n] = saving[n] /\ saving[n].run \in Runs
          BY <1>17, <3>1, ReportIs
        <4>2. /\ latest[saving[n].run] # "none" /\ rows[saving[n].run] \notin Final
              /\ rows[saving[n].run] # "none" => saving[n].status \in Final
              /\ saving[n].status \in Final => saving[n].status = latest[saving[n].run]
          BY <1>1, <1>17, <3>1 DEF SavesInv
        <4>3. "recording" \notin Final
          BY DEF Final
        <4>. QED
          BY <1>9, <1>15, <2>1, <3>1, <4>1, <4>2, <4>3
      <3>2. CASE n = L + 1
        BY <1>9, <1>11, <1>15, <1>17, <2>3, <3>2
      <3>. QED
        BY <1>18, <3>1, <3>2
    <2>5. ASSUME NEW r \in Runs
          PROVE /\ latest'[r] = "recording" => rows[r] \notin Final
                /\ latest'[r] \in Final /\ rows[r] \in Final => rows[r] = latest'[r]
                /\ latest'[r] \in Final /\ r \notin failedSaves =>
                     \/ rows[r] = latest'[r]
                     \/ \E n \in 1..(L + 1) : saving'[n] = [run |-> r, status |-> latest'[r]]
      <3>1. CASE r = f
        <4>1. saving'[L + 1] = [run |-> r, status |-> latest'[r]]
          BY <1>15, <1>17, <3>1 DEF o
        <4>. QED
          BY <1>18, <2>3, <3>1, <4>1
      <3>2. CASE r # f
        <4>1. latest'[r] = latest[r]
          BY <1>15, <3>2
        <4>2. /\ latest[r] = "recording" => rows[r] \notin Final
              /\ latest[r] \in Final /\ rows[r] \in Final => rows[r] = latest[r]
              /\ latest[r] \in Final /\ r \notin failedSaves =>
                   \/ rows[r] = latest[r]
                   \/ \E n \in 1..L : saving[n] = [run |-> r, status |-> latest[r]]
          BY <1>1, <1>17 DEF SavesInv
        <4>. QED
          BY <1>17, <1>18, <4>1, <4>2
      <3>. QED
        BY <3>1, <3>2
    <2>. QED
      BY <1>2, <1>17, <2>2, <2>4, <2>5 DEF SavesInv
  <1>25. ASSUME OrderInv PROVE OrderInv'
    <2>1. \A r \in Runs : (Come(r)' <=> Come(r)) /\ (Early(r)' <=> Early(r))
      BY <1>2, <1>16 DEF Come, Early
    <2>2. \A r \in Runs : Answered(r) => Answered(r)'
      BY <1>2, <1>19 DEF Answered
    <2>3. \A r \in Runs : Come(r)' => Answered(r)' \/ Early(r)'
      BY <1>25, <2>1, <2>2 DEF OrderInv
    <2>4. ASSUME NEW n \in 1..(L + 1), NEW r \in Runs, Before(r, saving'[n].run)
          PROVE  \/ rows[r] # "none" \/ r \in failedSaves \/ Early(r)
                 \/ \E m \in 1..(L + 1) : m < n /\ saving'[m].run = r
      <3>1. CASE n \in 1..L
        <4>1. \/ rows[r] # "none" \/ r \in failedSaves \/ Early(r)
              \/ \E m \in 1..L : m < n /\ saving[m].run = r
          BY <1>17, <1>25, <2>4, <3>1 DEF OrderInv
        <4>. QED
          BY <1>17, <1>18, <4>1
      <3>2. CASE n = L + 1
        <4>1. Before(r, f)
          BY <1>11, <1>17, <2>4, <3>2
        <4>2. Come(r)
          <5>1. r[1] = f[1] /\ r[2] < f[2] /\ r[2] \in Nat /\ f[2] \in Nat
            BY <1>5, <4>1, RunIs DEF Before
          <5>2. last[f[1]] \in Int
            BY <1>1, <1>5, RunIs DEF Types
          <5>. QED
            BY <1>10, <5>1, <5>2 DEF Come
        <4>3. Answered(r) \/ Early(r)
          BY <1>25, <4>2 DEF OrderInv
        <4>4. ASSUME OnItsWay(r) PROVE \E m \in 1..(L + 1) : m < n /\ saving'[m].run = r
          <5>1. PICK m \in 1..L : saving[m].run = r
            BY <1>17, <4>4 DEF OnItsWay
          <5>. QED
            BY <1>17, <1>18, <3>2, <5>1
        <4>. QED
          BY <4>3, <4>4 DEF Answered
      <3>. QED
        BY <1>18, <3>1, <3>2
    <2>5. \A r, t \in Runs : Before(t, r) /\ rows[r] # "none" =>
            rows[t] # "none" \/ t \in failedSaves \/ Early(t)
      BY <1>25 DEF OrderInv
    <2>6. \A r, t \in Runs : Before(t, r)' <=> Before(t, r)
      BY DEF Before
    <2>7. \A r, t \in Runs : Before(t, r)' /\ rows'[r] # "none" =>
            rows'[t] # "none" \/ t \in failedSaves' \/ Early(t)'
      BY <1>2, <2>1, <2>5, <2>6
    <2>8. \A n \in DOMAIN saving' : \A r \in Runs : Before(r, saving'[n].run) =>
            \/ rows'[r] # "none" \/ r \in failedSaves' \/ Early(r)'
            \/ \E m \in DOMAIN saving' : m < n /\ saving'[m].run = r
      BY <1>2, <1>17, <2>1, <2>4
    <2>. QED
      BY <2>3, <2>7, <2>8 DEF OrderInv, Before
  <1>26. StageInv'
    <2>1. \A r \in Runs : /\ Queued("open", r)' <=> Queued("open", r)
                          /\ Queued("close", r)' => Queued("close", r) /\ r # f
                          /\ Queued("close", r) /\ r # f => Queued("close", r)'
      <3>1. ~Queued("close", f)'
        BY <1>22 DEF Queued, IsOf
      <3>. QED
        BY <1>4, <1>6, <1>7, <3>1
    <2>2. cut[f] = NoCut
      BY <1>1, <1>5, <1>10 DEF StageInv
    <2>. QED
      BY <1>1, <1>2, <1>15, <1>21, <1>22, <2>1, <2>2 DEF StageInv
  <1>27. ThreadsInv'
    BY <1>1, <1>2, <1>4, <1>5 DEF ThreadsInv
  <1>28. AccountsInv'
    <2>1. IqIn(h, Runs) = 0 /\ \A r \in Runs : IqIn(h, {r}) = 0
      BY <1>4 DEF IqIn
    <2>2. \A r \in Runs : Had(r) \in Nat
      BY <1>1 DEF Had, Types, RunFiles
    <2>3. \A r \in Runs : Had(r)' = Had(r)
      <3>1. \A r \in Runs : files'[r].iq = files[r].iq
        BY <1>8
      <3>2. \A r \in Runs : Queued("open", r)' <=> Queued("open", r)
        BY <1>4, <1>6
      <3>. QED
        BY <3>1, <3>2 DEF Had
    <2>4. inFlight' = inFlight - 0 /\ \A r \in Runs : Had(r)' <= Had(r) + 0
      BY <1>1, <1>4, <2>2, <2>3 DEF Types
    <2>. QED
      BY <1>0, <1>1, <1>2, <1>8, <2>1, <2>4, AccountsShrink
  <1>29. Honest(s, files'[f], f)
    <2>1. /\ files[f].iq \in Nat /\ files[f].zeros \in Nat /\ Samples(f) \in Nat
          /\ files'[f].iq = files[f].iq /\ files'[f].zeros = files[f].zeros
          /\ files'[f].error = files[f].error
      <3>1. files[f] \in RunFiles
        BY <1>1, <1>5 DEF Types
      <3>. QED
        BY <1>5, <1>8, <3>1, FileIs, RunIs
    <2>2. CASE files[f].error
      <3>1. s = "failed"
        BY <1>3, <2>2 DEF FinishStatus
      <3>. QED
        BY <3>1 DEF Honest
    <2>3. CASE ~files[f].error /\ h.status = "recorded"
      <3>1. s = IF files[f].zeros > 0 \/ files[f].iq + files[f].zeros # Samples(f)
              THEN "partial" ELSE "recorded"
        BY <1>3, <2>3 DEF FinishStatus
      <3>2. files[f].zeros > 0 \/ files[f].iq + files[f].zeros # Samples(f)
              <=> ~(files[f].iq = Samples(f) /\ files[f].zeros = 0)
        BY <2>1
      <3>. QED
        BY <2>1, <2>3, <3>1, <3>2 DEF Honest, Whole
    <2>4. CASE ~files[f].error /\ h.status = "partial"
      <3>1. s = "partial"
        BY <1>3, <2>4 DEF FinishStatus
      <3>2. PICK n \in DOMAIN queue : queue[n] = h
        BY <1>5
      <3>3. PICK x \in Nat : Carries(queue, {f}, x) /\ Had(f) + x < Samples(f)
        BY <1>1, <1>4, <1>5, <1>7, <2>4, <3>2 DEF AccountsInv
      <3>4. Had(f) = files[f].iq
        BY <1>4, <1>6, <1>22 DEF Had
      <3>5. files[f].iq < Samples(f)
        BY <2>1, <3>3, <3>4
      <3>. QED
        BY <2>1, <3>1, <3>5 DEF Honest, Whole
    <2>. QED
      BY <1>5, <2>2, <2>3, <2>4
  <1>30. FilesInv'
    <2>1. \A r \in Runs : (Lost(r)' <=> Lost(r)) /\ (Answered(r) => Answered(r)')
      BY <1>2, <1>19 DEF Lost, Answered
    <2>2. ASSUME NEW r \in Runs, r # f
          PROVE /\ Queued("open", r)' => (begun[r] = 0 \/ Lost(r)) /\ (Answered(r)' \/ Lost(r))
                /\ begun[r] > 0 => Answered(r)' \/ Lost(r)
                /\ begun[r] > 1 => Lost(r)
                /\ files'[r].state # "none" => begun[r] > 0
                /\ files'[r].state = "closed" =>
                     Lost(r) \/ (Outcome(r)' \in Final /\ Honest(Outcome(r)', files'[r], r))
      <3>1. Outcome(r)' = Outcome(r)
        BY <1>2, <1>15, <2>2 DEF Outcome
      <3>. QED
        BY <1>1, <1>6, <1>8, <2>1, <2>2, <3>1 DEF FilesInv
    <2>3. /\ ~Queued("open", f)' /\ Answered(f)'
          /\ begun[f] > 1 => Lost(f)
          /\ begun[f] > 0
      <3>1. OnItsWay(f)'
        BY <1>5, <1>19
      <3>2. files[f].state # "none"
        BY <1>5 DEF IsOpen
      <3>. QED
        BY <1>1, <1>5, <1>22, <3>1, <3>2 DEF FilesInv, Answered
    <2>4. Outcome(f)' \in Final /\ Honest(Outcome(f)', files'[f], f)
      <3>1. Outcome(f)' = s
        BY <1>9, <1>15 DEF Outcome
      <3>. QED
        BY <1>9, <1>29, <3>1
    <2>5. \A r \in Runs : Honest(Outcome(r), files[r], r)' <=> Honest(Outcome(r)', files'[r], r)
      BY DEF Honest, Whole
    <2>. QED
      BY <1>4, <2>1, <2>2, <2>3, <2>4, <2>5 DEF FilesInv
  <1>31. BookInv' /\ PlansInv' /\ (BehindInv => BehindInv')
    BY <1>1, <1>2, <1>16, BookSame, PlansSame, BehindSame
  <1>32. \A r \in Runs : latest[r] \in Final => latest'[r] = latest[r]
    BY <1>10, <1>15 DEF Final
  <1>. QED
    BY <1>1, <1>2, <1>20, <1>22, <1>23, <1>24, <1>25, <1>26, <1>27, <1>28, <1>30, <1>31, <1>32
    DEF ScheduleInv

\* The writer comes to the stop: there is no file open any more.
LEMMA WriterExitsKeeps ==
  ASSUME ScheduleInv, WriterStep, WriterExits(Head(queue))
  PROVE  ScheduleInv' /\ latest' = latest
PROOF
  <1>0. PICK h : h = Head(queue)
    OBVIOUS
  <1>1. /\ Types /\ BookInv /\ AheadInv /\ SavesInv /\ StageInv /\ ItemsInv /\ ThreadsInv
        /\ AccountsInv /\ FilesInv /\ PlansInv
        /\ "late_add" \notin happens => OrderInv /\ BehindInv
    BY DEF ScheduleInv
  <1>2. /\ writer = "run" /\ queue # <<>> /\ queue' = Tail(queue)
        /\ UNCHANGED <<now, table, created, rows, book, stale, cut, rx, todo, ringFrom, plan,
                       marked, happens, stops, deaths, failedSaves, lostSaves>>
    BY WriterStepIs
  <1>. DEFINE Open == {r \in Runs : files[r].state = "open"}
              b == [n \in DOMAIN SetToSeq(Open) |->
                      [run |-> SetToSeq(Open)[n],
                       status |-> FinishStatus(files[SetToSeq(Open)[n]], SetToSeq(Open)[n],
                         "partial")]]
  <1>3. /\ h.kind = "stop" /\ writer' = "exited" /\ UNCHANGED <<inFlight, begun>>
        /\ files' = [r \in Runs |-> IF files[r].state = "open"
             THEN [files[r] EXCEPT !.state = "closed"]
                                    ELSE files[r]]
        /\ Report(b)
    BY <1>0 DEF WriterExits
  <1>4. /\ queue \in Seq(Items) /\ queue' \in Seq(Items) /\ queue' = <<>>
        /\ \E n \in DOMAIN queue : queue[n] = h
    BY <1>0, <1>1, <1>2, <1>3, WorkedOff
  <1>5. \A n \in DOMAIN queue : queue[n].kind = "stop"
    <2>1. PICK m \in DOMAIN queue : queue[m] = h
      BY <1>4
    <2>2. /\ Len(queue) \in Nat \ {0} /\ DOMAIN queue = 1..Len(queue) /\ h = queue[1]
          /\ 1 \in DOMAIN queue
      BY <1>0, <1>2, <1>4, Unjoining
    <2>3. Len(queue) = 1
      BY <1>1, <1>3, <2>2 DEF ItemsInv
    <2>4. \A n \in DOMAIN queue : n = 1
      BY <2>2, <2>3
    <2>. QED
      BY <1>3, <2>2, <2>4
  <1>6. rx = "off" /\ \A r \in Runs : cut[r] = NoCut
    BY <1>1, <1>3, <1>4 DEF ThreadsInv
  <1>7. \A r \in Runs : ~IsOpen(r)
    <2>1. \A r \in Runs : ~Queued("close", r)
      BY <1>5 DEF Queued
    <2>. QED
      BY <1>1, <1>6, <2>1 DEF StageInv
  <1>8. Open = {}
    BY <1>7 DEF IsOpen
  <1>9. files' = files
    <2>1. files \in [Runs -> RunFiles]
      BY <1>1 DEF Types
    <2>2. \A r \in Runs : files[r].state # "open"
      BY <1>7 DEF IsOpen
    <2>3. files' = [r \in Runs |-> files[r]]
      BY <1>3, <2>2
    <2>. QED
      BY <2>1, <2>3
  <1>10. DOMAIN b = {}
    <2>1. IsFiniteSet(Open)
      BY <1>8, FS_EmptySet
    <2>2. SetToSeq(Open) = <<>>
      BY <1>8, <2>1, Enumerated
    <2>3. DOMAIN <<>> = {}
      OBVIOUS
    <2>. QED
      BY <2>2, <2>3
  <1>. HIDE DEF Open
  <1>11. b = <<>>
    <2>. DEFINE D == DOMAIN SetToSeq(Open)
                v(n) == [run |-> SetToSeq(Open)[n],
                         status |-> FinishStatus(files[SetToSeq(Open)[n]], SetToSeq(Open)[n],
                           "partial")]
    <2>1. D = {}
      BY <1>10
    <2>2. b = [n \in D |-> v(n)]
      OBVIOUS
    <2>. HIDE DEF D, v, b
    <2>3. b = [n \in {} |-> v(n)]
      BY <2>1, <2>2
    <2>4. [n \in {} |-> v(n)] = <<>>
      OBVIOUS
    <2>. QED
      BY <2>3, <2>4
  <1>. HIDE DEF b
  <1>12. /\ b \in Seq(Reports) /\ Apart(b) /\ \A r : ~IsIn(b, r)
    <2>1. <<>> \in Seq(Reports) /\ DOMAIN <<>> = {}
      OBVIOUS
    <2>. QED
      BY <1>11, <2>1 DEF Apart, IsIn
  <1>13. /\ saving' = saving \o b
         /\ latest' \in [Runs -> Final \cup {"none", "recording"}]
         /\ \A r \in Runs : latest'[r] = latest[r]
         /\ last' \in [Ids -> Int] /\ \A i \in Ids : last'[i] = last[i]
    <2>1. /\ \A i \in Ids : last[i] \in NoRun..(TotalRuns(i) - 1)
          /\ latest \in [Runs -> Final \cup {"none", "recording"}]
      BY <1>1 DEF Types
    <2>. QED
      BY <1>3, <1>12, <2>1, Reported
  <1>14. saving' = saving /\ last' = last /\ latest' = latest
    <2>1. saving \in Seq(Reports) /\ last \in [Ids -> Int]
          /\ latest \in [Runs -> Final \cup {"none", "recording"}]
      BY <1>1 DEF Types
    <2>2. saving \o <<>> = saving
      BY <2>1
    <2>. QED
      BY <1>11, <1>13, <2>1, <2>2
  <1>15. Types'
    BY <1>1, <1>2, <1>3, <1>4, <1>9, <1>14 DEF Types
  <1>16. \A n \in DOMAIN queue' : FALSE
    BY <1>4
  <1>17. \A r, kind : ~Queued(kind, r)'
    BY <1>16 DEF Queued
  <1>18. \A r \in Runs : ~Queued("open", r)
    BY <1>5 DEF Queued
  <1>19. AheadInv'
    BY <1>1, <1>2, <1>9, <1>14, <1>16 DEF AheadInv, Come, OnItsWay, IsOpen
  <1>20. StageInv'
    <2>1. \A r \in Runs : ~IsOpen(r)'
      BY <1>7, <1>9 DEF IsOpen
    <2>. QED
      BY <1>2, <1>6, <1>17, <2>1 DEF StageInv
  <1>21. ItemsInv'
    BY <1>16 DEF ItemsInv
  <1>22. ThreadsInv'
    BY <1>1, <1>2, <1>4, <1>6, <1>16 DEF ThreadsInv
  <1>23. AccountsInv'
    <2>1. Carries(queue, Runs, inFlight) /\ IqIn(h, Runs) = 0 /\ inFlight \in 0..Budget
      BY <1>1, <1>3 DEF AccountsInv, IqIn, Types
    <2>2. Carries(queue', Runs, inFlight - 0)
      BY <1>0, <1>2, <1>4, <2>1, CarriesLess
    <2>3. Carries(queue', Runs, inFlight')
      BY <1>3, <2>1, <2>2
    <2>4. Carries(queue, Runs, inFlight)' <=> Carries(queue', Runs, inFlight')
      BY DEF Carries, IqIn
    <2>. QED
      BY <1>2, <1>6, <1>16, <2>3, <2>4 DEF AccountsInv
  <1>24. FilesInv'
    <2>1. \A r \in Runs : (Lost(r)' <=> Lost(r)) /\ (Answered(r)' <=> Answered(r))
            /\ Outcome(r)' = Outcome(r)
      BY <1>2, <1>14 DEF Lost, Answered, OnItsWay, Outcome
    <2>. QED
      BY <1>1, <1>3, <1>9, <1>17, <1>18, <2>1 DEF FilesInv
  <1>25. /\ BookInv' /\ SavesInv' /\ PlansInv' /\ (OrderInv => OrderInv')
              /\ (BehindInv => BehindInv')
    BY <1>1, <1>2, <1>14, BookSame, SavesSame, PlansSame, OrderSame, BehindSame
  <1>. QED
    BY <1>1, <1>2, <1>14, <1>15, <1>19, <1>20, <1>21, <1>22, <1>23, <1>24, <1>25 DEF ScheduleInv

\* Whatever the writer does.
LEMMA WriterStepKeeps ==
  ASSUME ScheduleInv, WriterStep
  PROVE  ScheduleInv' /\ rows' = rows /\ \A r \in Runs :
           latest[r] \in Final => latest'[r] = latest[r]
PROOF
  <1>1. rows' = rows
    BY WriterStepIs
  <1>2. CASE WriterOpens(Head(queue))
    BY <1>1, <1>2, WriterOpensKeeps DEF WriterOpens
  <1>3. CASE WriterWrites(Head(queue))
    BY <1>1, <1>3, WriterWritesKeeps DEF WriterWrites
  <1>4. CASE WriterFinishes(Head(queue))
    BY <1>1, <1>4, WriterFinishesKeeps
  <1>5. CASE WriterExits(Head(queue))
    BY <1>1, <1>5, WriterExitsKeeps
  <1>. QED
    BY <1>2, <1>3, <1>4, <1>5, WriterStepIs

-----------------------------------------------------------------------------
(* The receiver.                                                           *)

\* The runs that are cut are closed where they are.
LEMMA ClosesAre ==
  ASSUME Types, StageInv
  PROVE  /\ Closes \in Seq(Items)
         /\ \A n \in DOMAIN Closes :
              /\ Closes[n].kind = "close" /\ Closes[n].run \in Runs /\ cut[Closes[n].run] # NoCut
              /\ Closes[n].status = "partial" =>
                   LET c == cut[Closes[n].run] IN
                   c.written < Samples(Closes[n].run) \/ c.zeros > 0 \/ c.refused > 0
         /\ \A m, n \in DOMAIN Closes : Closes[m].run = Closes[n].run => m = n
         /\ \A r \in Runs : cut[r] # NoCut => \E n \in DOMAIN Closes : Closes[n].run = r
PROOF
  <1>. DEFINE C == {r \in Runs : cut[r] # NoCut}
              rs == SetToSeq(C)
              end(c) == [c EXCEPT !.ended = @ \/ c.since = NoTime]
              t == Closes
  <1>1. /\ rs \in Seq(C) /\ IsInjective(rs) /\ \A r \in C : \E n \in DOMAIN rs : rs[n] = r
    <2>1. IsFiniteSet(C)
      BY RunsAreFinite
    <2>. HIDE DEF C
    <2>. QED
      BY <2>1, Enumerated
  <1>2. t = [n \in DOMAIN rs |-> CloseItem(rs[n], end(cut[rs[n]]))]
    BY DEF Closes
  <1>. HIDE DEF rs, t, end
  <1>3. \A n \in DOMAIN rs : rs[n] \in C
    BY <1>1
  <1>4. ASSUME NEW r \in Runs, cut[r] # NoCut
        PROVE  LET i == CloseItem(r, end(cut[r])) IN
               /\ i \in Items /\ i.kind = "close" /\ i.run = r
               /\ i.status = "partial" =>
                    cut[r].written < Samples(r) \/ cut[r].zeros > 0 \/ cut[r].refused > 0
    <2>. DEFINE c == cut[r]
                e == end(c)
    <2>1. c \in Cuts
      BY <1>4 DEF Types
    <2>2. e.written = c.written /\ e.zeros = c.zeros /\ e.refused = c.refused
          /\ (e.ended => c.ended \/ c.since = NoTime)
      <3>. HIDE DEF c
      <3>. QED
        BY <2>1 DEF Cuts, end
    <2>3. ~c.ended /\ (c.since = NoTime <=> c.written < Samples(r)) /\ c.written <= Samples(r)
      BY <1>4 DEF StageInv
    <2>4. c.written \in Nat /\ c.zeros \in Nat /\ c.refused \in Nat /\ Samples(r) \in Nat
      <3>. HIDE DEF c
      <3>. QED
        BY <2>1, RunIs DEF Cuts
    <2>. HIDE DEF e, c
    <2>5. CutStatus(r, e) = "partial" => c.written < Samples(r) \/ c.zeros > 0 \/ c.refused > 0
      BY <2>2, <2>3, <2>4 DEF CutStatus
    <2>6. CutStatus(r, e) \in {"recorded", "partial"}
      BY DEF CutStatus
    <2>. QED
      BY <2>5, <2>6 DEF CloseItem, Items, c, e
  <1>5. \A n \in DOMAIN rs : t[n] = CloseItem(rs[n], end(cut[rs[n]])) /\ rs[n] \in Runs
          /\ cut[rs[n]] # NoCut
    BY <1>2, <1>3
  <1>6. DOMAIN t = DOMAIN rs /\ DOMAIN rs = 1..Len(rs) /\ Len(rs) \in Nat
    BY <1>1, <1>2
  <1>7. ASSUME NEW n \in DOMAIN t
        PROVE  /\ t[n] \in Items /\ t[n].kind = "close" /\ t[n].run = rs[n]
               /\ t[n].run \in Runs /\ cut[t[n].run] # NoCut
               /\ t[n].status = "partial" =>
                    LET c == cut[t[n].run] IN
                    c.written < Samples(t[n].run) \/ c.zeros > 0 \/ c.refused > 0
    BY <1>4, <1>5, <1>6
  <1>8. t \in Seq(Items)
    <2>1. t \in [1..Len(rs) -> Items]
      BY <1>2, <1>6, <1>7
    <2>. QED
      BY <1>6, <2>1
  <1>9. \A m, n \in DOMAIN t : t[m].run = t[n].run => m = n
    BY <1>1, <1>6, <1>7 DEF IsInjective
  <1>10. \A r \in Runs : cut[r] # NoCut => \E n \in DOMAIN t : t[n].run = r
    BY <1>1, <1>6, <1>7
  <1>. QED
    BY <1>7, <1>8, <1>9, <1>10 DEF t

\* Every run that is cut ends, and the stop may come after them.
LEMMA AllEnd ==
  ASSUME ScheduleInv, rx = "idle", NEW t \in Seq(Items), queue' = queue \o t,
         \A n \in DOMAIN Closes : n \in DOMAIN t /\ t[n] = Closes[n],
         \A n \in DOMAIN t : n \in DOMAIN Closes \/ (n = Len(t) /\ t[n].kind = "stop"),
         cut' = [r \in Runs |-> NoCut],
         UNCHANGED <<table, rows, last, latest, saving, inFlight, files, begun, failedSaves,
                     lostSaves>>
  PROVE  /\ queue' \in Seq(Items) /\ \A r \in Runs : cut'[r] = NoCut
         /\ AheadInv' /\ StageInv' /\ ItemsInv' /\ AccountsInv' /\ FilesInv'
PROOF
  <1>1. Types /\ AheadInv /\ StageInv /\ ItemsInv /\ ThreadsInv /\ AccountsInv /\ FilesInv
    BY DEF ScheduleInv
  <1>2. /\ Closes \in Seq(Items)
        /\ \A n \in DOMAIN Closes :
             /\ Closes[n].kind = "close" /\ Closes[n].run \in Runs /\ cut[Closes[n].run] # NoCut
             /\ Closes[n].status = "partial" =>
                  LET c == cut[Closes[n].run] IN
                  c.written < Samples(Closes[n].run) \/ c.zeros > 0 \/ c.refused > 0
        /\ \A m, n \in DOMAIN Closes : Closes[m].run = Closes[n].run => m = n
        /\ \A r \in Runs : cut[r] # NoCut => \E n \in DOMAIN Closes : Closes[n].run = r
    BY <1>1, ClosesAre
  <1>3. \A r \in Runs : cut'[r] = NoCut
    OBVIOUS
  <1>4. queue \in Seq(Items)
    BY <1>1 DEF Types
  <1>5. queue' \in Seq(Items)
    BY <1>4, Joining
  \* The new items.
  <1>6. ASSUME NEW n \in DOMAIN t, NEW r, IsOf(t[n], r)
        PROVE  /\ t[n].kind = "close" /\ r \in Runs /\ cut[r] # NoCut
               /\ t[n].status = "partial" =>
                    cut[r].written < Samples(r) \/ cut[r].zeros > 0 \/ cut[r].refused > 0
               /\ \A m \in DOMAIN t : IsOf(t[m], r) => m = n
    <2>1. \A m \in DOMAIN t : t[m].kind # "stop" => m \in DOMAIN Closes /\ t[m] = Closes[m]
      OBVIOUS
    <2>2. n \in DOMAIN Closes /\ t[n] = Closes[n] /\ Closes[n].run = r
      BY <1>6, <2>1 DEF IsOf
    <2>3. \A m \in DOMAIN t : IsOf(t[m], r) => m \in DOMAIN Closes /\ Closes[m].run = r
      BY <2>1 DEF IsOf
    <2>. QED
      BY <1>2, <2>2, <2>3
  <1>7. ASSUME NEW r \in Runs, cut[r] # NoCut
        PROVE  \E n \in DOMAIN t : t[n].kind = "close" /\ IsOf(t[n], r)
    <2>1. PICK n \in DOMAIN Closes : Closes[n].run = r
      BY <1>2, <1>7
    <2>. QED
      BY <1>2, <2>1 DEF IsOf
  <1>8. \A n \in DOMAIN t : t[n].kind \in {"close", "stop"}
    BY <1>2
  <1>9. \A r \in Runs : \A kind :
          Queued(kind, r)' <=> Queued(kind, r) \/ \E n \in DOMAIN t :
            t[n].kind = kind /\ IsOf(t[n], r)
    BY <1>4, QueueGrows
  <1>10. \A r \in Runs : /\ Queued("open", r)' <=> Queued("open", r)
                         /\ Queued("close", r)' <=> Queued("close", r) \/ cut[r] # NoCut
    BY <1>6, <1>7, <1>8, <1>9
  <1>11. \A r \in Runs : IsOpen(r)' <=> IsOpen(r)
    BY DEF IsOpen
  \* The parts.
  <1>. DEFINE a == Len(queue)
              w == queue \o t
  <1>12. /\ DOMAIN queue = 1..a /\ DOMAIN t = 1..Len(t) /\ DOMAIN w = 1..(a + Len(t))
         /\ \A n \in 1..a : w[n] = queue[n]
         /\ \A n \in 1..(a + Len(t)) : n \in 1..a \/ (n - a \in 1..Len(t) /\ w[n] = t[n - a])
    BY <1>4, Joining
  <1>13. \A n \in DOMAIN queue' : (\E m \in DOMAIN queue : queue'[n] = queue[m])
                                  \/ \E m \in DOMAIN t : queue'[n] = t[m]
    <2>1. queue' = w
      OBVIOUS
    <2>. HIDE DEF w, a
    <2>. QED
      BY <1>12, <2>1
  <1>. HIDE DEF w, a
  <1>14. AheadInv'
    <2>1. \A r \in Runs : ~Come(r) => \A n \in DOMAIN queue' : ~IsOf(queue'[n], r)
      BY <1>1, <1>6, <1>13 DEF AheadInv
    <2>2. \A r \in Runs : (Come(r)' <=> Come(r)) /\ (OnItsWay(r)' <=> OnItsWay(r))
      BY DEF Come, OnItsWay
    <2>. QED
      BY <1>1, <1>3, <1>11, <2>1, <2>2 DEF AheadInv, IsOf
  <1>15. StageInv'
    BY <1>1, <1>3, <1>10, <1>11 DEF StageInv
  <1>16. ItemsInv'
    <2>1. \A n \in DOMAIN queue : queue[n].kind # "stop"
      BY <1>1 DEF ThreadsInv
    <2>2. \A n \in DOMAIN t : t[n].kind = "stop" => n = Len(t)
      BY <1>2
    <2>3. \A r \in Runs : \A n \in DOMAIN t : IsOf(t[n], r) =>
            /\ ~Queued("close", r)
            /\ t[n].kind = "open" => \A m \in DOMAIN queue : ~IsOf(queue[m], r)
            /\ t[n].kind # "open" => Queued("open", r) \/ IsOpen(r)
      BY <1>1, <1>6 DEF StageInv
    <2>4. \A n \in DOMAIN t : n \in Int
      BY <1>12
    <2>5. \A r \in Runs : \A m, n \in DOMAIN t : m < n /\ IsOf(t[m], r) /\ IsOf(t[n], r) =>
            t[m].kind # "close" /\ t[n].kind # "open"
      BY <1>6, <2>4
    <2>. QED
      BY <1>1, <1>4, <2>1, <2>2, <2>3, <2>5, ItemsGrow
  <1>17. AccountsInv'
    <2>1. \A rs : \A n \in DOMAIN t : IqIn(t[n], rs) = 0
      BY <1>8 DEF IqIn
    <2>2. \A rs : Carries(t, rs, 0)
      BY <2>1, CarriesNothing
    <2>3. \A rs, x : Carries(queue, rs, x) => x \in Nat /\ Carries(queue', rs, x + 0)
      BY <1>4, <2>2, CarriesMore
    <2>4. \A rs, x : Carries(queue, rs, x) => Carries(queue', rs, x)
      BY <2>3
    <2>5. \A rs, x : Carries(queue, rs, x)' <=> Carries(queue', rs, x)
      BY DEF Carries, IqIn
    <2>6. Carries(queue, Runs, inFlight)'
      <3>1. Carries(queue', Runs, inFlight)
        BY <1>1, <2>4 DEF AccountsInv
      <3>. QED
        BY <3>1 DEF Carries, IqIn
    <2>7. \A r \in Runs : Had(r)' = Had(r) /\ Had(r) \in Nat
      BY <1>1, <1>10 DEF Had, Types, RunFiles
    <2>8. ASSUME NEW r \in Runs, NEW n \in DOMAIN t, IsOf(t[n], r), t[n].status = "partial"
          PROVE  \E x \in Nat : Carries(queue, {r}, x) /\ Had(r) + x < Samples(r)
      <3>1. cut[r] # NoCut /\ (cut[r].written < Samples(r) \/ cut[r].zeros > 0
              \/ cut[r].refused > 0)
        BY <1>6, <2>8
      <3>2. PICK x \in Nat : Carries(queue, {r}, x)
                             /\ Had(r) + x + cut[r].zeros + cut[r].refused <= cut[r].written
        BY <1>1, <3>1 DEF AccountsInv
      <3>3. cut[r].written <= Samples(r)
        BY <1>1, <3>1 DEF StageInv
      <3>4. cut[r].written \in Nat /\ cut[r].zeros \in Nat /\ cut[r].refused \in Nat
        BY <1>1, <3>1 DEF Types, Cuts
      <3>6. Had(r) \in Nat /\ Samples(r) \in Nat
        BY <2>7, RunIs
      <3>7. ASSUME NEW g \in Nat, NEW z \in Nat, NEW f \in Nat, NEW v \in Nat, NEW s \in Nat,
                   g + x + z + f <= v, v <= s, v < s \/ z > 0 \/ f > 0
            PROVE  g + x < s
        BY <3>7
      <3>5. Had(r) + x < Samples(r)
        BY <3>1, <3>2, <3>3, <3>4, <3>6, <3>7
      <3>. QED
        BY <3>2, <3>5
    <2>9. ASSUME NEW r \in Runs, NEW n \in DOMAIN queue', IsOf(queue'[n], r),
                 queue'[n].kind = "close", queue'[n].status = "partial"
          PROVE  \E x \in Nat : Carries(queue', {r}, x) /\ Had(r)' + x < Samples(r)
      <3>1. \E x \in Nat : Carries(queue, {r}, x) /\ Had(r) + x < Samples(r)
        <4>1. CASE \E m \in DOMAIN queue : queue'[n] = queue[m]
          BY <1>1, <2>9, <4>1 DEF AccountsInv
        <4>2. CASE \E m \in DOMAIN t : queue'[n] = t[m]
          BY <2>8, <2>9, <4>2
        <4>. QED
          BY <1>13, <4>1, <4>2
      <3>. QED
        BY <2>4, <2>7, <3>1
    <2>10. \A r \in Runs : \A n \in DOMAIN queue' :
             (IsOf(queue[n], r) /\ queue[n].kind = "close" /\ queue[n].status = "partial")' =>
               \E x \in Nat : Carries(queue, {r}, x)' /\ Had(r)' + x < Samples(r)
      BY <2>5, <2>9 DEF IsOf
    <2>. QED
      BY <1>3, <2>6, <2>10 DEF AccountsInv
  <1>18. FilesInv'
    <2>1. \A r \in Runs : (Lost(r)' <=> Lost(r)) /\ (Answered(r)' <=> Answered(r))
            /\ Outcome(r)' = Outcome(r)
      BY DEF Lost, Answered, OnItsWay, Outcome
    <2>. QED
      BY <1>1, <1>10, <2>1 DEF FilesInv
  <1>. QED
    BY <1>3, <1>5, <1>14, <1>15, <1>16, <1>17, <1>18

\* The radio is retuned.
LEMMA RxRetuneKeeps ==
  ASSUME ScheduleInv, RxRetune
  PROVE  ScheduleInv'
PROOF
  <1>1. /\ Types /\ BookInv /\ AheadInv /\ SavesInv /\ StageInv /\ ItemsInv /\ ThreadsInv
        /\ AccountsInv /\ FilesInv /\ PlansInv
        /\ "late_add" \notin happens => OrderInv /\ BehindInv
    BY DEF ScheduleInv
  <1>2. /\ rx = "idle" /\ now < MaxTime /\ (stale => "late_add" \in happens)
        /\ queue' = queue \o Closes /\ cut' = [r \in Runs |-> NoCut]
        /\ now' = now + 1 /\ ringFrom' = now + 1
        /\ UNCHANGED <<table, created, rows, book, last, latest, saving, stale, rx, todo, plan,
                       marked,
                       inFlight, files, writer, happens, deaths, failedSaves, lostSaves, begun>>
    BY DEF RxRetune, bookVars
  <1>3. Closes \in Seq(Items) /\ \A n \in DOMAIN Closes : Closes[n].kind = "close"
    BY <1>1, ClosesAre
  <1>4. /\ queue' \in Seq(Items) /\ \A r \in Runs : cut'[r] = NoCut
        /\ AheadInv' /\ ItemsInv' /\ AccountsInv' /\ FilesInv'
    BY <1>2, <1>3, AllEnd
  <1>5. StageInv'
    BY <1>2, <1>3, AllEnd
  <1>6. now \in Nat /\ MaxTime \in Nat
    BY <1>1, ScheduleAssumption DEF Types
  <1>7. Types'
    <2>1. cut' \in [Runs -> Cuts \cup {NoCut}]
      BY <1>2
    <2>. QED
      BY <1>1, <1>2, <1>4, <1>6, <2>1 DEF Types
  <1>8. ThreadsInv'
    <2>1. \A n \in DOMAIN queue' : queue'[n].kind # "stop"
      <3>1. queue \in Seq(Items)
        BY <1>1 DEF Types
      <3>2. /\ DOMAIN queue = 1..Len(queue) /\ DOMAIN Closes = 1..Len(Closes)
            /\ DOMAIN (queue \o Closes) = 1..(Len(queue) + Len(Closes))
            /\ \A n \in 1..Len(queue) : (queue \o Closes)[n] = queue[n]
            /\ \A n \in 1..(Len(queue) + Len(Closes)) : n \in 1..Len(queue)
                 \/ (n - Len(queue) \in 1..Len(Closes)
                      /\ (queue \o Closes)[n] = Closes[n - Len(queue)])
        BY <1>3, <3>1, Joining
      <3>3. \A n \in 1..Len(queue) : queue[n].kind # "stop"
        BY <1>1, <1>2, <3>2 DEF ThreadsInv
      <3>. QED
        BY <1>2, <1>3, <3>2, <3>3
    <2>. QED
      BY <1>1, <1>2, <2>1 DEF ThreadsInv
  <1>9. PlansInv'
    BY <1>1, <1>2, <1>6 DEF PlansInv
  <1>10. ASSUME "late_add" \notin happens, BehindInv PROVE BehindInv'
    <2>1. \A r \in Runs : (Come(r)' <=> Come(r)) /\ (Early(r)' <=> Early(r))
      BY <1>2 DEF Come, Early
    <2>2. \A i \in Ids : table[i] = "live" => plan[i] # Unplanned
      BY <1>1, <1>2, <1>10 DEF PlansInv
    <2>. QED
      BY <1>2, <1>10, <2>1, <2>2 DEF BehindInv
  <1>11. BookInv' /\ SavesInv' /\ (OrderInv => OrderInv')
    BY <1>1, <1>2, BookSame, SavesSame, OrderSame
  <1>. QED
    BY <1>1, <1>2, <1>4, <1>5, <1>7, <1>8, <1>9, <1>10, <1>11 DEF ScheduleInv

\* The pipeline stops.
LEMMA PipelineStopKeeps ==
  ASSUME ScheduleInv, PipelineStop
  PROVE  ScheduleInv'
PROOF
  <1>1. /\ Types /\ BookInv /\ AheadInv /\ SavesInv /\ StageInv /\ ItemsInv /\ ThreadsInv
        /\ AccountsInv /\ FilesInv /\ PlansInv
        /\ "late_add" \notin happens => OrderInv /\ BehindInv
    BY DEF ScheduleInv
  <1>. DEFINE e == [kind |-> "stop"]
              t == Append(Closes, e)
  <1>2. /\ rx = "idle" /\ rx' = "off"
        /\ queue' = Append(queue \o Closes, e) /\ cut' = [r \in Runs |-> NoCut]
        /\ UNCHANGED <<now, table, created, rows, book, last, latest, saving, stale, todo, ringFrom,
                       plan, marked, inFlight, files, writer, happens, deaths, failedSaves,
                       lostSaves,
                       begun>>
    BY DEF PipelineStop, bookVars
  <1>3. Closes \in Seq(Items) /\ queue \in Seq(Items)
    BY <1>1, ClosesAre DEF Types
  <1>4. e \in Items /\ e.kind = "stop"
    BY DEF Items
  <1>. HIDE DEF e
  <1>5. /\ t \in Seq(Items) /\ Len(t) = Len(Closes) + 1 /\ t[Len(t)] = e
        /\ DOMAIN t = 1..(Len(Closes) + 1) /\ DOMAIN Closes = 1..Len(Closes) /\ Len(Closes) \in Nat
        /\ \A n \in 1..Len(Closes) : t[n] = Closes[n]
    BY <1>3, <1>4
  <1>6. queue' = queue \o t
    <2>1. Append(queue \o Closes, e) = (queue \o Closes) \o <<e>>
      <3>1. queue \o Closes \in Seq(Items)
        BY <1>3, Joining
      <3>. QED
        BY <1>4, <3>1, AppendIsConcat
    <2>2. t = Closes \o <<e>>
      BY <1>3, <1>4, AppendIsConcat
    <2>3. (queue \o Closes) \o <<e>> = queue \o (Closes \o <<e>>)
      <3>1. <<e>> \in Seq(Items)
        BY <1>4
      <3>. QED
        BY <1>3, <3>1, ConcatAssociative
    <2>. QED
      BY <1>2, <2>1, <2>2, <2>3
  <1>. HIDE DEF t
  <1>7. /\ \A n \in DOMAIN Closes : n \in DOMAIN t /\ t[n] = Closes[n]
        /\ \A n \in DOMAIN t : n \in DOMAIN Closes \/ (n = Len(t) /\ t[n].kind = "stop")
    <2>. DEFINE L == Len(Closes)
    <2>1. L \in Nat /\ DOMAIN Closes = 1..L /\ DOMAIN t = 1..(L + 1) /\ Len(t) = L + 1
            /\ t[L + 1] = e
      BY <1>5
    <2>. HIDE DEF L
    <2>2. (\A n \in 1..L : n \in 1..(L + 1)) /\ \A n \in 1..(L + 1) : n \in 1..L \/ n = L + 1
      BY <2>1
    <2>. QED
      BY <1>4, <1>5, <2>1, <2>2
  <1>8. /\ queue' \in Seq(Items) /\ \A r \in Runs : cut'[r] = NoCut
        /\ AheadInv' /\ StageInv' /\ ItemsInv' /\ AccountsInv' /\ FilesInv'
    BY <1>2, <1>5, <1>6, <1>7, AllEnd
  <1>9. Types'
    <2>1. cut' \in [Runs -> Cuts \cup {NoCut}]
      BY <1>2
    <2>. QED
      BY <1>1, <1>2, <1>8, <2>1 DEF Types
  <1>10. ThreadsInv'
    BY <1>1, <1>2, <1>8 DEF ThreadsInv
  <1>11. PlansInv'
    BY <1>1, <1>2 DEF PlansInv
  <1>12. ASSUME BehindInv PROVE BehindInv'
    <2>1. \A r \in Runs : (Come(r)' <=> Come(r)) /\ (Early(r)' <=> Early(r))
      BY <1>2 DEF Come, Early
    <2>. QED
      BY <1>2, <1>12, <2>1 DEF BehindInv
  <1>13. BookInv' /\ SavesInv' /\ (OrderInv => OrderInv')
    BY <1>1, <1>2, BookSame, SavesSame, OrderSame
  <1>. QED
    BY <1>1, <1>2, <1>8, <1>9, <1>10, <1>11, <1>12, <1>13 DEF ScheduleInv

\* What a run takes from a chunk fits in it.
LEMMA TakesAre ==
  ASSUME Types, NEW r \in Runs, cut[r] \in Cuts, cut[r].written < Samples(r), StartOf(r) <= now
  PROVE  /\ Takes(r) = [late |-> Takes(r).late, back |-> Takes(r).back, live |-> Takes(r).live]
         /\ Takes(r).late \in Nat /\ Takes(r).back \in Nat /\ Takes(r).live \in Nat
         /\ cut[r].written + Takes(r).late + Takes(r).back + Takes(r).live <= Samples(r)
PROOF
  <1>. DEFINE w == cut[r].written
              s == Samples(r)
              room == s - w
              x == StartOf(r)
              o == Oldest
              late == IF w = 0 THEN Smaller(Larger(0, o - x), room) ELSE 0
              back == IF w = 0 THEN Smaller(now - Larger(x, o), room - late) ELSE 0
              live == Smaller(1, room - late - back)
  <1>1. Takes(r) = [late |-> late, back |-> back, live |-> live]
    BY DEF Takes
  <1>2. w \in Nat /\ s \in Nat /\ x \in Int /\ x <= now /\ now \in Nat /\ w < s
    BY RunIs DEF Types, Cuts
  <1>3. o \in Int /\ o <= now
    <2>1. ringFrom \in Nat /\ ringFrom <= now /\ RingSpan \in Nat \ {0}
      BY ScheduleAssumption DEF Types
    <2>. QED
      BY <1>2, <2>1 DEF Oldest, Larger
  <1>. HIDE DEF w, s, x, o
  <1>4. room \in Nat /\ room > 0
    BY <1>2
  <1>. HIDE DEF room
  <1>5. late \in Nat /\ late <= room
    BY <1>2, <1>3, <1>4 DEF Smaller, Larger
  <1>. HIDE DEF late
  <1>6. back \in Nat /\ late + back <= room
    BY <1>2, <1>3, <1>4, <1>5 DEF Smaller, Larger
  <1>. HIDE DEF back
  <1>7. live \in Nat /\ late + back + live <= room
    BY <1>4, <1>5, <1>6 DEF Smaller
  <1>. HIDE DEF live
  <1>8. w + late + back + live <= s
    BY <1>2, <1>5, <1>6, <1>7 DEF room
  <1>. QED
    BY <1>1, <1>5, <1>6, <1>7, <1>8 DEF w, s

\* Of that the budget grants a part.
LEMMA GrantedIs ==
  ASSUME inFlight \in 0..Budget, NEW t, t.back \in Nat, t.live \in Nat
  PROVE  LET g == Granted(t) IN
         /\ g.back \in Nat /\ g.live \in Nat /\ g.back <= t.back /\ g.live <= t.live
         /\ inFlight + g.back + g.live \in 0..Budget
PROOF
  <1>1. Budget \in Nat /\ inFlight \in Nat /\ inFlight <= Budget
    BY ScheduleAssumption
  <1>. DEFINE back == IF inFlight + t.back <= Budget THEN t.back ELSE 0
              live == IF inFlight + back + t.live <= Budget THEN t.live ELSE 0
  <1>2. Granted(t) = [back |-> back, live |-> live]
    BY DEF Granted
  <1>3. back \in Nat /\ back <= t.back /\ inFlight + back <= Budget
    BY <1>1
  <1>. HIDE DEF back
  <1>4. live \in Nat /\ live <= t.live /\ inFlight + back + live <= Budget
    BY <1>1, <1>3
  <1>. HIDE DEF live
  <1>. QED
    BY <1>1, <1>2, <1>3, <1>4

\* The items of a part of a take.
LEMMA OpIs ==
  ASSUME NEW kind \in {"iq", "zeros"}, NEW r \in Runs, NEW n \in Nat
  PROVE  /\ Op(kind, r, n) \in Seq(Items)
         /\ \A m \in DOMAIN Op(kind, r, n) : Op(kind, r, n)[m].kind = kind
              /\ Op(kind, r, n)[m].run = r
         /\ \A rs : Carries(Op(kind, r, n), rs, IF kind = "iq" /\ r \in rs THEN n ELSE 0)
PROOF
  <1>. DEFINE item == [kind |-> kind, run |-> r, n |-> n]
  <1>1. item \in Items /\ item.kind = kind /\ item.run = r /\ item.n = n
    BY DEF Items
  <1>. HIDE DEF item
  <1>2. CASE n > 0
    <2>1. Op(kind, r, n) = <<item>>
      BY <1>2 DEF Op, item
    <2>2. \A rs : Carries(<<item>>, rs, IqIn(item, rs))
      BY <1>1, CarriesLittle
    <2>3. \A rs : IqIn(item, rs) = IF kind = "iq" /\ r \in rs THEN n ELSE 0
      BY <1>1 DEF IqIn
    <2>. QED
      BY <1>1, <2>1, <2>2, <2>3
  <1>3. CASE n = 0
    <2>1. Op(kind, r, n) = <<>>
      BY <1>3 DEF Op
    <2>2. <<>> \in Seq(Items) /\ DOMAIN <<>> = {}
      OBVIOUS
    <2>. QED
      BY <1>3, <2>1, <2>2, CarriesLittle
  <1>. QED
    BY <1>2, <1>3

\* Items of one run that are written to its file, and carry x of its IQ.
Writes(t, r, x) ==
  /\ t \in Seq(Items)
  /\ \A n \in DOMAIN t : t[n].kind \in {"iq", "zeros"} /\ t[n].run = r
  /\ \A rs : Carries(t, rs, IF r \in rs THEN x ELSE 0)

\* One after the other.
LEMMA WritesJoin ==
  ASSUME NEW r \in Runs, NEW t, NEW u, NEW x \in Nat, NEW y \in Nat,
         Writes(t, r, x), Writes(u, r, y)
  PROVE  Writes(t \o u, r, x + y)
PROOF
  <1>1. t \in Seq(Items) /\ u \in Seq(Items)
    BY DEF Writes
  <1>2. /\ t \o u \in Seq(Items) /\ DOMAIN t = 1..Len(t) /\ DOMAIN u = 1..Len(u)
        /\ DOMAIN (t \o u) = 1..(Len(t) + Len(u))
        /\ \A n \in 1..Len(t) : (t \o u)[n] = t[n]
        /\ \A n \in 1..(Len(t) + Len(u)) :
             n \in 1..Len(t) \/ (n - Len(t) \in 1..Len(u) /\ (t \o u)[n] = u[n - Len(t)])
    BY <1>1, Joining
  <1>3. \A n \in DOMAIN (t \o u) : (t \o u)[n].kind \in {"iq", "zeros"} /\ (t \o u)[n].run = r
    BY <1>2 DEF Writes
  <1>4. ASSUME NEW rs PROVE Carries(t \o u, rs, IF r \in rs THEN x + y ELSE 0)
    <2>. DEFINE v == IF r \in rs THEN x ELSE 0
                z == IF r \in rs THEN y ELSE 0
    <2>1. Carries(t, rs, v) /\ Carries(u, rs, z)
      BY DEF Writes
    <2>2. v + z = IF r \in rs THEN x + y ELSE 0
      OBVIOUS
    <2>. HIDE DEF v, z
    <2>3. Carries(t \o u, rs, v + z)
      BY <1>1, <2>1, CarriesMore
    <2>. QED
      BY <2>2, <2>3
  <1>. QED
    BY <1>2, <1>3, <1>4 DEF Writes

\* The items of a take.
LEMMA PutIs ==
  ASSUME NEW r \in Runs, NEW t, NEW g, t.late \in Nat, t.back \in Nat, t.live \in Nat,
         g.back \in Nat, g.live \in Nat, g.back <= t.back, g.live <= t.live
  PROVE  Writes(Put(r, t, g), r, g.back + g.live)
PROOF
  <1>. DEFINE a == Op("zeros", r, t.late)
              b == Op("iq", r, g.back)
              c == Op("zeros", r, t.back - g.back)
              d == Op("iq", r, g.live)
              e == Op("zeros", r, t.live - g.live)
  <1>1. \A n \in Nat : Writes(Op("iq", r, n), r, n) /\ Writes(Op("zeros", r, n), r, 0)
    <2>1. ASSUME NEW n \in Nat PROVE Writes(Op("iq", r, n), r, n)
      <3>1. /\ Op("iq", r, n) \in Seq(Items)
            /\ \A m \in DOMAIN Op("iq", r, n) : Op("iq", r, n)[m].kind = "iq"
                 /\ Op("iq", r, n)[m].run = r
            /\ \A rs : Carries(Op("iq", r, n), rs, IF "iq" = "iq" /\ r \in rs THEN n ELSE 0)
        BY OpIs
      <3>2. \A rs : (IF "iq" = "iq" /\ r \in rs THEN n ELSE 0) = IF r \in rs THEN n ELSE 0
        OBVIOUS
      <3>. QED
        BY <3>1, <3>2 DEF Writes
    <2>2. ASSUME NEW n \in Nat PROVE Writes(Op("zeros", r, n), r, 0)
      <3>1. /\ Op("zeros", r, n) \in Seq(Items)
            /\ \A m \in DOMAIN Op("zeros", r, n) :
                 Op("zeros", r, n)[m].kind = "zeros" /\ Op("zeros", r, n)[m].run = r
            /\ \A rs : Carries(Op("zeros", r, n), rs, IF "zeros" = "iq" /\ r \in rs THEN n ELSE 0)
        BY OpIs
      <3>2. \A rs : (IF "zeros" = "iq" /\ r \in rs THEN n ELSE 0) = IF r \in rs THEN 0 ELSE 0
        OBVIOUS
      <3>. QED
        BY <3>1, <3>2 DEF Writes
    <2>. QED
      BY <2>1, <2>2
  <1>2. t.back - g.back \in Nat /\ t.live - g.live \in Nat
    OBVIOUS
  <1>3. Writes(a, r, 0) /\ Writes(b, r, g.back) /\ Writes(c, r, 0) /\ Writes(d, r, g.live)
          /\ Writes(e, r, 0)
    BY <1>1, <1>2
  <1>4. Put(r, t, g) = (((a \o b) \o c) \o d) \o e
    BY DEF Put
  <1>. HIDE DEF a, b, c, d, e
  <1>5. Writes(a \o b, r, 0 + g.back)
    BY <1>3, WritesJoin
  <1>6. Writes(a \o b, r, g.back)
    BY <1>5
  <1>7. Writes((a \o b) \o c, r, g.back + 0)
    BY <1>3, <1>6, WritesJoin
  <1>8. Writes((a \o b) \o c, r, g.back)
    BY <1>7
  <1>9. Writes(((a \o b) \o c) \o d, r, g.back + g.live)
    BY <1>3, <1>8, WritesJoin
  <1>10. g.back + g.live \in Nat /\ g.back + g.live + 0 = g.back + g.live
    OBVIOUS
  <1>11. Writes((((a \o b) \o c) \o d) \o e, r, g.back + g.live + 0)
    BY <1>3, <1>9, <1>10, WritesJoin
  <1>. QED
    BY <1>4, <1>10, <1>11

-----------------------------------------------------------------------------
(* A run is fed.                                                           *)

\* What a run takes from the chunk, and its cut after it.
TakeOf(r) == IF cut[r].since = NoTime THEN Takes(r) ELSE Nothing
CutOf(r) == IF cut[r].since = NoTime THEN Fed(r, TakeOf(r), Granted(TakeOf(r))) ELSE cut[r]

\* The fields of a cut that is fed.
LEMMA FedIs ==
  ASSUME NEW r \in Runs, cut[r] \in Cuts, now \in Nat, NEW t, NEW g,
         t.late \in Nat, t.back \in Nat, t.live \in Nat,
         g.back \in Nat, g.live \in Nat, g.back <= t.back, g.live <= t.live
  PROVE  /\ Fed(r, t, g) \in Cuts
         /\ Fed(r, t, g).written = cut[r].written + t.late + t.back + t.live
         /\ Fed(r, t, g).zeros = cut[r].zeros + t.late
         /\ Fed(r, t, g).refused = cut[r].refused + (t.back - g.back) + (t.live - g.live)
         /\ Fed(r, t, g).since = IF Fed(r, t, g).written >= Samples(r) THEN now ELSE NoTime
         /\ Fed(r, t, g).ended = cut[r].ended
PROOF
  <1>1. /\ cut[r].written \in Nat /\ cut[r].zeros \in Nat /\ cut[r].refused \in Nat
        /\ cut[r].ended \in BOOLEAN /\ Samples(r) \in Nat
    BY RunIs DEF Cuts
  <1>. DEFINE w == cut[r].written + t.late + t.back + t.live
              z == cut[r].zeros + t.late
              f == cut[r].refused + (t.back - g.back) + (t.live - g.live)
              s == IF w >= Samples(r) THEN now ELSE NoTime
  <1>2. w \in Nat /\ z \in Nat /\ f \in Nat
    BY <1>1
  <1>3. s \in {NoTime} \cup Nat
    OBVIOUS
  <1>4. Fed(r, t, g) = [cut[r] EXCEPT !.written = w, !.zeros = z, !.refused = f, !.since = s]
    BY DEF Fed
  <1>. HIDE DEF w, z, f, s
  <1>5. ASSUME NEW c \in Cuts
        PROVE  LET d == [c EXCEPT !.written = w, !.zeros = z, !.refused = f, !.since = s] IN
               /\ d \in Cuts /\ d.written = w /\ d.zeros = z /\ d.refused = f /\ d.since = s
               /\ d.ended = c.ended
    BY <1>2, <1>3 DEF Cuts
  <1>6. /\ Fed(r, t, g) \in Cuts /\ Fed(r, t, g).written = w /\ Fed(r, t, g).zeros = z
        /\ Fed(r, t, g).refused = f /\ Fed(r, t, g).since = s /\ Fed(r, t, g).ended = cut[r].ended
    BY <1>4, <1>5
  <1>. QED
    BY <1>6 DEF w, z, f, s

\* What is fed is within the window and the budget, and every sample is accounted for.
LEMMA FeedIs ==
  ASSUME Types, StageInv, NEW r \in Runs, cut[r] # NoCut
  PROVE  LET t == TakeOf(r)
             g == Granted(t)
             c == CutOf(r)
         IN /\ Writes(Put(r, t, g), r, g.back + g.live)
            /\ g.back + g.live \in Nat /\ inFlight + g.back + g.live \in 0..Budget
            /\ c \in Cuts /\ c.written <= Samples(r) /\ ~c.ended
            /\ c.since = NoTime <=> c.written < Samples(r)
            /\ \A h \in Nat, x \in Nat :
                 h + x + cut[r].zeros + cut[r].refused <= cut[r].written =>
                   h + (x + (g.back + g.live)) + c.zeros + c.refused <= c.written
PROOF
  <1>. DEFINE t == TakeOf(r)
              g == Granted(t)
              c == CutOf(r)
  <1>1. /\ cut[r] \in Cuts /\ now \in Nat /\ inFlight \in 0..Budget
        /\ StartOf(r) <= now /\ ~cut[r].ended /\ cut[r].written <= Samples(r)
        /\ cut[r].since = NoTime <=> cut[r].written < Samples(r)
    BY DEF Types, StageInv
  <1>2. /\ cut[r].written \in Nat /\ cut[r].zeros \in Nat /\ cut[r].refused \in Nat
        /\ Samples(r) \in Nat
    BY <1>1, RunIs DEF Cuts
  <1>3. /\ t.late \in Nat /\ t.back \in Nat /\ t.live \in Nat
        /\ cut[r].since = NoTime => cut[r].written + t.late + t.back + t.live <= Samples(r)
        /\ cut[r].since # NoTime => t.late = 0 /\ t.back = 0 /\ t.live = 0
    <2>1. CASE cut[r].since = NoTime
      BY <1>1, <2>1, TakesAre DEF TakeOf
    <2>2. CASE cut[r].since # NoTime
      BY <2>2 DEF TakeOf, Nothing
    <2>. QED
      BY <2>1, <2>2
  <1>. HIDE DEF t
  <1>4. /\ g.back \in Nat /\ g.live \in Nat /\ g.back <= t.back /\ g.live <= t.live
        /\ inFlight + g.back + g.live \in 0..Budget
    BY <1>1, <1>3, GrantedIs
  <1>. HIDE DEF g
  <1>5. Writes(Put(r, t, g), r, g.back + g.live) /\ g.back + g.live \in Nat
    BY <1>3, <1>4, PutIs
  <1>6. /\ c \in Cuts /\ c.written <= Samples(r) /\ ~c.ended
        /\ c.since = NoTime <=> c.written < Samples(r)
        /\ \A h \in Nat, x \in Nat :
             h + x + cut[r].zeros + cut[r].refused <= cut[r].written =>
               h + (x + (g.back + g.live)) + c.zeros + c.refused <= c.written
    <2>1. CASE cut[r].since = NoTime
      <3>1. c = Fed(r, t, g)
        BY <2>1 DEF CutOf, t, g
      <3>2. /\ c \in Cuts
            /\ c.written = cut[r].written + t.late + t.back + t.live
            /\ c.zeros = cut[r].zeros + t.late
            /\ c.refused = cut[r].refused + (t.back - g.back) + (t.live - g.live)
            /\ c.since = IF c.written >= Samples(r) THEN now ELSE NoTime
            /\ c.ended = cut[r].ended
        BY <1>1, <1>3, <1>4, <3>1, FedIs
      <3>. HIDE DEF c
      <3>3. c.written <= Samples(r) /\ c.written \in Nat
        BY <1>2, <1>3, <2>1, <3>2
      <3>4. c.since = NoTime <=> c.written < Samples(r)
        BY <1>1, <1>2, <3>2, <3>3 DEF NoTime
      <3>5. ASSUME NEW h \in Nat, NEW x \in Nat,
                   NEW z \in Nat, NEW f \in Nat, NEW w \in Nat,
                   NEW l \in Nat, NEW b \in Nat, NEW v \in Nat, NEW gb \in Nat, NEW gv \in Nat,
                   h + x + z + f <= w
            PROVE  h + (x + (gb + gv)) + (z + l) + (f + (b - gb) + (v - gv)) <= w + l + b + v
        BY <3>5
      <3>6. ASSUME NEW h \in Nat, NEW x \in Nat,
                   h + x + cut[r].zeros + cut[r].refused <= cut[r].written
            PROVE  h + (x + (g.back + g.live)) + c.zeros + c.refused <= c.written
        <4>1. h + (x + (g.back + g.live)) + (cut[r].zeros + t.late)
                + (cut[r].refused + (t.back - g.back) + (t.live - g.live))
                  <= cut[r].written + t.late + t.back + t.live
          <5>. DEFINE z == cut[r].zeros
                      f == cut[r].refused
                      w == cut[r].written
                      l == t.late
                      b == t.back
                      v == t.live
                      gb == g.back
                      gv == g.live
          <5>1. /\ z \in Nat /\ f \in Nat /\ w \in Nat /\ l \in Nat /\ b \in Nat /\ v \in Nat
                /\ gb \in Nat /\ gv \in Nat /\ h + x + z + f <= w
            BY <1>2, <1>3, <1>4, <3>6
          <5>. HIDE DEF z, f, w, l, b, v, gb, gv
          <5>2. h + (x + (gb + gv)) + (z + l) + (f + (b - gb) + (v - gv)) <= w + l + b + v
            BY <3>5, <5>1
          <5>. QED
            BY <5>2 DEF z, f, w, l, b, v, gb, gv
        <4>. QED
          BY <3>2, <4>1
      <3>. QED
        BY <1>1, <3>2, <3>3, <3>4, <3>6
    <2>2. CASE cut[r].since # NoTime
      <3>1. c = cut[r]
        BY <2>2 DEF CutOf
      <3>2. g.back = 0 /\ g.live = 0
        BY <1>3, <1>4, <2>2
      <3>. QED
        BY <1>1, <1>2, <3>1, <3>2
    <2>. QED
      BY <2>1, <2>2
  <1>. HIDE DEF c
  <1>. QED
    BY <1>4, <1>5, <1>6 DEF t, g, c

\* The items a run that is fed puts to the queue.
LEMMA FeedPuts ==
  ASSUME NEW r \in Runs, NEW p, NEW x \in Nat, Writes(p, r, x), NEW c, c \in Cuts,
         NEW v, v = <<>> \/ v = <<CloseItem(r, c)>>
  PROVE  LET u == p \o v IN
         /\ v \in Seq(Items) /\ u \in Seq(Items) /\ DOMAIN u = 1..Len(u)
         /\ \A n \in DOMAIN u :
              /\ u[n].run = r /\ u[n].kind \in {"iq", "zeros", "close"}
              /\ u[n].kind = "close" => v # <<>> /\ n = Len(u) /\ u[n].status = CutStatus(r, c)
         /\ v # <<>> => \E n \in DOMAIN u : u[n].kind = "close"
         /\ \A rs : Carries(u, rs, IF r \in rs THEN x ELSE 0)
PROOF
  <1>1. p \in Seq(Items) /\ \A n \in DOMAIN p : p[n].kind \in {"iq", "zeros"} /\ p[n].run = r
    BY DEF Writes
  <1>. DEFINE u == p \o v
              e == CloseItem(r, c)
              s == CutStatus(r, c)
  <1>2. s \in {"recorded", "partial"}
    BY DEF CutStatus
  <1>3. e \in Items /\ e.kind = "close" /\ e.run = r /\ e.status = s
    <2>1. e = [kind |-> "close", run |-> r, status |-> s]
      BY DEF CloseItem
    <2>. HIDE DEF e, s
    <2>. QED
      BY <1>2, <2>1 DEF Items
  <1>. HIDE DEF e, s
  <1>4. CASE v = <<CloseItem(r, c)>>
    <2>1. v \in Seq(Items) /\ DOMAIN v = 1..1 /\ Len(v) = 1 /\ v[1] = e /\ v # <<>>
      <3>1. v = <<e>>
        BY <1>4 DEF e
      <3>. QED
        BY <1>3, <3>1
    <2>3. \A rs : IqIn(e, rs) = 0
      BY <1>3 DEF IqIn
    <2>4. \A rs : \A n \in DOMAIN v : IqIn(v[n], rs) = 0
      BY <2>1, <2>3
    <2>5. \A rs : Carries(v, rs, 0)
      BY <2>1, <2>4, CarriesNothing
    <2>. DEFINE a == Len(p)
    <2>6. /\ a \in Nat /\ DOMAIN p = 1..a /\ u \in Seq(Items) /\ DOMAIN u = 1..(a + 1)
          /\ Len(u) = a + 1
          /\ \A n \in 1..a : u[n] = p[n]
          /\ \A n \in 1..(a + 1) : n \in 1..a \/ (n - a \in 1..1 /\ u[n] = v[n - a])
      <3>1. /\ a \in Nat /\ DOMAIN p = 1..a /\ u \in Seq(Items)
            /\ DOMAIN u = 1..(a + Len(v)) /\ Len(u) = a + Len(v)
            /\ \A n \in 1..a : u[n] = p[n]
            /\ \A n \in 1..(a + Len(v)) : n \in 1..a \/ (n - a \in 1..Len(v) /\ u[n] = v[n - a])
        BY <1>1, <2>1, Joining
      <3>. HIDE DEF u
      <3>. QED
        BY <2>1, <3>1
    <2>. HIDE DEF a, u
    <2>7. \A n \in 1..(a + 1) : n \in 1..a \/ (n = a + 1 /\ u[n] = e)
      <3>1. \A n \in 1..(a + 1) : n - a \in 1..1 => n = a + 1 /\ n - a = 1
        BY <2>6
      <3>. QED
        BY <2>1, <2>6, <3>1
    <2>8. a + 1 \in 1..(a + 1) /\ a + 1 \notin 1..a
      BY <2>6
    <2>9. \A n \in 1..a : u[n].kind \in {"iq", "zeros"} /\ u[n].run = r
      BY <1>1, <2>6
    <2>10. ASSUME NEW rs PROVE Carries(u, rs, IF r \in rs THEN x ELSE 0)
      <3>. DEFINE y == IF r \in rs THEN x ELSE 0
      <3>1. Carries(p, rs, y)
        BY DEF Writes
      <3>2. y \in Nat
        OBVIOUS
      <3>. HIDE DEF y
      <3>3. Carries(u, rs, y + 0)
        BY <1>1, <2>1, <2>5, <3>1, CarriesMore DEF u
      <3>. QED
        BY <3>2, <3>3 DEF y
    <2>11. /\ v \in Seq(Items) /\ u \in Seq(Items) /\ DOMAIN u = 1..Len(u)
           /\ \A n \in DOMAIN u :
                /\ u[n].run = r /\ u[n].kind \in {"iq", "zeros", "close"}
                /\ u[n].kind = "close" => v # <<>> /\ n = Len(u) /\ u[n].status = s
           /\ v # <<>> => \E n \in DOMAIN u : u[n].kind = "close"
      BY <1>3, <2>1, <2>6, <2>7, <2>8, <2>9
    <2>. QED
      BY <2>10, <2>11 DEF s, u
  <1>5. CASE v = <<>>
    <2>1. u = p /\ v \in Seq(Items)
      BY <1>1, <1>5, ConcatEmptySeq
    <2>. QED
      BY <1>1, <1>5, <2>1 DEF Writes
  <1>. QED
    BY <1>4, <1>5

\* A run is fed what it takes from the chunk.
LEMMA RxFeedKeeps ==
  ASSUME ScheduleInv, NEW r \in Runs, RxFeed(r)
  PROVE  ScheduleInv'
PROOF
  <1>1. /\ Types /\ BookInv /\ AheadInv /\ SavesInv /\ StageInv /\ ItemsInv /\ ThreadsInv
        /\ AccountsInv /\ FilesInv /\ PlansInv
        /\ "late_add" \notin happens => OrderInv /\ BehindInv
    BY DEF ScheduleInv
  <1>. DEFINE t == TakeOf(r)
              g == Granted(t)
              c == CutOf(r)
              p == Put(r, t, g)
              x == g.back + g.live
  <1>2. PICK close \in BOOLEAN :
          /\ close => c.since # NoTime
          /\ cut' = [cut EXCEPT ![r] = IF close THEN NoCut ELSE c]
          /\ queue' = queue \o p \o IF close THEN <<CloseItem(r, c)>> ELSE <<>>
          /\ inFlight' = inFlight + g.back + g.live
    BY DEF RxFeed, TakeOf, CutOf
  <1>3. /\ rx = "feed" /\ r \in todo /\ todo' = todo \ {r}
        /\ UNCHANGED <<now, table, created, rows, book, last, latest, saving, stale, rx, ringFrom,
                       plan,
                       marked, files, writer, happens, stops, deaths, failedSaves, lostSaves,
                       begun>>
    BY DEF RxFeed, bookVars, histVars
  <1>4. cut[r] # NoCut
    BY <1>1, <1>3 DEF ThreadsInv
  <1>5. /\ Writes(p, r, x) /\ x \in Nat /\ inFlight + g.back + g.live \in 0..Budget
        /\ c \in Cuts /\ c.written <= Samples(r) /\ ~c.ended
        /\ c.since = NoTime <=> c.written < Samples(r)
        /\ \A h \in Nat, y \in Nat :
             h + y + cut[r].zeros + cut[r].refused <= cut[r].written =>
               h + (y + x) + c.zeros + c.refused <= c.written
    BY <1>1, <1>4, FeedIs
  <1>6. g.back \in Nat /\ g.live \in Nat
    <2>1. t.late \in Nat /\ t.back \in Nat /\ t.live \in Nat
      <3>1. CASE cut[r].since = NoTime
        <4>1. cut[r] \in Cuts /\ StartOf(r) <= now /\ cut[r].written < Samples(r)
          BY <1>1, <1>4, <3>1 DEF Types, StageInv
        <4>. QED
          BY <1>1, <3>1, <4>1, TakesAre DEF TakeOf
      <3>2. CASE cut[r].since # NoTime
        BY <3>2 DEF TakeOf, Nothing
      <3>. QED
        BY <3>1, <3>2
    <2>2. inFlight \in 0..Budget
      BY <1>1 DEF Types
    <2>. QED
      BY <2>1, <2>2, GrantedIs
  <1>7. inFlight' \in 0..Budget /\ inFlight' = inFlight + x
    <2>1. inFlight \in Int
      BY <1>1, ScheduleAssumption DEF Types
    <2>2. inFlight + g.back + g.live = inFlight + x
      BY <1>6, <2>1
    <2>. QED
      BY <1>2, <1>5, <2>2
  <1>. HIDE DEF t, g, c, p, x
  <1>. DEFINE v == IF close THEN <<CloseItem(r, c)>> ELSE <<>>
              u == p \o v
  <1>8. /\ v \in Seq(Items) /\ u \in Seq(Items) /\ DOMAIN u = 1..Len(u)
        /\ \A n \in DOMAIN u :
             /\ u[n].run = r /\ u[n].kind \in {"iq", "zeros", "close"}
             /\ u[n].kind = "close" => close /\ n = Len(u) /\ u[n].status = CutStatus(r, c)
        /\ close => \E n \in DOMAIN u : u[n].kind = "close"
        /\ \A rs : Carries(u, rs, IF r \in rs THEN x ELSE 0)
    <2>1. (v = <<>> \/ v = <<CloseItem(r, c)>>) /\ (v # <<>> <=> close)
      OBVIOUS
    <2>. HIDE DEF v
    <2>2. /\ v \in Seq(Items) /\ u \in Seq(Items) /\ DOMAIN u = 1..Len(u)
          /\ \A n \in DOMAIN u :
               /\ u[n].run = r /\ u[n].kind \in {"iq", "zeros", "close"}
               /\ u[n].kind = "close" => v # <<>> /\ n = Len(u) /\ u[n].status = CutStatus(r, c)
          /\ v # <<>> => \E n \in DOMAIN u : u[n].kind = "close"
          /\ \A rs : Carries(u, rs, IF r \in rs THEN x ELSE 0)
      BY <1>5, <2>1, FeedPuts
    <2>. HIDE DEF u
    <2>. QED
      BY <2>1, <2>2
  <1>9. queue \in Seq(Items)
    BY <1>1 DEF Types
  <1>10. queue' = queue \o u
    <2>2. p \in Seq(Items)
      BY <1>5 DEF Writes
    <2>3. queue' = (queue \o p) \o v /\ u = p \o v
      BY <1>2
    <2>. HIDE DEF u, v
    <2>4. (queue \o p) \o v = queue \o (p \o v)
      BY <1>8, <1>9, <2>2, ConcatAssociative
    <2>. QED
      BY <2>3, <2>4
  <1>. HIDE DEF u, v
  <1>11. queue' \in Seq(Items)
    BY <1>8, <1>9, <1>10, Joining
  <1>12. \A n \in DOMAIN queue' : (\E m \in DOMAIN queue : queue'[n] = queue[m])
                                  \/ \E m \in DOMAIN u : queue'[n] = u[m]
    <2>. DEFINE a == Len(queue)
                w == queue \o u
    <2>1. /\ DOMAIN queue = 1..a /\ DOMAIN u = 1..Len(u) /\ DOMAIN w = 1..(a + Len(u))
          /\ \A n \in 1..a : w[n] = queue[n]
          /\ \A n \in 1..(a + Len(u)) : n \in 1..a \/ (n - a \in 1..Len(u) /\ w[n] = u[n - a])
      BY <1>8, <1>9, Joining
    <2>2. queue' = w
      BY <1>10
    <2>. HIDE DEF w, a
    <2>. QED
      BY <2>1, <2>2
  \* The cuts.
  <1>13. cut \in [Runs -> Cuts \cup {NoCut}] /\ cut' \in [Runs -> Cuts \cup {NoCut}]
    BY <1>1, <1>2, <1>5 DEF Types
  <1>14. /\ \A s \in Runs : s # r => cut'[s] = cut[s]
         /\ cut'[r] = IF close THEN NoCut ELSE c
    BY <1>2, <1>13
  <1>15. \A s \in Runs : cut'[s] # NoCut => cut[s] # NoCut
    BY <1>4, <1>14
  <1>16. \A s \in Runs : \A kind :
           Queued(kind, s)' <=> Queued(kind, s) \/ \E n \in DOMAIN u :
             u[n].kind = kind /\ IsOf(u[n], s)
    BY <1>8, <1>9, <1>10, QueueGrows
  <1>17. \A s \in Runs : /\ Queued("open", s)' <=> Queued("open", s)
                         /\ Queued("close", s)' <=> Queued("close", s) \/ (close /\ s = r)
    BY <1>8, <1>16 DEF IsOf
  <1>18. \A s \in Runs : IsOpen(s)' <=> IsOpen(s)
    BY <1>3 DEF IsOpen
  <1>19. \A n \in DOMAIN queue : queue[n].kind # "stop"
    BY <1>1, <1>3 DEF ThreadsInv
  <1>20. \A n \in DOMAIN queue' : queue'[n].kind # "stop"
    BY <1>8, <1>12, <1>19
  \* The parts.
  <1>21. Types'
    BY <1>1, <1>3, <1>7, <1>11, <1>13 DEF Types
  <1>22. AheadInv'
    <2>1. Come(r)
      BY <1>1, <1>4 DEF AheadInv
    <2>2. \A s \in Runs : (Come(s)' <=> Come(s)) /\ (OnItsWay(s)' <=> OnItsWay(s))
      BY <1>3 DEF Come, OnItsWay
    <2>3. \A s \in Runs : ~Come(s) => \A n \in DOMAIN queue' : ~IsOf(queue'[n], s)
      <3>1. ASSUME NEW s \in Runs, ~Come(s), NEW n \in DOMAIN queue', IsOf(queue'[n], s) PROVE FALSE
        <4>1. CASE \E m \in DOMAIN queue : queue'[n] = queue[m]
          BY <1>1, <3>1, <4>1 DEF AheadInv
        <4>2. CASE \E m \in DOMAIN u : queue'[n] = u[m]
          BY <1>8, <2>1, <3>1, <4>2 DEF IsOf
        <4>. QED
          BY <1>12, <4>1, <4>2
      <3>. QED
        BY <3>1
    <2>. QED
      BY <1>1, <1>3, <1>15, <1>18, <2>2, <2>3 DEF AheadInv, IsOf
  <1>23. StageInv'
    <2>1. ASSUME NEW s \in Runs, cut'[s] # NoCut
          PROVE  /\ latest'[s] = "recording" /\ ~Queued("close", s)'
                 /\ Queued("open", s)' \/ IsOpen(s)'
                 /\ StartOf(s) <= now' /\ ~cut'[s].ended /\ cut'[s].written <= Samples(s)
                 /\ cut'[s].since = NoTime <=> cut'[s].written < Samples(s)
      <3>1. /\ latest[s] = "recording" /\ ~Queued("close", s)
            /\ Queued("open", s) \/ IsOpen(s)
            /\ StartOf(s) <= now
            /\ ~cut[s].ended /\ cut[s].written <= Samples(s)
            /\ cut[s].since = NoTime <=> cut[s].written < Samples(s)
        BY <1>1, <1>15, <2>1 DEF StageInv
      <3>2. StartOf(s) <= now
        BY <1>1, <1>15, <2>1 DEF StageInv
      <3>3. CASE s = r
        BY <1>3, <1>5, <1>14, <1>17, <1>18, <2>1, <3>1, <3>2, <3>3
      <3>4. CASE s # r
        BY <1>3, <1>14, <1>17, <1>18, <2>1, <3>1, <3>2, <3>4
      <3>. QED
        BY <3>3, <3>4
    <2>2. ASSUME NEW s \in Runs
          PROVE  /\ Queued("open", s)' \/ IsOpen(s)' => cut'[s] # NoCut \/ Queued("close", s)'
                 /\ Queued("close", s)' => latest'[s] = "recording"
      <3>1. /\ Queued("open", s) \/ IsOpen(s) => cut[s] # NoCut \/ Queued("close", s)
            /\ Queued("close", s) => latest[s] = "recording"
            /\ cut[s] # NoCut => latest[s] = "recording"
        BY <1>1 DEF StageInv
      <3>2. s = r => cut'[s] # NoCut \/ close
        <4>1. \A d \in Cuts : d.written \in Nat
          BY DEF Cuts
        <4>2. NoCut.written = -1
          BY DEF NoCut
        <4>3. c # NoCut
          BY <1>5, <4>1, <4>2
        <4>. QED
          BY <1>14, <4>3
      <3>. QED
        BY <1>3, <1>4, <1>14, <1>17, <1>18, <3>1, <3>2
    <2>3. \A s \in Runs : Samples(s)' = Samples(s) /\ StartOf(s)' = StartOf(s)
      BY DEF Samples, StartOf, RunStart, Schedule
    <2>. QED
      BY <2>1, <2>2, <2>3 DEF StageInv
  <1>24. ItemsInv'
    <2>1. \A s \in Runs : \A n \in DOMAIN u : IsOf(u[n], s) =>
            /\ ~Queued("close", s)
            /\ u[n].kind = "open" => \A m \in DOMAIN queue : ~IsOf(queue[m], s)
            /\ u[n].kind # "open" => Queued("open", s) \/ IsOpen(s)
      BY <1>1, <1>4, <1>8 DEF StageInv, IsOf
    <2>2. \A s \in Runs : \A m, n \in DOMAIN u : m < n /\ IsOf(u[m], s) /\ IsOf(u[n], s) =>
            u[m].kind # "close" /\ u[n].kind # "open"
      <3>1. \A n \in 1..Len(u) : ~(Len(u) < n)
        BY <1>8
      <3>. QED
        BY <1>8, <3>1
    <2>3. \A n \in DOMAIN u : u[n].kind # "stop"
      BY <1>8
    <2>. QED
      BY <1>1, <1>3, <1>8, <1>9, <1>10, <1>19, <2>1, <2>2, <2>3, ItemsGrow
  <1>25. ThreadsInv'
    <2>1. now < MaxTime /\ marked /\ (\A s \in todo : s \in Runs /\ cut[s] # NoCut)
            /\ writer # "exited"
      BY <1>1, <1>3 DEF ThreadsInv, Types
    <2>2. \A s \in todo' : cut'[s] # NoCut
      BY <1>3, <1>14, <2>1
    <2>. QED
      BY <1>3, <1>20, <2>1, <2>2 DEF ThreadsInv
  <1>26. AccountsInv'
    <2>1. \A rs, y : Carries(queue, rs, y) =>
            y \in Nat /\ Carries(queue', rs, y + IF r \in rs THEN x ELSE 0)
      BY <1>8, <1>9, <1>10, CarriesMore
    <2>2. \A rs, y : Carries(queue, rs, y)' <=> Carries(queue', rs, y)
      BY DEF Carries, IqIn
    <2>3. Carries(queue, Runs, inFlight)'
      <3>1. Carries(queue', Runs, inFlight + x)
        BY <1>1, <2>1 DEF AccountsInv
      <3>2. Carries(queue', Runs, inFlight')
        BY <1>7, <3>1
      <3>. QED
        BY <3>2 DEF Carries, IqIn
    <2>4. \A s \in Runs : Had(s)' = Had(s) /\ Had(s) \in Nat
      BY <1>1, <1>3, <1>17 DEF Had, Types, RunFiles
    <2>5. ASSUME NEW s \in Runs, s # r, NEW y, Carries(queue, {s}, y)
          PROVE  y \in Nat /\ Carries(queue', {s}, y)
      <3>1. r \notin {s}
        BY <2>5
      <3>2. y \in Nat /\ Carries(queue', {s}, y + 0)
        BY <2>1, <2>5, <3>1
      <3>. QED
        BY <3>2
    <2>6. \E y \in Nat : Carries(queue', {r}, y) /\ Had(r) + y + c.zeros + c.refused <= c.written
      <3>1. PICK y \in Nat : Carries(queue, {r}, y)
                             /\ Had(r) + y + cut[r].zeros + cut[r].refused <= cut[r].written
        BY <1>1, <1>4 DEF AccountsInv
      <3>2. Carries(queue', {r}, y + x)
        BY <2>1, <3>1
      <3>3. Had(r) + (y + x) + c.zeros + c.refused <= c.written
        BY <1>5, <2>4, <3>1
      <3>. QED
        BY <1>5, <3>2, <3>3
    <2>7. ASSUME NEW s \in Runs, cut'[s] # NoCut
          PROVE  \E y \in Nat : Carries(queue', {s}, y)
                                /\ Had(s) + y + cut'[s].zeros + cut'[s].refused <= cut'[s].written
      <3>1. CASE s = r
        BY <1>14, <2>6, <2>7, <3>1
      <3>2. CASE s # r
        BY <1>1, <1>14, <2>5, <2>7, <3>2 DEF AccountsInv
      <3>. QED
        BY <3>1, <3>2
    <2>8. ASSUME NEW s \in Runs, NEW n \in DOMAIN queue', IsOf(queue'[n], s),
                 queue'[n].kind = "close", queue'[n].status = "partial"
          PROVE  \E y \in Nat : Carries(queue', {s}, y) /\ Had(s) + y < Samples(s)
      <3>1. CASE \E m \in DOMAIN queue : queue'[n] = queue[m]
        <4>1. PICK m \in DOMAIN queue : queue'[n] = queue[m]
          BY <3>1
        <4>2. Queued("close", s)
          BY <2>8, <4>1 DEF Queued
        <4>3. s # r
          BY <1>1, <1>4, <4>2 DEF StageInv
        <4>4. \E y \in Nat : Carries(queue, {s}, y) /\ Had(s) + y < Samples(s)
          BY <1>1, <2>8, <4>1 DEF AccountsInv
        <4>. QED
          BY <2>5, <4>3, <4>4
      <3>2. CASE \E m \in DOMAIN u : queue'[n] = u[m]
        <4>1. s = r /\ close /\ CutStatus(r, c) = "partial"
          BY <1>8, <2>8, <3>2 DEF IsOf
        <4>2. c.written = Samples(r)
          <5>1. c.written \in Nat /\ Samples(r) \in Nat
            BY <1>5, RunIs DEF Cuts
          <5>. QED
            BY <1>2, <1>5, <4>1, <5>1 DEF c
        <4>3. c.zeros # 0 \/ c.refused # 0
          BY <1>5, <4>1, <4>2 DEF CutStatus
        <4>4. c.zeros \in Nat /\ c.refused \in Nat /\ Samples(r) \in Nat
          BY <1>5, RunIs DEF Cuts
        <4>5. PICK y \in Nat : Carries(queue', {r}, y)
                /\ Had(r) + y + c.zeros + c.refused <= c.written
          BY <2>6
        <4>6. Had(r) + y < Samples(r)
          BY <2>4, <4>2, <4>3, <4>4, <4>5
        <4>. QED
          BY <4>1, <4>5, <4>6
      <3>. QED
        BY <1>12, <3>1, <3>2
    <2>9. \A s \in Runs : \A n \in DOMAIN queue' :
            (IsOf(queue[n], s) /\ queue[n].kind = "close" /\ queue[n].status = "partial")' =>
              \E y \in Nat : Carries(queue, {s}, y)' /\ Had(s)' + y < Samples(s)
      BY <2>2, <2>4, <2>8 DEF IsOf
    <2>10. \A s \in Runs : cut'[s] # NoCut =>
             \E y \in Nat : Carries(queue, {s}, y)'
                            /\ Had(s)' + y + cut'[s].zeros + cut'[s].refused <= cut'[s].written
      BY <2>2, <2>4, <2>7
    <2>. QED
      BY <2>3, <2>9, <2>10 DEF AccountsInv
  <1>27. FilesInv'
    <2>1. \A s \in Runs : (Lost(s)' <=> Lost(s)) /\ (Answered(s)' <=> Answered(s))
            /\ Outcome(s)' = Outcome(s)
      BY <1>3 DEF Lost, Answered, OnItsWay, Outcome
    <2>. QED
      BY <1>1, <1>3, <1>17, <2>1 DEF FilesInv
  <1>28. /\ BookInv' /\ SavesInv' /\ PlansInv'
         /\ (OrderInv => OrderInv') /\ (BehindInv => BehindInv')
    BY <1>1, <1>3, BookSame, SavesSame, PlansSame, OrderSame, BehindSame
  <1>. QED
    BY <1>1, <1>3, <1>21, <1>22, <1>23, <1>24, <1>25, <1>26, <1>27, <1>28 DEF ScheduleInv

-----------------------------------------------------------------------------
(* A chunk: what the schedules have come to.                               *)

\* The runs of a schedule that repeats start at different times.
LEMMA RunsRise ==
  ASSUME NEW i \in Ids, NEW j \in Nat, NEW k \in Nat, j < k, k < TotalRuns(i)
  PROVE  RunStart(i, j) < RunStart(i, k)
PROOF
  <1>. DEFINE e == Schedule(i).every
              s == Schedule(i).start
  <1>1. e \in Nat \ {0} /\ s \in Nat
    <2>1. e \in Nat /\ s \in Nat /\ (e = 0 => TotalRuns(i) = 1)
      BY BodyIs, RunsAre
    <2>. QED
      BY <2>1
  <1>2. RunStart(i, j) = s + j * e /\ RunStart(i, k) = s + k * e
    BY DEF RunStart
  <1>. HIDE DEF e, s
  <1>3. (j + 1) * e <= k * e
    <2>1. ASSUME NEW a \in Nat, NEW b \in Nat, a <= b PROVE a * e <= b * e
      BY <1>1, <2>1
    <2>2. j + 1 \in Nat /\ j + 1 <= k
      OBVIOUS
    <2>. QED
      BY <2>1, <2>2
  <1>4. (j + 1) * e = j * e + e /\ j * e \in Nat /\ k * e \in Nat
    BY <1>1
  <1>. QED
    BY <1>1, <1>2, <1>3, <1>4

\* The runs that are marked missed.
LEMMA MissedOfIs ==
  ASSUME NEW i \in Ids, last[i] \in NoRun..(TotalRuns(i) - 1), created[i] \in Nat, now \in Nat
  PROVE  /\ Ascends(MissedOf(i), i)
         /\ \A j \in 0..(TotalRuns(i) - 1) :
              Has(MissedOf(i), j) <=> /\ last[i] < j /\ created[i] - Grace <= RunStart(i, j)
                                      /\ RunStart(i, j) < now - Grace
PROOF
  <1>. DEFINE N == TotalRuns(i)
              l == last[i]
              next == IF l = NoRun THEN Schedule(i).start ELSE RunStart(i, l + 1)
              t0 == Larger(next, created[i] - Grace)
              t1 == now - Grace
  <1>1. MissedOf(i) = IF l # NoRun /\ l + 1 >= N THEN <<>> ELSE RunsBetween(i, t0, t1)
    BY DEF MissedOf
  <1>2. /\ N \in Nat /\ l \in Int /\ NoRun = -1 /\ -1 <= l /\ l <= N - 1
        /\ Grace \in Nat /\ created[i] \in Nat /\ now \in Nat
    BY RunsAre, ScheduleAssumption DEF NoRun
  <1>3. next = RunStart(i, l + 1) /\ next \in Int
    <2>1. l = -1 => l + 1 = 0
      BY <1>2
    <2>2. RunStart(i, 0) = Schedule(i).start /\ \A k \in Int : RunStart(i, k) \in Int
      BY RunsAre
    <2>3. l + 1 \in Int
      BY <1>2
    <2>. QED
      BY <1>2, <2>1, <2>2, <2>3
  <1>4. CASE l # NoRun /\ l + 1 >= N
    <2>1. MissedOf(i) = <<>>
      BY <1>1, <1>4
    <2>2. <<>> \in Seq(0..(N - 1)) /\ DOMAIN <<>> = {}
      OBVIOUS
    <2>3. \A j \in 0..(N - 1) : ~(l < j)
      <3>. HIDE DEF N, l
      <3>. QED
        BY <1>2, <1>4
    <2>. QED
      BY <2>1, <2>2, <2>3 DEF Ascends, Has
  <1>5. CASE ~(l # NoRun /\ l + 1 >= N)
    <2>1. MissedOf(i) = RunsBetween(i, t0, t1)
      BY <1>1, <1>5
    <2>. HIDE DEF next, l, N
    <2>2. /\ t0 \in Int /\ t1 \in Int
          /\ \A x \in Int : t0 <= x <=> next <= x /\ created[i] - Grace <= x
      BY <1>2, <1>3 DEF Larger
    <2>3. /\ Ascends(RunsBetween(i, t0, t1), i)
          /\ \A j \in 0..(N - 1) :
               Has(RunsBetween(i, t0, t1), j) <=> t0 <= RunStart(i, j) /\ RunStart(i, j) < t1
      <3>. HIDE DEF t0, t1
      <3>. QED
        BY <2>2, RunsBetweenIs DEF N
    <2>4. ASSUME NEW j \in 0..(N - 1) PROVE next <= RunStart(i, j) <=> l < j
      <3>1. j \in Nat /\ j < N /\ l + 1 \in Nat /\ RunStart(i, j) \in Int
        BY <1>2, RunsAre
      <3>2. ASSUME l < j PROVE next <= RunStart(i, j)
        <4>1. l + 1 <= j
          BY <1>2, <3>2
        <4>. QED
          BY <1>3, <3>1, <4>1, RunsAre
      <3>3. ASSUME ~(l < j) PROVE ~(next <= RunStart(i, j))
        <4>1. l # NoRun /\ l + 1 < N /\ j < l + 1
          BY <1>2, <1>5, <3>1, <3>3
        <4>2. RunStart(i, j) < RunStart(i, l + 1)
          BY <3>1, <4>1, RunsRise DEF N
        <4>. QED
          BY <1>3, <3>1, <4>2
      <3>. QED
        BY <3>2, <3>3
    <2>5. \A j \in 0..(N - 1) : RunStart(i, j) \in Int
      BY RunsAre
    <2>6. \A j \in 0..(N - 1) :
            Has(RunsBetween(i, t0, t1), j) <=> /\ l < j /\ created[i] - Grace <= RunStart(i, j)
                                               /\ RunStart(i, j) < now - Grace
      <3>1. \A j \in 0..(N - 1) : t0 <= RunStart(i, j) <=> next <= RunStart(i, j)
                                                          /\ created[i] - Grace <= RunStart(i, j)
        BY <2>2, <2>5
      <3>. QED
        BY <2>3, <2>4, <3>1
    <2>. QED
      BY <2>1, <2>3, <2>6 DEF l, N
  <1>. QED
    BY <1>4, <1>5

\* The runs that are due, and the plan after them.
LEMMA DueOfIs ==
  ASSUME NEW i \in Ids, NEW k \in Int, k \in Unplanned..(TotalRuns(i) - 1), now \in Nat
  PROVE  /\ Ascends(DueOf(i, k), i)
         /\ \A j \in 0..(TotalRuns(i) - 1) : Has(DueOf(i, k), j) <=> k >= 0 /\ k <= j
              /\ RunStart(i, j) <= now
         /\ AfterDue(i, k) \in Int /\ AfterDue(i, k) \in Unplanned..(TotalRuns(i) - 1)
         /\ k < 0 => AfterDue(i, k) = k
         /\ k >= 0 => AfterDue(i, k) = NoRun \/ AfterDue(i, k) >= k
         /\ AfterDue(i, k) >= 0 => RunStart(i, AfterDue(i, k)) > now
         /\ \A j \in 0..(TotalRuns(i) - 1) :
              k >= 0 /\ k <= j /\ (AfterDue(i, k) = NoRun \/ j < AfterDue(i, k)) =>
                Has(DueOf(i, k), j)
         /\ \A j \in 0..(TotalRuns(i) - 1) :
              Has(DueOf(i, k), j) => AfterDue(i, k) = NoRun \/ j < AfterDue(i, k)
PROOF
  <1>. DEFINE N == TotalRuns(i)
              u == DueOf(i, k)
              c == CountBefore(i, now + 1)
              a == AfterDue(i, k)
  <1>1. /\ N \in Nat /\ c \in 0..N /\ k < N /\ -2 <= k /\ Unplanned = -2 /\ NoRun = -1
        /\ \A j \in 0..(N - 1) : RunStart(i, j) < now + 1 <=> j < c
    <2>1. now + 1 \in Int
      OBVIOUS
    <2>2. N \in Nat
      BY RunsAre
    <2>3. k < N /\ -2 <= k
      BY <2>2 DEF Unplanned
    <2>. QED
      BY <2>1, <2>2, <2>3, RunsBefore DEF Unplanned, NoRun
  <1>2. \A j \in 0..(N - 1) :
          RunStart(i, j) \in Int /\ (RunStart(i, j) < now + 1 <=> RunStart(i, j) <= now)
    <2>1. \A j \in 0..(N - 1) : RunStart(i, j) \in Int
      BY RunsAre
    <2>. QED
      BY <2>1
  <1>3. /\ Ascends(u, i)
        /\ \A j \in 0..(N - 1) : Has(u, j) <=> k >= 0 /\ k <= j /\ RunStart(i, j) < now + 1
        /\ Len(u) = IF k < 0 \/ c <= k THEN 0 ELSE c - k
    <2>1. now + 1 \in Int
      OBVIOUS
    <2>. QED
      BY <1>1, <2>1, RunsUntilIs DEF DueOf
  <1>4. a = IF k < 0 \/ k + Len(u) < N THEN k + Len(u) ELSE NoRun
    BY DEF AfterDue
  <1>. HIDE DEF N, u, c, a
  <1>5. /\ a \in Int /\ a \in Unplanned..(N - 1)
        /\ k < 0 => a = k
        /\ k >= 0 => (a = NoRun \/ (a >= k /\ a >= c /\ (a = k \/ a = c)))
        /\ k >= 0 /\ a = NoRun => c >= N
    BY <1>1, <1>3, <1>4
  <1>6. ASSUME a >= 0 PROVE RunStart(i, a) > now
    <2>1. a \in 0..(N - 1) /\ ~(a < c)
      BY <1>1, <1>5, <1>6
    <2>2. ~(RunStart(i, a) < now + 1) /\ RunStart(i, a) \in Int
      BY <1>1, <1>2, <2>1
    <2>. QED
      BY <2>2
  <1>7. ASSUME NEW j \in 0..(N - 1), k >= 0, k <= j, a = NoRun \/ j < a PROVE Has(u, j)
    <2>1. j < c
      BY <1>1, <1>5, <1>7
    <2>. QED
      BY <1>1, <1>3, <1>7, <2>1
  <1>8. ASSUME NEW j \in 0..(N - 1), Has(u, j) PROVE a = NoRun \/ j < a
    <2>1. j < c /\ k >= 0
      BY <1>1, <1>3, <1>8
    <2>. QED
      BY <1>1, <1>5, <2>1
  <1>9. \A j \in 0..(N - 1) : Has(u, j) <=> k >= 0 /\ k <= j /\ RunStart(i, j) <= now
    BY <1>2, <1>3
  <1>10. k >= 0 => a = NoRun \/ a >= k
    BY <1>5
  <1>. QED
    BY <1>3, <1>5, <1>6, <1>7, <1>8, <1>9, <1>10 DEF N, u, a

\* The plan of a schedule that had none: after its last outcome, and nothing
\* that is left out can still be recorded.
LEMMA FirstPlanIs ==
  ASSUME NEW i \in Ids, NEW l \in Int, NoRun <= l, l <= TotalRuns(i) - 1, now \in Nat
  PROVE  /\ FirstPlan(i, l) \in Int /\ FirstPlan(i, l) \in NoRun..(TotalRuns(i) - 1)
         /\ FirstPlan(i, l) >= 0 => FirstPlan(i, l) > l
         /\ \A j \in 0..(TotalRuns(i) - 1) :
              j < FirstPlan(i, l) \/ FirstPlan(i, l) = NoRun => j <= l
                \/ RunStart(i, j) < now - Grace
PROOF
  <1>. DEFINE N == TotalRuns(i)
              t == now - Grace
              c == CountBefore(i, t)
              k == FirstRunFrom(i, t)
              f == FirstPlan(i, l)
  <1>1. Grace \in Nat /\ t \in Int /\ N \in Nat /\ NoRun = -1
    BY ScheduleAssumption, RunsAre DEF NoRun
  <1>2. /\ c \in 0..N /\ k = IF c < N THEN c ELSE -1
        /\ \A j \in 0..(N - 1) : RunStart(i, j) < t <=> j < c
    BY <1>1, RunsBefore DEF NoRun
  <1>3. f = IF k = NoRun \/ l = NoRun \/ k > l THEN k ELSE IF l + 1 < N THEN l + 1 ELSE NoRun
    BY DEF FirstPlan
  <1>. HIDE DEF N, t, c, k, f
  <1>4. f \in Int /\ f \in NoRun..(N - 1) /\ (f >= 0 => f > l)
    BY <1>1, <1>2, <1>3 DEF N
  <1>5. \A j \in 0..(N - 1) : j < f \/ f = NoRun => j <= l \/ j < c
    BY <1>1, <1>2, <1>3 DEF N
  <1>6. \A j \in 0..(N - 1) : j < f \/ f = NoRun => j <= l \/ RunStart(i, j) < t
    BY <1>2, <1>5
  <1>. QED
    BY <1>4, <1>6 DEF N, t, f

\* The reports of some runs of every schedule in the book: the numbers K has for it.
Lists(F, K, status) ==
  /\ F \in Seq(Reports)
  /\ \A n \in DOMAIN F :
       /\ F[n].status = status
       /\ \E m \in DOMAIN book : book[m] = F[n].run[1]
       /\ Has(K[F[n].run[1]], F[n].run[2])
  /\ \A m \in DOMAIN book : \A j : Has(K[book[m]], j) => IsIn(F, <<book[m], j>>)
  /\ Apart(F)
  /\ \A m, n \in DOMAIN F : Before(F[m].run, F[n].run) => m < n

\* They are put one schedule after the other.
LEMMA BatchIs ==
  ASSUME book \in Seq(Ids), IsInjective(book), NEW K, \A i \in Ids : Ascends(K[i], i),
         NEW status, status \in Final \cup {"recording"},
         NEW ss, ss = [n \in DOMAIN book |-> ss[n]],
         \A n \in DOMAIN book : ss[n] = AsReports(book[n], K[book[n]], status)
  PROVE  Lists(FlattenSeq(ss), K, status)
PROOF
  <1>. DEFINE F == FlattenSeq(ss)
              N == Len(book)
              L(m) == Len(K[book[m]])
              e(m, j) == [run |-> <<book[m], K[book[m]][j]>>, status |-> status]
  <1>1. N \in Nat /\ DOMAIN book = 1..N /\ \A m \in 1..N : book[m] \in Ids
    OBVIOUS
  <1>2. ASSUME NEW m \in 1..N
        PROVE  /\ K[book[m]] \in Seq(0..(TotalRuns(book[m]) - 1)) /\ L(m) \in Nat
               /\ DOMAIN K[book[m]] = 1..L(m)
               /\ \A j \in 1..L(m) : K[book[m]][j] \in 0..(TotalRuns(book[m]) - 1)
               /\ \A i, j \in 1..L(m) : i < j => K[book[m]][i] < K[book[m]][j]
    <2>1. Ascends(K[book[m]], book[m])
      BY <1>1
    <2>. DEFINE ks == K[book[m]]
    <2>. HIDE DEF ks
    <2>2. ks \in Seq(0..(TotalRuns(book[m]) - 1)) /\ \A i, j \in DOMAIN ks : i < j => ks[i] < ks[j]
      BY <2>1 DEF Ascends, ks
    <2>3. /\ Len(ks) \in Nat /\ DOMAIN ks = 1..Len(ks)
          /\ \A j \in 1..Len(ks) : ks[j] \in 0..(TotalRuns(book[m]) - 1)
      <3>1. ASSUME NEW S, NEW s \in Seq(S)
            PROVE  Len(s) \in Nat /\ DOMAIN s = 1..Len(s) /\ \A j \in 1..Len(s) : s[j] \in S
        OBVIOUS
      <3>. QED
        BY <2>2, <3>1
    <2>. QED
      BY <2>2, <2>3 DEF ks
  <1>3. ASSUME NEW m \in 1..N, NEW j \in 1..L(m)
        PROVE  /\ e(m, j) \in Reports /\ e(m, j).status = status
               /\ e(m, j).run[1] = book[m] /\ e(m, j).run[2] = K[book[m]][j]
    <2>1. book[m] \in Ids /\ K[book[m]][j] \in 0..(TotalRuns(book[m]) - 1)
      BY <1>1, <1>2
    <2>2. <<book[m], K[book[m]][j]>> \in Runs
      BY <2>1, IsRun
    <2>. QED
      BY <2>2 DEF Reports
  <1>4. ASSUME NEW m \in 1..N
        PROVE  /\ ss[m] \in Seq(Reports) /\ Len(ss[m]) = L(m)
               /\ \A j \in 1..L(m) : ss[m][j] = e(m, j)
    <2>1. ss[m] = [j \in DOMAIN K[book[m]] |-> e(m, j)]
      BY <1>1 DEF AsReports
    <2>2. ss[m] = [j \in 1..L(m) |-> e(m, j)] /\ L(m) \in Nat
      BY <1>2, <2>1
    <2>. HIDE DEF e, L
    <2>. QED
      BY <1>3, <2>2
  <1>5. ss \in Seq(Seq(Reports)) /\ Len(ss) = N
    <2>1. DOMAIN ss = 1..N
      BY <1>1
    <2>. HIDE DEF N
    <2>2. ss = [m \in 1..N |-> ss[m]]
      BY <1>1
    <2>3. \A m \in 1..N : ss[m] \in Seq(Reports)
      BY <1>4
    <2>. QED
      BY <1>1, <2>1, <2>2, <2>3
  <1>6. F = FlattenSeq(ss)
    OBVIOUS
  <1>. HIDE DEF F
  <1>7. F \in Seq(Reports) /\ Flat(F, ss, N)
    BY <1>5, <1>6, Flattened
  <1>8. DOMAIN F = 1..Len(F) /\ Len(F) \in Nat
    BY <1>7
  <1>9. PICK p, q : FlatBy(F, Len(F), ss, N, p, q)
    BY <1>7 DEF Flat
  <1>. HIDE DEF N, L, e
  <1>10. ASSUME NEW n \in 1..Len(F)
         PROVE  /\ p[n] \in 1..N /\ q[n] \in 1..L(p[n]) /\ F[n].status = status
                /\ F[n].run[1] = book[p[n]] /\ F[n].run[2] = K[book[p[n]]][q[n]]
                /\ F[n].run \in Runs
    <2>1. p[n] \in 1..N /\ q[n] \in 1..Len(ss[p[n]]) /\ F[n] = ss[p[n]][q[n]]
      BY <1>9 DEF FlatBy
    <2>2. q[n] \in 1..L(p[n]) /\ F[n] = e(p[n], q[n])
      BY <1>4, <2>1
    <2>3. F[n] \in Reports
      BY <1>3, <2>1, <2>2
    <2>. QED
      BY <1>3, <2>1, <2>2, <2>3, ReportIs
  <1>11. ASSUME NEW n \in 1..Len(F)
         PROVE  /\ F[n].status = status /\ \E m \in DOMAIN book : book[m] = F[n].run[1]
                /\ Has(K[F[n].run[1]], F[n].run[2])
    <2>1. p[n] \in 1..N /\ q[n] \in 1..L(p[n]) /\ F[n].run[1] = book[p[n]]
          /\ F[n].run[2] = K[book[p[n]]][q[n]]
      BY <1>10
    <2>2. DOMAIN K[book[p[n]]] = 1..L(p[n])
      BY <1>2, <2>1
    <2>3. Has(K[book[p[n]]], F[n].run[2])
      BY <2>1, <2>2 DEF Has
    <2>. QED
      BY <1>1, <1>10, <2>1, <2>3
  <1>12. ASSUME NEW m \in 1..N, NEW j, Has(K[book[m]], j) PROVE IsIn(F, <<book[m], j>>)
    <2>1. PICK i \in 1..L(m) : K[book[m]][i] = j
      BY <1>2, <1>12 DEF Has
    <2>2. i \in 1..Len(ss[m])
      BY <1>4
    <2>3. PICK n \in 1..Len(F) : p[n] = m /\ q[n] = i
      BY <1>9, <2>2 DEF FlatBy
    <2>4. F[n].run[1] = book[m] /\ F[n].run[2] = j /\ F[n].run \in Runs
      BY <1>10, <2>1, <2>3
    <2>5. F[n].run = <<book[m], j>>
      BY <2>4, RunIs
    <2>. QED
      BY <1>8, <2>5 DEF IsIn
  <1>13. ASSUME NEW m \in 1..Len(F), NEW n \in 1..Len(F), m < n, F[m].run[1] = F[n].run[1]
         PROVE  F[m].run[2] < F[n].run[2]
    <2>1. p[m] < p[n] \/ (p[m] = p[n] /\ q[m] < q[n])
      BY <1>9, <1>13 DEF FlatBy
    <2>2. book[p[m]] = book[p[n]] /\ p[m] \in 1..N /\ p[n] \in 1..N
      BY <1>10, <1>13
    <2>3. p[m] = p[n]
      BY <1>1, <2>2 DEF IsInjective
    <2>4. q[m] < q[n]
      BY <2>1, <2>2, <2>3
    <2>5. /\ q[m] \in 1..L(p[n]) /\ q[n] \in 1..L(p[n])
          /\ F[m].run[2] = K[book[p[n]]][q[m]] /\ F[n].run[2] = K[book[p[n]]][q[n]]
      BY <1>10, <2>3
    <2>. QED
      BY <1>2, <2>2, <2>4, <2>5
  <1>14. Apart(F)
    <2>1. ASSUME NEW m \in 1..Len(F), NEW n \in 1..Len(F), F[m].run = F[n].run, m < n PROVE FALSE
      <3>1. F[m].run[2] < F[n].run[2]
        BY <1>13, <2>1
      <3>2. F[n].run[2] \in Nat
        BY <1>10, RunIs
      <3>. QED
        BY <2>1, <3>1, <3>2
    <2>2. \A m, n \in 1..Len(F) : m < n \/ n < m \/ m = n
      OBVIOUS
    <2>. QED
      BY <1>8, <2>1, <2>2 DEF Apart
  <1>15. ASSUME NEW m \in 1..Len(F), NEW n \in 1..Len(F), Before(F[m].run, F[n].run) PROVE m < n
    <2>1. F[m].run[1] = F[n].run[1] /\ F[m].run[2] < F[n].run[2]
      BY <1>15 DEF Before
    <2>2. F[m].run[2] \in Nat /\ F[n].run[2] \in Nat
      BY <1>10, RunIs
    <2>3. ~(n < m)
      BY <1>13, <2>1, <2>2
    <2>4. m # n
      BY <2>1, <2>2
    <2>. QED
      BY <2>3, <2>4
  <1>16. /\ F \in Seq(Reports)
         /\ \A n \in DOMAIN F :
              /\ F[n].status = status
              /\ \E m \in DOMAIN book : book[m] = F[n].run[1]
              /\ Has(K[F[n].run[1]], F[n].run[2])
         /\ \A m \in DOMAIN book : \A j : Has(K[book[m]], j) => IsIn(F, <<book[m], j>>)
         /\ Apart(F)
         /\ \A m, n \in DOMAIN F : Before(F[m].run, F[n].run) => m < n
    BY <1>1, <1>7, <1>8, <1>11, <1>12, <1>14, <1>15 DEF N
  <1>. QED
    BY <1>16 DEF F, Lists

\* A run's start, by its schedule and number.
LEMMA StartIs ==
  \A r \in Runs : StartOf(r) = RunStart(r[1], r[2]) /\ StartOf(r) \in Int
PROOF
  BY RunIs DEF StartOf

\* The runs that came due while nothing was recording.
LEMMA MissedIs ==
  ASSUME Types, BookInv
  PROVE  /\ Missed \in Seq(Reports) /\ (marked => Missed = <<>>)
         /\ \A n \in DOMAIN Missed : LET r == Missed[n].run IN
              /\ Missed[n].status = "missed" /\ r \in Runs
              /\ table[r[1]] = "live" /\ ~Come(r) /\ StartOf(r) < now - Grace
         /\ \A r \in Runs : ~marked /\ table[r[1]] = "live" /\ ~Come(r) /\ ~Early(r)
                            /\ StartOf(r) < now - Grace => IsIn(Missed, r)
         /\ Apart(Missed)
         /\ \A m, n \in DOMAIN Missed : Before(Missed[m].run, Missed[n].run) => m < n
PROOF
  <1>1. CASE marked
    <2>1. Missed = <<>>
      BY <1>1 DEF Missed
    <2>2. <<>> \in Seq(Reports) /\ DOMAIN <<>> = {}
      OBVIOUS
    <2>. QED
      BY <1>1, <2>1, <2>2 DEF Apart
  <1>2. CASE ~marked
    <2>. DEFINE K == [i \in Ids |-> MissedOf(i)]
                F == Missed
    <2>1. /\ book \in Seq(Ids) /\ IsInjective(book) /\ now \in Nat
          /\ \A i \in Ids : last[i] \in NoRun..(TotalRuns(i) - 1) /\ created[i] \in Nat
          /\ \A i \in Ids : (\E n \in DOMAIN book : book[n] = i) <=> table[i] = "live"
      BY DEF Types, BookInv
    <2>2. \A n \in DOMAIN book : book[n] \in Ids
      BY <2>1
    <2>3. \A i \in Ids : K[i] = MissedOf(i)
      OBVIOUS
    <2>. HIDE DEF K
    <2>4. ASSUME NEW i \in Ids
          PROVE  /\ Ascends(K[i], i)
                 /\ \A j \in 0..(TotalRuns(i) - 1) :
                      Has(K[i], j) <=> /\ last[i] < j /\ created[i] - Grace <= RunStart(i, j)
                                       /\ RunStart(i, j) < now - Grace
      BY <2>1, <2>3, MissedOfIs
    <2>5. F = FlattenSeq([n \in DOMAIN book |-> AsReports(book[n], K[book[n]], "missed")])
      <3>1. [n \in DOMAIN book |-> AsReports(book[n], K[book[n]], "missed")]
              = [n \in DOMAIN book |-> AsReports(book[n], MissedOf(book[n]), "missed")]
        BY <2>2, <2>3
      <3>. QED
        BY <1>2, <3>1 DEF Missed
    <2>6. "missed" \in Final \cup {"recording"}
      BY DEF Final
    <2>. HIDE DEF F
    <2>7. /\ F \in Seq(Reports)
          /\ \A n \in DOMAIN F :
               /\ F[n].status = "missed"
               /\ \E m \in DOMAIN book : book[m] = F[n].run[1]
               /\ Has(K[F[n].run[1]], F[n].run[2])
          /\ \A m \in DOMAIN book : \A j : Has(K[book[m]], j) => IsIn(F, <<book[m], j>>)
          /\ Apart(F)
          /\ \A m, n \in DOMAIN F : Before(F[m].run, F[n].run) => m < n
      <3>1. \A i \in Ids : Ascends(K[i], i)
        BY <2>4
      <3>. DEFINE ss == [n \in DOMAIN book |-> AsReports(book[n], K[book[n]], "missed")]
                  G == FlattenSeq(ss)
      <3>4. /\ ss = [n \in DOMAIN book |-> ss[n]]
            /\ \A n \in DOMAIN book : ss[n] = AsReports(book[n], K[book[n]], "missed")
        OBVIOUS
      <3>3. F = G
        BY <2>5
      <3>. HIDE DEF ss
      <3>2. Lists(G, K, "missed")
        BY <2>1, <2>6, <3>1, <3>4, BatchIs
      <3>. HIDE DEF G
      <3>. QED
        BY <3>2, <3>3 DEF Lists
    <2>8. ASSUME NEW n \in DOMAIN F
          PROVE  /\ F[n].run \in Runs /\ table[F[n].run[1]] = "live" /\ ~Come(F[n].run)
                 /\ StartOf(F[n].run) < now - Grace
      <3>1. F[n] \in Reports
        BY <2>7
      <3>. DEFINE r == F[n].run
      <3>2. r \in Runs /\ r[1] \in Ids /\ r[2] \in 0..(TotalRuns(r[1]) - 1) /\ r[2] \in Nat
        BY <3>1, ReportIs, RunIs
      <3>3. Has(K[r[1]], r[2]) /\ table[r[1]] = "live"
        BY <2>1, <2>7, <3>2
      <3>. HIDE DEF r
      <3>4. last[r[1]] < r[2] /\ RunStart(r[1], r[2]) < now - Grace
        BY <2>4, <3>2, <3>3
      <3>5. last[r[1]] \in Int
        <4>1. last \in [Ids -> Int]
          BY DEF Types
        <4>. QED
          BY <3>2, <4>1
      <3>6. ~Come(r)
        BY <3>2, <3>4, <3>5 DEF Come
      <3>. QED
        BY <3>2, <3>3, <3>4, <3>6, StartIs DEF r
    <2>9. ASSUME NEW r \in Runs, table[r[1]] = "live", ~Come(r), ~Early(r), StartOf(r) < now - Grace
          PROVE  IsIn(F, r)
      <3>1. r[1] \in Ids /\ r[2] \in 0..(TotalRuns(r[1]) - 1) /\ r = <<r[1], r[2]>> /\ r[2] \in Nat
        BY RunIs
      <3>2. last[r[1]] \in Int /\ created[r[1]] \in Nat /\ Grace \in Nat
        <4>1. last \in [Ids -> Int]
          BY DEF Types
        <4>. QED
          BY <2>1, <3>1, <4>1, ScheduleAssumption
      <3>3. last[r[1]] < r[2] /\ created[r[1]] - Grace <= StartOf(r)
        BY <2>9, <3>1, <3>2, StartIs DEF Come, Early
      <3>4. Has(K[r[1]], r[2])
        BY <2>4, <2>9, <3>1, <3>3, StartIs
      <3>5. PICK m \in DOMAIN book : book[m] = r[1]
        BY <2>1, <2>9, <3>1
      <3>6. IsIn(F, <<r[1], r[2]>>)
        BY <2>7, <3>4, <3>5
      <3>. QED
        BY <3>1, <3>6
    <2>10. /\ F \in Seq(Reports) /\ Apart(F)
           /\ \A n \in DOMAIN F : LET r == F[n].run IN
                /\ F[n].status = "missed" /\ r \in Runs
                /\ table[r[1]] = "live" /\ ~Come(r) /\ StartOf(r) < now - Grace
           /\ \A r \in Runs : ~marked /\ table[r[1]] = "live" /\ ~Come(r) /\ ~Early(r)
                              /\ StartOf(r) < now - Grace => IsIn(F, r)
           /\ \A m, n \in DOMAIN F : Before(F[m].run, F[n].run) => m < n
      BY <2>7, <2>8, <2>9
    <2>. QED
      BY <1>2, <2>10 DEF F
  <1>. QED
    BY <1>1, <1>2

\* The runs that start before the chunk's end.
LEMMA DueIs ==
  ASSUME Types, BookInv, NEW p \in [Ids -> Int],
         \A i \in Ids : p[i] \in Unplanned..(TotalRuns(i) - 1)
  PROVE  /\ Due(p) \in Seq(Reports)
         /\ \A n \in DOMAIN Due(p) : LET r == Due(p)[n].run IN
              /\ Due(p)[n].status = "recording" /\ r \in Runs
              /\ table[r[1]] = "live" /\ Has(DueOf(r[1], p[r[1]]), r[2])
         /\ \A r \in Runs : table[r[1]] = "live" /\ Has(DueOf(r[1], p[r[1]]), r[2]) =>
              IsIn(Due(p), r)
         /\ Apart(Due(p))
         /\ \A m, n \in DOMAIN Due(p) : Before(Due(p)[m].run, Due(p)[n].run) => m < n
PROOF
  <1>. DEFINE K == [i \in Ids |-> DueOf(i, p[i])]
              F == Due(p)
  <1>1. /\ book \in Seq(Ids) /\ IsInjective(book) /\ now \in Nat
        /\ \A i \in Ids : (\E n \in DOMAIN book : book[n] = i) <=> table[i] = "live"
    BY DEF Types, BookInv
  <1>2. \A n \in DOMAIN book : book[n] \in Ids
    BY <1>1
  <1>3. \A i \in Ids : K[i] = DueOf(i, p[i])
    OBVIOUS
  <1>. HIDE DEF K
  <1>4. \A i \in Ids : Ascends(K[i], i)
    BY <1>1, <1>3, DueOfIs
  <1>5. F = FlattenSeq([n \in DOMAIN book |-> AsReports(book[n], K[book[n]], "recording")])
    <2>1. [n \in DOMAIN book |-> AsReports(book[n], K[book[n]], "recording")]
            = [n \in DOMAIN book |-> AsReports(book[n], DueOf(book[n], p[book[n]]), "recording")]
      BY <1>2, <1>3
    <2>. QED
      BY <2>1 DEF Due
  <1>. HIDE DEF F
  <1>6. /\ F \in Seq(Reports)
        /\ \A n \in DOMAIN F :
             /\ F[n].status = "recording"
             /\ \E m \in DOMAIN book : book[m] = F[n].run[1]
             /\ Has(K[F[n].run[1]], F[n].run[2])
        /\ \A m \in DOMAIN book : \A j : Has(K[book[m]], j) => IsIn(F, <<book[m], j>>)
        /\ Apart(F)
        /\ \A m, n \in DOMAIN F : Before(F[m].run, F[n].run) => m < n
    <2>1. "recording" \in Final \cup {"recording"}
      OBVIOUS
    <2>. DEFINE ss == [n \in DOMAIN book |-> AsReports(book[n], K[book[n]], "recording")]
                G == FlattenSeq(ss)
    <2>4. /\ ss = [n \in DOMAIN book |-> ss[n]]
          /\ \A n \in DOMAIN book : ss[n] = AsReports(book[n], K[book[n]], "recording")
      OBVIOUS
    <2>3. F = G
      BY <1>5
    <2>. HIDE DEF ss
    <2>2. Lists(G, K, "recording")
      BY <1>1, <1>4, <2>1, <2>4, BatchIs
    <2>. HIDE DEF G
    <2>. QED
      BY <2>2, <2>3 DEF Lists
  <1>7. ASSUME NEW n \in DOMAIN F
        PROVE  /\ F[n].run \in Runs /\ table[F[n].run[1]] = "live"
               /\ Has(DueOf(F[n].run[1], p[F[n].run[1]]), F[n].run[2])
    <2>1. F[n] \in Reports
      BY <1>6
    <2>2. F[n].run \in Runs /\ F[n].run[1] \in Ids
      BY <2>1, ReportIs
    <2>. QED
      BY <1>1, <1>3, <1>6, <2>2
  <1>8. ASSUME NEW r \in Runs, table[r[1]] = "live", Has(DueOf(r[1], p[r[1]]), r[2])
        PROVE  IsIn(F, r)
    <2>1. r[1] \in Ids /\ r = <<r[1], r[2]>>
      BY RunIs
    <2>2. PICK m \in DOMAIN book : book[m] = r[1]
      BY <1>1, <1>8, <2>1
    <2>3. IsIn(F, <<r[1], r[2]>>)
      BY <1>3, <1>6, <1>8, <2>1, <2>2
    <2>. QED
      BY <2>1, <2>3
  <1>9. /\ F \in Seq(Reports) /\ Apart(F)
        /\ \A n \in DOMAIN F : LET r == F[n].run IN
             /\ F[n].status = "recording" /\ r \in Runs
             /\ table[r[1]] = "live" /\ Has(DueOf(r[1], p[r[1]]), r[2])
        /\ \A r \in Runs : table[r[1]] = "live" /\ Has(DueOf(r[1], p[r[1]]), r[2]) => IsIn(F, r)
        /\ \A m, n \in DOMAIN F : Before(F[m].run, F[n].run) => m < n
    BY <1>6, <1>7, <1>8
  <1>. QED
    BY <1>9 DEF F

\* The same runs, some of them recorded.
LEMMA StartAllIs ==
  ASSUME NEW d \in Seq(Reports), NEW refuse, \A n \in DOMAIN d : d[n].status = "recording"
  PROVE  /\ StartAll(d, refuse) \in Seq(Reports) /\ DOMAIN StartAll(d, refuse) = DOMAIN d
         /\ \A n \in DOMAIN d : /\ StartAll(d, refuse)[n].run = d[n].run
                                /\ StartAll(d, refuse)[n].status \in {"recording", "missed"}
PROOF
  <1>. DEFINE Missing(n) == [d[n] EXCEPT !.status = "missed"]
              s == StartAll(d, refuse)
              N == Len(d)
  <1>1. N \in Nat /\ DOMAIN d = 1..N /\ \A n \in 1..N : d[n] \in Reports
    OBVIOUS
  <1>2. \A n \in 1..N : Missing(n) \in Reports /\ Missing(n).run = d[n].run
          /\ Missing(n).status = "missed"
    <2>1. "missed" \in Final
      BY DEF Final
    <2>. HIDE DEF N
    <2>. QED
      BY <1>1, <2>1 DEF Reports
  <1>3. /\ \A n \in 1..N : s[n] = d[n] \/ s[n] = Missing(n)
        /\ DOMAIN s = 1..N /\ s = [n \in 1..N |-> s[n]]
    <2>. HIDE DEF N
    <2>. QED
      BY <1>1 DEF StartAll
  <1>. HIDE DEF N, s, Missing
  <1>4. \A n \in 1..N : s[n] \in Reports
    BY <1>1, <1>2, <1>3
  <1>5. s \in Seq(Reports)
    BY <1>1, <1>3, <1>4
  <1>. QED
    BY <1>1, <1>2, <1>3, <1>5 DEF s

\* The plans a chunk finds: ahead of the outcomes, those of the missed runs
\* included, and no run behind them is still to be recorded.
LEMMA RefreshedIs ==
  ASSUME Types, BookInv, PlansInv, rx = "idle"
  PROVE  LET M == Missed
             p == Refreshed(M)
         IN /\ p \in [Ids -> Int] /\ \A i \in Ids : p[i] \in Unplanned..(TotalRuns(i) - 1)
            /\ \A i \in Ids : table[i] = "live" => p[i] # Unplanned
            /\ \A i \in Ids : table[i] = "none" => p[i] = Unplanned
            /\ \A i \in Ids : p[i] >= 0 => p[i] > LastOf(i, M)
            /\ BehindInv => \A r \in Runs :
                 table[r[1]] = "live" /\ (r[2] < p[r[1]] \/ p[r[1]] = NoRun) =>
                   r[2] <= LastOf(r[1], M) \/ Early(r)
PROOF
  <1>. DEFINE M == Missed
              p == Refreshed(M)
              N(i) == TotalRuns(i)
  <1>1. /\ now \in Nat /\ last \in [Ids -> Int] /\ \A i \in Ids : last[i] \in NoRun..(N(i) - 1)
        /\ plan \in [Ids -> Int] /\ \A i \in Ids : plan[i] \in Unplanned..(N(i) - 1)
        /\ created \in [Ids -> Nat]
    BY DEF Types
  <1>2. /\ M \in Seq(Reports) /\ (marked => M = <<>>)
        /\ \A r \in Runs : ~marked /\ table[r[1]] = "live" /\ ~Come(r) /\ ~Early(r)
                           /\ StartOf(r) < now - Grace => IsIn(M, r)
    BY MissedIs
  <1>. HIDE DEF M
  <1>3. ASSUME NEW i \in Ids
        PROVE  /\ LastOf(i, M) \in Int /\ last[i] <= LastOf(i, M) /\ LastOf(i, M) <= N(i) - 1
               /\ NoRun <= LastOf(i, M)
               /\ \A n \in DOMAIN M : M[n].run[1] = i => M[n].run[2] <= LastOf(i, M)
               /\ marked => LastOf(i, M) = last[i]
    <2>1. /\ LastOf(i, M) \in Int /\ last[i] <= LastOf(i, M) /\ LastOf(i, M) <= N(i) - 1
          /\ \A n \in DOMAIN M : M[n].run[1] = i => M[n].run[2] <= LastOf(i, M)
          /\ LastOf(i, M) = last[i] \/ \E n \in DOMAIN M : M[n].run = <<i, LastOf(i, M)>>
      BY <1>1, <1>2, LastOfIs
    <2>2. last[i] \in Int /\ NoRun <= last[i]
      <3>1. N(i) \in Nat
        BY RunsAre
      <3>. HIDE DEF N
      <3>. QED
        BY <1>1, <3>1 DEF NoRun
    <2>3. DOMAIN <<>> = {}
      OBVIOUS
    <2>4. marked => LastOf(i, M) = last[i]
      BY <1>2, <2>1, <2>3
    <2>5. NoRun <= LastOf(i, M)
      BY <2>1, <2>2 DEF NoRun
    <2>. QED
      BY <2>1, <2>4, <2>5
  <1>4. \A i \in Ids : (\A n \in DOMAIN book : book[n] # i) <=> table[i] # "live"
    BY DEF BookInv
  <1>5. ASSUME NEW i \in Ids
        PROVE  p[i] = IF ~stale THEN plan[i] ELSE IF table[i] # "live" THEN Unplanned
                      ELSE IF plan[i] # Unplanned THEN plan[i] ELSE FirstPlan(i, LastOf(i, M))
    BY <1>4 DEF Refreshed
  <1>6. ~stale => p = plan
    BY DEF Refreshed
  <1>7. stale => p = [i \in Ids |-> p[i]]
    BY DEF Refreshed
  <1>. HIDE DEF p, N
  <1>8. Unplanned = -2 /\ NoRun = -1 /\ \A i \in Ids : N(i) \in Nat
    BY RunsAre DEF Unplanned, NoRun, N
  <1>9. ASSUME NEW i \in Ids
        PROVE  LET f == FirstPlan(i, LastOf(i, M)) IN
               /\ f \in Int /\ f \in NoRun..(N(i) - 1) /\ f \in Unplanned..(N(i) - 1)
               /\ f # Unplanned
               /\ f >= 0 => f > LastOf(i, M)
               /\ \A j \in 0..(N(i) - 1) : j < f \/ f = NoRun =>
                    j <= LastOf(i, M) \/ RunStart(i, j) < now - Grace
    <2>. DEFINE f == FirstPlan(i, LastOf(i, M))
    <2>1. /\ f \in Int /\ f \in NoRun..(N(i) - 1) /\ (f >= 0 => f > LastOf(i, M))
          /\ \A j \in 0..(N(i) - 1) : j < f \/ f = NoRun =>
               j <= LastOf(i, M) \/ RunStart(i, j) < now - Grace
      BY <1>1, <1>3, FirstPlanIs DEF N
    <2>. HIDE DEF f
    <2>2. f \in Unplanned..(N(i) - 1) /\ f # Unplanned
      BY <1>8, <2>1
    <2>. QED
      BY <2>1, <2>2 DEF f
  \* Without a marking there is no plan yet.
  <1>10. /\ ~marked => stale /\ \A i \in Ids : plan[i] = Unplanned
         /\ \A i \in Ids : plan[i] >= 0 => plan[i] > last[i]
         /\ ~stale => \A i \in Ids : table[i] = "live" => plan[i] # Unplanned
    BY DEF PlansInv
  <1>11. ASSUME NEW i \in Ids
         PROVE  /\ p[i] \in Int /\ p[i] \in Unplanned..(N(i) - 1)
                /\ table[i] = "live" => p[i] # Unplanned
                /\ table[i] = "none" => p[i] = Unplanned
                /\ p[i] >= 0 => p[i] > LastOf(i, M)
    <2>1. Unplanned \in Int /\ Unplanned \in Unplanned..(N(i) - 1) /\ ~(Unplanned >= 0)
      BY <1>8
    <2>2. plan[i] \in Int /\ plan[i] \in Unplanned..(N(i) - 1)
      BY <1>1
    <2>3. plan[i] >= 0 => plan[i] > LastOf(i, M)
      <3>1. ASSUME plan[i] >= 0 PROVE marked
        BY <1>10, <2>1, <3>1
      <3>. QED
        BY <1>3, <1>10, <3>1
    <2>4. table[i] = "none" => plan[i] = Unplanned
      BY DEF BookInv
    <2>. QED
      BY <1>5, <1>9, <1>10, <2>1, <2>2, <2>3, <2>4
  <1>12. p \in [Ids -> Int]
    BY <1>1, <1>6, <1>7, <1>11
  <1>13. ASSUME BehindInv, NEW r \in Runs, table[r[1]] = "live", r[2] < p[r[1]] \/ p[r[1]] = NoRun
         PROVE  r[2] <= LastOf(r[1], M) \/ Early(r)
    <2>. DEFINE i == r[1]
                k == r[2]
                l == LastOf(i, M)
    <2>1. i \in Ids /\ k \in 0..(N(i) - 1) /\ k \in Nat /\ r = <<i, k>>
            /\ StartOf(r) = RunStart(i, k)
      BY RunIs, StartIs DEF N
    <2>2. l \in Int /\ last[i] \in Int /\ last[i] <= l /\ created[i] \in Nat /\ Grace \in Nat
      BY <1>1, <1>3, <2>1, ScheduleAssumption
    <2>3. Come(r) => k <= l
      <3>1. Come(r) => k <= last[i]
        BY DEF Come
      <3>. QED
        BY <2>1, <2>2, <3>1
    <2>4. CASE p[i] = plan[i]
      <3>1. Come(r) \/ Early(r)
        BY <1>13, <2>4 DEF BehindInv
      <3>. QED
        BY <2>3, <3>1
    <2>5. CASE stale /\ plan[i] = Unplanned /\ p[i] = FirstPlan(i, l)
      <3>1. k <= l \/ StartOf(r) < now - Grace
        BY <1>9, <1>13, <2>1, <2>5
      <3>2. CASE ~marked /\ StartOf(r) < now - Grace
        <4>1. Come(r) \/ Early(r) \/ IsIn(M, r)
          BY <1>2, <1>13, <3>2
        <4>2. IsIn(M, r) => k <= l
          BY <1>3, <2>1 DEF IsIn
        <4>. QED
          BY <2>3, <4>1, <4>2
      <3>3. CASE marked /\ StartOf(r) < now - Grace
        <4>1. now <= created[i]
          BY <1>13, <2>1, <2>5, <3>3 DEF BehindInv
        <4>2. StartOf(r) \in Int
          BY RunIs
        <4>3. StartOf(r) < created[i] - Grace
          BY <1>1, <2>2, <3>3, <4>1, <4>2
        <4>. QED
          BY <4>3 DEF Early
      <3>. QED
        BY <3>1, <3>2, <3>3
    <2>. QED
      BY <1>5, <1>13, <2>1, <2>4, <2>5
  <1>14. /\ p \in [Ids -> Int] /\ \A i \in Ids : p[i] \in Unplanned..(N(i) - 1)
         /\ \A i \in Ids : table[i] = "live" => p[i] # Unplanned
         /\ \A i \in Ids : table[i] = "none" => p[i] = Unplanned
         /\ \A i \in Ids : p[i] >= 0 => p[i] > LastOf(i, M)
         /\ BehindInv => \A r \in Runs :
              table[r[1]] = "live" /\ (r[2] < p[r[1]] \/ p[r[1]] = NoRun) =>
                r[2] <= LastOf(r[1], M) \/ Early(r)
    BY <1>11, <1>12, <1>13
  <1>. QED
    BY <1>14 DEF M, p, N

\* What a chunk reports, and the plans it leaves: every run it answers is new,
\* and nothing before it is without an answer.
Answers(B, T, plans) ==
  /\ B \in Seq(Reports) /\ Apart(B)
  /\ \A n \in DOMAIN B : LET r == B[n].run IN
       /\ B[n].status \in {"recording", "missed"} /\ r \in Runs
       /\ table[r[1]] = "live" /\ ~Come(r) /\ StartOf(r) <= now
  /\ T \subseteq Runs
  /\ \A r \in T : \E n \in DOMAIN B : B[n].run = r /\ B[n].status = "recording"
  /\ plans \in [Ids -> Int] /\ \A i \in Ids : plans[i] \in Unplanned..(TotalRuns(i) - 1)
  /\ \A i \in Ids :
       /\ table[i] = "live" => plans[i] # Unplanned
       /\ table[i] = "none" => plans[i] = Unplanned
       /\ plans[i] >= 0 => plans[i] > LastOf(i, B) /\ RunStart(i, plans[i]) > now
  /\ BehindInv =>
       /\ \A n \in DOMAIN B : \A s \in Runs : Before(s, B[n].run) =>
            Come(s) \/ Early(s) \/ \E m \in DOMAIN B : m < n /\ B[m].run = s
       /\ \A r \in Runs : table[r[1]] = "live" /\ (r[2] < plans[r[1]] \/ plans[r[1]] = NoRun) =>
            r[2] <= LastOf(r[1], B) \/ Early(r)

LEMMA AnswersAre ==
  ASSUME Types, BookInv, PlansInv, rx = "idle", NEW refuse
  PROVE  LET p == Refreshed(Missed)
             S == StartAll(Due(p), refuse)
         IN Answers(Missed \o S, Started(S), [i \in Ids |-> AfterDue(i, p[i])])
PROOF
  <1>. DEFINE M == Missed
              p == Refreshed(M)
              D == Due(p)
              S == StartAll(D, refuse)
              B == M \o S
              T == Started(S)
              plans == [i \in Ids |-> AfterDue(i, p[i])]
  <1>1. /\ now \in Nat /\ last \in [Ids -> Int]
        /\ \A i \in Ids : last[i] \in NoRun..(TotalRuns(i) - 1)
    BY DEF Types
  <1>2. /\ M \in Seq(Reports) /\ (marked => M = <<>>)
        /\ \A n \in DOMAIN M : LET r == M[n].run IN
             /\ M[n].status = "missed" /\ r \in Runs
             /\ table[r[1]] = "live" /\ ~Come(r) /\ StartOf(r) < now - Grace
        /\ \A r \in Runs : ~marked /\ table[r[1]] = "live" /\ ~Come(r) /\ ~Early(r)
                           /\ StartOf(r) < now - Grace => IsIn(M, r)
        /\ Apart(M)
        /\ \A m, n \in DOMAIN M : Before(M[m].run, M[n].run) => m < n
    BY MissedIs
  <1>3. /\ p \in [Ids -> Int] /\ \A i \in Ids : p[i] \in Unplanned..(TotalRuns(i) - 1)
        /\ \A i \in Ids : table[i] = "live" => p[i] # Unplanned
        /\ \A i \in Ids : table[i] = "none" => p[i] = Unplanned
        /\ \A i \in Ids : p[i] >= 0 => p[i] > LastOf(i, M)
        /\ BehindInv => \A r \in Runs :
             table[r[1]] = "live" /\ (r[2] < p[r[1]] \/ p[r[1]] = NoRun) =>
               r[2] <= LastOf(r[1], M) \/ Early(r)
    BY RefreshedIs
  <1>. HIDE DEF M, p
  <1>4. /\ D \in Seq(Reports)
        /\ \A n \in DOMAIN D : LET r == D[n].run IN
             /\ D[n].status = "recording" /\ r \in Runs
             /\ table[r[1]] = "live" /\ Has(DueOf(r[1], p[r[1]]), r[2])
        /\ \A r \in Runs : table[r[1]] = "live" /\ Has(DueOf(r[1], p[r[1]]), r[2]) => IsIn(D, r)
        /\ Apart(D)
        /\ \A m, n \in DOMAIN D : Before(D[m].run, D[n].run) => m < n
    BY <1>3, DueIs
  <1>. HIDE DEF D
  <1>5. /\ S \in Seq(Reports) /\ DOMAIN S = DOMAIN D
        /\ \A n \in DOMAIN D : S[n].run = D[n].run /\ S[n].status \in {"recording", "missed"}
    BY <1>4, StartAllIs
  <1>6. T = {S[n].run : n \in {m \in DOMAIN S : S[m].status = "recording"}}
    BY DEF Started
  <1>7. \A i \in Ids : plans[i] = AfterDue(i, p[i])
    OBVIOUS
  <1>8. plans = [i \in Ids |-> plans[i]]
    OBVIOUS
  <1>. HIDE DEF S, T, plans
  <1>. DEFINE a == Len(M)
              b == Len(S)
  <1>9. /\ a \in Nat /\ b \in Nat /\ DOMAIN M = 1..a /\ DOMAIN S = 1..b
        /\ B \in Seq(Reports) /\ DOMAIN B = 1..(a + b)
        /\ \A n \in 1..a : B[n] = M[n]
        /\ \A n \in 1..b : B[a + n] = S[n]
        /\ \A n \in 1..(a + b) : n \in 1..a \/ (n - a \in 1..b /\ B[n] = S[n - a])
    BY <1>2, <1>5, Joining
  <1>10. (\A n \in 1..a : n \in 1..(a + b)) /\ (\A n \in 1..b :
           a + n \in 1..(a + b) /\ \A m \in 1..a : m < a + n)
    BY <1>9
  <1>. HIDE DEF B, a, b
  \* The runs.
  <1>11. ASSUME NEW i \in Ids
         PROVE  /\ LastOf(i, M) \in Int /\ last[i] \in Int /\ last[i] <= LastOf(i, M)
                /\ \A n \in 1..a : M[n].run[1] = i => M[n].run[2] <= LastOf(i, M)
                /\ LastOf(i, M) = last[i] \/ \E n \in 1..a : M[n].run = <<i, LastOf(i, M)>>
                /\ LastOf(i, B) \in Int /\ last[i] <= LastOf(i, B)
                /\ \A n \in 1..(a + b) : B[n].run[1] = i => B[n].run[2] <= LastOf(i, B)
                /\ LastOf(i, B) = last[i] \/ \E n \in 1..(a + b) : B[n].run = <<i, LastOf(i, B)>>
    <2>1. last[i] \in NoRun..(TotalRuns(i) - 1) /\ last[i] \in Int
      BY <1>1
    <2>2. /\ LastOf(i, M) \in Int /\ last[i] <= LastOf(i, M)
          /\ \A n \in DOMAIN M : M[n].run[1] = i => M[n].run[2] <= LastOf(i, M)
          /\ LastOf(i, M) = last[i] \/ \E n \in DOMAIN M : M[n].run = <<i, LastOf(i, M)>>
      BY <1>2, <2>1, LastOfIs
    <2>3. /\ LastOf(i, B) \in Int /\ last[i] <= LastOf(i, B)
          /\ \A n \in DOMAIN B : B[n].run[1] = i => B[n].run[2] <= LastOf(i, B)
          /\ LastOf(i, B) = last[i] \/ \E n \in DOMAIN B : B[n].run = <<i, LastOf(i, B)>>
      BY <1>9, <2>1, LastOfIs
    <2>. QED
      BY <1>9, <2>1, <2>2, <2>3
  <1>12. ASSUME NEW i \in Ids
         PROVE  /\ \A j \in 0..(TotalRuns(i) - 1) :
                     Has(DueOf(i, p[i]), j) <=> p[i] >= 0 /\ p[i] <= j /\ RunStart(i, j) <= now
                /\ plans[i] \in Int /\ plans[i] \in Unplanned..(TotalRuns(i) - 1)
                /\ p[i] < 0 => plans[i] = p[i]
                /\ p[i] >= 0 => plans[i] = NoRun \/ plans[i] >= p[i]
                /\ plans[i] >= 0 => RunStart(i, plans[i]) > now
                /\ \A j \in 0..(TotalRuns(i) - 1) :
                     p[i] >= 0 /\ p[i] <= j /\ (plans[i] = NoRun \/ j < plans[i]) =>
                       Has(DueOf(i, p[i]), j)
                /\ \A j \in 0..(TotalRuns(i) - 1) :
                     Has(DueOf(i, p[i]), j) => plans[i] = NoRun \/ j < plans[i]
    <2>1. p[i] \in Int /\ p[i] \in Unplanned..(TotalRuns(i) - 1)
      BY <1>3
    <2>. QED
      BY <1>1, <1>7, <2>1, DueOfIs
  <1>13. ASSUME NEW n \in 1..b
         PROVE  LET r == S[n].run IN
                /\ r \in Runs /\ r[1] \in Ids /\ r[2] \in 0..(TotalRuns(r[1]) - 1) /\ r[2] \in Nat
                /\ table[r[1]] = "live" /\ Has(DueOf(r[1], p[r[1]]), r[2])
                /\ p[r[1]] \in Nat /\ p[r[1]] <= r[2] /\ StartOf(r) <= now
                /\ LastOf(r[1], M) < r[2] /\ LastOf(r[1], M) < p[r[1]] /\ ~Come(r)
    <2>. DEFINE r == S[n].run
    <2>1. r \in Runs /\ table[r[1]] = "live" /\ Has(DueOf(r[1], p[r[1]]), r[2])
      <3>1. n \in DOMAIN D /\ D[n].run = S[n].run
        BY <1>5, <1>9
      <3>2. /\ D[n].run \in Runs /\ table[D[n].run[1]] = "live"
            /\ Has(DueOf(D[n].run[1], p[D[n].run[1]]), D[n].run[2])
        BY <1>4, <3>1
      <3>. QED
        BY <3>1, <3>2
    <2>. HIDE DEF r
    <2>2. r[1] \in Ids /\ r[2] \in 0..(TotalRuns(r[1]) - 1) /\ r[2] \in Nat
      BY <2>1, RunIs
    <2>3. p[r[1]] >= 0 /\ p[r[1]] <= r[2] /\ RunStart(r[1], r[2]) <= now
      BY <1>12, <2>1, <2>2
    <2>4. p[r[1]] \in Int /\ LastOf(r[1], M) < p[r[1]]
      BY <1>3, <2>2, <2>3
    <2>5. LastOf(r[1], M) \in Int /\ last[r[1]] \in Int /\ last[r[1]] <= LastOf(r[1], M)
      BY <1>11, <2>2
    <2>6. LastOf(r[1], M) < r[2] /\ last[r[1]] < r[2] /\ p[r[1]] \in Nat
      BY <2>2, <2>3, <2>4, <2>5
    <2>7. ~Come(r)
      BY <2>2, <2>5, <2>6 DEF Come
    <2>. QED
      BY <2>1, <2>2, <2>3, <2>4, <2>6, <2>7, StartIs DEF r
  <1>14. ASSUME NEW n \in 1..a
         PROVE  LET r == M[n].run IN
                /\ r \in Runs /\ r[1] \in Ids /\ r[2] \in Nat
                /\ table[r[1]] = "live" /\ ~Come(r) /\ StartOf(r) <= now /\ StartOf(r) < now - Grace
                /\ r[2] <= LastOf(r[1], M) /\ M[n].status = "missed"
    <2>. DEFINE r == M[n].run
    <2>1. /\ r \in Runs /\ table[r[1]] = "live" /\ ~Come(r) /\ StartOf(r) < now - Grace
          /\ M[n].status = "missed"
      BY <1>2, <1>9
    <2>. HIDE DEF r
    <2>2. r[1] \in Ids /\ r[2] \in Nat /\ StartOf(r) \in Int /\ Grace \in Nat
      BY <2>1, RunIs, ScheduleAssumption
    <2>3. StartOf(r) <= now
      BY <1>1, <2>1, <2>2
    <2>4. r[2] <= LastOf(r[1], M)
      BY <1>11, <2>2 DEF r
    <2>. QED
      BY <2>1, <2>2, <2>3, <2>4 DEF r
  <1>15. ASSUME NEW n \in 1..(a + b)
         PROVE  LET r == B[n].run IN
                /\ B[n].status \in {"recording", "missed"} /\ r \in Runs
                /\ table[r[1]] = "live" /\ ~Come(r) /\ StartOf(r) <= now
    <2>1. CASE n \in 1..a
      <3>1. B[n] = M[n]
        BY <1>9, <2>1
      <3>. QED
        BY <1>14, <2>1, <3>1
    <2>2. CASE n \notin 1..a
      <3>1. n - a \in 1..b /\ B[n] = S[n - a]
        BY <1>9, <2>2
      <3>2. B[n].status \in {"recording", "missed"}
        BY <1>5, <1>9, <3>1
      <3>. QED
        BY <1>13, <3>1, <3>2
    <2>. QED
      BY <2>1, <2>2
  <1>16. ASSUME NEW m \in 1..a, NEW n \in 1..b PROVE M[m].run # S[n].run
    <2>1. SUFFICES ASSUME M[m].run = S[n].run PROVE FALSE
      OBVIOUS
    <2>2. PICK r : r = S[n].run
      OBVIOUS
    <2>3. r[1] \in Ids /\ r[2] \in Nat /\ LastOf(r[1], M) < r[2]
      BY <1>13, <2>2
    <2>4. r[2] <= LastOf(r[1], M)
      BY <1>14, <2>1, <2>2
    <2>5. LastOf(r[1], M) \in Int
      BY <1>11, <2>3
    <2>. QED
      BY <2>3, <2>4, <2>5
  <1>17. Apart(B)
    <2>1. ASSUME NEW m \in 1..(a + b), NEW n \in 1..(a + b), B[m].run = B[n].run PROVE m = n
      <3>1. CASE m \in 1..a /\ n \in 1..a
        BY <1>2, <1>9, <2>1, <3>1 DEF Apart
      <3>2. CASE m \in 1..a /\ n \notin 1..a
        BY <1>9, <1>16, <2>1, <3>2
      <3>3. CASE m \notin 1..a /\ n \in 1..a
        BY <1>9, <1>16, <2>1, <3>3
      <3>4. CASE m \notin 1..a /\ n \notin 1..a
        <4>1. m - a \in 1..b /\ B[m] = S[m - a] /\ n - a \in 1..b /\ B[n] = S[n - a]
          BY <1>9, <3>4
        <4>2. D[m - a].run = D[n - a].run
          BY <1>5, <1>9, <2>1, <4>1
        <4>3. m - a = n - a
          BY <1>4, <1>5, <1>9, <4>1, <4>2 DEF Apart
        <4>. QED
          BY <1>9, <4>3
      <3>. QED
        BY <3>1, <3>2, <3>3, <3>4
    <2>. QED
      BY <1>9, <2>1 DEF Apart
  <1>18. ASSUME NEW r \in T
         PROVE  r \in Runs /\ \E n \in 1..(a + b) : B[n].run = r /\ B[n].status = "recording"
    <2>1. PICK n \in 1..b : S[n].status = "recording" /\ S[n].run = r
      BY <1>6, <1>9
    <2>2. r \in Runs
      BY <1>13, <2>1
    <2>3. a + n \in 1..(a + b) /\ B[a + n] = S[n]
      BY <1>9, <1>10
    <2>. QED
      BY <2>1, <2>2, <2>3
  \* The plans.
  <1>19. \A i \in Ids : LastOf(i, M) <= LastOf(i, B)
    <2>1. ASSUME NEW i \in Ids PROVE LastOf(i, M) <= LastOf(i, B)
      <3>1. CASE LastOf(i, M) = last[i]
        BY <1>11, <3>1
      <3>2. CASE \E n \in 1..a : M[n].run = <<i, LastOf(i, M)>>
        <4>1. PICK n \in 1..a : M[n].run = <<i, LastOf(i, M)>>
          BY <3>2
        <4>2. n \in 1..(a + b) /\ B[n].run = <<i, LastOf(i, M)>>
          BY <1>9, <1>10, <4>1
        <4>3. <<i, LastOf(i, M)>>[1] = i /\ <<i, LastOf(i, M)>>[2] = LastOf(i, M)
          OBVIOUS
        <4>. QED
          BY <1>11, <4>2, <4>3
      <3>. QED
        BY <1>11, <3>1, <3>2
    <2>. QED
      BY <2>1
  <1>20. ASSUME NEW i \in Ids
         PROVE  /\ table[i] = "live" => plans[i] # Unplanned
                /\ table[i] = "none" => plans[i] = Unplanned
                /\ plans[i] >= 0 => plans[i] > LastOf(i, B) /\ RunStart(i, plans[i]) > now
    <2>1. Unplanned = -2 /\ NoRun = -1
      BY DEF Unplanned, NoRun
    <2>2. p[i] \in Int /\ plans[i] \in Int
      BY <1>3, <1>12
    <2>3. table[i] = "live" => plans[i] # Unplanned
      <3>1. ASSUME table[i] = "live" PROVE plans[i] # Unplanned
        <4>1. p[i] # -2
          BY <1>3, <2>1, <3>1
        <4>. QED
          BY <1>12, <2>1, <2>2, <4>1
      <3>. QED
        BY <3>1
    <2>4. table[i] = "none" => plans[i] = Unplanned
      BY <1>3, <1>12, <2>1
    <2>5. ASSUME plans[i] >= 0 PROVE plans[i] > LastOf(i, B)
      <3>1. p[i] >= 0 /\ plans[i] >= p[i]
        BY <1>12, <2>1, <2>2, <2>5
      <3>2. p[i] > LastOf(i, M)
        BY <1>3, <3>1
      <3>3. /\ LastOf(i, M) \in Int /\ last[i] \in Int /\ last[i] <= LastOf(i, M)
            /\ LastOf(i, B) \in Int
            /\ LastOf(i, B) = last[i] \/ \E n \in 1..(a + b) : B[n].run = <<i, LastOf(i, B)>>
        BY <1>11
      <3>4. CASE LastOf(i, B) = last[i]
        BY <2>2, <3>1, <3>2, <3>3, <3>4
      <3>5. CASE \E n \in 1..(a + b) : B[n].run = <<i, LastOf(i, B)>>
        <4>1. PICK n \in 1..(a + b) : B[n].run = <<i, LastOf(i, B)>>
          BY <3>5
        <4>2. <<i, LastOf(i, B)>>[1] = i /\ <<i, LastOf(i, B)>>[2] = LastOf(i, B)
          OBVIOUS
        <4>3. CASE n \in 1..a
          <5>1. LastOf(i, B) <= LastOf(i, M)
            BY <1>9, <1>11, <4>1, <4>2, <4>3
          <5>. QED
            BY <2>2, <3>1, <3>2, <3>3, <5>1
        <4>4. CASE n \notin 1..a
          <5>1. n - a \in 1..b /\ S[n - a].run = <<i, LastOf(i, B)>>
            BY <1>9, <4>1, <4>4
          <5>2. LastOf(i, B) \in 0..(TotalRuns(i) - 1) /\ Has(DueOf(i, p[i]), LastOf(i, B))
            BY <1>13, <4>2, <5>1
          <5>3. LastOf(i, B) < plans[i]
            BY <1>12, <2>1, <2>2, <2>5, <5>2
          <5>. QED
            BY <2>2, <3>3, <5>3
        <4>. QED
          BY <4>3, <4>4
      <3>. QED
        BY <3>3, <3>4, <3>5
    <2>. QED
      BY <1>12, <2>3, <2>4, <2>5
  \* Nothing is left behind.
  <1>21. ASSUME NEW n \in 1..a, NEW s \in Runs, Before(s, M[n].run)
         PROVE  Come(s) \/ Early(s) \/ \E m \in 1..a : m < n /\ M[m].run = s
    <2>. DEFINE r == M[n].run
    <2>1. r[1] = s[1] /\ s[2] < r[2] /\ table[s[1]] = "live" /\ StartOf(r) < now - Grace
            /\ r \in Runs
      BY <1>14, <1>21 DEF Before
    <2>2. StartOf(s) < now - Grace
      <3>1. StartOf(s) <= StartOf(r)
        <4>1. s[1] \in Ids /\ s[2] \in Int /\ r[2] \in Int
          BY <2>1, RunIs
        <4>2. RunStart(s[1], s[2]) <= RunStart(s[1], r[2])
          BY <2>1, <4>1, RunsAre
        <4>. QED
          BY <2>1, <4>2, StartIs
      <3>2. StartOf(s) \in Int /\ StartOf(r) \in Int /\ Grace \in Nat
        BY <2>1, StartIs, ScheduleAssumption
      <3>. HIDE DEF r
      <3>. QED
        BY <1>1, <2>1, <3>1, <3>2
    <2>3. ~marked
      <3>1. DOMAIN <<>> = {}
        OBVIOUS
      <3>. QED
        BY <1>2, <1>9, <3>1
    <2>4. Come(s) \/ Early(s) \/ IsIn(M, s)
      BY <1>2, <2>1, <2>2, <2>3
    <2>5. \A m \in 1..a : M[m].run = s => m < n
      BY <1>2, <1>9, <1>21
    <2>. QED
      BY <1>9, <2>4, <2>5 DEF IsIn
  <1>22. ASSUME BehindInv, NEW n \in 1..(a + b), NEW s \in Runs, Before(s, B[n].run)
         PROVE  Come(s) \/ Early(s) \/ \E m \in 1..(a + b) : m < n /\ B[m].run = s
    <2>1. CASE n \in 1..a
      <3>1. Come(s) \/ Early(s) \/ \E m \in 1..a : m < n /\ M[m].run = s
        BY <1>9, <1>21, <1>22, <2>1
      <3>. QED
        BY <1>9, <1>10, <3>1
    <2>2. CASE n \notin 1..a
      <3>. DEFINE d == n - a
                  r == S[d].run
                  i == r[1]
      <3>1. d \in 1..b /\ B[n].run = r /\ n = a + d
        BY <1>9, <2>2
      <3>. HIDE DEF d
      <3>2. /\ r \in Runs /\ i \in Ids /\ r[2] \in 0..(TotalRuns(i) - 1) /\ r[2] \in Nat
            /\ table[i] = "live" /\ StartOf(r) <= now /\ p[i] \in Nat
        BY <1>13, <3>1
      <3>3. s[1] = i /\ s[2] < r[2] /\ s[2] \in 0..(TotalRuns(i) - 1) /\ s[2] \in Nat
              /\ s = <<i, s[2]>>
        BY <1>22, <3>1, RunIs DEF Before
      <3>4. CASE s[2] < p[i]
        <4>1. s[2] <= LastOf(i, M) \/ Early(s)
          BY <1>3, <1>22, <3>2, <3>3, <3>4
        <4>2. CASE s[2] <= LastOf(i, M) /\ LastOf(i, M) = last[i]
          BY <3>3, <4>2 DEF Come
        <4>3. CASE s[2] <= LastOf(i, M) /\ \E m \in 1..a : M[m].run = <<i, LastOf(i, M)>>
          <5>1. PICK m \in 1..a : M[m].run = <<i, LastOf(i, M)>>
            BY <4>3
          <5>2. CASE s[2] = LastOf(i, M)
            <6>1. M[m].run = s
              BY <3>3, <5>1, <5>2
            <6>2. m \in 1..(a + b) /\ B[m] = M[m] /\ m < n
              BY <1>9, <1>10, <3>1
            <6>. QED
              BY <6>1, <6>2
          <5>3. CASE s[2] < LastOf(i, M)
            <6>1. <<i, LastOf(i, M)>>[1] = i /\ <<i, LastOf(i, M)>>[2] = LastOf(i, M)
              OBVIOUS
            <6>2. Before(s, M[m].run)
              BY <3>3, <5>1, <5>3, <6>1 DEF Before
            <6>3. Come(s) \/ Early(s) \/ \E l \in 1..a : l < m /\ M[l].run = s
              BY <1>21, <6>2
            <6>4. \A l \in 1..a : l \in 1..(a + b) /\ B[l] = M[l] /\ l < n
              BY <1>9, <1>10, <3>1
            <6>. QED
              BY <6>3, <6>4
          <5>4. LastOf(i, M) \in Int
            BY <1>11, <3>2
          <5>. QED
            BY <3>3, <4>3, <5>2, <5>3, <5>4
        <4>4. LastOf(i, M) = last[i] \/ \E m \in 1..a : M[m].run = <<i, LastOf(i, M)>>
          BY <1>11, <3>2
        <4>. QED
          BY <4>1, <4>2, <4>3, <4>4
      <3>5. CASE p[i] <= s[2]
        <4>1. RunStart(i, s[2]) <= now
          <5>1. RunStart(i, s[2]) <= RunStart(i, r[2])
            BY <3>2, <3>3, RunsAre
          <5>2. RunStart(i, s[2]) \in Int /\ RunStart(i, r[2]) \in Int
            BY <3>2, <3>3, RunsAre
          <5>3. RunStart(i, r[2]) <= now
            BY <3>2, StartIs
          <5>. HIDE DEF r, i
          <5>. QED
            BY <1>1, <5>1, <5>2, <5>3
        <4>2. Has(DueOf(i, p[i]), s[2])
          BY <1>12, <3>2, <3>3, <3>5, <4>1
        <4>3. IsIn(D, s)
          BY <1>4, <3>2, <3>3, <4>2
        <4>4. PICK m \in 1..b : D[m].run = s
          BY <1>5, <1>9, <4>3 DEF IsIn
        <4>5. m < d
          <5>1. m \in DOMAIN D /\ d \in DOMAIN D /\ D[d].run = B[n].run
            BY <1>5, <1>9, <3>1
          <5>2. Before(D[m].run, D[d].run)
            BY <1>22, <4>4, <5>1
          <5>. QED
            BY <1>4, <5>1, <5>2
        <4>6. a + m \in 1..(a + b) /\ B[a + m].run = s
          BY <1>5, <1>9, <1>10, <4>4
        <4>7. a + m < n
          BY <1>9, <3>1, <4>5
        <4>. QED
          BY <4>6, <4>7
      <3>6. s[2] < p[i] \/ p[i] <= s[2]
        BY <3>2, <3>3
      <3>. QED
        BY <3>4, <3>5, <3>6
    <2>. QED
      BY <2>1, <2>2
  <1>23. ASSUME BehindInv, NEW r \in Runs, table[r[1]] = "live",
                r[2] < plans[r[1]] \/ plans[r[1]] = NoRun
         PROVE  r[2] <= LastOf(r[1], B) \/ Early(r)
    <2>. DEFINE i == r[1]
                k == r[2]
    <2>1. i \in Ids /\ k \in 0..(TotalRuns(i) - 1) /\ k \in Nat /\ r = <<i, k>>
      BY RunIs
    <2>2. /\ p[i] \in Int /\ plans[i] \in Int /\ p[i] # Unplanned
          /\ p[i] \in Unplanned..(TotalRuns(i) - 1)
          /\ Unplanned = -2 /\ NoRun = -1 /\ TotalRuns(i) \in Nat
      BY <1>3, <1>12, <1>23, <2>1, RunsAre DEF Unplanned, NoRun
    <2>3. LastOf(i, M) \in Int /\ LastOf(i, B) \in Int /\ LastOf(i, M) <= LastOf(i, B)
      BY <1>11, <1>19, <2>1
    <2>4. CASE k < p[i] \/ p[i] = NoRun
      <3>1. k <= LastOf(i, M) \/ Early(r)
        BY <1>3, <1>23, <2>4
      <3>. QED
        BY <2>1, <2>3, <3>1
    <2>5. CASE p[i] >= 0 /\ p[i] <= k
      <3>1. Has(DueOf(i, p[i]), k)
        BY <1>12, <1>23, <2>1, <2>5
      <3>2. IsIn(D, r)
        BY <1>4, <1>23, <3>1
      <3>3. PICK n \in 1..b : S[n].run = r
        BY <1>5, <1>9, <3>2 DEF IsIn
      <3>4. a + n \in 1..(a + b) /\ B[a + n].run = r
        BY <1>9, <1>10, <3>3
      <3>. QED
        BY <1>11, <2>1, <3>4
    <2>6. (k < p[i] \/ p[i] = NoRun) \/ (p[i] >= 0 /\ p[i] <= k)
      BY <2>1, <2>2
    <2>. QED
      BY <2>4, <2>5, <2>6
  <1>24. plans \in [Ids -> Int] /\ \A i \in Ids : plans[i] \in Unplanned..(TotalRuns(i) - 1)
    BY <1>8, <1>12
  <1>25. Answers(B, T, plans)
    <2>1. T \subseteq Runs /\ \A r \in T : \E n \in DOMAIN B :
            B[n].run = r /\ B[n].status = "recording"
      BY <1>9, <1>18
    <2>2. \A n \in DOMAIN B : LET r == B[n].run IN
            /\ B[n].status \in {"recording", "missed"} /\ r \in Runs
            /\ table[r[1]] = "live" /\ ~Come(r) /\ StartOf(r) <= now
      BY <1>9, <1>15
    <2>3. BehindInv =>
            /\ \A n \in DOMAIN B : \A s \in Runs : Before(s, B[n].run) =>
                 Come(s) \/ Early(s) \/ \E m \in DOMAIN B : m < n /\ B[m].run = s
            /\ \A r \in Runs :
                 table[r[1]] = "live" /\ (r[2] < plans[r[1]] \/ plans[r[1]] = NoRun) =>
                 r[2] <= LastOf(r[1], B) \/ Early(r)
      <3>1. BehindInv => \A n \in DOMAIN B : \A s \in Runs : Before(s, B[n].run) =>
              Come(s) \/ Early(s) \/ \E m \in DOMAIN B : m < n /\ B[m].run = s
        BY <1>9, <1>22
      <3>2. BehindInv => \A r \in Runs :
              table[r[1]] = "live" /\ (r[2] < plans[r[1]] \/ plans[r[1]] = NoRun) =>
                r[2] <= LastOf(r[1], B) \/ Early(r)
        BY <1>23
      <3>. QED
        BY <3>1, <3>2
    <2>. QED
      BY <1>9, <1>17, <1>20, <1>24, <2>1, <2>2, <2>3 DEF Answers
  <1>. QED
    BY <1>25 DEF B, T, S, D, plans, p, M

\* The items that open the files of runs.
LEMMA OpensAre ==
  ASSUME NEW T \in SUBSET Runs
  PROVE  /\ Opens(T) \in Seq(Items)
         /\ \A n \in DOMAIN Opens(T) : Opens(T)[n].kind = "open" /\ Opens(T)[n].run \in T
         /\ \A m, n \in DOMAIN Opens(T) : Opens(T)[m].run = Opens(T)[n].run => m = n
         /\ \A r \in T : \E n \in DOMAIN Opens(T) : Opens(T)[n].run = r
PROOF
  <1>. DEFINE s == SetToSeq(T)
              e(r) == [kind |-> "open", run |-> r]
  <1>1. IsFiniteSet(T)
    BY RunsAreFinite
  <1>2. s \in Seq(T) /\ IsInjective(s) /\ \A r \in T : \E n \in DOMAIN s : s[n] = r
    BY <1>1, Enumerated
  <1>3. Opens(T) = [n \in DOMAIN s |-> e(s[n])]
    BY DEF Opens
  <1>4. \A r \in T : e(r) \in Items /\ e(r).kind = "open" /\ e(r).run = r
    BY DEF Items
  <1>. HIDE DEF s, e
  <1>5. /\ Len(s) \in Nat /\ DOMAIN s = 1..Len(s) /\ \A n \in 1..Len(s) : s[n] \in T
    BY <1>2
  <1>6. Opens(T) = [n \in 1..Len(s) |-> e(s[n])]
    BY <1>3, <1>5
  <1>7. \A n \in 1..Len(s) : e(s[n]) \in Items
    BY <1>4, <1>5
  <1>8. Opens(T) \in Seq(Items) /\ DOMAIN Opens(T) = 1..Len(s)
    BY <1>5, <1>6, <1>7
  <1>9. \A n \in 1..Len(s) : Opens(T)[n] = e(s[n])
    BY <1>6
  <1>10. \A n \in 1..Len(s) : Opens(T)[n].kind = "open" /\ Opens(T)[n].run = s[n]
    BY <1>4, <1>5, <1>9
  <1>. QED
    BY <1>2, <1>5, <1>8, <1>10 DEF IsInjective

\* A chunk whose answers are such keeps the invariant.
LEMMA AnswersKeep ==
  ASSUME ScheduleInv, rx = "idle", now < MaxTime, NEW B, NEW T, Answers(B, T, plan'), Report(B),
         cut' = [r \in Runs |-> IF r \in T THEN FreshCut ELSE cut[r]],
         queue' = queue \o Opens(T), todo' = {r \in Runs : cut'[r] # NoCut},
         marked' = TRUE, stale' = FALSE, rx' = "feed",
         UNCHANGED <<now, table, created, rows, book, ringFrom, inFlight, files, writer,
                     happens, stops, deaths, failedSaves, lostSaves, begun>>
  PROVE  /\ ScheduleInv'
         /\ \A r \in Runs : latest[r] \in Final => latest'[r] = latest[r]
PROOF
  <1>1. /\ Types /\ BookInv /\ AheadInv /\ SavesInv /\ StageInv /\ ItemsInv /\ ThreadsInv
        /\ AccountsInv /\ FilesInv /\ PlansInv
        /\ "late_add" \notin happens => OrderInv /\ BehindInv
    BY DEF ScheduleInv
  <1>2. /\ B \in Seq(Reports) /\ Apart(B)
        /\ \A n \in DOMAIN B : LET r == B[n].run IN
             /\ B[n].status \in {"recording", "missed"} /\ r \in Runs
             /\ table[r[1]] = "live" /\ ~Come(r) /\ StartOf(r) <= now
        /\ T \subseteq Runs
        /\ \A r \in T : \E n \in DOMAIN B : B[n].run = r /\ B[n].status = "recording"
        /\ plan' \in [Ids -> Int] /\ \A i \in Ids : plan'[i] \in Unplanned..(TotalRuns(i) - 1)
        /\ \A i \in Ids :
             /\ table[i] = "live" => plan'[i] # Unplanned
             /\ table[i] = "none" => plan'[i] = Unplanned
             /\ plan'[i] >= 0 => plan'[i] > LastOf(i, B) /\ RunStart(i, plan'[i]) > now
    BY DEF Answers
  <1>3. BehindInv =>
          /\ \A n \in DOMAIN B : \A s \in Runs : Before(s, B[n].run) =>
               Come(s) \/ Early(s) \/ \E m \in DOMAIN B : m < n /\ B[m].run = s
          /\ \A r \in Runs : table[r[1]] = "live" /\ (r[2] < plan'[r[1]] \/ plan'[r[1]] = NoRun) =>
               r[2] <= LastOf(r[1], B) \/ Early(r)
    BY DEF Answers
  <1>4. /\ \A i \in Ids : last[i] \in NoRun..(TotalRuns(i) - 1)
        /\ latest \in [Runs -> Final \cup {"none", "recording"}] /\ saving \in Seq(Reports)
        /\ queue \in Seq(Items) /\ last \in [Ids -> Int] /\ now \in Nat
    BY <1>1 DEF Types
  <1>5. /\ saving' = saving \o B
        /\ latest' \in [Runs -> Final \cup {"none", "recording"}]
        /\ \A n \in DOMAIN B : latest'[B[n].run] = B[n].status
        /\ \A r \in Runs : ~IsIn(B, r) => latest'[r] = latest[r]
        /\ last' \in [Ids -> Int]
        /\ \A i \in Ids : last'[i] = LastOf(i, B)
        /\ \A i \in Ids : last'[i] \in NoRun..(TotalRuns(i) - 1) /\ last[i] <= last'[i]
        /\ \A n \in DOMAIN B : B[n].run[2] <= last'[B[n].run[1]]
        /\ \A i \in Ids : last'[i] = last[i] \/ IsIn(B, <<i, last'[i]>>)
    BY <1>2, <1>4, Reported
  <1>. DEFINE t == Opens(T)
              a == Len(saving)
              b == Len(B)
              w == saving \o B
  <1>6. /\ t \in Seq(Items) /\ \A n \in DOMAIN t : t[n].kind = "open" /\ t[n].run \in T
        /\ \A m, n \in DOMAIN t : t[m].run = t[n].run => m = n
        /\ \A r \in T : \E n \in DOMAIN t : t[n].run = r
    BY <1>2, OpensAre
  <1>7. /\ a \in Nat /\ b \in Nat /\ DOMAIN saving = 1..a /\ DOMAIN B = 1..b
        /\ w \in Seq(Reports) /\ DOMAIN w = 1..(a + b)
        /\ \A n \in 1..a : w[n] = saving[n]
        /\ \A n \in 1..b : w[a + n] = B[n]
        /\ \A n \in 1..(a + b) : n \in 1..a \/ (n - a \in 1..b /\ w[n] = B[n - a])
    BY <1>2, <1>4, Joining
  <1>8. (\A n \in 1..a : n \in 1..(a + b)) /\ (\A n \in 1..b :
          a + n \in 1..(a + b) /\ \A m \in 1..a : m < a + n)
    BY <1>7
  <1>9. saving' = w /\ queue' = queue \o t
    BY <1>5
  <1>. HIDE DEF w, a, b, t
  \* The runs that are answered, and the others.
  <1>10. ASSUME NEW n \in DOMAIN B
         PROVE  /\ B[n].run \in Runs /\ ~Come(B[n].run) /\ table[B[n].run[1]] = "live"
                /\ StartOf(B[n].run) <= now /\ B[n].status \in {"recording", "missed"}
                /\ latest[B[n].run] = "none" /\ rows[B[n].run] = "none" /\ ~OnItsWay(B[n].run)
                /\ cut[B[n].run] = NoCut /\ ~IsOpen(B[n].run)
                /\ \A m \in DOMAIN queue : ~IsOf(queue[m], B[n].run)
                /\ Come(B[n].run)'
    <2>1. B[n].run \in Runs /\ ~Come(B[n].run)
      BY <1>2
    <2>2. Come(B[n].run)'
      BY <1>5 DEF Come
    <2>. QED
      BY <1>1, <1>2, <2>1, <2>2 DEF AheadInv
  <1>11. ASSUME NEW r \in T
         PROVE  /\ r \in Runs /\ ~Come(r) /\ Come(r)' /\ StartOf(r) <= now
                /\ latest'[r] = "recording"
                /\ rows[r] = "none" /\ ~OnItsWay(r) /\ ~IsOpen(r) /\ cut[r] = NoCut
                /\ \A m \in DOMAIN queue : ~IsOf(queue[m], r)
                /\ IsIn(B, r)
    <2>1. PICK n \in DOMAIN B : B[n].run = r /\ B[n].status = "recording"
      BY <1>2
    <2>. QED
      BY <1>5, <1>10, <2>1 DEF IsIn
  <1>12. \A r \in Runs : Come(r) => ~IsIn(B, r) /\ r \notin T /\ latest'[r] = latest[r] /\ Come(r)'
    <2>1. \A r \in Runs : Come(r) => ~IsIn(B, r)
      BY <1>10 DEF IsIn
    <2>2. ASSUME NEW r \in Runs, Come(r) PROVE Come(r)'
      <3>1. r[1] \in Ids /\ r[2] \in Nat
        BY RunIs
      <3>2. last[r[1]] \in Int /\ last'[r[1]] \in Int /\ last[r[1]] <= last'[r[1]]
        BY <1>4, <1>5, <3>1
      <3>. QED
        BY <2>2, <3>1, <3>2 DEF Come
    <2>. QED
      BY <1>5, <1>11, <2>1, <2>2
  <1>13. \A r \in Runs : cut'[r] = IF r \in T THEN FreshCut ELSE cut[r]
    OBVIOUS
  <1>14. /\ FreshCut \in Cuts /\ FreshCut # NoCut /\ FreshCut.written = 0 /\ FreshCut.zeros = 0
         /\ FreshCut.refused = 0 /\ FreshCut.since = NoTime /\ ~FreshCut.ended
    <2>1. FreshCut \in Cuts /\ FreshCut.written = 0 /\ FreshCut.zeros = 0
          /\ FreshCut.refused = 0 /\ FreshCut.since = NoTime /\ ~FreshCut.ended
      BY DEF FreshCut, Cuts
    <2>2. NoCut.written = -1
      BY DEF NoCut
    <2>. QED
      BY <2>1, <2>2
  <1>15. \A r \in Runs : \A kind :
           Queued(kind, r)' <=> Queued(kind, r) \/ \E n \in DOMAIN t :
             t[n].kind = kind /\ IsOf(t[n], r)
    BY <1>4, <1>6, <1>9, QueueGrows
  <1>16. \A r \in Runs : /\ Queued("open", r)' <=> Queued("open", r) \/ r \in T
                         /\ Queued("close", r)' <=> Queued("close", r)
    <2>1. \A n \in DOMAIN t : \A r : IsOf(t[n], r) <=> t[n].run = r
      BY <1>6 DEF IsOf
    <2>2. ASSUME NEW r \in Runs PROVE Queued("open", r)' <=> Queued("open", r) \/ r \in T
      <3>1. r \in T <=> \E n \in DOMAIN t : t[n].kind = "open" /\ IsOf(t[n], r)
        BY <1>6, <2>1
      <3>2. Queued("open", r)' <=>
              Queued("open", r) \/ \E n \in DOMAIN t : t[n].kind = "open" /\ IsOf(t[n], r)
        BY <1>15
      <3>. QED
        BY <3>1, <3>2
    <2>3. ASSUME NEW r \in Runs PROVE Queued("close", r)' <=> Queued("close", r)
      <3>1. ~\E n \in DOMAIN t : t[n].kind = "close" /\ IsOf(t[n], r)
        BY <1>6
      <3>2. Queued("close", r)' <=>
              Queued("close", r) \/ \E n \in DOMAIN t : t[n].kind = "close" /\ IsOf(t[n], r)
        BY <1>15
      <3>. QED
        BY <3>1, <3>2
    <2>. QED
      BY <2>2, <2>3
  <1>17. \A r \in Runs : IsOpen(r)' <=> IsOpen(r)
    BY DEF IsOpen
  <1>18. \A n \in DOMAIN queue : queue[n].kind # "stop"
    BY <1>1 DEF ThreadsInv
  <1>19. queue' \in Seq(Items)
    BY <1>4, <1>6, <1>9, Joining
  <1>20. \A n \in DOMAIN queue' : (\E m \in DOMAIN queue : queue'[n] = queue[m])
                                  \/ \E m \in DOMAIN t : queue'[n] = t[m]
    <2>. DEFINE c == Len(queue)
                v == queue \o t
    <2>1. /\ DOMAIN queue = 1..c /\ DOMAIN t = 1..Len(t) /\ DOMAIN v = 1..(c + Len(t))
          /\ \A n \in 1..c : v[n] = queue[n]
          /\ \A n \in 1..(c + Len(t)) : n \in 1..c \/ (n - c \in 1..Len(t) /\ v[n] = t[n - c])
      BY <1>4, <1>6, Joining
    <2>2. queue' = v
      BY <1>9
    <2>. HIDE DEF v, c
    <2>. QED
      BY <2>1, <2>2
  <1>21. \A r \in Runs : OnItsWay(r)' <=> OnItsWay(r) \/ IsIn(B, r)
    <2>1. ASSUME NEW r \in Runs, OnItsWay(r)' PROVE OnItsWay(r) \/ IsIn(B, r)
      <3>1. PICK n \in 1..(a + b) : w[n].run = r
        BY <1>7, <1>9, <2>1 DEF OnItsWay
      <3>. QED
        BY <1>7, <3>1 DEF OnItsWay, IsIn
    <2>2. ASSUME NEW r \in Runs, OnItsWay(r) PROVE OnItsWay(r)'
      <3>1. PICK n \in 1..a : saving[n].run = r
        BY <1>7, <2>2 DEF OnItsWay
      <3>2. n \in DOMAIN saving' /\ saving'[n].run = r
        BY <1>7, <1>8, <1>9, <3>1
      <3>. QED
        BY <3>2 DEF OnItsWay
    <2>3. ASSUME NEW r \in Runs, IsIn(B, r) PROVE OnItsWay(r)'
      <3>1. PICK n \in 1..b : B[n].run = r
        BY <1>7, <2>3 DEF IsIn
      <3>2. a + n \in DOMAIN saving' /\ saving'[a + n].run = r
        BY <1>7, <1>8, <1>9, <3>1
      <3>. QED
        BY <3>2 DEF OnItsWay
    <2>. QED
      BY <2>1, <2>2, <2>3
  \* The parts.
  <1>22. Types'
    <2>1. cut' \in [Runs -> Cuts \cup {NoCut}]
      BY <1>1, <1>14 DEF Types
    <2>2. todo' \subseteq Runs /\ saving' \in Seq(Reports)
      BY <1>7, <1>9
    <2>. QED
      BY <1>1, <1>2, <1>5, <1>19, <2>1, <2>2 DEF Types
  <1>23. BookInv'
    <2>1. ASSUME NEW i \in Ids, table[i] = "none" PROVE last'[i] = NoRun /\ plan'[i] = Unplanned
      <3>1. last[i] = NoRun
        BY <1>1, <2>1 DEF BookInv
      <3>2. ~IsIn(B, <<i, last'[i]>>)
        <4>1. ASSUME NEW n \in DOMAIN B, B[n].run = <<i, last'[i]>> PROVE FALSE
          <5>1. B[n].run[1] = i
            BY <4>1
          <5>. QED
            BY <1>10, <2>1, <5>1
        <4>. QED
          BY <4>1 DEF IsIn
      <3>. QED
        BY <1>2, <1>5, <2>1, <3>1, <3>2
    <2>. QED
      BY <1>1, <2>1 DEF BookInv, IsInjective
  <1>24. AheadInv'
    <2>1. ASSUME NEW r \in Runs, ~Come(r)'
          PROVE  /\ latest'[r] = "none" /\ rows[r] = "none" /\ ~OnItsWay(r)'
                 /\ cut'[r] = NoCut /\ ~IsOpen(r)'
                 /\ \A n \in DOMAIN queue' : ~IsOf(queue'[n], r)
      <3>1. ~Come(r) /\ r \notin T /\ ~IsIn(B, r)
        BY <1>10, <1>11, <1>12, <2>1 DEF IsIn
      <3>2. /\ latest[r] = "none" /\ rows[r] = "none" /\ ~OnItsWay(r) /\ cut[r] = NoCut
            /\ ~IsOpen(r)
            /\ \A n \in DOMAIN queue : ~IsOf(queue[n], r)
        BY <1>1, <3>1 DEF AheadInv
      <3>3. \A n \in DOMAIN t : ~IsOf(t[n], r)
        BY <1>6, <3>1 DEF IsOf
      <3>. QED
        BY <1>5, <1>13, <1>17, <1>20, <1>21, <3>1, <3>2, <3>3
    <2>. QED
      BY <2>1 DEF AheadInv, IsOf
  <1>25. SavesInv'
    <2>1. ASSUME NEW m \in 1..(a + b), NEW n \in 1..(a + b), m < n, w[m].run = w[n].run
          PROVE  w[m].status = "recording" /\ w[n].status \in Final
      <3>1. CASE n \in 1..a
        <4>1. m \in 1..a
          BY <1>7, <2>1, <3>1
        <4>2. m \in DOMAIN saving /\ n \in DOMAIN saving /\ w[m] = saving[m] /\ w[n] = saving[n]
          BY <1>7, <3>1, <4>1
        <4>. QED
          BY <1>1, <2>1, <4>2 DEF SavesInv
      <3>2. CASE n \notin 1..a /\ m \in 1..a
        <4>1. n - a \in DOMAIN B /\ w[n] = B[n - a] /\ m \in DOMAIN saving /\ w[m] = saving[m]
          BY <1>7, <3>2
        <4>2. OnItsWay(B[n - a].run)
          BY <2>1, <4>1 DEF OnItsWay
        <4>. QED
          BY <1>10, <4>1, <4>2
      <3>3. CASE n \notin 1..a /\ m \notin 1..a
        <4>1. n - a \in DOMAIN B /\ w[n] = B[n - a] /\ m - a \in DOMAIN B /\ w[m] = B[m - a]
          BY <1>7, <3>3
        <4>2. m - a = n - a
          BY <1>2, <2>1, <4>1 DEF Apart
        <4>. QED
          BY <1>7, <2>1, <4>2
      <3>. QED
        BY <3>1, <3>2, <3>3
    <2>2. ASSUME NEW n \in 1..(a + b)
          PROVE  /\ latest'[w[n].run] # "none" /\ rows[w[n].run] \notin Final
                 /\ rows[w[n].run] # "none" => w[n].status \in Final
                 /\ w[n].status \in Final => w[n].status = latest'[w[n].run]
      <3>1. CASE n \in 1..a
        <4>1. n \in DOMAIN saving /\ w[n] = saving[n] /\ saving[n].run \in Runs
          <5>1. n \in DOMAIN saving /\ w[n] = saving[n] /\ saving[n] \in Reports
            BY <1>4, <1>7, <3>1
          <5>. QED
            BY <5>1, ReportIs
        <4>2. /\ latest[saving[n].run] # "none" /\ rows[saving[n].run] \notin Final
              /\ rows[saving[n].run] # "none" => saving[n].status \in Final
              /\ saving[n].status \in Final => saving[n].status = latest[saving[n].run]
          BY <1>1, <4>1 DEF SavesInv
        <4>3. Come(saving[n].run)
          BY <1>1, <4>1, <4>2 DEF AheadInv
        <4>4. latest'[saving[n].run] = latest[saving[n].run]
          BY <1>12, <4>1, <4>3
        <4>. QED
          BY <4>1, <4>2, <4>4
      <3>2. CASE n \notin 1..a
        <4>1. PICK m \in DOMAIN B : w[n] = B[m]
          BY <1>7, <3>2
        <4>2. "none" \notin {"recording", "missed"} /\ "none" \notin Final
          BY DEF Final
        <4>3. B[m].status \in {"recording", "missed"} /\ rows[B[m].run] = "none"
          BY <1>10
        <4>4. latest'[B[m].run] = B[m].status
          BY <1>5
        <4>. QED
          BY <4>1, <4>2, <4>3, <4>4
      <3>. QED
        BY <3>1, <3>2
    <2>3. ASSUME NEW r \in Runs
          PROVE /\ latest'[r] = "recording" => rows[r] \notin Final
                /\ latest'[r] \in Final /\ rows[r] \in Final => rows[r] = latest'[r]
                /\ latest'[r] \in Final /\ r \notin failedSaves =>
                     \/ rows[r] = latest'[r]
                     \/ \E n \in 1..(a + b) : w[n] = [run |-> r, status |-> latest'[r]]
      <3>1. CASE IsIn(B, r)
        <4>1. PICK n \in 1..b : B[n].run = r
          BY <1>7, <3>1 DEF IsIn
        <4>2. rows[r] = "none" /\ latest'[r] = B[n].status /\ "none" \notin Final
          BY <1>5, <1>7, <1>10, <4>1 DEF Final
        <4>3. B[n] \in Reports
          BY <1>2, <1>7, <4>1
        <4>4. B[n] = [run |-> B[n].run, status |-> B[n].status]
          BY <4>3 DEF Reports
        <4>5. a + n \in 1..(a + b) /\ w[a + n] = [run |-> r, status |-> latest'[r]]
          BY <1>7, <1>8, <4>1, <4>2, <4>4
        <4>. QED
          BY <4>2, <4>5
      <3>2. CASE ~IsIn(B, r)
        <4>1. latest'[r] = latest[r]
          BY <1>5, <3>2
        <4>2. /\ latest[r] = "recording" => rows[r] \notin Final
              /\ latest[r] \in Final /\ rows[r] \in Final => rows[r] = latest[r]
              /\ latest[r] \in Final /\ r \notin failedSaves =>
                   \/ rows[r] = latest[r]
                   \/ \E n \in 1..a : saving[n] = [run |-> r, status |-> latest[r]]
          BY <1>1, <1>7 DEF SavesInv
        <4>3. \A n \in 1..a : n \in 1..(a + b) /\ w[n] = saving[n]
          BY <1>7, <1>8
        <4>. QED
          BY <4>1, <4>2, <4>3
      <3>. QED
        BY <3>1, <3>2
    <2>. QED
      BY <1>7, <1>9, <2>1, <2>2, <2>3 DEF SavesInv
  <1>26. \A r \in Runs : Answered(r) => Answered(r)'
    BY <1>21 DEF Answered
  <1>27. ASSUME OrderInv, BehindInv PROVE OrderInv'
    <2>1. ASSUME NEW n \in DOMAIN B, NEW s \in Runs, Before(s, B[n].run)
          PROVE  Come(s) \/ Early(s) \/ \E m \in DOMAIN B : m < n /\ B[m].run = s
      BY <1>3, <1>27, <2>1
    <2>2. \A r \in Runs : Early(r)' <=> Early(r)
      BY DEF Early
    <2>3. ASSUME NEW r \in Runs, Come(r)' PROVE Answered(r)' \/ Early(r)
      <3>1. CASE Come(r)
        BY <1>26, <1>27, <3>1 DEF OrderInv
      <3>2. CASE ~Come(r)
        <4>. DEFINE i == r[1]
        <4>1. i \in Ids /\ r[2] \in Nat /\ r = <<i, r[2]>>
          BY RunIs
        <4>2. last'[i] \in Int /\ last[i] \in Int /\ r[2] <= last'[i] /\ ~(r[2] <= last[i])
          BY <1>4, <1>5, <2>3, <3>2, <4>1 DEF Come
        <4>3. IsIn(B, <<i, last'[i]>>)
          BY <1>5, <4>1, <4>2
        <4>4. PICK n \in DOMAIN B : B[n].run = <<i, last'[i]>>
          BY <4>3 DEF IsIn
        <4>5. CASE r[2] = last'[i]
          <5>1. IsIn(B, r)
            BY <4>1, <4>3, <4>5
          <5>. QED
            BY <1>21, <5>1 DEF Answered
        <4>6. CASE r[2] < last'[i]
          <5>1. B[n].run[1] = i /\ B[n].run[2] = last'[i]
            BY <4>4
          <5>2. Before(r, B[n].run)
            BY <4>6, <5>1 DEF Before
          <5>3. Early(r) \/ IsIn(B, r)
            BY <2>1, <3>2, <5>2 DEF IsIn
          <5>. QED
            BY <1>21, <5>3 DEF Answered
        <4>. QED
          BY <4>1, <4>2, <4>5, <4>6
      <3>. QED
        BY <3>1, <3>2
    <2>4. ASSUME NEW n \in 1..(a + b), NEW s \in Runs, Before(s, w[n].run)
          PROVE  \/ rows[s] # "none" \/ s \in failedSaves \/ Early(s)
                 \/ \E m \in 1..(a + b) : m < n /\ w[m].run = s
      <3>1. CASE n \in 1..a
        <4>1. n \in DOMAIN saving /\ w[n] = saving[n]
          BY <1>7, <3>1
        <4>2. \/ rows[s] # "none" \/ s \in failedSaves \/ Early(s)
              \/ \E m \in DOMAIN saving : m < n /\ saving[m].run = s
          BY <1>27, <2>4, <4>1 DEF OrderInv
        <4>. QED
          BY <1>7, <1>8, <4>2
      <3>2. CASE n \notin 1..a
        <4>. DEFINE d == n - a
        <4>1. d \in 1..b /\ w[n] = B[d] /\ n = a + d
          BY <1>7, <3>2
        <4>. HIDE DEF d
        <4>2. Come(s) \/ Early(s) \/ \E m \in DOMAIN B : m < d /\ B[m].run = s
          BY <1>7, <2>1, <2>4, <4>1
        <4>3. CASE Come(s)
          <5>1. Answered(s) \/ Early(s)
            BY <1>27, <4>3 DEF OrderInv
          <5>2. ASSUME OnItsWay(s) PROVE \E m \in 1..(a + b) : m < n /\ w[m].run = s
            <6>1. PICK m \in 1..a : saving[m].run = s
              BY <1>7, <5>2 DEF OnItsWay
            <6>. QED
              BY <1>7, <1>8, <4>1, <6>1
          <5>. QED
            BY <5>1, <5>2 DEF Answered
        <4>4. ASSUME NEW m \in 1..b, m < d, B[m].run = s
              PROVE  \E l \in 1..(a + b) : l < n /\ w[l].run = s
          <5>1. a + m \in 1..(a + b) /\ w[a + m].run = s /\ a + m < n
            BY <1>7, <1>8, <4>1, <4>4
          <5>. QED
            BY <5>1
        <4>. QED
          BY <1>7, <4>2, <4>3, <4>4
      <3>. QED
        BY <3>1, <3>2
    <2>5. \A r, s \in Runs : Before(s, r) /\ rows[r] # "none" =>
            rows[s] # "none" \/ s \in failedSaves \/ Early(s)
      BY <1>27 DEF OrderInv
    <2>6. \A r \in Runs : Come(r)' => Answered(r)' \/ Early(r)'
      BY <2>2, <2>3
    <2>7. \A n \in DOMAIN saving' : \A s \in Runs : Before(s, saving'[n].run) =>
            \/ rows[s] # "none" \/ s \in failedSaves \/ Early(s)'
            \/ \E m \in DOMAIN saving' : m < n /\ saving'[m].run = s
      <3>1. DOMAIN saving' = 1..(a + b) /\ saving' = w
        BY <1>7, <1>9
      <3>. HIDE DEF Early
      <3>2. ASSUME NEW n \in 1..(a + b), NEW s \in Runs, Before(s, w[n].run)
            PROVE  \/ rows[s] # "none" \/ s \in failedSaves \/ Early(s)'
                   \/ \E m \in 1..(a + b) : m < n /\ w[m].run = s
        BY <2>2, <2>4, <3>2
      <3>. QED
        BY <3>1, <3>2 DEF Before
    <2>8. \A r, s \in Runs : Before(s, r) /\ rows[r] # "none" =>
            rows[s] # "none" \/ s \in failedSaves \/ Early(s)'
      BY <2>2, <2>5
    <2>. HIDE DEF Come, Answered, Early
    <2>. QED
      BY <2>6, <2>7, <2>8 DEF OrderInv, Before
  <1>28. StageInv'
    <2>1. ASSUME NEW r \in Runs, cut'[r] # NoCut
          PROVE  /\ latest'[r] = "recording" /\ ~Queued("close", r)'
                 /\ Queued("open", r)' \/ IsOpen(r)'
                 /\ StartOf(r) <= now /\ ~cut'[r].ended /\ cut'[r].written <= Samples(r)
                 /\ cut'[r].since = NoTime <=> cut'[r].written < Samples(r)
      <3>1. CASE r \in T
        <4>1. cut'[r] = FreshCut
          BY <1>13, <3>1
        <4>2. ~Queued("close", r)'
          BY <1>11, <1>16, <3>1 DEF Queued
        <4>3. Samples(r) \in Nat \ {0}
          BY RunIs
        <4>4. ~cut'[r].ended /\ cut'[r].written <= Samples(r)
              /\ (cut'[r].since = NoTime <=> cut'[r].written < Samples(r))
          BY <1>14, <4>1, <4>3
        <4>. QED
          BY <1>11, <1>16, <3>1, <4>2, <4>4
      <3>2. CASE r \notin T
        <4>1. cut'[r] = cut[r] /\ cut[r] # NoCut
          BY <1>13, <2>1, <3>2
        <4>2. /\ latest[r] = "recording" /\ ~Queued("close", r)
              /\ Queued("open", r) \/ IsOpen(r)
              /\ StartOf(r) <= now /\ ~cut[r].ended /\ cut[r].written <= Samples(r)
              /\ cut[r].since = NoTime <=> cut[r].written < Samples(r)
          BY <1>1, <4>1 DEF StageInv
        <4>3. Come(r)
          BY <1>1, <4>1 DEF AheadInv
        <4>. QED
          BY <1>12, <1>16, <1>17, <4>1, <4>2, <4>3
      <3>. QED
        BY <3>1, <3>2
    <2>2. ASSUME NEW r \in Runs
          PROVE  /\ Queued("open", r)' \/ IsOpen(r)' => cut'[r] # NoCut \/ Queued("close", r)'
                 /\ Queued("close", r)' => latest'[r] = "recording"
      <3>1. /\ Queued("open", r) \/ IsOpen(r) => cut[r] # NoCut \/ Queued("close", r)
            /\ Queued("close", r) => latest[r] = "recording"
        BY <1>1 DEF StageInv
      <3>2. Queued("close", r) => Come(r)
        BY <1>1, <3>1 DEF AheadInv
      <3>. QED
        BY <1>12, <1>13, <1>14, <1>16, <1>17, <3>1, <3>2
    <2>3. \A r \in Runs : Samples(r)' = Samples(r) /\ StartOf(r)' = StartOf(r)
      BY DEF Samples, StartOf, RunStart, Schedule
    <2>. QED
      BY <2>1, <2>2, <2>3 DEF StageInv
  <1>29. ItemsInv'
    <2>1. \A r \in Runs : \A n \in DOMAIN t : IsOf(t[n], r) =>
            /\ ~Queued("close", r)
            /\ t[n].kind = "open" => \A m \in DOMAIN queue : ~IsOf(queue[m], r)
            /\ t[n].kind # "open" => Queued("open", r) \/ IsOpen(r)
      <3>1. ASSUME NEW r \in Runs, NEW n \in DOMAIN t, IsOf(t[n], r)
            PROVE  t[n].kind = "open" /\ \A m \in DOMAIN queue : ~IsOf(queue[m], r)
        <4>1. r \in T
          BY <1>6, <3>1 DEF IsOf
        <4>. QED
          BY <1>6, <1>11, <4>1
      <3>. QED
        BY <3>1 DEF Queued
    <2>2. \A n \in DOMAIN t : n \in Int
      <3>1. DOMAIN t = 1..Len(t) /\ Len(t) \in Nat
        BY <1>6
      <3>. QED
        BY <3>1
    <2>3. \A r \in Runs : \A m, n \in DOMAIN t : m < n /\ IsOf(t[m], r) /\ IsOf(t[n], r) =>
            t[m].kind # "close" /\ t[n].kind # "open"
      BY <1>6, <2>2 DEF IsOf
    <2>4. \A n \in DOMAIN t : t[n].kind = "stop" => n = Len(t)
      BY <1>6
    <2>. QED
      BY <1>1, <1>4, <1>6, <1>9, <1>18, <2>1, <2>3, <2>4, ItemsGrow
  <1>30. ThreadsInv'
    <2>1. \A n \in DOMAIN queue' : queue'[n].kind # "stop"
      BY <1>6, <1>18, <1>20
    <2>2. writer # "exited"
      BY <1>1 DEF ThreadsInv
    <2>. QED
      BY <2>1, <2>2 DEF ThreadsInv
  <1>31. AccountsInv'
    <2>1. \A rs : \A n \in DOMAIN t : IqIn(t[n], rs) = 0
      BY <1>6 DEF IqIn
    <2>2. \A rs : Carries(t, rs, 0)
      BY <1>6, <2>1, CarriesNothing
    <2>3. \A rs, x : Carries(queue, rs, x) => x \in Nat /\ Carries(queue', rs, x + 0)
      BY <1>4, <1>6, <1>9, <2>2, CarriesMore
    <2>4. \A rs, x : Carries(queue, rs, x) => Carries(queue', rs, x)
      BY <2>3
    <2>5. \A rs, x : Carries(queue, rs, x)' <=> Carries(queue', rs, x)
      BY DEF Carries, IqIn
    <2>6. Carries(queue, Runs, inFlight)'
      <3>1. Carries(queue', Runs, inFlight)
        BY <1>1, <2>4 DEF AccountsInv
      <3>. QED
        BY <3>1 DEF Carries, IqIn
    <2>7. \A r \in Runs : r \notin T => Had(r)' = Had(r)
      BY <1>16 DEF Had
    <2>8. ASSUME NEW r \in Runs, cut'[r] # NoCut
          PROVE  \E x \in Nat : Carries(queue', {r}, x)
                                /\ Had(r)' + x + cut'[r].zeros + cut'[r].refused <= cut'[r].written
      <3>1. CASE r \in T
        <4>1. cut'[r] = FreshCut
          BY <1>13, <3>1
        <4>2. Had(r)' = 0
          BY <1>16, <3>1 DEF Had
        <4>3. \A n \in DOMAIN queue' : IqIn(queue'[n], {r}) = 0
          <5>1. \A m \in DOMAIN queue : IqIn(queue[m], {r}) = 0
            BY <1>11, <3>1 DEF IqIn, IsOf
          <5>. QED
            BY <1>20, <2>1, <5>1
        <4>4. Carries(queue', {r}, 0)
          BY <1>19, <4>3, CarriesNothing
        <4>. QED
          BY <1>14, <4>1, <4>2, <4>4
      <3>2. CASE r \notin T
        <4>1. cut'[r] = cut[r] /\ cut[r] # NoCut
          BY <1>13, <2>8, <3>2
        <4>. QED
          BY <1>1, <2>4, <2>7, <3>2, <4>1 DEF AccountsInv
      <3>. QED
        BY <3>1, <3>2
    <2>9. ASSUME NEW r \in Runs, NEW n \in DOMAIN queue', IsOf(queue'[n], r),
                 queue'[n].kind = "close", queue'[n].status = "partial"
          PROVE  \E x \in Nat : Carries(queue', {r}, x) /\ Had(r)' + x < Samples(r)
      <3>1. PICK m \in DOMAIN queue : queue'[n] = queue[m]
        BY <1>6, <1>20, <2>9
      <3>2. r \notin T
        BY <1>11, <2>9, <3>1
      <3>. QED
        BY <1>1, <2>4, <2>7, <2>9, <3>1, <3>2 DEF AccountsInv
    <2>10. \A r \in Runs : \A n \in DOMAIN queue' :
             (IsOf(queue[n], r) /\ queue[n].kind = "close" /\ queue[n].status = "partial")' =>
               \E x \in Nat : Carries(queue, {r}, x)' /\ Had(r)' + x < Samples(r)
      BY <2>5, <2>9 DEF IsOf
    <2>11. \A r \in Runs : cut'[r] # NoCut =>
             \E x \in Nat : Carries(queue, {r}, x)'
                            /\ Had(r)' + x + cut'[r].zeros + cut'[r].refused <= cut'[r].written
      BY <2>5, <2>8
    <2>. QED
      BY <2>6, <2>10, <2>11 DEF AccountsInv
  <1>32. FilesInv'
    <2>1. \A r \in Runs : Lost(r)' <=> Lost(r)
      BY DEF Lost
    <2>2. ASSUME NEW r \in Runs
          PROVE  /\ Queued("open", r)' => (begun[r] = 0 \/ Lost(r)) /\ (Answered(r)' \/ Lost(r))
                 /\ begun[r] > 0 => Answered(r)' \/ Lost(r)
                 /\ begun[r] > 1 => Lost(r)
                 /\ files[r].state # "none" => begun[r] > 0
                 /\ files[r].state = "closed" =>
                      Lost(r) \/ (Outcome(r)' \in Final /\ Honest(Outcome(r)', files[r], r))
      <3>1. /\ Queued("open", r) => (begun[r] = 0 \/ Lost(r)) /\ (Answered(r) \/ Lost(r))
            /\ begun[r] > 0 => Answered(r) \/ Lost(r)
            /\ begun[r] > 1 => Lost(r)
            /\ files[r].state # "none" => begun[r] > 0
            /\ files[r].state = "closed" =>
                 Lost(r) \/ (Outcome(r) \in Final /\ Honest(Outcome(r), files[r], r))
        BY <1>1 DEF FilesInv
      <3>2. begun[r] \in Nat
        BY <1>1 DEF Types
      <3>3. CASE IsIn(B, r)
        <4>1. rows[r] = "none" /\ latest[r] = "none" /\ ~OnItsWay(r)
          BY <1>10, <3>3 DEF IsIn
        <4>2. Answered(r) => Lost(r)
          BY <4>1 DEF Answered, Lost
        <4>3. Answered(r)'
          BY <1>21, <3>3 DEF Answered
        <4>4. Outcome(r) \notin Final
          BY <4>1 DEF Outcome, Final
        <4>. QED
          BY <3>1, <3>2, <4>2, <4>3, <4>4
      <3>4. CASE ~IsIn(B, r)
        <4>1. r \notin T
          BY <1>11, <3>4
        <4>2. Outcome(r)' = Outcome(r)
          BY <1>5, <3>4 DEF Outcome
        <4>. QED
          BY <1>16, <1>26, <3>1, <4>1, <4>2
      <3>. QED
        BY <3>3, <3>4
    <2>3. \A r \in Runs : \A status, f : Honest(status, f, r) <=> Honest(status, f, r)'
      OBVIOUS
    <2>. QED
      BY <2>1, <2>2 DEF FilesInv
  <1>33. PlansInv'
    <2>1. ASSUME NEW i \in Ids, plan'[i] >= 0
          PROVE  plan'[i] > last'[i] /\ RunStart(i, plan'[i]) > now
      BY <1>2, <1>5, <2>1
    <2>2. \A i \in Ids : table[i] = "live" => plan'[i] # Unplanned
      BY <1>2
    <2>. QED
      BY <2>1, <2>2 DEF PlansInv
  <1>34. ASSUME BehindInv PROVE BehindInv'
    <2>1. ASSUME NEW r \in Runs, table[r[1]] = "live", r[2] < plan'[r[1]] \/ plan'[r[1]] = NoRun
          PROVE  Come(r)' \/ Early(r)'
      <3>1. r[1] \in Ids
        BY RunIs
      <3>2. r[2] <= LastOf(r[1], B) \/ Early(r)
        BY <1>3, <1>34, <2>1
      <3>3. last'[r[1]] = LastOf(r[1], B)
        BY <1>5, <3>1
      <3>. QED
        BY <3>2, <3>3 DEF Come, Early
    <2>2. \A i \in Ids : ~(table[i] = "live" /\ plan'[i] = Unplanned)
      BY <1>2
    <2>. QED
      BY <2>1, <2>2 DEF BehindInv
  <1>35. ASSUME NEW r \in Runs, latest[r] \in Final PROVE latest'[r] = latest[r]
    <2>1. latest[r] # "none"
      BY <1>35 DEF Final
    <2>2. Come(r)
      BY <1>1, <2>1 DEF AheadInv
    <2>. QED
      BY <1>12, <2>2
  <1>36. ScheduleInv'
    BY <1>1, <1>22, <1>23, <1>24, <1>25, <1>27, <1>28, <1>29, <1>30, <1>31, <1>32, <1>33, <1>34
       DEF ScheduleInv
  <1>. QED
    BY <1>35, <1>36

-----------------------------------------------------------------------------
(* A chunk, a death, and all of it.                                        *)

\* A chunk's answers are such.
LEMMA RxChunkKeeps ==
  ASSUME ScheduleInv, RxChunk
  PROVE  ScheduleInv' /\ \A r \in Runs : latest[r] \in Final => latest'[r] = latest[r]
PROOF
  <1>1. Types /\ BookInv /\ PlansInv
    BY DEF ScheduleInv
  <1>2. /\ rx = "idle" /\ now < MaxTime /\ marked' = TRUE /\ stale' = FALSE /\ rx' = "feed"
        /\ UNCHANGED <<now, table, created, rows, book, ringFrom, inFlight, files, writer,
                       happens, stops, deaths, failedSaves, lostSaves, begun>>
    BY DEF RxChunk, histVars
  <1>3. PICK refuse :
          LET p == Refreshed(Missed)
              S == StartAll(Due(p), refuse)
          IN /\ Report(Missed \o S)
             /\ plan' = [i \in Ids |-> AfterDue(i, p[i])]
             /\ cut' = [r \in Runs |-> IF r \in Started(S) THEN FreshCut ELSE cut[r]]
             /\ queue' = queue \o Opens(Started(S))
             /\ todo' = {r \in Runs : cut'[r] # NoCut}
    BY DEF RxChunk
  <1>. DEFINE p == Refreshed(Missed)
              S == StartAll(Due(p), refuse)
              B == Missed \o S
              T == Started(S)
              plans == [i \in Ids |-> AfterDue(i, p[i])]
  <1>4. Answers(B, T, plans)
    BY <1>1, <1>2, AnswersAre
  <1>5. /\ Report(B) /\ plan' = plans
        /\ cut' = [r \in Runs |-> IF r \in T THEN FreshCut ELSE cut[r]]
        /\ queue' = queue \o Opens(T) /\ todo' = {r \in Runs : cut'[r] # NoCut}
    BY <1>3
  <1>. HIDE DEF p, S, B, T, plans
  <1>6. Answers(B, T, plan')
    BY <1>4, <1>5
  <1>. QED
    BY <1>2, <1>5, <1>6, AnswersKeep

\* The last run of a schedule with a row is the one load takes up.
LEMMA LastRowIs ==
  ASSUME NEW i \in Ids
  PROVE  /\ LastRow(i) \in Int /\ LastRow(i) \in NoRun..(TotalRuns(i) - 1)
         /\ \A k \in 0..(TotalRuns(i) - 1) : rows[<<i, k>>] # "none" => k <= LastRow(i)
         /\ LastRow(i) # NoRun =>
              LastRow(i) \in 0..(TotalRuns(i) - 1) /\ rows[<<i, LastRow(i)>>] # "none"
PROOF
  <1>. DEFINE N == TotalRuns(i)
              ks == {k \in 0..(N - 1) : rows[<<i, k>>] # "none"}
              ms == ks \cup {NoRun}
  <1>1. N \in Nat /\ NoRun = -1
    BY RunsAre DEF NoRun
  <1>. HIDE DEF N
  <1>2. ms \in SUBSET Int /\ ms # {} /\ N - 1 \in Int /\ \A x \in ms : x <= N - 1
    BY <1>1
  <1>3. \E x \in ms : \A y \in ms : y <= x
    BY <1>2, GreatestOf
  <1>4. \E x \in ms : \A j \in ks : j <= x
    BY <1>3
  <1>5. LastRow(i) = CHOOSE x \in ms : \A j \in ks : j <= x
    BY DEF LastRow, N
  <1>6. LastRow(i) \in ms /\ \A j \in ks : j <= LastRow(i)
    BY <1>4, <1>5
  <1>. QED
    BY <1>1, <1>6 DEF N

\* The process dies, and load puts the table and the book in order.
LEMMA DieKeeps ==
  ASSUME ScheduleInv, Die
  PROVE  ScheduleInv' /\ \A r \in Runs : rows[r] \in Final => rows'[r] = rows[r]
PROOF
  <1>1. /\ Types /\ BookInv /\ AheadInv /\ SavesInv /\ FilesInv
        /\ "late_add" \notin happens => OrderInv
    BY DEF ScheduleInv
  <1>2. /\ lostSaves' = lostSaves \cup {saving[n].run : n \in DOMAIN saving}
        /\ rows' = EndUnfinished /\ book' \in InOrder({i \in Ids : table[i] = "live"})
        /\ last' = [i \in Ids |-> LastRow(i)] /\ latest' = [r \in Runs |-> "none"]
        /\ saving' = <<>> /\ stale' = TRUE /\ cut' = [r \in Runs |-> NoCut]
        /\ rx' = "off" /\ todo' = {} /\ ringFrom' = now /\ plan' = [i \in Ids |-> Unplanned]
        /\ marked' = FALSE /\ queue' = <<>> /\ inFlight' = 0 /\ writer' = "exited"
        /\ files' = [r \in Runs |-> IF files[r].state = "open"
                                    THEN [files[r] EXCEPT !.state = "left"] ELSE files[r]]
        /\ UNCHANGED <<happens, now, table, created, failedSaves, begun>>
    BY DEF Die
  <1>3. /\ now \in 0..MaxTime /\ rows \in [Runs -> Final \cup {"none", "recording"}]
        /\ files \in [Runs -> RunFiles] /\ saving \in Seq(Reports) /\ begun \in [Runs -> Nat]
        /\ table \in [Ids -> {"none", "live", "deleted"}] /\ created \in [Ids -> Nat]
        /\ failedSaves \subseteq Runs /\ lostSaves \subseteq Runs
        /\ latest \in [Runs -> Final \cup {"none", "recording"}]
    BY <1>1 DEF Types
  <1>4. \A r \in Runs : /\ rows'[r] = IF rows[r] = "recording" THEN "partial" ELSE rows[r]
                        /\ rows'[r] \in Final \cup {"none"}
                        /\ rows'[r] # "none" <=> rows[r] # "none"
                        /\ rows[r] \in Final => rows'[r] = rows[r]
    BY <1>2, <1>3 DEF EndUnfinished, Final
  <1>5. DOMAIN saving' = {} /\ DOMAIN queue' = {} /\ saving' \in Seq(Reports)
          /\ queue' \in Seq(Items)
    <2>1. DOMAIN <<>> = {}
      OBVIOUS
    <2>2. \A S : <<>> \in Seq(S)
      OBVIOUS
    <2>. QED
      BY <1>2, <2>1, <2>2
  <1>6. \A r \in Runs : ~IsOpen(r)' /\ ~OnItsWay(r)' /\ \A kind : ~Queued(kind, r)'
    <2>1. ASSUME NEW r \in Runs PROVE ~IsOpen(r)'
      <3>1. CASE files[r].state = "open"
        BY <1>2, <1>3, <3>1 DEF IsOpen, RunFiles
      <3>2. CASE files[r].state # "open"
        BY <1>2, <3>2 DEF IsOpen
      <3>. QED
        BY <3>1, <3>2
    <2>. QED
      BY <1>5, <2>1 DEF OnItsWay, Queued
  <1>7. \A r \in Runs : r[1] \in Ids /\ r[2] \in 0..(TotalRuns(r[1]) - 1) /\ r = <<r[1], r[2]>>
    BY RunIs
  <1>8. \A r \in Runs : rows[r] # "none" => Come(r)'
    <2>1. ASSUME NEW r \in Runs, rows[r] # "none" PROVE Come(r)'
      <3>1. rows[<<r[1], r[2]>>] # "none"
        BY <1>7, <2>1
      <3>2. r[2] <= LastRow(r[1])
        BY <1>7, <3>1, LastRowIs
      <3>. QED
        BY <1>2, <1>7, <3>2 DEF Come
    <2>. QED
      BY <2>1
  <1>9. Types'
    <2>1. \A i \in Ids : last'[i] \in Int /\ last'[i] \in NoRun..(TotalRuns(i) - 1)
      BY <1>2, LastRowIs
    <2>2. \A i \in Ids : plan'[i] \in Int /\ plan'[i] \in Unplanned..(TotalRuns(i) - 1)
      BY <1>2, RunsAre DEF Unplanned
    <2>3. book' \in Seq(Ids)
      <3>1. IsFiniteSet({i \in Ids : table[i] = "live"})
        BY ScheduleAssumption, FS_Subset
      <3>2. Cardinality({i \in Ids : table[i] = "live"}) \in Nat
        BY <3>1, FS_CardinalityType
      <3>3. book' \in [1..Cardinality({i \in Ids : table[i] = "live"}) -> Ids]
        BY <1>2 DEF InOrder, Injection
      <3>4. ASSUME NEW S, NEW c \in Nat, NEW s \in [1..c -> S] PROVE s \in Seq(S)
        OBVIOUS
      <3>. QED
        BY <3>2, <3>3, <3>4
    <2>4. \A r \in Runs : files'[r] \in RunFiles
      BY <1>2, <1>3, FileIs
    <2>5. lostSaves' \subseteq Runs
      <3>1. \A n \in DOMAIN saving : saving[n] \in Reports
        BY <1>3
      <3>. QED
        BY <1>2, <1>3, <3>1, ReportIs
    <2>6. /\ rows' \in [Runs -> Final \cup {"none", "recording"}]
          /\ latest' \in [Runs -> Final \cup {"none", "recording"}]
          /\ files' \in [Runs -> RunFiles] /\ cut' \in [Runs -> Cuts \cup {NoCut}]
          /\ last' \in [Ids -> Int] /\ plan' \in [Ids -> Int]
      BY <1>2, <1>4, <2>1, <2>2, <2>4 DEF EndUnfinished
    <2>7. ringFrom' \in Nat /\ ringFrom' <= now /\ inFlight' \in 0..Budget
      BY <1>2, <1>3, ScheduleAssumption
    <2>. QED
      BY <1>2, <1>3, <1>5, <2>1, <2>2, <2>3, <2>5, <2>6, <2>7 DEF Types
  <1>10. BookInv'
    <2>. DEFINE ids == {i \in Ids : table[i] = "live"}
    <2>1. IsFiniteSet(ids) /\ Cardinality(ids) \in Nat
      BY ScheduleAssumption, FS_Subset, FS_CardinalityType
    <2>2. book' \in [1..Cardinality(ids) -> ids] /\ IsInjective(book')
      BY <1>2 DEF InOrder, Injection, IsInjective
    <2>3. \A i \in ids : \E n \in DOMAIN book' : book'[n] = i
      <3>1. book' \in Injection(1..Cardinality(ids), ids)
        BY <2>2 DEF Injection, IsInjective
      <3>2. IsFiniteSet(1..Cardinality(ids)) /\ Cardinality(1..Cardinality(ids)) = Cardinality(ids)
        BY <2>1, FS_Interval
      <3>3. book' \in Surjection(1..Cardinality(ids), ids)
        BY <2>1, <3>1, <3>2, FS_Injection
      <3>4. \A i \in ids : \E n \in 1..Cardinality(ids) : book'[n] = i
        BY <3>3 DEF Surjection
      <3>. QED
        BY <2>2, <3>4
    <2>4. \A i \in Ids : (\E n \in DOMAIN book' : book'[n] = i) <=> table[i] = "live"
      BY <2>2, <2>3
    <2>5. ASSUME NEW i \in Ids, table[i] = "none" PROVE last'[i] = NoRun
      <3>1. last[i] = NoRun /\ TotalRuns(i) \in Nat
        BY <1>1, <2>5, RunsAre DEF BookInv
      <3>2. ASSUME NEW k \in 0..(TotalRuns(i) - 1) PROVE rows[<<i, k>>] = "none"
        <4>1. <<i, k>> \in Runs /\ ~Come(<<i, k>>)
          BY <3>1, IsRun DEF Come, NoRun
        <4>. QED
          BY <1>1, <4>1 DEF AheadInv
      <3>. QED
        BY <1>2, <3>2, LastRowIs
    <2>. QED
      BY <1>2, <2>2, <2>4, <2>5 DEF BookInv, IsInjective
  <1>11. AheadInv'
    <2>1. \A r \in Runs : ~Come(r)' => rows'[r] = "none"
      BY <1>4, <1>8
    <2>. QED
      BY <1>2, <1>5, <1>6, <2>1 DEF AheadInv
  <1>12. SavesInv'
    BY <1>2, <1>5 DEF SavesInv, Final
  <1>13. \A r \in Runs : Early(r)' <=> Early(r)
    BY <1>2 DEF Early
  <1>14. ASSUME OrderInv PROVE OrderInv'
    <2>1. ASSUME NEW r \in Runs, NEW s \in Runs, Before(s, r), rows'[r] # "none"
          PROVE  rows'[s] # "none" \/ s \in failedSaves \/ Early(s)
      BY <1>4, <1>14, <2>1 DEF OrderInv
    <2>2. ASSUME NEW r \in Runs, Come(r)' PROVE Answered(r)' \/ Early(r)
      <3>. DEFINE i == r[1]
                  k == LastRow(i)
      <3>1. i \in Ids /\ r[2] \in 0..(TotalRuns(i) - 1) /\ r = <<i, r[2]>> /\ TotalRuns(i) \in Nat
        BY RunIs
      <3>2. r[2] <= k
        BY <1>2, <2>2, <3>1 DEF Come
      <3>3. k # NoRun /\ k \in Int
        <4>1. k \in Int
          BY <3>1, LastRowIs
        <4>. HIDE DEF k
        <4>. QED
          BY <3>1, <3>2, <4>1 DEF NoRun
      <3>4. k \in 0..(TotalRuns(i) - 1) /\ rows[<<i, k>>] # "none"
        BY <3>1, <3>3, LastRowIs
      <3>. HIDE DEF k
      <3>5. PICK s \in Runs : s = <<i, k>> /\ s[1] = i /\ s[2] = k
        BY <3>1, <3>4, IsRun
      <3>6. rows'[s] # "none"
        BY <1>4, <3>4, <3>5
      <3>7. CASE r[2] = k
        <4>1. r = s
          BY <3>1, <3>5, <3>7
        <4>. QED
          BY <3>6, <4>1 DEF Answered
      <3>8. CASE r[2] < k
        <4>1. Before(r, s)
          BY <3>5, <3>8 DEF Before
        <4>. QED
          BY <1>2, <2>1, <3>6, <4>1 DEF Answered
      <3>. QED
        BY <3>1, <3>2, <3>3, <3>7, <3>8
    <2>3. \A r \in Runs : Come(r)' => Answered(r)' \/ Early(r)'
      BY <1>13, <2>2
    <2>4. \A r, s \in Runs : Before(s, r) /\ rows'[r] # "none" =>
            rows'[s] # "none" \/ s \in failedSaves' \/ Early(s)'
      BY <1>2, <1>13, <2>1
    <2>. HIDE DEF Come, Answered, Early
    <2>. QED
      BY <1>5, <2>3, <2>4 DEF OrderInv, Before
  <1>15. StageInv'
    BY <1>2, <1>6 DEF StageInv
  <1>16. ItemsInv'
    BY <1>5 DEF ItemsInv
  <1>17. ThreadsInv'
    BY <1>2, <1>5 DEF ThreadsInv
  <1>18. AccountsInv'
    <2>1. Carries(queue', Runs, inFlight')
      BY <1>2, CarriesLittle
    <2>2. Carries(queue, Runs, inFlight)'
      BY <2>1 DEF Carries, IqIn
    <2>. QED
      BY <1>2, <1>5, <2>2 DEF AccountsInv
  <1>19. FilesInv'
    <2>1. ASSUME NEW r \in Runs
          PROVE  /\ begun[r] > 0 => Answered(r)' \/ Lost(r)'
                 /\ begun[r] > 1 => Lost(r)'
                 /\ files'[r].state # "none" => begun[r] > 0
                 /\ files'[r].state = "closed" =>
                      Lost(r)' \/ (rows'[r] \in Final /\ Honest(rows'[r], files'[r], r))
      <3>1. /\ begun[r] > 0 => Answered(r) \/ Lost(r)
            /\ begun[r] > 1 => Lost(r)
            /\ files[r].state # "none" => begun[r] > 0
            /\ files[r].state = "closed" =>
                 Lost(r) \/ (Outcome(r) \in Final /\ Honest(Outcome(r), files[r], r))
        BY <1>1 DEF FilesInv
      <3>2. Lost(r) => Lost(r)'
        BY <1>2 DEF Lost
      <3>3. OnItsWay(r) => Lost(r)'
        BY <1>2 DEF Lost, OnItsWay
      <3>4. Answered(r) => Answered(r)' \/ Lost(r)'
        BY <1>2, <1>4, <3>3 DEF Answered
      <3>5. files'[r].state # "none" => files[r].state # "none"
        BY <1>2
      <3>6. ASSUME files'[r].state = "closed", ~Lost(r)'
            PROVE  rows'[r] \in Final /\ Honest(rows'[r], files'[r], r)
        <4>1. files[r].state # "open"
          BY <1>6, <3>6, <1>2, <1>3 DEF RunFiles
        <4>2. files'[r] = files[r]
          BY <1>2, <4>1
        <4>3. Outcome(r) \in Final /\ Honest(Outcome(r), files[r], r)
          BY <3>1, <3>2, <3>6, <4>2
        <4>4. rows[r] = Outcome(r)
          <5>1. CASE latest[r] = "none"
            BY <5>1 DEF Outcome
          <5>2. CASE latest[r] # "none"
            <6>1. Outcome(r) = latest[r] /\ latest[r] \in Final
              BY <4>3, <5>2 DEF Outcome
            <6>2. r \notin failedSaves
              BY <1>2, <3>6 DEF Lost
            <6>3. rows[r] = latest[r] \/ \E n \in DOMAIN saving :
                    saving[n] = [run |-> r, status |-> latest[r]]
              BY <1>1, <6>1, <6>2 DEF SavesInv
            <6>4. ~\E n \in DOMAIN saving : saving[n] = [run |-> r, status |-> latest[r]]
              BY <3>3, <3>6 DEF OnItsWay
            <6>. QED
              BY <6>1, <6>3, <6>4
          <5>. QED
            BY <5>1, <5>2
        <4>. QED
          BY <1>4, <4>2, <4>3, <4>4
      <3>. QED
        BY <3>1, <3>2, <3>4, <3>5, <3>6
    <2>2. \A r \in Runs : Outcome(r)' = rows'[r]
      BY <1>2 DEF Outcome
    <2>3. \A r \in Runs : Honest(Outcome(r)', files'[r], r) <=> Honest(Outcome(r), files[r], r)'
      BY DEF Honest, Whole, Samples, Schedule
    <2>. QED
      BY <1>2, <1>6, <2>1, <2>2, <2>3 DEF FilesInv
  <1>20. PlansInv'
    BY <1>2 DEF PlansInv, Unplanned
  <1>21. BehindInv'
    <2>1. \A r \in Runs : ~(r[2] < Unplanned) /\ Unplanned # NoRun
      BY <1>7 DEF Unplanned, NoRun
    <2>. QED
      BY <1>2, <1>7, <2>1 DEF BehindInv
  <1>22. happens' = happens
    BY <1>2
  <1>23. ScheduleInv'
    BY <1>1, <1>9, <1>10, <1>11, <1>12, <1>14, <1>15, <1>16, <1>17, <1>18, <1>19, <1>20, <1>21,
       <1>22
       DEF ScheduleInv
  <1>. QED
    BY <1>4, <1>23

\* Nothing has happened yet.
LEMMA ScheduleStarts ==
  ScheduleInit => ScheduleInv
PROOF
  <1>. SUFFICES ASSUME ScheduleInit PROVE ScheduleInv
    OBVIOUS
  <1>1. /\ now = 0 /\ table = [i \in Ids |-> "none"] /\ created = [i \in Ids |-> 0]
        /\ rows = [r \in Runs |-> "none"] /\ book = <<>> /\ last = [i \in Ids |-> NoRun]
        /\ latest = [r \in Runs |-> "none"] /\ saving = <<>> /\ stale = TRUE
        /\ cut = [r \in Runs |-> NoCut] /\ rx = "off" /\ todo = {} /\ ringFrom = 0
        /\ plan = [i \in Ids |-> Unplanned] /\ marked = FALSE /\ queue = <<>> /\ inFlight = 0
        /\ files = [r \in Runs |-> NoFile] /\ writer = "exited"
        /\ failedSaves = {} /\ lostSaves = {} /\ begun = [r \in Runs |-> 0]
    BY DEF ScheduleInit
  <1>2. DOMAIN saving = {} /\ DOMAIN queue = {} /\ DOMAIN book = {}
    <2>1. DOMAIN <<>> = {}
      OBVIOUS
    <2>. QED
      BY <1>1, <2>1
  <1>3. saving \in Seq(Reports) /\ queue \in Seq(Items) /\ book \in Seq(Ids)
    <2>1. \A S : <<>> \in Seq(S)
      OBVIOUS
    <2>. QED
      BY <1>1, <2>1
  <1>4. NoRun = -1 /\ Unplanned = -2
    BY DEF NoRun, Unplanned
  <1>5. \A i \in Ids : TotalRuns(i) \in Nat
    BY RunsAre
  <1>6. NoFile \in RunFiles /\ NoFile.state = "none"
    BY DEF NoFile, RunFiles
  <1>7. \A r \in Runs : r[1] \in Ids /\ r[2] \in Nat
    BY RunIs
  <1>8. \A r \in Runs : ~IsOpen(r) /\ ~OnItsWay(r) /\ \A kind : ~Queued(kind, r)
    BY <1>1, <1>2, <1>6 DEF IsOpen, OnItsWay, Queued
  <1>9. Types
    <2>1. \A i \in Ids : NoRun \in NoRun..(TotalRuns(i) - 1)
            /\ Unplanned \in Unplanned..(TotalRuns(i) - 1)
      BY <1>4, <1>5
    <2>2. last \in [Ids -> Int] /\ plan \in [Ids -> Int] /\ created \in [Ids -> Nat]
          /\ begun \in [Runs -> Nat]
      BY <1>1, <1>4
    <2>3. now \in 0..MaxTime /\ ringFrom \in Nat /\ ringFrom <= now /\ inFlight \in 0..Budget
      BY <1>1, ScheduleAssumption
    <2>. QED
      BY <1>1, <1>3, <1>6, <2>1, <2>2, <2>3 DEF Types
  <1>10. BookInv
    <2>1. IsInjective(book)
      BY <1>2 DEF IsInjective
    <2>. QED
      BY <1>1, <1>2, <2>1 DEF BookInv
  <1>11. AheadInv
    BY <1>1, <1>2, <1>8 DEF AheadInv
  <1>12. SavesInv
    BY <1>1, <1>2 DEF SavesInv, Final
  <1>13. OrderInv
    <2>1. \A r \in Runs : ~Come(r)
      BY <1>1, <1>4, <1>7 DEF Come
    <2>. QED
      BY <1>1, <1>2, <2>1 DEF OrderInv
  <1>14. StageInv
    BY <1>1, <1>8 DEF StageInv
  <1>15. ItemsInv
    BY <1>2 DEF ItemsInv
  <1>16. ThreadsInv
    BY <1>1, <1>2 DEF ThreadsInv
  <1>17. AccountsInv
    <2>1. Carries(queue, Runs, inFlight)
      BY <1>1, CarriesLittle
    <2>. QED
      BY <1>1, <1>2, <2>1 DEF AccountsInv
  <1>18. FilesInv
    <2>1. \A r \in Runs : begun[r] = 0 /\ files[r].state = "none" /\ ~Queued("open", r)
      BY <1>1, <1>6, <1>8
    <2>. QED
      BY <2>1 DEF FilesInv
  <1>19. PlansInv
    BY <1>1, <1>4 DEF PlansInv
  <1>20. BehindInv
    BY <1>1, <1>4, <1>7 DEF BehindInv
  <1>. QED
    BY <1>9, <1>10, <1>11, <1>12, <1>13, <1>14, <1>15, <1>16, <1>17, <1>18, <1>19, <1>20
       DEF ScheduleInv

\* What every step leaves: the invariant, and every outcome that is final.
OutcomesStay ==
  \A r \in Runs :
    /\ rows[r] \in Final => rows'[r] = rows[r]
    /\ latest[r] \in Final /\ deaths' = deaths => latest'[r] = latest[r]

\* Every step keeps both.
LEMMA ScheduleKept ==
  ASSUME ScheduleInv, deaths \in Nat, [ScheduleNext]_scheduleVars
  PROVE  ScheduleInv' /\ OutcomesStay /\ deaths' \in Nat
PROOF
  <1>1. CASE UNCHANGED scheduleVars
    <2>1. UNCHANGED <<now, table, created, rows, book, last, latest, saving, stale, cut, rx, todo,
                      ringFrom, plan, marked, queue, inFlight, files, writer, happens, stops,
                      deaths,
                      failedSaves, lostSaves, begun>>
      BY <1>1 DEF scheduleVars, bookVars, recVars, diskVars, histVars
    <2>2. /\ Types /\ BookInv /\ AheadInv /\ SavesInv /\ StageInv /\ ItemsInv /\ ThreadsInv
          /\ AccountsInv /\ FilesInv /\ PlansInv
          /\ "late_add" \notin happens => OrderInv /\ BehindInv
      BY DEF ScheduleInv
    <2>3. Types' /\ now' \in Int /\ now <= now'
      BY <2>1, <2>2 DEF Types
    <2>4. BookInv' /\ AheadInv' /\ SavesInv' /\ ItemsInv'
      BY <2>1, <2>2, BookSame, AheadSame, SavesSame, ItemsSame
    <2>5. StageInv' /\ ThreadsInv' /\ AccountsInv'
      BY <2>1, <2>2, <2>3, StageSame, ThreadsSame, AccountsSame
    <2>6. FilesInv' /\ PlansInv'
      BY <2>1, <2>2, FilesSame, PlansSame
    <2>7. "late_add" \notin happens' => OrderInv' /\ BehindInv'
      BY <2>1, <2>2, OrderSame, BehindSame
    <2>8. ScheduleInv'
      BY <2>3, <2>4, <2>5, <2>6, <2>7 DEF ScheduleInv
    <2>. QED
      BY <2>1, <2>8 DEF OutcomesStay
  <1>2. ASSUME NEW i \in Ids, Add(i) PROVE ScheduleInv' /\ OutcomesStay /\ deaths' \in Nat
    <2>1. UNCHANGED <<rows, latest, deaths>>
      BY <1>2 DEF Add, histVars
    <2>. QED
      BY <1>2, <2>1, AddKeeps DEF OutcomesStay
  <1>3. ASSUME NEW i \in Ids, Delete(i) PROVE ScheduleInv' /\ OutcomesStay /\ deaths' \in Nat
    <2>1. UNCHANGED <<rows, latest, deaths>>
      BY <1>3 DEF Delete, histVars
    <2>. QED
      BY <1>3, <2>1, DeleteKeeps DEF OutcomesStay
  <1>4. CASE Persist
    <2>1. /\ saving # <<>> /\ UNCHANGED <<latest, deaths>>
          /\ rows' = rows \/ rows' = [rows EXCEPT ![Head(saving).run] = Head(saving).status]
      BY <1>4 DEF Persist
    <2>2. saving \in Seq(Reports) /\ rows \in [Runs -> Final \cup {"none", "recording"}]
      BY DEF ScheduleInv, Types
    <2>3. 1 \in DOMAIN saving /\ Head(saving) = saving[1]
      BY <2>1, <2>2, Unjoining
    <2>4. rows[Head(saving).run] \notin Final
      BY <2>3 DEF ScheduleInv, SavesInv
    <2>5. \A r \in Runs : rows[r] \in Final => rows'[r] = rows[r]
      BY <2>1, <2>2, <2>4
    <2>. QED
      BY <1>4, <2>1, <2>5, PersistKeeps DEF OutcomesStay
  <1>5. CASE RxChunk
    <2>1. UNCHANGED <<rows, deaths>>
      BY <1>5 DEF RxChunk, histVars
    <2>. QED
      BY <1>5, <2>1, RxChunkKeeps DEF OutcomesStay
  <1>6. ASSUME NEW r \in Runs, RxFeed(r) PROVE ScheduleInv' /\ OutcomesStay /\ deaths' \in Nat
    <2>1. UNCHANGED <<rows, latest, deaths>>
      BY <1>6 DEF RxFeed, bookVars, histVars
    <2>. QED
      BY <1>6, <2>1, RxFeedKeeps DEF OutcomesStay
  <1>7. CASE RxChunkDone
    <2>1. UNCHANGED <<rows, latest, deaths>>
      BY <1>7 DEF RxChunkDone, bookVars, histVars
    <2>. QED
      BY <1>7, <2>1, RxChunkDoneKeeps DEF OutcomesStay
  <1>8. CASE RxRetune
    <2>1. UNCHANGED <<rows, latest, deaths>>
      BY <1>8 DEF RxRetune, bookVars
    <2>. QED
      BY <1>8, <2>1, RxRetuneKeeps DEF OutcomesStay
  <1>9. CASE PipelineStop
    <2>1. UNCHANGED <<rows, latest, deaths>>
      BY <1>9 DEF PipelineStop, bookVars
    <2>. QED
      BY <1>9, <2>1, PipelineStopKeeps DEF OutcomesStay
  <1>10. CASE PipelineStart
    <2>1. UNCHANGED <<rows, latest, deaths>>
      BY <1>10 DEF PipelineStart, histVars
    <2>. QED
      BY <1>10, <2>1, PipelineStartKeeps DEF OutcomesStay
  <1>11. CASE Pass
    <2>1. UNCHANGED <<rows, latest, deaths>>
      BY <1>11 DEF Pass, bookVars, histVars
    <2>. QED
      BY <1>11, <2>1, PassKeeps DEF OutcomesStay
  <1>12. CASE WriterStep
    <2>1. deaths' = deaths
      BY <1>12 DEF WriterStep
    <2>. QED
      BY <1>12, <2>1, WriterStepKeeps DEF OutcomesStay
  <1>13. CASE Die
    <2>1. deaths' = deaths + 1
      BY <1>13 DEF Die
    <2>2. deaths' \in Nat /\ deaths' # deaths
      BY <2>1
    <2>. QED
      BY <1>13, <2>2, DieKeeps DEF OutcomesStay
  <1>. QED
    BY <1>1, <1>2, <1>3, <1>4, <1>5, <1>6, <1>7, <1>8, <1>9, <1>10, <1>11, <1>12, <1>13
       DEF ScheduleNext, Receiver

\* What the invariant says of a run's answer.
LEMMA ScheduleInvSays ==
  ScheduleInv => RunsAreAnswered
PROOF
  <1>. SUFFICES ASSUME ScheduleInv PROVE RunsAreAnswered
    OBVIOUS
  <1>1. /\ Types /\ BookInv /\ SavesInv /\ StageInv /\ FilesInv /\ PlansInv
        /\ "late_add" \notin happens => OrderInv /\ BehindInv
    BY DEF ScheduleInv
  <1>2. ScheduleTypeOK
    <2>1. ASSUME NEW r \in Runs PROVE cut[r] = NoCut \/ cut[r].written \in 0..Samples(r)
      <3>1. CASE cut[r] # NoCut
        <4>1. cut[r] \in Cuts /\ cut[r].written <= Samples(r)
          BY <1>1, <3>1 DEF Types, StageInv
        <4>2. cut[r].written \in Nat /\ Samples(r) \in Nat
          BY <4>1, RunIs DEF Cuts
        <4>. QED
          BY <4>1, <4>2
      <3>. QED
        BY <3>1
    <2>. QED
      BY <1>1, <2>1 DEF Types, ScheduleTypeOK
  <1>3. EveryRunAnswered
    <2>. SUFFICES ASSUME "late_add" \notin happens, rx = "idle", marked, ~stale, ringFrom < now,
                         NEW n \in DOMAIN book, NEW k \in 0..(TotalRuns(book[n]) - 1)
                  PROVE  \/ RunStart(book[n], k) >= now
                         \/ RunStart(book[n], k) < created[book[n]] - Grace
                         \/ Outcome(<<book[n], k>>) # "none"
                         \/ <<book[n], k>> \in failedSaves
      BY DEF EveryRunAnswered
    <2>1. OrderInv /\ BehindInv
      BY <1>1
    <2>2. PICK i \in Ids : i = book[n]
      BY <1>1 DEF Types
    <2>3. table[i] = "live" /\ plan[i] # Unplanned
      BY <1>1, <2>2 DEF BookInv, PlansInv
    <2>4. k \in 0..(TotalRuns(i) - 1) /\ TotalRuns(i) \in Nat
      BY <2>2, RunsAre
    <2>5. PICK r \in Runs : r = <<i, k>> /\ r[1] = i /\ r[2] = k
      BY <2>4, IsRun
    <2>6. StartOf(r) = RunStart(i, k)
      BY <2>5, StartIs
    <2>7. CASE Early(r)
      BY <2>2, <2>5, <2>6, <2>7 DEF Early
    <2>8. CASE Come(r)
      <3>1. Answered(r) \/ Early(r)
        BY <2>1, <2>8 DEF OrderInv
      <3>2. rows[r] # "none" \/ latest[r] # "none" => Outcome(r) # "none"
        BY DEF Outcome
      <3>3. OnItsWay(r) => latest[r] # "none"
        BY <1>1 DEF SavesInv, OnItsWay
      <3>. QED
        BY <2>2, <2>5, <2>7, <3>1, <3>2, <3>3 DEF Answered
    <2>9. CASE ~Come(r) /\ ~Early(r)
      <3>1. plan[i] \in Unplanned..(TotalRuns(i) - 1) /\ now \in Nat /\ plan[i] \in Int
        BY <1>1 DEF Types
      <3>2. ~(k < plan[i]) /\ plan[i] # NoRun
        BY <2>1, <2>3, <2>5, <2>9 DEF BehindInv
      <3>3. plan[i] >= 0 /\ plan[i] <= k
        BY <2>3, <2>4, <3>1, <3>2 DEF Unplanned, NoRun
      <3>4. RunStart(i, plan[i]) >= now
        BY <1>1, <3>3 DEF PlansInv
      <3>5. /\ RunStart(i, plan[i]) <= RunStart(i, k)
            /\ RunStart(i, plan[i]) \in Int /\ RunStart(i, k) \in Int
        BY <2>4, <3>1, <3>3, RunsAre
      <3>6. RunStart(i, k) >= now
        BY <3>1, <3>4, <3>5
      <3>. QED
        BY <2>2, <3>6
    <2>. QED
      BY <2>7, <2>8, <2>9
  <1>4. OutcomeIsHonest
    BY <1>1 DEF OutcomeIsHonest, FilesInv, Honest, Lost
  <1>5. OneFilePerRun
    BY <1>1 DEF OneFilePerRun, FilesInv, Lost
  <1>. QED
    BY <1>2, <1>3, <1>4, <1>5 DEF RunsAreAnswered

\* Every reachable state of the schedules satisfies the invariant.
THEOREM ScheduleIsKept ==
  ScheduleSpec => [](ScheduleInv /\ deaths \in Nat)
PROOF
  <1>1. ScheduleInit => ScheduleInv /\ deaths \in Nat
    BY ScheduleStarts DEF ScheduleInit
  <1>2. ScheduleInv /\ deaths \in Nat /\ [ScheduleNext]_scheduleVars
          => (ScheduleInv /\ deaths \in Nat)'
    BY ScheduleKept
  <1>. QED
    BY <1>1, <1>2, PTL DEF ScheduleSpec

\* Every run of a live schedule whose instant has passed has an outcome, the
\* outcome tells the truth about the run's file, and no run is recorded twice,
\* whatever stops, retunes and deaths come between (book.py, engine.py and
\* writer.py of schedules/).
THEOREM EveryRunIsAnswered ==
  ScheduleSpec => []RunsAreAnswered
PROOF
  BY ScheduleIsKept, ScheduleInvSays, PTL

\* No step takes an outcome back: what is final in the table stays, and what is
\* final in memory stays until the process dies (report_run, load).
THEOREM OutcomesAreFinal ==
  ScheduleSpec => OutcomeStays
PROOF
  <1>1. (ScheduleInv /\ deaths \in Nat) /\ [ScheduleNext]_scheduleVars
          => [OutcomesStay]_scheduleVars
    BY ScheduleKept
  <1>2. [OutcomesStay]_scheduleVars =>
          [\A r \in Runs :
             /\ rows[r] \in Final => rows'[r] = rows[r]
             /\ latest[r] \in Final /\ deaths' = deaths => latest'[r] = latest[r]]_scheduleVars
    BY DEF OutcomesStay
  <1>. QED
    BY <1>1, <1>2, ScheduleIsKept, PTL DEF ScheduleSpec, OutcomeStays
=============================================================================
