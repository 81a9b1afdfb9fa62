----------------------------- MODULE Isolation -----------------------------
(***************************************************************************)
(* The burst isolation stage of pipeline/isolation.py with the threads of  *)
(* pipeline/streaming.py around it: the receiver writes the IQ ring        *)
(* (capture/buffer.py), grids travel to the burst thread, the burst thread *)
(* hands completed bursts to the stage, whose worker gates them, reads     *)
(* their samples back from the ring and isolates them.  In a lossless      *)
(* replay the receiver is held back (_wait_for_burst_lead); live, grids    *)
(* and batches are dropped instead.  stop() may run on the receiver thread *)
(* (a ring that no longer fits, _halt_isolation) and at the shutdown.      *)
(*                                                                         *)
(* Stream positions are counted in slots; a chunk is Chunk of them.        *)
(***************************************************************************)
EXTENDS Integers, Sequences, FiniteSets, SequencesExt

CONSTANTS
  Chunk,        \* _chunk_samples
  Capacity,     \* the ring's length
  Guard,        \* GUARD_SEC
  Interval,     \* BURST_EVAL_INTERVAL_ROWS
  Margin,       \* the detector's margin rows
  MaxLen,       \* ISOLATION_MAX_BURST_SEC
  Longest,      \* bound on the length of a burst
  SnapshotMax,  \* SNAPSHOT_MAX_BYTES
  MaxPerSec,    \* ISOLATION_MAX_PER_SEC
  Second,       \* slots of the gate's one second window
  QueueMax,     \* ISOLATION_QUEUE_MAX
  GridMax,      \* grids between the receiver and the burst thread
  BatchMax,     \* bound on the bursts one evaluation completes
  MaxBursts,    \* bound on the bursts of a behaviour
  MaxChunks,    \* bound on the chunks of a replay, over its rings
  LiveChunks,   \* the same for a live capture
  Powers,       \* the SNR of a burst; Weak is below ISOLATION_SNR_DB
  Scenarios     \* what may happen in one behaviour: sets of Occurrences

Occurrences ==
  {"lossless",      \* drop_on_overflow is off: offline replay
   "shutdown", "reconfigure", "halt",
   "thread_dies",   \* the burst thread raises
   "fault",         \* a read or the DSP of one burst raises
   "slow"}          \* a batch outlasts the 5 s of stop()'s join

Weak == 0
None == -1
Ids == 1..MaxBursts
Stoppers == {"rx", "main"}
StopMark == [ring |-> 0, cands |-> <<>>]

ASSUME IsolationAssumption ==
  /\ {Chunk, Capacity, Interval, MaxLen, Second, QueueMax, GridMax, BatchMax} \subseteq Nat \ {0}
  /\ {Guard, Margin, Longest, SnapshotMax, MaxPerSec, MaxBursts, MaxChunks, LiveChunks} \subseteq Nat
  /\ Powers \subseteq Nat
  /\ Scenarios \subseteq SUBSET Occurrences

VARIABLES
  happens,  \* the scenario
  running,  \* _running
  gen,      \* _config_generation
  rings,    \* slots written to each ring made so far; the last one is in use
  rx,       \* receiver thread: "read", "lead", "put", "halted", "off"
  rxGen,
  grids,    \* grids on their way, oldest first: ring and position
  bt,       \* burst thread: "get", "submit", "idle", "publish", "dead", "off"
  btGen,
  grid,     \* the grid it is at
  seen,     \* where its last evaluation ended in this ring; None: a new detector
  found,    \* bursts that evaluation completed
  done,     \* _burst_done_gen and _burst_done_end
  lead,     \* _lead_limit; None: no limit
  on,       \* _isolation_on
  stopped,  \* the stage's _stop_event
  thread,   \* the stage's _thread is set
  queue,    \* the stage's queue: batches and the stop mark
  wk,       \* the worker: "check", "get", "snap", "one", "drain", "off"
  batch,    \* its batch
  unread,   \* picked bursts its snapshot has not reached
  lazy,     \* picked bursts to be read just before their DSP
  ready,    \* picked bursts with what the snapshot read
  budget,   \* _window_start and _window_count
  stop,     \* where each caller of stop() is
  made,     \* bursts completed so far
  fate      \* what each burst was counted as, in order

stream == <<rings, rx, rxGen, grids, lead>>
detector == <<bt, btGen, grid, seen, found, done, made>>
worker == <<wk, batch, unread, lazy, ready, budget>>
stage == <<stopped, thread, queue, stop>>
vars == <<happens, running, gen, stream, detector, on, worker, stage, fate>>

Lossless == "lossless" \in happens
LargerOf(a, b) == IF a >= b THEN a ELSE b

-----------------------------------------------------------------------------
(* The ring and the range a burst is read from.                            *)

Ring == Len(rings)
Oldest(r) == LargerOf(0, rings[r] - Capacity)

ReadStart(b) == LargerOf(0, b.start - Guard)
TooLong(b) == b.stop - b.start > MaxLen
ReadStop(b) == (IF TooLong(b) THEN b.start + MaxLen ELSE b.stop) + Guard

Read(r, b) ==
  CASE ReadStart(b) < Oldest(r) -> "overwritten"
    [] ReadStart(b) >= Oldest(r) /\ ReadStop(b) > rings[r] -> "unwritten"
    [] OTHER -> "read"

\* How far back from the grid at hand a burst may be read, and what is left of
\* the ring for the receiver to run ahead.
Reserve == Interval + Margin + MaxLen + 2 * Guard

\* Read as _compute_lead_limit is, once per run and at every reconfigure.
LeadLimit ==
  IF ~Lossless \/ ~on THEN None ELSE LargerOf(2 * Chunk, Capacity - Reserve)

-----------------------------------------------------------------------------
Init ==
  /\ happens \in Scenarios
  /\ running = TRUE /\ gen = 1
  /\ rings = <<0>> /\ rx = "read" /\ rxGen = 1 /\ grids = <<>>
  /\ on = TRUE
  /\ lead = LeadLimit
  /\ bt = "get" /\ btGen = 1 /\ grid = [ring |-> 1, at |-> 0] /\ seen = None
  /\ found = <<>> /\ done = [gen |-> 0, end |-> 0]
  /\ stopped = FALSE /\ thread = TRUE /\ queue = <<>>
  /\ wk = "check" /\ batch = <<>> /\ unread = <<>> /\ lazy = <<>> /\ ready = <<>>
  /\ budget = [at |-> None, used |-> 0]
  /\ stop = [p \in Stoppers |-> "idle"]
  /\ made = 0 /\ fate = [b \in Ids |-> <<>>]

-----------------------------------------------------------------------------
(* The receiver thread.                                                    *)

\* Top of the loop: leave, or pick up a new configuration on a new ring.  The
\* RAM guard may find that the new ring does not fit and halt the stage.
RxTop ==
  /\ rx = "read"
  /\ \/ ~running /\ rx' = "off" /\ UNCHANGED <<rings, rxGen, lead, on, stop>>
     \/ /\ running /\ gen # rxGen
        /\ rxGen' = gen /\ rings' = Append(rings, 0)
        /\ \/ lead' = LeadLimit /\ rx' = "read" /\ UNCHANGED <<on, stop>>
           \/ /\ "halt" \in happens /\ on
              /\ on' = FALSE /\ lead' = None /\ rx' = "halted"
              /\ stop' = [stop EXCEPT !["rx"] = "begin"]
     \/ /\ running /\ gen = rxGen /\ FoldLeft(LAMBDA n, r : n + r, 0, rings)
                               < Chunk * (IF Lossless THEN MaxChunks ELSE LiveChunks)
        /\ rx' = "lead" /\ UNCHANGED <<rings, rxGen, lead, on, stop>>
  /\ UNCHANGED <<happens, running, gen, grids, detector, worker, stopped, thread, queue, fate>>

RxHalted ==
  /\ rx = "halted" /\ stop["rx"] = "idle"
  /\ rx' = "read"
  /\ UNCHANGED <<happens, running, gen, rings, rxGen, grids, lead, detector, on, worker, stage, fate>>

DoneEnd == IF done.gen = rxGen THEN done.end ELSE 0

\* _wait_for_burst_lead returns; then the ring takes the chunk.
RxWrite ==
  /\ rx = "lead"
  /\ \/ /\ lead = None \/ ~running \/ gen # rxGen
           \/ rings[Ring] + Chunk - DoneEnd <= lead
        /\ UNCHANGED lead
     \/ /\ bt \in {"dead", "off"} /\ lead # None /\ running /\ gen = rxGen
        /\ rings[Ring] + Chunk - DoneEnd > lead
        /\ lead' = None
  /\ rings' = [rings EXCEPT ![Ring] = @ + Chunk]
  /\ rx' = "put"
  /\ UNCHANGED <<happens, running, gen, rxGen, grids, detector, on, worker, stage, fate>>

\* The chunk goes on to the workers and its grid to the burst thread: live it
\* is dropped when there is no room, in a lossless replay the thread waits.
RxPut ==
  /\ rx = "put"
  /\ \/ /\ Len(grids) < GridMax
        /\ grids' = Append(grids, [ring |-> Ring, at |-> rings[Ring] - Chunk])
     \/ /\ ~Lossless \/ ~running
        /\ Len(grids) = GridMax
        /\ UNCHANGED grids
  /\ rx' = "read"
  /\ UNCHANGED <<happens, running, gen, rings, rxGen, lead, detector, on, worker, stage, fate>>

-----------------------------------------------------------------------------
(* The burst thread.                                                       *)

\* The bursts an evaluation that ends at n may complete: their last slot was
\* too new for the evaluation before (m), and no longer is.
Completed(m, n) ==
  {b \in [start : 0..n, stop : 0..n, snr : Powers] :
     /\ b.start < b.stop /\ b.stop - b.start <= Longest
     /\ b.stop >= m - Margin /\ b.stop < n - Margin}

\* The batch as code hands it over: bursts in the order they were found.
Numbered(bs, r) ==
  [i \in 1..Len(bs) |-> [id |-> made + i, ring |-> r,
                         start |-> bs[i].start, stop |-> bs[i].stop, snr |-> bs[i].snr]]

BtEnd == grid.at + Chunk

\* Take a grid, feed the detector, and evaluate when an interval has passed.
\* What it finds is handed over if isolation is on.
BtFeeds(g) ==
  LET n == g.at + Chunk
      from == IF seen = None \/ g.ring # grid.ring THEN g.at ELSE seen
  IN IF n - from < Interval
     THEN /\ seen' = from /\ found' = <<>> /\ made' = made /\ bt' = "publish"
     ELSE /\ seen' = n
          /\ \E k \in 0..BatchMax :
               /\ made + k <= MaxBursts
               /\ \E bs \in [1..k -> Completed(from, n)] :
                    found' = Numbered(bs, g.ring)
               /\ made' = made + k
          /\ bt' = IF on /\ found' # <<>> THEN "submit" ELSE "publish"

BtTake ==
  /\ bt = "get" /\ running /\ grids # <<>>
  /\ grids' = Tail(grids) /\ grid' = Head(grids)
  /\ BtFeeds(Head(grids))
  /\ UNCHANGED <<happens, running, gen, rings, rx, rxGen, lead, btGen, done, on, worker, stage, fate>>

\* Top of its loop: a new configuration resets the detector.
BtTop ==
  /\ bt = "get"
  /\ \/ running /\ gen # btGen /\ btGen' = gen /\ seen' = None /\ UNCHANGED bt
     \/ ~running /\ bt' = "off" /\ UNCHANGED <<btGen, seen>>
     \/ "thread_dies" \in happens /\ bt' = "dead" /\ UNCHANGED <<btGen, seen>>
  /\ UNCHANGED <<happens, running, gen, stream, grid, found, done, made, on, worker, stage, fate>>

IdsOf(cands) == {cands[i].id : i \in 1..Len(cands)}

\* Each burst of S is counted as v.
Counted(S, v) == [b \in Ids |-> IF b \in S THEN Append(fate[b], v) ELSE fate[b]]

\* Mutant: the stop event is not looked at.
SubmitBlindly(cands) ==
  IF Len(queue) >= QueueMax
  THEN fate' = Counted(IdsOf(cands), "queue_full") /\ UNCHANGED queue
  ELSE /\ queue' = Append(queue, [ring |-> Ring, cands |-> cands])
       /\ UNCHANGED fate

\* submit(), under _submit_lock.  The batch keeps the ring of this moment.
Submit(cands) ==
  IF stopped \/ Len(queue) >= QueueMax
  THEN fate' = Counted(IdsOf(cands), "queue_full") /\ UNCHANGED queue
  ELSE /\ queue' = Append(queue, [ring |-> Ring, cands |-> cands])
       /\ UNCHANGED fate

\* Mutant: a lossless replay does not wait until the stage has read them.
SubmitAndGo ==
  /\ bt = "submit"
  /\ Submit(found)
  /\ bt' = "publish"
  /\ UNCHANGED <<happens, running, gen, stream, btGen, grid, seen, found, done, made, on, worker,
                 stopped, thread, stop>>

BtSubmit ==
  /\ bt = "submit"
  /\ Submit(found)
  /\ bt' = IF Lossless THEN "idle" ELSE "publish"
  /\ UNCHANGED <<happens, running, gen, stream, btGen, grid, seen, found, done, made, on, worker,
                 stopped, thread, stop>>

\* wait_idle: nothing accepted is unfinished, or the stage is stopping.
Idle == queue = <<>> /\ wk \in {"check", "get", "off"}

BtIdle ==
  /\ bt = "idle"
  /\ Idle \/ stopped \/ ~running
  /\ bt' = "publish"
  /\ UNCHANGED <<happens, running, gen, stream, btGen, grid, seen, found, done, made, on, worker, stage, fate>>

\* Mutant: only an evaluation that found something lets the receiver go on.
PublishFinds ==
  /\ bt = "publish"
  /\ done' = IF found # <<>> THEN [gen |-> btGen, end |-> BtEnd] ELSE done
  /\ bt' = "get"
  /\ IF running /\ gen # btGen THEN btGen' = gen /\ seen' = None ELSE UNCHANGED <<btGen, seen>>
  /\ UNCHANGED <<happens, running, gen, stream, grid, found, made, on, worker, stage, fate>>

\* _publish_burst_done, then the top of the loop.
BtPublish ==
  /\ bt = "publish"
  /\ done' = [gen |-> btGen, end |-> BtEnd]
  /\ bt' = "get"
  /\ IF running /\ gen # btGen THEN btGen' = gen /\ seen' = None ELSE UNCHANGED <<btGen, seen>>
  /\ UNCHANGED <<happens, running, gen, stream, grid, found, made, on, worker, stage, fate>>

-----------------------------------------------------------------------------
(* The stage's worker.                                                     *)

\* The gate: strong enough, strongest first, at most MaxPerSec a second of
\* stream time; a clock that goes back opens a new window.
Strong(cands) == {i \in 1..Len(cands) : cands[i].snr > Weak}
Before(cands, i, j) ==
  cands[i].snr > cands[j].snr \/ (cands[i].snr = cands[j].snr /\ i < j)

Now(cands) == FoldLeft(LAMBDA t, b : LargerOf(t, b.stop), 0, cands)

GateWindow(cands) ==
  IF budget.at = None \/ Now(cands) < budget.at \/ Now(cands) - budget.at >= Second
  THEN [at |-> Now(cands), used |-> 0] ELSE budget

\* The places of the bursts it picks, in the order of their SNR.
Picks(cands) ==
  LET room == LargerOf(0, MaxPerSec - GateWindow(cands).used)
      strong == Cardinality(Strong(cands))
  IN {p \in [1..(IF room < strong THEN room ELSE strong) -> Strong(cands)] :
        \A i \in DOMAIN p :
          /\ \A j \in DOMAIN p : i < j => Before(cands, p[i], p[j])
          /\ \A k \in Strong(cands) :
               (\A j \in DOMAIN p : p[j] # k) => Before(cands, p[i], k)}

WkCheck ==
  /\ wk = "check"
  /\ wk' = IF stopped THEN "drain" ELSE "get"
  /\ UNCHANGED <<happens, running, gen, stream, detector, on, batch, unread, lazy, ready, budget, stage, fate>>

Gate(cands) ==
  \E p \in Picks(cands) :
    /\ unread' = [i \in DOMAIN p |-> cands[p[i]]]
    /\ budget' = [at |-> GateWindow(cands).at,
                  used |-> GateWindow(cands).used + Cardinality(DOMAIN p)]
    /\ fate' = Counted(IdsOf(cands) \ {cands[p[i]].id : i \in DOMAIN p}, "gated_out")

WkGet ==
  /\ wk = "get" /\ queue # <<>>
  /\ queue' = Tail(queue)
  /\ IF Head(queue) = StopMark
     THEN wk' = "drain" /\ UNCHANGED <<batch, unread, budget, fate>>
     ELSE /\ batch' = Head(queue)
          /\ Gate(Head(queue).cands)
          /\ wk' = "snap"
  /\ UNCHANGED <<happens, running, gen, stream, detector, on, lazy, ready, stopped, thread, stop>>

Used == FoldLeft(LAMBDA n, w : n + (ReadStop(w.burst) - ReadStart(w.burst)), 0, ready)

\* _snapshot, one burst at a time: the ring moves on in between.
WkSnap ==
  /\ wk = "snap"
  /\ IF unread = <<>>
     THEN wk' = "one" /\ UNCHANGED <<unread, lazy, ready>>
     ELSE LET b == Head(unread)
          IN /\ unread' = Tail(unread)
             /\ wk' = wk
             /\ IF Used + (ReadStop(b) - ReadStart(b)) > SnapshotMax
                THEN lazy' = Append(lazy, b) /\ UNCHANGED ready
                ELSE /\ \/ ready' = Append(ready, [burst |-> b, data |-> Read(batch.ring, b)])
                        \/ "fault" \in happens /\ ready' = Append(ready, [burst |-> b, data |-> "failed"])
                     /\ UNCHANGED lazy
  /\ UNCHANGED <<happens, running, gen, stream, detector, on, batch, budget, stage, fate>>

\* The state _one returns for a burst whose data was read, lost or failed.
Verdict(b, data) ==
  CASE data = "failed" -> "error"
    [] data = "read" -> IF TooLong(b) THEN "too_long" ELSE "isolated"
    [] OTHER -> data

\* _one: the lazy bursts first, then the snapshotted ones.  The consumers of
\* an isolated burst (archive, modules, attribution) do not change its state.
WkOne ==
  /\ wk = "one"
  /\ IF lazy # <<>>
     THEN /\ lazy' = Tail(lazy)
          /\ \/ fate' = Counted({Head(lazy).id}, Verdict(Head(lazy), Read(batch.ring, Head(lazy))))
             \/ "fault" \in happens /\ fate' = Counted({Head(lazy).id}, "error")
          /\ UNCHANGED <<ready, wk, batch>>
     ELSE IF ready # <<>>
     THEN /\ ready' = Tail(ready)
          /\ \/ fate' = Counted({Head(ready).burst.id}, Verdict(Head(ready).burst, Head(ready).data))
             \/ "fault" \in happens /\ fate' = Counted({Head(ready).burst.id}, "error")
          /\ UNCHANGED <<lazy, wk, batch>>
     ELSE wk' = "check" /\ batch' = <<>> /\ UNCHANGED <<lazy, ready, fate>>
  /\ UNCHANGED <<happens, running, gen, stream, detector, on, unread, budget, stage>>

\* One item of _drain_remaining_as_queue_full, on any thread.
DrainsOne ==
  /\ queue # <<>> /\ queue' = Tail(queue)
  /\ fate' = Counted(IdsOf(Head(queue).cands), "queue_full")

WkDrain ==
  /\ wk = "drain"
  /\ \/ DrainsOne /\ UNCHANGED wk
     \/ queue = <<>> /\ wk' = "off" /\ UNCHANGED <<queue, fate>>
  /\ UNCHANGED <<happens, running, gen, stream, detector, on, batch, unread, lazy, ready, budget,
                 stopped, thread, stop>>

-----------------------------------------------------------------------------
(* stop(), on the receiver thread or at the shutdown.                      *)

Goes(p, here, there) == stop[p] = here /\ stop' = [stop EXCEPT ![p] = there]

StopBegin(p) ==
  /\ Goes(p, "begin", IF thread THEN "drain" ELSE "idle")
  /\ stopped' = (stopped \/ thread)
  /\ UNCHANGED <<happens, running, gen, stream, detector, on, worker, thread, queue, fate>>

StopDrains(p) ==
  /\ \/ stop[p] \in {"drain", "final"} /\ DrainsOne /\ UNCHANGED stop
     \/ queue = <<>> /\ Goes(p, "drain", "put") /\ UNCHANGED <<queue, fate>>
     \/ queue = <<>> /\ Goes(p, "final", "idle") /\ UNCHANGED <<queue, fate>>
  /\ UNCHANGED <<happens, running, gen, stream, detector, on, worker, stopped, thread>>

StopPuts(p) ==
  /\ Goes(p, "put", "join")
  /\ queue' = IF Len(queue) < QueueMax THEN Append(queue, StopMark) ELSE queue
  /\ UNCHANGED <<happens, running, gen, stream, detector, on, worker, stopped, thread, fate>>

\* The worker has ended, or the join times out, or (the thread was forgotten
\* by the other caller) the join raises and the caller logs it.
StopJoins(p) ==
  /\ \/ thread /\ wk = "off" /\ Goes(p, "join", "final") /\ thread' = FALSE
     \/ thread /\ wk # "off" /\ "slow" \in happens /\ Goes(p, "join", "idle") /\ UNCHANGED thread
     \/ ~thread /\ Goes(p, "join", "idle") /\ UNCHANGED thread
  /\ UNCHANGED <<happens, running, gen, stream, detector, on, worker, stopped, queue, fate>>

-----------------------------------------------------------------------------
(* The outside.                                                            *)

Reconfigure ==
  /\ "reconfigure" \in happens /\ running /\ gen = 1
  /\ gen' = gen + 1
  /\ UNCHANGED <<happens, running, stream, detector, on, worker, stage, fate>>

\* A stop is asked for; the replay's driver asks when a thread has died.
Shutdown ==
  /\ running /\ ("shutdown" \in happens \/ bt = "dead")
  /\ running' = FALSE
  /\ UNCHANGED <<happens, gen, stream, detector, on, worker, stage, fate>>

\* run()'s finally: the threads are joined first, for 5 s each.
StopStage ==
  /\ ~running /\ stop["main"] = "idle" /\ thread
  /\ \/ bt \in {"dead", "off"} /\ rx = "off"
     \/ "slow" \in happens
  /\ stop' = [stop EXCEPT !["main"] = "begin"]
  /\ UNCHANGED <<happens, running, gen, stream, detector, on, worker, stopped, thread, queue, fate>>

-----------------------------------------------------------------------------
Rx == RxTop \/ RxHalted \/ RxWrite \/ RxPut
Bt == BtTop \/ BtTake \/ BtSubmit \/ BtIdle \/ BtPublish
Wk == WkCheck \/ WkGet \/ WkSnap \/ WkOne \/ WkDrain
Stop(p) == StopBegin(p) \/ StopDrains(p) \/ StopPuts(p) \/ StopJoins(p)

Next ==
  \/ Rx \/ Bt \/ Wk
  \/ \E p \in Stoppers : Stop(p)
  \/ Reconfigure \/ Shutdown \/ StopStage

Spec == Init /\ [][Next]_vars

\* Every thread keeps running; the replay's driver polls for a dead one.
Fairness ==
  /\ WF_vars(Rx) /\ WF_vars(Bt) /\ WF_vars(Wk)
  /\ \A p \in Stoppers : WF_vars(Stop(p))
  /\ WF_vars(bt = "dead" /\ Shutdown)

LiveSpec == Spec /\ Fairness

-----------------------------------------------------------------------------
Verdicts ==
  {"queue_full", "gated_out", "isolated", "too_long", "overwritten", "unwritten", "error"}

\* The bursts the stage still has to count.
Queued == UNION {IdsOf(queue[i].cands) : i \in 1..Len(queue)}
InWork == IdsOf(unread) \cup IdsOf(lazy) \cup {ready[i].burst.id : i \in 1..Len(ready)}

\* Types: what the threads hold, within the bounds of the queues.
TypeOK ==
  /\ happens \in Scenarios /\ running \in BOOLEAN /\ gen \in 1..2
  /\ rings \in Seq(Nat)
  /\ lead \in Nat \cup {None} /\ Len(grids) <= GridMax
  /\ Len(queue) <= QueueMax
  /\ made \in 0..MaxBursts
  /\ \A b \in Ids : fate[b] \in Seq(Verdicts)

\* Where a burst stands in the ledger.
BookOf(b) ==
  CASE fate[b] # <<>> -> IF Len(fate[b]) = 1 THEN fate[b][1] ELSE "counted twice"
    [] fate[b] = <<>> /\ b \in Queued \cup InWork -> "held"
    [] OTHER -> "new"

\* Every burst handed to the stage is held by it until it is counted, and is
\* counted once, whoever drains the queue and whenever a submit meets a stop;
\* once the worker has ended nothing is held ("Every picked burst ends in
\* exactly one state").
CountedOnce == INSTANCE Ledger WITH
  Items <- Ids, Verdicts <- Verdicts,
  book <- [b \in Ids |-> BookOf(b)],
  closed <- stopped /\ wk = "off"
HandedOver == CountedOnce!Spec

\* The ring is long enough for a lead that is not clamped to two chunks, and
\* no burst is too long to be kept whole.
RingSuffices == Longest <= MaxLen /\ 2 * Chunk <= Capacity - Reserve

\* In a lossless replay no burst is overwritten before the stage has read it:
\* the lead leaves it in the ring (_compute_lead_limit).  The lead is let go
\* of by a stop, by a burst thread that died, and by a reconfigure: grids of
\* the old ring, read after it, are published under the new generation, so
\* the receiver is let further ahead in the new ring.
StillInRing ==
  Lossless /\ running /\ gen = 1 /\ bt # "dead" /\ RingSuffices
    => \A b \in Ids : \A i \in 1..Len(fate[b]) : fate[b][i] # "overwritten"

\* A burst's samples are still in the ring when the isolation stage reads them,
\* in every state of the types above (isolation.py, streaming.py).
ReadAsItWas == TypeOK /\ StillInRing

\* The receiver, the burst thread and the stage wait for each other in a
\* lossless replay: the receiver is always let go on.
ReceiverGoesOn == rx \in {"lead", "put"} ~> rx \notin {"lead", "put"}

=============================================================================
