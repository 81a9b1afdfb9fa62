------------------------------ MODULE Delivery ------------------------------
(***************************************************************************)
(* Where an isolated burst goes: the fan-out of pipeline/isolation.py into *)
(* the burst archive (storage/burst_archive.py) and the attribution worker *)
(* (pipeline/attribution.py), whose results go onto the detections rows    *)
(* the event loop inserts, with the storage governor evicting burst files  *)
(* and an offline replay (pipeline/replay.py) waiting for the last result. *)
(*                                                                         *)
(* How the stage's queue and its stop count bursts is module Isolation's   *)
(* matter: here a submitted batch is processed burst by burst.             *)
(***************************************************************************)
EXTENDS Integers, Sequences, FiniteSets, FiniteSetsExt

CONSTANTS
  MaxBursts,  \* bound on the bursts of a behaviour
  BatchMax,   \* bound on the bursts of one batch
  Powers,     \* power_db of a burst
  QueueMax,   \* ISOLATION_QUEUE_MAX, of the attribution queue
  CapFiles,   \* BURST_ARCHIVE_MAX_GB, in files
  Scenarios   \* what may happen in one behaviour: sets of Occurrences

Occurrences ==
  {"lossless",     \* the burst thread waits for the stage: offline replay
   "attribution",  \* ATTRIBUTION_ENABLED
   "archive",      \* the governor lets the stage save
   "low space",    \* evict_until_free finds too little space
   "decoders off", \* ATTRIBUTION_DECODERS may be empty for a burst
   "fault",        \* a write, an unlink, a hand-over or a decoder raises
   "insert fails", \* insert_detections raises
   "stop",         \* the pipeline is stopped
   "crash"}        \* the process dies, once, and is started again

ASSUME DeliveryAssumption ==
  /\ {MaxBursts, BatchMax, CapFiles} \subseteq Nat /\ QueueMax \in Nat \ {0}
  /\ Powers \subseteq Int
  /\ Scenarios \subseteq SUBSET Occurrences

Ids == 1..MaxBursts
None == 0

VARIABLES
  happens,  \* the scenario
  power,    \* power_db of each burst
  running,  \* the pipeline has not been stopped
  bt,       \* burst thread: "feed", "wait", "rows", "off"
  sent,     \* bursts submitted so far
  batch,    \* bursts of the batch whose rows are still to be handed over
  todo,     \* bursts the stage has not begun, in order
  st,       \* stage: "get", "write", "meta", "track", "hand", "count"
  cur,      \* the burst it is at
  counted,  \* what the stage counted each burst as; "" before
  handErr,  \* bursts counted as handoff_error
  data,     \* bursts with a .sigmf-data file
  meta,     \* bursts with a .sigmf-meta file
  index,    \* _BurstIndex._entries: files of each tracked burst
  ev,       \* storage tick: "idle", "cap", "space", "data", "meta"
  evFrom,   \* the loop it goes back to
  victim,   \* the burst it has claimed
  stuck,    \* bursts of which a file could not be written or unlinked
  calls,    \* put_nowait calls scheduled on the event loop
  items,    \* the StrongestQueue
  wk,       \* attribution worker: "get", "decode", "db", "label", "close", "off"
  item,
  outcome,  \* what the worker or the queue counted each burst as; "" before
  rowq,     \* bursts handed to the loop for insertion
  rows,     \* detections: "none", "plain" or the outcome written on the row
  retries,  \* pending retry tasks of the DbSink
  missed,   \* bursts given up: the retry found no row or was cancelled, an update raised
  crashed

stageVars == <<todo, st, cur, counted, handErr>>
feedVars == <<bt, sent, batch>>
fileVars == <<data, meta, index, stuck>>
evVars == <<ev, evFrom, victim>>
workVars == <<calls, items, wk, item, outcome>>
rowVars == <<rowq, rows, retries, missed>>
world == <<happens, power, running, crashed>>
deliveryVars == <<world, feedVars, stageVars, fileVars, evVars, workVars, rowVars>>

Fault == "fault" \in happens
NoEntry == 0

DeliveryInit ==
  /\ happens \in Scenarios /\ power \in [Ids -> Powers]
  /\ running = TRUE /\ crashed = FALSE
  /\ bt = "feed" /\ batch = {} /\ todo = <<>> /\ st = "get" /\ cur = None
  /\ ev = "idle" /\ evFrom = "cap" /\ victim = None
  /\ calls = <<>> /\ items = {} /\ wk = "get" /\ item = None /\ rowq = <<>> /\ retries = {}
  /\ sent = 0
  /\ counted = [b \in Ids |-> ""] /\ handErr = {}
  /\ data = {} /\ meta = {} /\ index = [b \in Ids |-> NoEntry] /\ stuck = {}
  /\ outcome = [b \in Ids |-> ""]
  /\ rows = [b \in Ids |-> "none"] /\ missed = {}

-----------------------------------------------------------------------------
(* The burst thread: a batch to the stage, then its rows to the loop.      *)

BtSubmit ==
  /\ bt = "feed" /\ running /\ sent < MaxBursts
  /\ \E n \in 1..BatchMax :
       LET bs == (sent + 1)..(sent + n)
       IN /\ sent + n <= MaxBursts
          /\ sent' = sent + n /\ batch' = bs
          /\ \/ todo' = todo \o [i \in 1..n |-> sent + i] /\ UNCHANGED counted
             \/ /\ counted' = [b \in Ids |-> IF b \in bs THEN "queue_full" ELSE counted[b]]
                /\ UNCHANGED todo
  /\ bt' = IF "lossless" \in happens THEN "wait" ELSE "rows"
  /\ UNCHANGED <<world, st, cur, handErr, fileVars, evVars, workVars, rowVars>>

\* wait_idle, then _burst_handoff.
BtHandsRows ==
  /\ \/ bt = "wait" /\ ((todo = <<>> /\ st = "get") \/ ~running)
     \/ bt = "rows"
  /\ rowq' = Append(rowq, batch)
  /\ batch' = {} /\ bt' = "feed"
  /\ UNCHANGED <<world, sent, stageVars, fileVars, evVars, workVars, rows, retries, missed>>

-----------------------------------------------------------------------------
(* The stage: one burst from its isolation to its count.                   *)

\* The gate or the read or the DSP leave a burst out, or it is isolated.
StGet ==
  /\ st = "get" /\ todo # <<>>
  /\ todo' = Tail(todo)
  /\ \/ /\ cur' = Head(todo)
        /\ st' = IF "archive" \in happens THEN "write" ELSE "hand"
        /\ UNCHANGED counted
     \/ /\ counted' = [counted EXCEPT ![Head(todo)] = "left out"]
        /\ UNCHANGED <<st, cur>>
  /\ UNCHANGED <<world, feedVars, handErr, fileVars, evVars, workVars, rowVars>>

\* BurstArchive.save: the data file, then the meta file, then track.  One that
\* raises leaves what was written and is not tracked.
StWrite ==
  /\ st = "write"
  /\ \/ data' = data \cup {cur} /\ st' = "meta" /\ UNCHANGED stuck
     \/ Fault /\ data' = data \cup {cur} /\ stuck' = stuck \cup {cur} /\ st' = "hand"
  /\ UNCHANGED <<world, feedVars, todo, cur, counted, handErr, meta, index, evVars, workVars, rowVars>>

StMeta ==
  /\ st = "meta"
  /\ \/ meta' = meta \cup {cur} /\ st' = "track" /\ UNCHANGED stuck
     \/ Fault /\ stuck' = stuck \cup {cur} /\ st' = "hand" /\ UNCHANGED meta
  /\ UNCHANGED <<world, feedVars, todo, cur, counted, handErr, data, index, evVars, workVars, rowVars>>

OnDisk(b) == Cardinality({b} \cap data) + Cardinality({b} \cap meta)

Track(b) == index' = [index EXCEPT ![b] = IF b \in data THEN OnDisk(b) ELSE NoEntry]

StTrack ==
  /\ st = "track"
  /\ Track(cur) /\ st' = "hand"
  /\ UNCHANGED <<world, feedVars, todo, cur, counted, handErr, data, meta, stuck, evVars, workVars, rowVars>>

\* The hand-over to attribution schedules a call on the loop.
StHand ==
  /\ st = "hand"
  /\ st' = "count"
  /\ \/ /\ calls' = IF "attribution" \in happens THEN Append(calls, cur) ELSE calls
        /\ UNCHANGED handErr
     \/ Fault /\ "attribution" \in happens /\ handErr' = handErr \cup {cur} /\ UNCHANGED calls
  /\ UNCHANGED <<world, feedVars, todo, cur, counted, fileVars, evVars, items, wk, item, outcome, rowVars>>

StCount ==
  /\ st = "count"
  /\ counted' = [counted EXCEPT ![cur] = "isolated"]
  /\ st' = "get" /\ cur' = None
  /\ UNCHANGED <<world, feedVars, todo, handErr, fileVars, evVars, workVars, rowVars>>

-----------------------------------------------------------------------------
(* The storage tick: the burst cap, then space, oldest burst first.        *)

Indexed == {b \in Ids : index[b] # NoEntry}
Total == FoldSet(LAMBDA b, n : n + index[b], 0, Indexed)
OldestBurst == Min(Indexed)

EvBegins ==
  /\ ev = "idle" /\ (Indexed # {})
  /\ ev' = "cap"
  /\ UNCHANGED <<world, feedVars, stageVars, fileVars, evFrom, victim, workVars, rowVars>>

\* claim_oldest.
Claim ==
  /\ victim' = OldestBurst
  /\ index' = [index EXCEPT ![OldestBurst] = NoEntry]

EvEvicts ==
  /\ \/ ev = "cap" /\ Total > CapFiles
     \/ ev = "space" /\ "low space" \in happens
  /\ Indexed # {}
  /\ Claim /\ evFrom' = ev /\ ev' = "data"
  /\ UNCHANGED <<world, feedVars, stageVars, data, meta, stuck, workVars, rowVars>>

EvGoesOn ==
  /\ \/ ev = "cap" /\ (Total <= CapFiles \/ Indexed = {}) /\ ev' = "space"
     \/ ev = "space" /\ ev' = "idle"
  /\ UNCHANGED <<world, feedVars, stageVars, fileVars, evFrom, victim, workVars, rowVars>>

\* _delete_pair: a file that cannot be unlinked stays, and is logged.
EvUnlinks ==
  /\ \/ /\ ev = "data" /\ ev' = "meta" /\ UNCHANGED <<meta, victim>>
        /\ \/ data' = data \ {victim} /\ UNCHANGED stuck
           \/ Fault /\ victim \in data /\ stuck' = stuck \cup {victim} /\ UNCHANGED data
     \/ /\ ev = "meta" /\ ev' = evFrom /\ victim' = None /\ UNCHANGED data
        /\ \/ meta' = meta \ {victim} /\ UNCHANGED stuck
           \/ Fault /\ victim \in meta /\ stuck' = stuck \cup {victim} /\ UNCHANGED meta
  /\ UNCHANGED <<world, feedVars, stageVars, index, evFrom, workVars, rowVars>>

-----------------------------------------------------------------------------
(* The attribution queue and its worker, on the event loop.                *)

Weakest == CHOOSE b \in items : \A c \in items : power[b] <= power[c]

\* Mutant: a full queue lets the newcomer in whatever it is.
PutAlways(b) ==
  IF Cardinality(items) < QueueMax
  THEN items' = items \cup {b} /\ UNCHANGED outcome
  ELSE /\ items' = (items \ {Weakest}) \cup {b}
       /\ outcome' = [outcome EXCEPT ![Weakest] = "dropped"]

\* StrongestQueue.put_nowait.
Put(b) ==
  IF Cardinality(items) < QueueMax
  THEN items' = items \cup {b} /\ UNCHANGED outcome
  ELSE IF power[b] <= power[Weakest]
  THEN items' = items /\ outcome' = [outcome EXCEPT ![b] = "dropped"]
  ELSE /\ items' = (items \ {Weakest}) \cup {b}
       /\ outcome' = [outcome EXCEPT ![Weakest] = "dropped"]

LoopPuts ==
  /\ calls # <<>>
  /\ Put(Head(calls)) /\ calls' = Tail(calls)
  /\ UNCHANGED <<world, feedVars, stageVars, fileVars, evVars, wk, item, rowVars>>

\* get: the strongest item.
WkGet ==
  /\ wk = "get" /\ items # {}
  /\ item' \in {b \in items : \A c \in items : power[b] >= power[c]}
  /\ items' = items \ {item'}
  /\ wk' = "decode"
  /\ UNCHANGED <<world, feedVars, stageVars, fileVars, evVars, calls, outcome, rowVars>>

Outcomes ==
  {"decoded", "not_decoded"}
    \cup (IF Fault THEN {"failed"} ELSE {})
    \cup (IF "decoders off" \in happens THEN {"skipped"} ELSE {})

\* The decoders that are on for this burst run off the loop; _emit counts the
\* outcome before the sinks see it.  A failed or skipped one reaches no sink.
WkDecode ==
  /\ wk = "decode"
  /\ \E o \in Outcomes :
       /\ outcome' = [outcome EXCEPT ![item] = o]
       /\ wk' = IF o \in {"decoded", "not_decoded"} THEN "db" ELSE "get"
  /\ UNCHANGED <<world, feedVars, stageVars, fileVars, evVars, calls, items, item, rowVars>>

\* update_detection_attribution, on a row that may not be there.
Labels(b) ==
  IF rows[b] = "none" THEN UNCHANGED rows
  ELSE rows' = [rows EXCEPT ![b] = outcome[b]]

\* It raises: a locked database, or a write that timed out and was tried again,
\* which may have been committed.  The caller logs it, and the outcome is given up.
LabelRaises(b) ==
  /\ Fault
  /\ Labels(b) \/ UNCHANGED rows
  /\ missed' = missed \cup {b}

\* DbSink, and _emit that passes over a sink that raises.
WkDb ==
  /\ wk = "db"
  /\ \/ /\ Labels(item) /\ UNCHANGED missed
        /\ retries' = IF rows[item] = "none" THEN retries \cup {item} ELSE retries
     \/ LabelRaises(item) /\ UNCHANGED retries
  /\ wk' = "label"
  /\ UNCHANGED <<world, feedVars, stageVars, fileVars, evVars, calls, items, item, outcome, rowq>>

\* The label sink keeps a decoded label for the overlay.
WkLabel ==
  /\ wk = "label" /\ wk' = "get"
  /\ UNCHANGED <<world, feedVars, stageVars, fileVars, evVars, calls, items, item, outcome, rowVars>>

\* A retry, two seconds on: what was handed to the loop has been drained by
\* then, and only wait_idle keeps a batch from the loop that long.
RetryRuns ==
  /\ \E b \in retries :
       /\ b \in batch => bt = "wait"
       /\ \A i \in 1..Len(rowq) : b \notin rowq[i]
       /\ \/ Labels(b) /\ missed' = IF rows[b] = "none" THEN missed \cup {b} ELSE missed
          \/ LabelRaises(b)
       /\ retries' = retries \ {b}
  /\ UNCHANGED <<world, feedVars, stageVars, fileVars, evVars, workVars, rowq>>

\* _drain_burst_results: everything handed over so far in one insert.  One that
\* raises has stored the rows all the same, or none of them.
Drains(ok) ==
  LET bs == UNION {rowq[i] : i \in 1..Len(rowq)}
  IN /\ rowq # <<>> /\ rowq' = <<>>
     /\ rows' = IF ok THEN [b \in Ids |-> IF b \in bs THEN "plain" ELSE rows[b]] ELSE rows

LoopDrains ==
  /\ wk # "off"
  /\ Drains(TRUE) \/ ("insert fails" \in happens /\ Drains(FALSE))
  /\ UNCHANGED <<world, feedVars, stageVars, fileVars, evVars, workVars, retries, missed>>

-----------------------------------------------------------------------------
(* The end of a run, and a crash.                                          *)

Final == {"queue_full", "left out", "isolated"}
OutcomesCounted == {"decoded", "not_decoded", "failed", "dropped"}

\* Mutant: only the outcomes are looked at.
SettledOutcomes ==
  Cardinality({b \in Ids : outcome[b] \in OutcomesCounted})
    >= Cardinality({b \in Ids : counted[b] = "isolated" /\ b \notin handErr})

\* _attribution_settled, from the counters.
Settled ==
  /\ Cardinality({b \in Ids : counted[b] \in Final}) >= sent
  /\ Cardinality({b \in Ids : outcome[b] \in OutcomesCounted})
       >= Cardinality({b \in Ids : counted[b] = "isolated" /\ b \notin handErr})

Stop ==
  /\ "stop" \in happens /\ running
  /\ running' = FALSE
  /\ UNCHANGED <<happens, power, crashed, feedVars, stageVars, fileVars, evVars, workVars, rowVars>>

\* _stop_isolation once the burst thread and the stage have ended: the worker
\* is cancelled where it is, its queue is left, and aclose lets the pending
\* retries finish, or raise, or cancels the late ones.
WkCancelled ==
  /\ ~running /\ bt = "feed" /\ st = "get" /\ todo = <<>>
  /\ wk \in {"get", "decode", "db", "label"}
  /\ wk' = "close"
  /\ UNCHANGED <<world, feedVars, stageVars, fileVars, evVars, calls, items, item, outcome, rowVars>>

WkCloses ==
  /\ wk = "close"
  /\ \E late, raised \in SUBSET retries :
       /\ rows' = [b \in Ids |-> IF b \in retries \ late /\ rows[b] # "none" THEN outcome[b] ELSE rows[b]]
       /\ missed' = missed \cup raised \cup {b \in retries : b \in late \/ rows[b] = "none"}
  /\ retries' = {} /\ wk' = "off"
  /\ UNCHANGED <<world, feedVars, stageVars, fileVars, evVars, calls, items, item, outcome, rowq>>

\* The final drain of run().
LastDrain ==
  /\ wk = "off"
  /\ Drains(TRUE) \/ ("insert fails" \in happens /\ Drains(FALSE))
  /\ UNCHANGED <<world, feedVars, stageVars, fileVars, evVars, workVars, retries, missed>>

\* The next process walks bursts/ on first use (_BurstIndex._build).
CrashRestart ==
  /\ "crash" \in happens /\ ~crashed
  /\ crashed' = TRUE
  /\ bt' = "feed" /\ batch' = {} /\ todo' = <<>> /\ st' = "get" /\ cur' = None
  /\ ev' = "idle" /\ evFrom' = "cap" /\ victim' = None
  /\ calls' = <<>> /\ items' = {} /\ wk' = "get" /\ item' = None /\ rowq' = <<>> /\ retries' = {}
  /\ index' = [b \in Ids |-> IF b \in data THEN OnDisk(b) ELSE NoEntry]
  /\ stuck' = {}
  /\ missed' = missed \cup {b \in 1..sent : outcome[b] # "" /\ rows[b] # outcome[b]}
  /\ counted' = [b \in Ids |-> IF b <= sent /\ counted[b] = "" THEN "crashed" ELSE counted[b]]
  /\ UNCHANGED <<happens, power, running, sent, handErr, data, meta, outcome, rows>>

-----------------------------------------------------------------------------
Bt == BtSubmit \/ BtHandsRows
St == StGet \/ StWrite \/ StMeta \/ StTrack \/ StHand \/ StCount
Ev == EvBegins \/ EvEvicts \/ EvGoesOn \/ EvUnlinks
Loop == LoopPuts \/ WkGet \/ WkDecode \/ WkDb \/ WkLabel \/ RetryRuns \/ LoopDrains \/ LastDrain
Ends == Stop \/ WkCancelled \/ WkCloses \/ CrashRestart

DeliveryNext == Bt \/ St \/ Ev \/ Loop \/ Ends

DeliverySpec == DeliveryInit /\ [][DeliveryNext]_deliveryVars

-----------------------------------------------------------------------------
\* The index is the archive: a tracked burst has its data and is counted with
\* the files it has, and a burst on disk is tracked unless its save or its
\* deletion is under way or failed (_BurstIndex, "kept current by save and
\* eviction").
ArchiveIsIndexed ==
  /\ \A b \in Indexed : b \in data /\ index[b] = OnDisk(b)
  /\ \A b \in data : b \in Indexed \/ b \in stuck \/ b = victim
       \/ (b = cur /\ st \in {"meta", "track"})

\* A full attribution queue gives up a weak burst for a strong one: what is
\* dropped is no stronger than anything that stays.
WeakestGoes ==
  [][\A b \in Ids : outcome[b] # "dropped" /\ outcome'[b] = "dropped"
       => \A c \in items' : power[c] >= power[b]]_deliveryVars

\* When the replay finds attribution settled, no burst is still on its way
\* through the stage, the hand-over, the queue or the worker ("a burst still
\* being isolated is in neither side of the second").
SettledIsDone ==
  "attribution" \in happens /\ ~crashed /\ "decoders off" \notin happens /\ Settled
    => todo = <<>> /\ st = "get" /\ calls = <<>> /\ items = {} /\ wk # "decode"

\* An attributed burst's row carries its outcome, unless a retry is still to
\* come, the row came after the retry, an update raised, or the worker was
\* cancelled on its way.
OutcomeIsOnRow ==
  \A b \in Ids :
    outcome[b] \in {"decoded", "not_decoded"} /\ rows[b] # "none"
      => \/ rows[b] = outcome[b] \/ b \in retries \/ b \in missed
         \/ item = b /\ wk \in {"db", "close", "off"}

\* Types; the attribution queue and the archive's claim are within their bounds.
DeliveryTypeOK ==
  /\ running \in BOOLEAN /\ crashed \in BOOLEAN
  /\ bt \in {"feed", "wait", "rows", "off"} /\ sent \in 0..MaxBursts
  /\ st \in {"get", "write", "meta", "track", "hand", "count"}
  /\ ev \in {"idle", "cap", "space", "data", "meta"} /\ evFrom \in {"cap", "space"}
  /\ wk \in {"get", "decode", "db", "label", "close", "off"}
  /\ {cur, victim, item} \subseteq Ids \cup {None}
  /\ UNION {batch, handErr, data, meta, stuck, items, retries, missed} \subseteq Ids
  /\ Cardinality(items) <= QueueMax
  /\ index \in [Ids -> 0..2]

\* The archive's index is the archive, attribution is settled only when
\* nothing is on its way, and an attributed burst's row says so.
DeliveredWhole == DeliveryTypeOK /\ ArchiveIsIndexed /\ SettledIsDone /\ OutcomeIsOnRow
=============================================================================
