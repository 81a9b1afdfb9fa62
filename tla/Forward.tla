------------------------------ MODULE Forward ------------------------------
(***************************************************************************)
(* The rf-db writer (transport/rfdb.py): averaged windows go from the      *)
(* local avg_windows table to a remote database in batches, after a        *)
(* bookmark that is kept in the local database.  Around it: the pipeline   *)
(* storing windows, retention dropping old ones, rf-db and the link to it  *)
(* failing, DURATION_SEC changing, and the process dying.                  *)
(***************************************************************************)
EXTENDS Integers, FiniteSets

CONSTANTS
  Batch,        \* BATCH_SIZE
  Lengths,      \* the values DURATION_SEC takes: it is part of a metadata row
  MaxWindows,   \* bound on the windows stored
  MaxFaults,    \* bound on failed requests, lost answers and saves gone wrong
  MaxCrashes,   \* bound on process deaths
  MaxChanges,   \* bound on changes of DURATION_SEC
  ForwardLives  \* what may happen in one behaviour: sets of ForwardEvents

ForwardEvents == {"faults", "crash", "lengths", "retention", "unregistered", "rejected"}

ASSUME ForwardAssumption ==
  /\ Batch \in Nat \ {0} /\ Lengths # {}
  /\ {MaxWindows, MaxFaults, MaxCrashes, MaxChanges} \subseteq Nat
  /\ ForwardLives \subseteq SUBSET ForwardEvents

VARIABLES
  may,         \* what may happen in this behaviour
  newest,      \* the highest window id: ids are never used again
  windows,     \* the ids in avg_windows
  bad,         \* id -> "no", "unstorable" (not finite), "rejected" (by rf-db)
  length,      \* DURATION_SEC
  outputs,     \* rf-db's rows: [id, length]
  registered,  \* the sensor has its rpi row
  pc,          \* of flush_once
  connected,   \* the writer's pool is open
  known,       \* hardware_id is cached
  bookmark,    \* in memory, or Unset
  saved,       \* in the database, or Unset
  first,       \* the bookmark the first start began with, or Unset
  batch, last, \* the windows being sent, and the last of them
  todo,        \* of those, the ones still to be tried one by one
  withLength,  \* DURATION_SEC read for this batch
  faults, crashes, changes

memory == <<pc, connected, known, bookmark, batch, last, todo, withLength>>
world == <<may, newest, windows, bad, length, outputs, registered>>
bounds == <<faults, crashes, changes>>
forwardVars == <<world, memory, saved, first, bounds>>

Unset == -1

ForwardInit ==
  /\ may \in ForwardLives
  /\ bad \in [1..MaxWindows -> IF "rejected" \in may THEN {"no", "unstorable", "rejected"} ELSE {"no"}]
  /\ newest = 0 /\ windows = {} /\ outputs = {}
  /\ length \in Lengths
  /\ registered = ("unregistered" \notin may)
  /\ pc = "open" /\ connected = FALSE /\ known = FALSE /\ bookmark = Unset
  /\ saved = Unset /\ first = Unset
  /\ batch = {} /\ last = 0 /\ todo = {} /\ withLength = length
  /\ faults = 0 /\ crashes = 0 /\ changes = 0

Fault == "faults" \in may /\ faults < MaxFaults /\ faults' = faults + 1

\* run's except: the connection is closed, and the next flush starts over.
Failed == pc' = "open" /\ connected' = FALSE

----------------------------------------------------------------------------
(* flush_once                                                              *)

Open ==
  /\ pc = "open"
  /\ \/ connected' = TRUE /\ pc' = "load" /\ UNCHANGED faults
     \/ ~connected /\ Fault /\ UNCHANGED <<pc, connected>>
  /\ UNCHANGED <<world, known, bookmark, batch, last, todo, withLength, saved, first, crashes, changes>>

IsLast(i, ids) == \A j \in ids : j <= i

\* _load_bookmark: the saved one, or on the first start the newest window,
\* which is saved before it is used.
Load ==
  /\ pc = "load"
  /\ \/ /\ bookmark = Unset /\ saved = Unset /\ pc' = "first"
        /\ \E i \in windows \cup {0} : IsLast(i, windows) /\ first' = i
        /\ UNCHANGED bookmark
     \/ /\ bookmark # Unset \/ saved # Unset
        /\ pc' = "hardware"
        /\ bookmark' = IF bookmark = Unset THEN saved ELSE bookmark
        /\ UNCHANGED first
  /\ UNCHANGED <<world, connected, known, batch, last, todo, withLength, saved, bounds>>

\* _save_bookmark: kept in the database; or the wait for it ends first, and
\* the write may still get there; or the write fails.
Saved(value) ==
  \/ saved' = value /\ pc' # "open" /\ UNCHANGED <<faults, connected>>
  \/ Fault /\ saved' \in {saved, value} /\ pc' # "open" /\ UNCHANGED connected
  \/ Fault /\ UNCHANGED saved /\ Failed

SaveFirst ==
  /\ pc = "first" /\ pc' \in {"hardware", "open"}
  /\ Saved(first)
  /\ bookmark' = IF pc' = "open" THEN bookmark ELSE first
  /\ UNCHANGED <<world, known, batch, last, todo, withLength, first, crashes, changes>>

\* An unregistered sensor sends nothing.
Hardware ==
  /\ pc = "hardware"
  /\ \/ known' = (known \/ registered) /\ pc' = (IF known' THEN "read" ELSE "open")
        /\ UNCHANGED <<faults, connected>>
     \/ ~known /\ Fault /\ Failed /\ UNCHANGED known
  /\ UNCHANGED <<world, bookmark, batch, last, todo, withLength, saved, first, crashes, changes>>

After(mark) == {i \in windows : i > mark}

\* avg_windows_after: the oldest after the bookmark.
NextBatch(mark) ==
  {i \in After(mark) : Cardinality({j \in After(mark) : j < i}) < Batch}

\* to_output_row drops what rf-db cannot store.
Rows(ids) == {i \in ids : bad[i] # "unstorable"}

Read ==
  /\ pc = "read"
  /\ batch' = NextBatch(bookmark) /\ withLength' = length
  /\ IF batch' = {} THEN last' = last
     ELSE \E i \in batch' : IsLast(i, batch') /\ last' = i
  /\ todo' = {}
  /\ pc' = IF batch' = {} THEN "open" ELSE IF Rows(batch') = {} THEN "mark" ELSE "insert"
  /\ UNCHANGED <<world, connected, known, bookmark, saved, first, bounds>>

Stored(ids) == outputs \cup {[id |-> i, length |-> withLength] : i \in ids}

\* insert_outputs: one transaction.  Its answer can be lost after it commits.
\* A value that rf-db rejects fails it, and the rows are tried one by one.
Insert ==
  /\ pc = "insert"
  /\ \/ /\ \A i \in Rows(batch) : bad[i] = "no"
        /\ outputs' = Stored(Rows(batch))
        /\ \/ pc' = "mark" /\ UNCHANGED <<faults, connected>>
           \/ Fault /\ Failed
        /\ UNCHANGED todo
     \/ /\ \E i \in Rows(batch) : bad[i] = "rejected"
        /\ pc' = "rows" /\ todo' = Rows(batch)
        /\ UNCHANGED <<outputs, faults, connected>>
     \/ Fault /\ Failed /\ UNCHANGED <<outputs, todo>>
  /\ UNCHANGED <<may, newest, windows, bad, length, registered, known, bookmark, batch, last, withLength,
                 saved, first, crashes, changes>>

\* A rejected row is dropped, and the next one is tried.
RowTried(i) == todo \ {i}

InsertRow ==
  /\ pc = "rows"
  /\ \E i \in todo :
       /\ \A j \in todo : i <= j
       /\ outputs' = IF bad[i] = "no" THEN Stored({i}) ELSE outputs
       /\ \/ pc' = "rows" /\ todo' = RowTried(i) /\ UNCHANGED <<faults, connected>>
          \/ Fault /\ Failed /\ UNCHANGED todo
  /\ UNCHANGED <<may, newest, windows, bad, length, registered, known, bookmark, batch, last, withLength,
                 saved, first, crashes, changes>>

RowsDone ==
  /\ pc = "rows" /\ todo = {} /\ pc' = "mark"
  /\ UNCHANGED <<world, connected, known, bookmark, batch, last, todo, withLength, saved, first, bounds>>

\* Mutant: the bookmark is the newest window there is.
MarkNewest == CHOOSE i \in windows : IsLast(i, windows)

\* Mutant: the bookmark stays where it was.
MarkOld == bookmark

\* The bookmark is the last window of the batch.
MarkLast == last

\* It moves in memory, and is then saved.
Mark ==
  /\ pc = "mark" /\ pc' = "save" /\ bookmark' = MarkLast
  /\ UNCHANGED <<world, connected, known, batch, last, todo, withLength, saved, first, bounds>>

Save ==
  /\ pc = "save" /\ pc' \in {"load", "open"}
  /\ Saved(bookmark)
  /\ UNCHANGED <<world, known, bookmark, batch, last, todo, withLength, first, crashes, changes>>

----------------------------------------------------------------------------
(* Around it                                                               *)

\* insert_avg_window: the next id.
StoreWindow ==
  /\ newest < MaxWindows /\ newest' = newest + 1
  /\ windows' = windows \cup {newest + 1}
  /\ UNCHANGED <<may, bad, length, outputs, registered, memory, saved, first, bounds>>

\* delete_older_than: the oldest window is past STATS_RETENTION_DAYS.  By
\* then it was sent, unless requests failed or the sensor is unregistered.
Expire ==
  /\ "retention" \in may
  /\ \E i \in windows :
       /\ \A j \in windows : i <= j
       /\ (\E o \in outputs : o.id = i) \/ faults > 0 \/ ~registered
       /\ windows' = windows \ {i}
  /\ UNCHANGED <<may, newest, bad, length, outputs, registered, memory, saved, first, bounds>>

SetLength ==
  /\ "lengths" \in may /\ changes < MaxChanges /\ changes' = changes + 1
  /\ length' \in Lengths \ {length}
  /\ UNCHANGED <<may, newest, windows, bad, outputs, registered, memory, saved, first, faults, crashes>>

Register ==
  /\ ~registered /\ registered' = TRUE
  /\ UNCHANGED <<may, newest, windows, bad, length, outputs, memory, saved, first, bounds>>

\* The process dies, or stops: what it held is gone.
Die ==
  /\ "crash" \in may /\ crashes < MaxCrashes /\ crashes' = crashes + 1
  /\ pc' = "open" /\ connected' = FALSE /\ known' = FALSE /\ bookmark' = Unset
  /\ batch' = {} /\ last' = 0 /\ todo' = {}
  /\ UNCHANGED <<world, withLength, saved, first, faults, changes>>

Flush == Open \/ Load \/ SaveFirst \/ Hardware \/ Read \/ Insert \/ InsertRow \/ RowsDone \/ Mark \/ Save

ForwardNext == Flush \/ StoreWindow \/ Expire \/ SetLength \/ Register \/ Die

ForwardSpec == ForwardInit /\ [][ForwardNext]_forwardVars

\* The loop never ends, and the sensor is registered in the end.
ForwardLiveSpec == ForwardSpec /\ WF_forwardVars(Flush) /\ WF_forwardVars(Register)

----------------------------------------------------------------------------
(* Properties                                                              *)

Sent == {r.id : r \in outputs}
Due(i) == bad[i] = "no" /\ first # Unset /\ i > first

\* Nothing is behind a bookmark, the one in memory or the saved one, that
\* rf-db has not got, unless retention dropped it or rf-db cannot take it.
BehindBookmark ==
  \A i \in windows : Due(i) /\ (i <= bookmark \/ i <= saved) => i \in Sent

\* An outage, a lost answer or a restart only delays a window: one that stays
\* in avg_windows is in rf-db in the end.
WindowsArrive ==
  \A i \in 1..MaxWindows : []<>(i \in windows /\ Due(i) => i \in Sent)

=============================================================================
