---------------------------- MODULE GuardedWrites ----------------------------
(***************************************************************************)
(* The pipeline's writer connection (src/rfobserver/storage/database.py).  *)
(*                                                                         *)
(* Every write method of SensorDatabase is a coroutine that executes its   *)
(* statement on the one writer connection, waits for the answer, and then  *)
(* commits.  A connection has one worker thread, which runs what is queued *)
(* for it in order; the transaction it holds open is shared by all the     *)
(* writes on it.  _guarded_write bounds a write by a timeout: it abandons  *)
(* the connection the write was called with, queues that connection's      *)
(* close behind whatever its worker still has to do, opens a new one and   *)
(* tries once more.  A call that is given up leaves its statement on the   *)
(* old connection's queue.                                                 *)
(*                                                                         *)
(* The statement modelled is an INSERT that no key refuses a second time,  *)
(* as that of _insert_avg_window_row.  Rows are pairs of a write and an    *)
(* attempt, so that the copy an abandoned attempt stores can be told from  *)
(* the copy of the retry.                                                  *)
(***************************************************************************)
EXTENDS Naturals, Sequences, FiniteSets

CONSTANTS
  Writes,     \* the calls of write methods
  MaxStalls,  \* bound on the connections that stall, each of them once
  Heals,      \* how a stalled statement may end: see Unstall
  Happens     \* what else may happen: "reopen_fails"

ASSUME GuardedWritesAssumption ==
  /\ IsFiniteSet(Writes)
  /\ MaxStalls \in Nat
  /\ Heals \subseteq {"never", "late", "any"}
  /\ Happens \subseteq {"reopen_fails"}

VARIABLES
  heals,    \* how stalls end in this behaviour
  cur,      \* self._db: a connection, 0 for None
  newest,   \* connections opened so far
  queue,    \* per connection: what its worker has to run
  stall,    \* per connection: "no", or where its worker is stuck
  open,     \* per connection: the rows of its uncommitted transaction
  rows,     \* the rows committed
  stalled,  \* history: the connections that ever stalled
  at,       \* per write: where its coroutine is
  attempt,  \* per write: 1, or 2 for the retry
  conn,     \* per write: the connection it was called with
  reply,    \* per write: the worker's answer to the statement it awaits
  slow      \* writes that have been waiting for a stalled connection

connVars == <<cur, newest, queue, stall, open, rows, stalled>>
callVars == <<at, attempt, conn, reply, slow>>
writesVars == <<heals, connVars, callVars>>

Conns == 1 .. Cardinality(Writes) + 1
Row(w) == <<w, attempt[w]>>
Statement(op, w) == [op |-> op, row |-> Row(w)]
Awaits(w, s) == at[w] = s.op /\ s.row = Row(w) /\ reply[w] = "none"
Awaited(c) == {w \in Writes : \E i \in DOMAIN queue[c] : Awaits(w, queue[c][i])}

WritesInit ==
  /\ heals \in Heals
  /\ cur = 1 /\ newest = 1
  /\ queue = [c \in Conns |-> <<>>]
  /\ stall = [c \in Conns |-> "no"]
  /\ open = [c \in Conns |-> {}]
  /\ rows = {} /\ stalled = {}
  /\ at = [w \in Writes |-> "idle"]
  /\ attempt = [w \in Writes |-> 1]
  /\ conn = [w \in Writes |-> 0]
  /\ reply = [w \in Writes |-> "none"]
  /\ slow = {}

(***************************************************************************)
(* The worker threads (aiosqlite and SQLite).  A transaction that has      *)
(* written holds the write lock until it ends; another connection's write  *)
(* waits busy_timeout for it and then fails, leaving its own transaction   *)
(* as it was.                                                              *)
(***************************************************************************)
Holds(c) == open[c] # {} \/ stall[c] = "locked"
Free(c) == \A d \in Conns \ {c} : ~Holds(d)

Answer(s, r) ==
  reply' = [w \in Writes |-> IF Awaits(w, s) THEN r ELSE reply[w]]

Execute(c) ==
  /\ queue[c] # <<>> /\ stall[c] = "no"
  /\ queue' = [queue EXCEPT ![c] = Tail(@)]
  /\ LET s == Head(queue[c])
     IN \/ /\ s.op = "put" /\ Free(c)
           /\ open' = [open EXCEPT ![c] = @ \cup {s.row}]
           /\ Answer(s, "ok") /\ UNCHANGED rows
        \/ /\ s.op = "put" /\ ~Free(c)
           /\ Answer(s, "error") /\ UNCHANGED <<open, rows>>
        \/ /\ s.op = "commit"
           /\ rows' = rows \cup open[c] /\ open' = [open EXCEPT ![c] = {}]
           /\ Answer(s, "ok")
        \/ /\ s.op = "close"
           /\ open' = [open EXCEPT ![c] = {}] /\ UNCHANGED <<rows, reply>>
  /\ UNCHANGED <<heals, cur, newest, stall, stalled, at, attempt, conn, slow>>

\* The storage device stalls the statement at the head of the queue, with or
\* without the write lock in its hands.
Stall(c) ==
  /\ queue[c] # <<>> /\ c \notin stalled /\ Cardinality(stalled) < MaxStalls
  /\ Head(queue[c]).op # "close"
  /\ \/ stall' = [stall EXCEPT ![c] = "waiting"]
     \/ Head(queue[c]).op = "put" /\ Free(c) /\ stall' = [stall EXCEPT ![c] = "locked"]
  /\ stalled' = stalled \cup {c}
  /\ slow' = slow \cup Awaited(c)
  /\ UNCHANGED <<heals, cur, newest, queue, open, rows, at, attempt, conn, reply>>

\* The stall ends: at any time, only when every call that waited for it has
\* been given up and has its new connection, or never.
Unstall(c) ==
  /\ stall[c] # "no" /\ heals # "never"
  /\ heals = "late" => Awaited(c) = {} /\ \A w \in Writes : conn[w] = c => at[w] # "stuck"
  /\ stall' = [stall EXCEPT ![c] = "no"]
  /\ UNCHANGED <<heals, cur, newest, queue, open, rows, stalled, callVars>>

(***************************************************************************)
(* A write method: execute, then commit, each on the connection that       *)
(* self._db is at that moment.                                             *)
(***************************************************************************)
Ends(w, result) == at' = [at EXCEPT ![w] = result]

Sends(w, op) ==
  /\ queue' = [queue EXCEPT ![cur] = Append(@, Statement(op, w))]
  /\ at' = [at EXCEPT ![w] = op] /\ reply' = [reply EXCEPT ![w] = "none"]
  /\ slow' = IF stall[cur] # "no" THEN slow \cup {w} ELSE slow

\* Without a connection the method raises, and not a timeout.
SendsOrRaises(w, op) ==
  \/ cur # 0 /\ Sends(w, op)
  \/ cur = 0 /\ Ends(w, "failed") /\ UNCHANGED <<queue, reply, slow>>

Call(w) ==
  /\ at[w] = "idle"
  /\ conn' = [conn EXCEPT ![w] = cur]
  /\ SendsOrRaises(w, "put")
  /\ UNCHANGED <<heals, cur, newest, stall, open, rows, stalled, attempt>>

Commits(w) ==
  /\ at[w] = "put" /\ reply[w] = "ok"
  /\ SendsOrRaises(w, "commit")
  /\ UNCHANGED <<heals, cur, newest, stall, open, rows, stalled, attempt, conn>>

Returns(w) ==
  /\ at[w] = "commit" /\ reply[w] = "ok"
  /\ Ends(w, "done")
  /\ UNCHANGED <<heals, connVars, attempt, conn, reply, slow>>

Raises(w) ==
  /\ at[w] \in {"put", "commit"} /\ reply[w] = "error"
  /\ Ends(w, "failed")
  /\ UNCHANGED <<heals, connVars, attempt, conn, reply, slow>>

(***************************************************************************)
(* The guard around it.                                                    *)
(***************************************************************************)
\* The first timeout leads to a new connection, the second to the caller.  In the
\* 30 s it takes, the event loop has run every call whose answer had come.
Ready == {w \in Writes : at[w] \in {"put", "commit"} /\ reply[w] # "none"}

\* Mutant: a commit that is late is taken for one that succeeded.
TimesOutDone(w) ==
  /\ at[w] \in {"put", "commit"} /\ w \in slow /\ Ready \subseteq {w}
  /\ Ends(w, IF at[w] = "commit" THEN "done" ELSE IF attempt[w] = 1 THEN "stuck" ELSE "failed")
  /\ slow' = slow \ {w}
  /\ UNCHANGED <<heals, connVars, attempt, conn, reply>>

TimesOut(w) ==
  /\ at[w] \in {"put", "commit"} /\ w \in slow /\ Ready \subseteq {w}
  /\ Ends(w, IF attempt[w] = 1 THEN "stuck" ELSE "failed")
  /\ slow' = slow \ {w}
  /\ UNCHANGED <<heals, connVars, attempt, conn, reply>>

\* _reconnect, under its lock: nothing to do when another write already has.
Opening == {w \in Writes : at[w] = "opening"}

\* Mutant: the abandoned connection is left open (as before the fix for W230).
AbandonUnclosed(w) ==
  /\ cur' = 0 /\ at' = [at EXCEPT ![w] = "opening"]
  /\ UNCHANGED <<heals, newest, queue, stall, open, rows, stalled, attempt, conn, reply, slow>>

Abandon(w) ==
  /\ cur' = 0
  /\ queue' = [queue EXCEPT ![conn[w]] = Append(@, Statement("close", w))]
  /\ at' = [at EXCEPT ![w] = "opening"]
  /\ UNCHANGED <<heals, newest, stall, open, rows, stalled, attempt, conn, reply, slow>>

\* Mutant: every writer that timed out reconnects.
ReconnectAnyway(w) == at[w] = "stuck" /\ Opening = {} /\ Abandon(w)

Reconnect(w) ==
  /\ at[w] = "stuck" /\ Opening = {}
  /\ IF cur = conn[w] THEN Abandon(w)
     ELSE Ends(w, "again") /\ UNCHANGED <<heals, connVars, attempt, conn, reply, slow>>

Opened(w) ==
  /\ at[w] = "opening"
  /\ newest' = newest + 1 /\ cur' = newest'
  /\ at' = [at EXCEPT ![w] = "again"]
  /\ UNCHANGED <<heals, queue, stall, open, rows, stalled, attempt, conn, reply, slow>>

\* The connection cannot be opened, or not in time: self._db stays None.
OpenFails(w) ==
  /\ at[w] = "opening" /\ "reopen_fails" \in Happens
  /\ Ends(w, "failed")
  /\ UNCHANGED <<heals, connVars, attempt, conn, reply, slow>>

Retry(w) ==
  /\ at[w] = "again"
  /\ attempt' = [attempt EXCEPT ![w] = 2]
  /\ \/ /\ cur # 0
        /\ queue' = [queue EXCEPT ![cur] = Append(@, [op |-> "put", row |-> <<w, 2>>])]
        /\ at' = [at EXCEPT ![w] = "put"] /\ reply' = [reply EXCEPT ![w] = "none"]
        /\ slow' = IF stall[cur] # "no" THEN slow \cup {w} ELSE slow
     \/ cur = 0 /\ Ends(w, "failed") /\ UNCHANGED <<queue, reply, slow>>
  /\ UNCHANGED <<heals, cur, newest, stall, open, rows, stalled, conn>>

Task(w) ==
  \/ Commits(w) \/ Returns(w) \/ Raises(w) \/ TimesOut(w)
  \/ Reconnect(w) \/ Opened(w) \/ OpenFails(w) \/ Retry(w)

WritesNext ==
  \/ \E c \in Conns : Execute(c) \/ Stall(c) \/ Unstall(c)
  \/ \E w \in Writes : Call(w) \/ Task(w)

WritesSpec == WritesInit /\ [][WritesNext]_writesVars

\* The loop runs every call that can go on and its timers, a worker runs what
\* it is given, and a stall that may end does.
Fairness ==
  /\ \A c \in Conns : WF_writesVars(Execute(c)) /\ WF_writesVars(Unstall(c))
  /\ \A w \in Writes : WF_writesVars(Task(w))

WritesLiveSpec == WritesSpec /\ Fairness

-----------------------------------------------------------------------------
(* Properties.                                                             *)

\* Types of the connections and of the calls.
WritesTypeOK ==
  /\ heals \in Heals
  /\ newest \in Conns /\ cur \in {0, newest}
  /\ queue \in [Conns -> Seq([op : {"put", "commit", "close"}, row : Writes \X {1, 2}])]
  /\ stall \in [Conns -> {"no", "waiting", "locked"}]
  /\ open \in [Conns -> SUBSET (Writes \X {1, 2})]
  /\ rows \subseteq Writes \X {1, 2}
  /\ stalled \subseteq Conns
  /\ at \in [Writes -> {"idle", "put", "commit", "stuck", "opening", "again", "done", "failed"}]
  /\ attempt \in [Writes -> {1, 2}]
  /\ conn \in [Writes -> 0 .. Cardinality(Writes) + 1]
  /\ reply \in [Writes -> {"none", "ok", "error"}]
  /\ slow \subseteq Writes

\* A write whose caller was told it succeeded is in the table, when a stall
\* outlasts the calls that wait for it.  (A stall that ends while a call that is
\* not given up waits breaks it: that call's statement runs on the connection
\* abandoned meanwhile and its commit on the new one.)
ReturnedIsStored ==
  heals # "any" => \A w \in Writes : at[w] = "done" => \E n \in {1, 2} : <<w, n>> \in rows

\* Writers that time out on one connection share one reconnect: a connection is
\* abandoned only if it stalled itself.
HealthyIsKept ==
  \A c \in Conns : (c < newest \/ (c = newest /\ cur = 0)) => c \in stalled

\* An abandoned connection does not keep the write lock: the transaction its
\* late statement opens, which no call is there to commit, is ended.  (On the
\* connection in use it is the next write that ends it.)
LockIsReleased ==
  \A c \in Conns : (c # cur /\ open[c] # {} /\ heals # "never") ~> open[c] = {}

\* No call waits for ever, even when the device never answers again.
EveryCallEnds == \A w \in Writes : at[w] # "idle" ~> at[w] \in {"done", "failed"}

=============================================================================
