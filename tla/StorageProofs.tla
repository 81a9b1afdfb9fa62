--------------------------- MODULE StorageProofs ----------------------------
(***************************************************************************)
(* What storage keeps: the rows of the writer connection (GuardedWrites)   *)
(* and the captures of the archive (CaptureIndex).                         *)
(*                                                                         *)
(* GuardedWrites, for every finite set of writes, any number of stalls and *)
(* every way they may end: the types, that a connection is abandoned only  *)
(* if it stalled itself, and that an acknowledged write is stored.         *)
(*                                                                         *)
(* CaptureIndex, for any number of captures, evictions and sidecars, any   *)
(* sizes, caps and span: the index is the disk.  Its totals are those of   *)
(* its entries, and an entry is what is on disk for each capture nobody    *)
(* works on; the marks of an event are complete once recording control is  *)
(* done with it; and the archive fits its cap.  The inductive invariant    *)
(* follows a capture through the three threads: who deletes it and how far *)
(* the deletion is, what its sidecar's track has measured, whether         *)
(* recording control still owes it a mark.                                 *)
(***************************************************************************)
EXTENDS CaptureIndex, GuardedWrites, FiniteSetTheorems, WellFoundedInduction, TLAPS

-----------------------------------------------------------------------------
(* The inductive invariant.                                                *)

Active == {"put", "commit", "stuck", "opening", "again"}

\* A call under way was called with a connection that exists; only the first
\* attempt leads to a reconnect.
CallInv ==
  \A w \in Writes :
    /\ at[w] = "idle" => conn[w] = 0 /\ attempt[w] = 1 /\ w \notin slow
    /\ at[w] \in Active => conn[w] # 0
    /\ at[w] \in {"stuck", "opening", "again"} => attempt[w] = 1
    /\ conn[w] <= newest

\* What is queued was queued by a call, on a connection that existed, and for its
\* first attempt on none older than the one it was called with.
QueueInv ==
  \A c \in Conns : \A i \in DOMAIN queue[c] :
    /\ c <= newest
    /\ at[queue[c][i].row[1]] # "idle"
    /\ queue[c][i].op # "close" /\ queue[c][i].row[2] = 1 => conn[queue[c][i].row[1]] <= c

\* A first attempt that may lead to a reconnect of the connection in use waited
\* for a stall of that very connection.
SlowInv ==
  /\ \A c \in Conns : stall[c] # "no" => c \in stalled
  /\ \A w \in Writes :
       /\ cur # 0 /\ conn[w] = cur /\ attempt[w] = 1
       /\ w \in slow \/ at[w] = "stuck"
       => cur \in stalled

\* One reconnect at a time, and no connection in use during it.
OpeningInv ==
  /\ \A w \in Opening : cur = 0
  /\ \A v, w \in Opening : v = w

\* Each connection but the first was opened for a write of its own.
Reopened == {w \in Writes : at[w] = "again" \/ attempt[w] = 2}
CountInv == newest <= Cardinality(Reopened) + 1

GuardInv ==
  WritesTypeOK /\ CallInv /\ QueueInv /\ SlowInv /\ OpeningInv /\ CountInv /\ HealthyIsKept

-----------------------------------------------------------------------------
Ops == {"put", "commit", "close"}
Rows == Writes \X {1, 2}
Queued == [op : Ops, row : Rows]

\* What is queued is a statement of a row.
LEMMA QueueType ==
  ASSUME WritesTypeOK
  PROVE  /\ queue \in [Conns -> Seq(Queued)]
         /\ \A c \in Conns : \A i \in DOMAIN queue[c] :
              queue[c][i] \in Queued /\ queue[c][i].op \in Ops /\ queue[c][i].row \in Rows
<1>1. queue \in [Conns -> Seq(Queued)]
  BY DEF WritesTypeOK, Queued, Ops, Rows
<1>2. ASSUME NEW c \in Conns, NEW i \in DOMAIN queue[c]
      PROVE  queue[c][i] \in Queued
  BY <1>1, <1>2
<1>3. \A s \in Queued : s.op \in Ops /\ s.row \in Rows
  BY DEF Queued
<1> QED
  BY <1>1, <1>2, <1>3

\* An element of a queue's tail was in the queue.
LEMMA TailElement ==
  ASSUME NEW S, NEW q \in Seq(S), q # <<>>, NEW i \in DOMAIN Tail(q)
  PROVE  i + 1 \in DOMAIN q /\ Tail(q)[i] = q[i + 1]
OBVIOUS

\* An element of a queue something was appended to is that, or was in the queue.
LEMMA AppendElement ==
  ASSUME NEW S, NEW q \in Seq(S), NEW e, NEW i \in DOMAIN Append(q, e)
  PROVE  \/ Append(q, e)[i] = e
         \/ i \in DOMAIN q /\ Append(q, e)[i] = q[i]
OBVIOUS

\* Writes is finite, so connections are numbered from 1 to a natural number.
LEMMA WritesAreFinite ==
  /\ Cardinality(Writes) \in Nat
  /\ \A S \in SUBSET Writes : Cardinality(S) \in Nat /\ Cardinality(S) <= Cardinality(Writes)
BY GuardedWritesAssumption, FS_CardinalityType, FS_Subset

\* The set of reopened writes only grows, and with it the bound on connections.
LEMMA CountKept ==
  ASSUME WritesTypeOK, CountInv, newest' = newest, Reopened \subseteq Reopened',
         Reopened' \subseteq Writes
  PROVE  CountInv'
<1>1. IsFiniteSet(Reopened') /\ Cardinality(Reopened) <= Cardinality(Reopened')
  BY GuardedWritesAssumption, FS_Subset
<1>2. Cardinality(Reopened) \in Nat /\ Cardinality(Reopened') \in Nat /\ newest \in Nat
  BY WritesAreFinite DEF WritesTypeOK, Reopened, Conns
<1> QED
  BY <1>1, <1>2 DEF CountInv

\* Initially there is one connection and no call.
LEMMA InitGuard == WritesInit => GuardInv
<1> SUFFICES ASSUME WritesInit PROVE GuardInv
  OBVIOUS
<1> USE DEF WritesInit
<1>1. 1 \in Conns /\ Conns \subseteq Nat
  BY WritesAreFinite DEF Conns
<1>2. WritesTypeOK
  BY <1>1, WritesAreFinite DEF WritesTypeOK
<1>3. CallInv /\ QueueInv /\ SlowInv /\ OpeningInv
  BY <1>1 DEF CallInv, QueueInv, SlowInv, OpeningInv, Opening, Active
<1>4. Reopened = {}
  BY DEF Reopened
<1>5. CountInv /\ HealthyIsKept
  BY <1>1, <1>4, FS_EmptySet DEF CountInv, HealthyIsKept, Conns
<1> QED
  BY <1>2, <1>3, <1>5 DEF GuardInv

-----------------------------------------------------------------------------
(* The worker's and the device's steps.                                    *)

LEMMA ExecuteGuard ==
  ASSUME GuardInv, NEW c \in Conns, Execute(c)
  PROVE  GuardInv'
<1> USE DEF GuardInv, Execute
<1> DEFINE s == Head(queue[c])
<1>0. queue \in [Conns -> Seq(Queued)]
  BY QueueType
<1>1. /\ queue[c] \in Seq(Queued) /\ queue[c] # <<>> /\ s \in Queued /\ s = queue[c][1]
      /\ Tail(queue[c]) \in Seq(Queued)
  BY <1>0
<1>2. \A d \in Conns : \A i \in DOMAIN queue'[d] : \E j \in DOMAIN queue[d] :
      queue'[d][i] = queue[d][j]
  <2> TAKE d \in Conns
  <2> TAKE i \in DOMAIN queue'[d]
  <2>1. CASE d = c
    <3>1. queue'[c] = Tail(queue[c])
      BY <1>0
    <3>2. i \in DOMAIN Tail(queue[c])
      BY <2>1, <3>1
    <3>3. i + 1 \in DOMAIN queue[c] /\ Tail(queue[c])[i] = queue[c][i + 1]
      BY <1>1, <3>2, TailElement
    <3> QED
      BY <2>1, <3>1, <3>3
  <2>2. CASE d # c
    BY <1>0, <2>2
  <2> QED
    BY <2>1, <2>2
<1>3. queue' \in [Conns -> Seq(Queued)]
  BY <1>0, <1>1
<1>4. open' \in [Conns -> SUBSET Rows] /\ rows' \subseteq Rows
  <2>1. s.row \in Rows
    BY <1>1 DEF Queued
  <2>2. open \in [Conns -> SUBSET Rows] /\ rows \subseteq Rows
    BY DEF WritesTypeOK, Rows
  <2>3. \/ open' = open
        \/ open' = [open EXCEPT ![c] = @ \cup {s.row}]
        \/ open' = [open EXCEPT ![c] = {}]
    OBVIOUS
  <2>4. rows' = rows \/ rows' = rows \cup open[c]
    OBVIOUS
  <2> QED
    BY <2>1, <2>2, <2>3, <2>4
<1>5. reply' \in [Writes -> {"none", "ok", "error"}]
  BY DEF WritesTypeOK, Answer
<1>6. WritesTypeOK'
  BY <1>3, <1>4, <1>5 DEF WritesTypeOK, Queued, Ops, Rows
<1>7. QueueInv'
  BY <1>2 DEF QueueInv
<1>8. CallInv' /\ SlowInv' /\ OpeningInv' /\ HealthyIsKept'
  BY DEF CallInv, SlowInv, OpeningInv, Opening, HealthyIsKept
<1>9. CountInv'
  BY DEF CountInv, Reopened
<1> QED
  BY <1>6, <1>7, <1>8, <1>9

LEMMA StallGuard ==
  ASSUME GuardInv, NEW c \in Conns, Stall(c)
  PROVE  GuardInv'
<1> USE DEF GuardInv, Stall
<1>1. WritesTypeOK'
  BY DEF WritesTypeOK, Awaited
<1>2. c \in Nat /\ newest \in Nat /\ cur \in {0, newest}
  BY WritesAreFinite DEF WritesTypeOK, Conns
<1>3. ASSUME NEW w \in Awaited(c)
      PROVE  /\ w \in Writes /\ at[w] \in {"put", "commit"} /\ c <= newest
             /\ attempt[w] = 1 => conn[w] <= c
  <2>1. PICK i \in DOMAIN queue[c] : Awaits(w, queue[c][i])
    BY <1>3 DEF Awaited
  <2>2. queue[c][i].op \in Ops /\ w \in Writes
    BY <1>3, QueueType DEF Awaited
  <2>3. queue[c][i].op = at[w] /\ queue[c][i].row = <<w, attempt[w]>>
    BY <2>1 DEF Awaits, Row
  <2>4. queue[c][i].op # "close" /\ at[w] \in {"put", "commit"}
    BY <2>2, <2>3 DEF WritesTypeOK, Ops
  <2>5. queue[c][i].row[1] = w /\ queue[c][i].row[2] = attempt[w]
    BY <2>3
  <2> QED
    BY <2>2, <2>4, <2>5 DEF QueueInv
<1>4. CallInv'
  BY <1>3 DEF CallInv
<1>5. SlowInv'
  <2>1. ASSUME NEW w \in Writes, cur # 0, conn[w] = cur, attempt[w] = 1, w \in Awaited(c)
        PROVE  cur = c
    <3>1. conn[w] <= c /\ c <= newest
      BY <1>3, <2>1
    <3> QED
      BY <1>2, <2>1, <3>1
  <2> QED
    BY <2>1 DEF SlowInv, WritesTypeOK
<1>6. QueueInv' /\ OpeningInv' /\ HealthyIsKept'
  BY DEF QueueInv, OpeningInv, Opening, HealthyIsKept
<1>7. CountInv'
  BY DEF CountInv, Reopened
<1> QED
  BY <1>1, <1>4, <1>5, <1>6, <1>7

LEMMA UnstallGuard ==
  ASSUME GuardInv, NEW c \in Conns, Unstall(c)
  PROVE  GuardInv'
<1> USE DEF GuardInv, Unstall, callVars
<1>1. WritesTypeOK' /\ CallInv' /\ QueueInv' /\ OpeningInv' /\ HealthyIsKept'
  BY ZenonT(40) DEF WritesTypeOK, CallInv, QueueInv, OpeningInv, Opening, HealthyIsKept
<1>2. SlowInv'
  BY DEF SlowInv, WritesTypeOK
<1>3. CountInv'
  BY DEF CountInv, Reopened
<1> QED
  BY <1>1, <1>2, <1>3

-----------------------------------------------------------------------------
(* The calls' steps.                                                       *)

\* The connection in use is the last one that was opened.
LEMMA CurrentIsLast ==
  ASSUME WritesTypeOK
  PROVE  /\ Conns \subseteq Nat \ {0} /\ newest \in Conns /\ newest \in Nat
         /\ cur # 0 => cur = newest /\ cur \in Conns /\ cur \in Nat
         /\ \A w \in Writes : conn[w] \in Nat
BY WritesAreFinite DEF WritesTypeOK, Conns

\* A statement of a call is one of its row.
LEMMA StatementType ==
  ASSUME WritesTypeOK, NEW w \in Writes, NEW op \in Ops
  PROVE  /\ Statement(op, w) \in Queued
         /\ Statement(op, w).row[1] = w /\ Statement(op, w).op = op
BY DEF WritesTypeOK, Statement, Row, Queued, Ops, Rows

\* A statement queued on the connection in use, by a call that is under way and
\* was called with it or an older one, keeps what is known of the queues.
LEMMA QueuedOnCurrent ==
  ASSUME WritesTypeOK, QueueInv, cur # 0,
         NEW s \in Queued, queue' = [queue EXCEPT ![cur] = Append(@, s)],
         newest' = newest,
         \A w \in Writes : at[w] # "idle" => at'[w] # "idle" /\ conn'[w] = conn[w],
         at'[s.row[1]] # "idle", conn'[s.row[1]] <= cur
  PROVE  queue' \in [Conns -> Seq(Queued)] /\ QueueInv'
<1>0. queue \in [Conns -> Seq(Queued)] /\ cur \in Conns /\ cur = newest /\ cur \in Nat
  BY QueueType, CurrentIsLast
<1>1. queue' \in [Conns -> Seq(Queued)]
  BY <1>0
<1>2. ASSUME NEW c \in Conns, NEW i \in DOMAIN queue'[c]
      PROVE  \/ c = cur /\ queue'[c][i] = s
             \/ i \in DOMAIN queue[c] /\ queue'[c][i] = queue[c][i]
  <2>1. CASE c = cur
    <3>1. queue'[c] = Append(queue[c], s)
      BY <1>0, <2>1
    <3>2. queue[c] \in Seq(Queued) /\ i \in DOMAIN Append(queue[c], s)
      BY <1>0, <3>1, <1>2
    <3> QED
      BY <2>1, <3>1, <3>2, AppendElement
  <2>2. CASE c # cur
    BY <1>0, <1>2, <2>2
  <2> QED
    BY <2>1, <2>2
<1>3. ASSUME NEW c \in Conns, NEW i \in DOMAIN queue[c]
      PROVE  /\ queue[c][i].row[1] \in Writes
             /\ c <= newest /\ at[queue[c][i].row[1]] # "idle"
             /\ queue[c][i].op # "close" /\ queue[c][i].row[2] = 1
                  => conn[queue[c][i].row[1]] <= c
  BY <1>3, QueueType DEF Rows, QueueInv
<1>4. ASSUME NEW c \in Conns, NEW i \in DOMAIN queue'[c]
      PROVE  /\ c <= newest' /\ at'[queue'[c][i].row[1]] # "idle"
             /\ queue'[c][i].op # "close" /\ queue'[c][i].row[2] = 1
                  => conn'[queue'[c][i].row[1]] <= c
  <2>1. CASE c = cur /\ queue'[c][i] = s
    BY <1>0, <2>1
  <2>2. CASE i \in DOMAIN queue[c] /\ queue'[c][i] = queue[c][i]
    BY <2>2, <1>3
  <2> QED
    BY <1>4, <1>2, <2>1, <2>2
<1> QED
  BY <1>1, <1>4 DEF QueueInv

\* Queues that nothing was added to.
LEMMA QueueKept ==
  ASSUME WritesTypeOK, QueueInv, queue' = queue, newest' \in Nat, newest' >= newest,
         \A w \in Writes : at[w] # "idle" => at'[w] # "idle" /\ conn'[w] = conn[w]
  PROVE  QueueInv'
<1>1. ASSUME NEW c \in Conns, NEW i \in DOMAIN queue[c]
      PROVE  /\ queue[c][i].row[1] \in Writes
             /\ c <= newest /\ at[queue[c][i].row[1]] # "idle"
             /\ queue[c][i].op # "close" /\ queue[c][i].row[2] = 1
                  => conn[queue[c][i].row[1]] <= c
  BY <1>1, QueueType DEF Rows, QueueInv
<1>2. Conns \subseteq Nat /\ newest \in Nat
  BY WritesAreFinite DEF WritesTypeOK, Conns
<1> QED
  BY <1>1, <1>2 DEF QueueInv

LEMMA CallGuard ==
  ASSUME GuardInv, NEW w \in Writes, Call(w)
  PROVE  GuardInv'
<1> USE DEF GuardInv, Call
<1>0. at[w] = "idle" /\ attempt[w] = 1 /\ w \notin slow /\ at' \in [Writes -> {"idle", "put",
        "commit", "stuck", "opening", "again", "done", "failed"}]
  BY DEF CallInv, WritesTypeOK, SendsOrRaises, Sends, Ends
<1>1. /\ conn' \in [Writes -> 0 .. Cardinality(Writes) + 1] /\ conn'[w] = cur
      /\ \A v \in Writes \ {w} : conn'[v] = conn[v] /\ at'[v] = at[v]
  <2>1. cur \in 0 .. Cardinality(Writes) + 1
    BY WritesAreFinite DEF WritesTypeOK, Conns
  <2>2. conn' \in [Writes -> 0 .. Cardinality(Writes) + 1] /\ conn'[w] = cur
    BY <2>1 DEF WritesTypeOK
  <2> QED
    BY <2>2 DEF WritesTypeOK, SendsOrRaises, Sends, Ends
<1>2. Opening' = Opening /\ Reopened' = Reopened
  BY <1>0 DEF Opening, Reopened, SendsOrRaises, Sends, Ends, WritesTypeOK
<1>3. CountInv' /\ OpeningInv' /\ HealthyIsKept'
  BY <1>2 DEF CountInv, OpeningInv, HealthyIsKept
<1>4. CASE cur # 0
  <2> USE DEF SendsOrRaises, Sends
  <2>1. at'[w] = "put" /\ cur = newest /\ cur \in Conns /\ cur \in Nat
    BY <1>4, CurrentIsLast DEF WritesTypeOK
  <2>2. queue' \in [Conns -> Seq(Queued)] /\ QueueInv'
    <3>1. Statement("put", w) \in Queued /\ Statement("put", w).row[1] = w
      BY StatementType DEF Ops
    <3>2. queue' = [queue EXCEPT ![cur] = Append(@, Statement("put", w))]
      BY <1>4
    <3>3. \A v \in Writes : at[v] # "idle" => at'[v] # "idle" /\ conn'[v] = conn[v]
      BY <1>0, <1>1
    <3>4. conn'[w] <= cur /\ at'[w] # "idle" /\ newest' = newest
      BY <1>1, <2>1
    <3> QED
      BY <1>4, <3>1, <3>2, <3>3, <3>4, QueuedOnCurrent
  <2>3. WritesTypeOK'
    BY <1>0, <1>1, <1>4, <2>2 DEF WritesTypeOK, Queued, Ops, Rows
  <2>4. CallInv'
    BY <1>1, <1>4, <2>1 DEF CallInv, Active, WritesTypeOK
  <2>5. SlowInv'
    BY <1>0, <1>1, <1>4, <2>1 DEF SlowInv, WritesTypeOK
  <2> QED
    BY <1>3, <2>2, <2>3, <2>4, <2>5
<1>5. CASE cur = 0
  <2> USE DEF SendsOrRaises, Ends
  <2>1. at'[w] = "failed"
    BY <1>5 DEF WritesTypeOK
  <2>2. WritesTypeOK'
    BY <1>0, <1>1, <1>5 DEF WritesTypeOK
  <2>3. CallInv'
    BY <1>1, <1>5, <2>1, CurrentIsLast DEF CallInv, Active, WritesTypeOK
  <2>4. SlowInv'
    BY <1>5 DEF SlowInv
  <2>5. QueueInv'
    BY <1>0, <1>1, <1>5, <2>1, QueueKept, CurrentIsLast
  <2> QED
    BY <1>3, <2>2, <2>3, <2>4, <2>5
<1> QED
  BY <1>4, <1>5

LEMMA CommitsGuard ==
  ASSUME GuardInv, NEW w \in Writes, Commits(w)
  PROVE  GuardInv'
<1> USE DEF GuardInv, Commits
<1>0. at[w] = "put" /\ at' \in [Writes -> {"idle", "put", "commit", "stuck", "opening", "again",
                                        "done", "failed"}]
  BY DEF WritesTypeOK, SendsOrRaises, Sends, Ends
<1>1. \A v \in Writes \ {w} : at'[v] = at[v]
  BY DEF WritesTypeOK, SendsOrRaises, Sends, Ends
<1>2. Opening' = Opening /\ Reopened' = Reopened
  BY <1>0 DEF Opening, Reopened, SendsOrRaises, Sends, Ends, WritesTypeOK
<1>3. CountInv' /\ OpeningInv' /\ HealthyIsKept'
  BY <1>2 DEF CountInv, OpeningInv, HealthyIsKept
<1>4. CASE cur # 0
  <2> USE DEF SendsOrRaises, Sends
  <2>1. at'[w] = "commit" /\ cur = newest /\ cur \in Conns /\ cur \in Nat
    BY <1>4, CurrentIsLast DEF WritesTypeOK
  <2>2. queue' \in [Conns -> Seq(Queued)] /\ QueueInv'
    <3>1. Statement("commit", w) \in Queued /\ Statement("commit", w).row[1] = w
      BY StatementType DEF Ops
    <3>2. queue' = [queue EXCEPT ![cur] = Append(@, Statement("commit", w))]
      BY <1>4
    <3>3. conn'[w] <= cur
      BY <2>1 DEF CallInv
    <3> QED
      BY <1>1, <1>4, <2>1, <3>1, <3>2, <3>3, QueuedOnCurrent
  <2>3. WritesTypeOK'
    BY <1>0, <1>4, <2>2 DEF WritesTypeOK, Queued, Ops, Rows
  <2>4. CallInv'
    BY <1>0, <1>1, <1>4, <2>1 DEF CallInv, Active, WritesTypeOK
  <2>5. SlowInv'
    BY <1>1, <1>4, <2>1 DEF SlowInv, WritesTypeOK
  <2> QED
    BY <1>3, <2>2, <2>3, <2>4, <2>5
<1>5. CASE cur = 0
  <2> USE DEF SendsOrRaises, Ends
  <2>1. at'[w] = "failed"
    BY <1>5 DEF WritesTypeOK
  <2>2. WritesTypeOK'
    BY <1>0, <1>5 DEF WritesTypeOK
  <2>3. CallInv'
    BY <1>1, <1>5, <2>1 DEF CallInv, Active, WritesTypeOK
  <2>4. SlowInv'
    BY <1>5 DEF SlowInv
  <2>5. QueueInv'
    BY <1>1, <1>5, <2>1, QueueKept, CurrentIsLast
  <2> QED
    BY <1>3, <2>2, <2>3, <2>4, <2>5
<1> QED
  BY <1>4, <1>5

\* Steps of a call that touch no connection.
LEMMA EndsGuard ==
  ASSUME GuardInv, NEW w \in Writes, Returns(w) \/ Raises(w)
  PROVE  GuardInv'
<1> USE DEF GuardInv, Returns, Raises, Ends, connVars
<1>1. WritesTypeOK'
  BY DEF WritesTypeOK
<1>0. at'[w] \in {"done", "failed"} /\ at[w] \in {"put", "commit"}
      /\ \A v \in Writes \ {w} : at'[v] = at[v]
  BY DEF WritesTypeOK
<1>2. CallInv' /\ SlowInv' /\ HealthyIsKept'
  BY <1>0 DEF CallInv, SlowInv, HealthyIsKept, Active
<1>3. Reopened' = Reopened /\ Opening' = Opening
  BY <1>0 DEF Reopened, Opening
<1>4. CountInv' /\ OpeningInv'
  BY <1>3 DEF CountInv, OpeningInv
<1>5. QueueInv'
  BY <1>0, CurrentIsLast, QueueKept
<1> QED
  BY <1>1, <1>2, <1>4, <1>5

LEMMA TimesOutGuard ==
  ASSUME GuardInv, NEW w \in Writes, TimesOut(w)
  PROVE  GuardInv'
<1> USE DEF GuardInv, TimesOut, Ends, connVars
<1>0. at'[w] \in {"stuck", "failed"} /\ (at'[w] = "stuck" => attempt[w] = 1)
      /\ \A v \in Writes \ {w} : at'[v] = at[v]
  BY DEF WritesTypeOK
<1>1. WritesTypeOK'
  BY DEF WritesTypeOK
<1>2. CallInv'
  BY <1>0 DEF WritesTypeOK, CallInv, Active
<1>3. SlowInv'
  BY <1>0 DEF WritesTypeOK, SlowInv
<1>4. Opening' = Opening /\ Reopened' = Reopened
  BY <1>0 DEF Opening, Reopened, WritesTypeOK
<1>5. OpeningInv' /\ HealthyIsKept' /\ CountInv'
  BY <1>4 DEF OpeningInv, HealthyIsKept, CountInv
<1>6. QueueInv'
  BY <1>0, CurrentIsLast, QueueKept DEF WritesTypeOK
<1> QED
  BY <1>1, <1>2, <1>3, <1>5, <1>6

LEMMA ReconnectGuard ==
  ASSUME GuardInv, NEW w \in Writes, Reconnect(w)
  PROVE  GuardInv'
<1> USE DEF GuardInv, Reconnect
<1>0. at[w] = "stuck" /\ attempt[w] = 1 /\ conn[w] # 0 /\ Opening = {} /\ conn[w] <= newest
  BY DEF CallInv, Active
<1>1. CASE cur = conn[w]
  <2> USE DEF Abandon
  <2>1. at'[w] = "opening" /\ \A v \in Writes \ {w} : at'[v] = at[v]
    BY <1>1 DEF WritesTypeOK
  <2>2. cur # 0 /\ cur = newest /\ cur \in Conns /\ cur \in Nat /\ cur \in stalled
    BY <1>0, <1>1, CurrentIsLast DEF SlowInv
  <2>3. queue' \in [Conns -> Seq(Queued)] /\ QueueInv'
    <3>0. conn' = conn
      BY <1>1
    <3>1. Statement("close", w) \in Queued /\ Statement("close", w).row[1] = w
      BY StatementType DEF Ops
    <3>2. queue' = [queue EXCEPT ![cur] = Append(@, Statement("close", w))]
      BY <1>1
    <3>3. \A v \in Writes : at[v] # "idle" => at'[v] # "idle" /\ conn'[v] = conn[v]
      BY <2>1, <3>0
    <3>4. newest' = newest /\ at'[w] # "idle"
      BY <1>1, <2>1
    <3>5. conn'[w] = cur /\ cur <= cur
      <4>1. conn'[w] = conn[w]
        BY <3>0, Zenon
      <4> QED
        BY <1>1, <2>2, <4>1
    <3> QED
      BY <2>2, <3>1, <3>2, <3>3, <3>4, <3>5, QueuedOnCurrent
  <2>4. WritesTypeOK'
    BY <1>1, <2>3 DEF WritesTypeOK, Queued, Ops, Rows
  <2>5. CallInv'
    BY <1>0, <1>1, <2>1 DEF CallInv, Active
  <2>6. SlowInv' /\ HealthyIsKept'
    BY <1>1, <2>2, CurrentIsLast DEF SlowInv, HealthyIsKept
  <2>7. OpeningInv'
    <3>1. Opening' = {w}
      BY <1>0, <2>1 DEF Opening
    <3> QED
      BY <1>1, <3>1 DEF OpeningInv
  <2>8. Reopened' = Reopened /\ CountInv'
    BY <1>0, <1>1, <2>1 DEF Reopened, CountInv
  <2> QED
    BY <2>3, <2>4, <2>5, <2>6, <2>7, <2>8
<1>2. CASE cur # conn[w]
  <2> USE DEF Ends, connVars
  <2>1. at'[w] = "again" /\ \A v \in Writes \ {w} : at'[v] = at[v]
    BY <1>2 DEF WritesTypeOK
  <2>2. WritesTypeOK'
    BY <1>2 DEF WritesTypeOK
  <2>3. CallInv' /\ SlowInv'
    BY <1>0, <1>2, <2>1 DEF CallInv, SlowInv, Active
  <2>4. OpeningInv' /\ HealthyIsKept'
    BY <1>0, <1>2, <2>1 DEF OpeningInv, Opening, HealthyIsKept
  <2>5. QueueInv'
    BY <1>0, <1>2, <2>1, CurrentIsLast, QueueKept
  <2>6. Reopened \subseteq Reopened' /\ Reopened' \subseteq Writes
    BY <1>0, <1>2, <2>1 DEF Reopened
  <2>7. CountInv'
    BY <1>2, <2>6, CountKept
  <2> QED
    BY <2>2, <2>3, <2>4, <2>5, <2>7
<1> QED
  BY <1>1, <1>2

LEMMA OpenedGuard ==
  ASSUME GuardInv, NEW w \in Writes, Opened(w)
  PROVE  GuardInv'
<1> USE DEF GuardInv, Opened
<1>0. at[w] = "opening" /\ attempt[w] = 1 /\ cur = 0 /\ Opening = {w}
  BY DEF CallInv, OpeningInv, Opening
<1>1. at'[w] = "again" /\ \A v \in Writes \ {w} : at'[v] = at[v]
  BY DEF WritesTypeOK
<1>2. Reopened' = Reopened \cup {w} /\ w \notin Reopened
  BY <1>0, <1>1 DEF Reopened, WritesTypeOK
<1>3. /\ IsFiniteSet(Reopened) /\ Cardinality(Reopened) \in Nat
      /\ Cardinality(Reopened') = Cardinality(Reopened) + 1
      /\ Cardinality(Reopened') <= Cardinality(Writes)
  <2>1. Reopened \in SUBSET Writes /\ Reopened' \in SUBSET Writes
    BY <1>2 DEF Reopened
  <2>2. IsFiniteSet(Reopened)
    BY <2>1, GuardedWritesAssumption, FS_Subset
  <2>3. Cardinality(Reopened \cup {w}) = Cardinality(Reopened) + 1
    BY <1>2, <2>2, FS_AddElement
  <2> QED
    BY <1>2, <2>1, <2>2, <2>3, WritesAreFinite
<1>4. newest' \in Conns /\ newest' = newest + 1 /\ cur' = newest'
  BY <1>3, CurrentIsLast, WritesAreFinite DEF CountInv, Conns
<1>5. CountInv'
  BY <1>3, CurrentIsLast DEF CountInv
<1>6. WritesTypeOK'
  BY <1>4 DEF WritesTypeOK
<1>7. CallInv'
  BY <1>0, <1>1, <1>4, CurrentIsLast DEF CallInv, Active
<1>8. SlowInv'
  BY <1>4, CurrentIsLast DEF SlowInv, CallInv
<1>9. OpeningInv'
  BY <1>0, <1>1 DEF OpeningInv, Opening
<1>10. QueueInv'
  BY <1>0, <1>1, <1>4, CurrentIsLast, QueueKept
<1>11. HealthyIsKept'
  BY <1>0, <1>4, CurrentIsLast DEF HealthyIsKept
<1> QED
  BY <1>5, <1>6, <1>7, <1>8, <1>9, <1>10, <1>11

LEMMA OpenFailsGuard ==
  ASSUME GuardInv, NEW w \in Writes, OpenFails(w)
  PROVE  GuardInv'
<1> USE DEF GuardInv, OpenFails, Ends, connVars
<1>1. at'[w] = "failed" /\ \A v \in Writes \ {w} : at'[v] = at[v]
  BY DEF WritesTypeOK
<1>2. WritesTypeOK'
  BY DEF WritesTypeOK
<1>3. CallInv' /\ SlowInv' /\ OpeningInv' /\ HealthyIsKept'
  BY <1>1 DEF CallInv, Active, SlowInv, OpeningInv, Opening, HealthyIsKept
<1>4. Reopened' = Reopened
  BY <1>1 DEF Reopened
<1>5. CountInv'
  BY <1>4 DEF CountInv
<1>6. QueueInv'
  BY <1>1, CurrentIsLast, QueueKept
<1> QED
  BY <1>2, <1>3, <1>5, <1>6

LEMMA RetryGuard ==
  ASSUME GuardInv, NEW w \in Writes, Retry(w)
  PROVE  GuardInv'
<1> USE DEF GuardInv, Retry
<1>0. at[w] = "again" /\ attempt' \in [Writes -> {1, 2}] /\ attempt'[w] = 2
      /\ \A v \in Writes \ {w} : attempt'[v] = attempt[v]
  BY DEF WritesTypeOK
<1>1. at'[w] \in {"put", "failed"} /\ \A v \in Writes \ {w} : at'[v] = at[v]
  BY DEF WritesTypeOK, Ends
<1>2. CallInv' /\ OpeningInv' /\ HealthyIsKept'
  BY <1>0, <1>1 DEF CallInv, Active, OpeningInv, Opening, HealthyIsKept, Ends
<1>3. Reopened \subseteq Reopened' /\ Reopened' \subseteq Writes
  BY <1>0, <1>1 DEF Reopened
<1>4. CountInv'
  BY <1>3, CountKept
<1>5. SlowInv'
  BY <1>0, <1>1 DEF SlowInv
<1>6. CASE cur # 0
  <2> DEFINE s == [op |-> "put", row |-> <<w, 2>>]
  <2>1. s \in Queued /\ s.row[1] = w
    BY DEF Queued, Ops, Rows
  <2>2. queue' = [queue EXCEPT ![cur] = Append(@, s)] /\ at'[w] = "put"
    BY <1>6 DEF WritesTypeOK
  <2>3. conn'[w] <= cur
    BY <1>6, CurrentIsLast DEF CallInv
  <2>4. queue' \in [Conns -> Seq(Queued)] /\ QueueInv'
    BY <1>1, <1>6, <2>1, <2>2, <2>3, QueuedOnCurrent
  <2>5. WritesTypeOK'
    BY <1>0, <1>6, <2>4 DEF WritesTypeOK, Queued, Ops, Rows
  <2> QED
    BY <1>2, <1>4, <1>5, <2>4, <2>5
<1>7. CASE cur = 0
  <2>1. WritesTypeOK'
    BY <1>0, <1>7 DEF WritesTypeOK, Ends
  <2>2. QueueInv'
    BY <1>1, <1>7, CurrentIsLast, QueueKept
  <2> QED
    BY <1>2, <1>4, <1>5, <2>1, <2>2
<1> QED
  BY <1>6, <1>7

-----------------------------------------------------------------------------
(* The theorems.                                                           *)

\* Every step keeps the invariant.
LEMMA NextGuard == GuardInv /\ [WritesNext]_writesVars => GuardInv'
<1> SUFFICES ASSUME GuardInv, [WritesNext]_writesVars
             PROVE  GuardInv'
  OBVIOUS
<1>1. CASE UNCHANGED writesVars
  <2> USE <1>1 DEF writesVars, connVars, callVars, GuardInv
  <2>1. WritesTypeOK' /\ CallInv' /\ QueueInv'
    BY DEF WritesTypeOK, CallInv, QueueInv
  <2>2. SlowInv' /\ OpeningInv' /\ CountInv' /\ HealthyIsKept'
    BY DEF SlowInv, OpeningInv, Opening, CountInv, Reopened, HealthyIsKept
  <2> QED
    BY <2>1, <2>2
<1> QED
  BY <1>1, ExecuteGuard, StallGuard, UnstallGuard, CallGuard, CommitsGuard, EndsGuard,
     TimesOutGuard, ReconnectGuard, OpenedGuard, OpenFailsGuard, RetryGuard
  DEF WritesNext, Task

\* The invariant holds throughout.
THEOREM GuardHolds == WritesSpec => []GuardInv
BY InitGuard, NextGuard, PTL DEF WritesSpec

\* However many writes time out on however many connections, the connections and the
\* calls have their types; in particular no more connections are opened than
\* there are writes, and one.
THEOREM TypeCorrect == WritesSpec => []WritesTypeOK
<1>1. GuardInv => WritesTypeOK
  BY DEF GuardInv
<1> QED
  BY <1>1, GuardHolds, PTL

\* Writers that time out together share one reconnect: a connection that did not
\* stall is never abandoned, for any number of writes and stalls, whenever they end.
THEOREM OnlyStalledAbandoned == WritesSpec => []HealthyIsKept
<1>1. GuardInv => HealthyIsKept
  BY DEF GuardInv
<1> QED
  BY <1>1, GuardHolds, PTL

-----------------------------------------------------------------------------
(***************************************************************************)
(* A call executes and commits in two statements, and between them another *)
(* call may abandon the connection.  No row is lost to that: the           *)
(* connection is abandoned by a call that was stuck on it, the stall of    *)
(* that call holds up every other call on the connection too, and a call   *)
(* whose answer had come has gone on before the stuck one timed out.       *)
(***************************************************************************)

-----------------------------------------------------------------------------
(* The queues as sets of statements.                                       *)

Queue(c) == {queue[c][i] : i \in DOMAIN queue[c]}
Stmt(op, w, n) == [op |-> op, row |-> <<w, n>>]
Asks == {"put", "commit"}
AwaitsOn(w, c) ==
  at[w] \in Asks /\ reply[w] = "none" /\ Stmt(at[w], w, attempt[w]) \in Queue(c)

-----------------------------------------------------------------------------
(* The inductive invariant of the acknowledged writes.                     *)

\* The close of an abandoned connection is the last thing queued on it.
CloseIsLast ==
  \A c \in Conns : \A i \in DOMAIN queue[c] :
    queue[c][i].op = "close" => c # cur /\ i = Len(queue[c])

\* A statement was sent by its call before it came to where it is, and once.
SentOnce ==
  \A op \in Asks, w \in Writes, n \in {1, 2}, c \in Conns : Stmt(op, w, n) \in Queue(c) =>
    /\ at[w] # "idle" /\ n <= attempt[w]
    /\ op = "commit" /\ n = attempt[w] => at[w] # "put"
    /\ n = 1 => conn[w] <= c
    /\ c <= newest
    /\ \A d \in Conns : Stmt(op, w, n) \in Queue(d) => c = d

\* A call that is slow waits on a stalled connection; a call waits on a connection
\* that is not in use only if it is stalled; and while a call that is going to
\* abandon the connection in use has been given up, that connection is stalled
\* and owes nobody a commit.
Waiting ==
  /\ \A w \in slow : \E c \in Conns : stall[c] # "no" /\ AwaitsOn(w, c)
  /\ \A w \in Writes, c \in Conns : AwaitsOn(w, c) /\ c # cur => stall[c] # "no"
  /\ \A v \in Writes : cur # 0 /\ at[v] = "stuck" /\ conn[v] = cur =>
       /\ stall[cur] # "no"
       /\ \A w \in Writes : ~(at[w] = "put" /\ reply[w] = "ok")

\* A row executed is in the open transaction of the connection in use, where its
\* commit will go, until that commit or another one has stored it.
Stored ==
  /\ \A w \in Writes : at[w] = "put" /\ reply[w] = "ok" =>
       Row(w) \in rows \/ (cur # 0 /\ Row(w) \in open[cur])
  /\ \A w \in Writes, c \in Conns : AwaitsOn(w, c) /\ at[w] = "commit" =>
       Row(w) \in rows \/ Row(w) \in open[c]
  /\ \A w \in Writes : at[w] = "done" \/ (at[w] = "commit" /\ reply[w] = "ok") => Row(w) \in rows

AckInv == CloseIsLast /\ SentOnce /\ (heals # "any" => Waiting /\ Stored)

-----------------------------------------------------------------------------
(* Statements and queues.                                                  *)

\* Statements differ when their operations, writes or attempts do.
LEMMA StmtsDiffer ==
  ASSUME NEW op1, NEW w1, NEW n1, NEW op2, NEW w2, NEW n2, Stmt(op1, w1, n1) = Stmt(op2, w2, n2)
  PROVE  op1 = op2 /\ w1 = w2 /\ n1 = n2
<1>1. Stmt(op1, w1, n1).op = op1 /\ Stmt(op2, w2, n2).op = op2
  BY DEF Stmt
<1>2. Stmt(op1, w1, n1).row = <<w1, n1>> /\ Stmt(op2, w2, n2).row = <<w2, n2>>
  BY DEF Stmt
<1> QED
  BY <1>1, <1>2

\* A statement that is queued is one of some write, or a close.
LEMMA QueuedIsStmt ==
  ASSUME WritesTypeOK, NEW c \in Conns, NEW s \in Queue(c)
  PROVE  /\ s \in Queued
         /\ \E w \in Writes, n \in {1, 2} : s = Stmt(s.op, w, n) /\ s.row = <<w, n>>
<1>1. s \in Queued
  BY QueueType DEF Queue
<1>2. PICK w \in Writes, n \in {1, 2} : s.row = <<w, n>>
  BY <1>1 DEF Queued, Rows
<1>3. s = [op |-> s.op, row |-> s.row]
  BY <1>1 DEF Queued
<1> QED
  BY <1>1, <1>2, <1>3 DEF Stmt

\* To await a statement is to be where it was sent, with no answer yet.
LEMMA AwaitedIsAwaitsOn ==
  ASSUME WritesTypeOK, NEW c \in Conns, NEW w \in Writes
  PROVE  /\ \A s \in Queue(c) : Awaits(w, s) =>
              s = Stmt(at[w], w, attempt[w]) /\ AwaitsOn(w, c)
         /\ w \in Awaited(c) => AwaitsOn(w, c)
         /\ AwaitsOn(w, c) => w \in Awaited(c)
<1>1. ASSUME NEW s \in Queue(c), Awaits(w, s)
      PROVE  s = Stmt(at[w], w, attempt[w]) /\ AwaitsOn(w, c)
  <2>1. s \in Queued /\ s = [op |-> s.op, row |-> s.row] /\ s.op \in Ops
    BY QueuedIsStmt DEF Queued
  <2>2. s = Stmt(at[w], w, attempt[w])
    BY <1>1, <2>1 DEF Awaits, Stmt, Row
  <2>3. at[w] \in Asks /\ reply[w] = "none"
    BY <1>1, <2>1 DEF Awaits, WritesTypeOK, Asks, Ops
  <2> QED
    BY <1>1, <2>2, <2>3 DEF AwaitsOn
<1>2. w \in Awaited(c) => AwaitsOn(w, c)
  BY <1>1 DEF Awaited, Queue
<1>3. ASSUME AwaitsOn(w, c) PROVE w \in Awaited(c)
  <2>1. PICK i \in DOMAIN queue[c] : queue[c][i] = Stmt(at[w], w, attempt[w])
    BY <1>3 DEF AwaitsOn, Queue
  <2>2. Stmt(at[w], w, attempt[w]).op = at[w] /\ Stmt(at[w], w, attempt[w]).row = Row(w)
    BY DEF Stmt, Row
  <2>3. Awaits(w, queue[c][i])
    BY <1>3, <2>1, <2>2 DEF Awaits, AwaitsOn
  <2> QED
    BY <2>1, <2>3 DEF Awaited
<1> QED
  BY <1>1, <1>2, <1>3

\* What is appended to a queue is added to its statements.
LEMMA AppendToQueue ==
  ASSUME WritesTypeOK, NEW k \in Conns, NEW s \in Queued,
         queue' = [queue EXCEPT ![k] = Append(@, s)]
  PROVE  /\ Queue(k)' = Queue(k) \cup {s}
         /\ \A c \in Conns \ {k} : Queue(c)' = Queue(c)
         /\ Len(queue'[k]) = Len(queue[k]) + 1
         /\ \A i \in DOMAIN queue'[k] :
              \/ i = Len(queue'[k]) /\ queue'[k][i] = s
              \/ i \in DOMAIN queue[k] /\ queue'[k][i] = queue[k][i]
<1>1. queue \in [Conns -> Seq(Queued)] /\ queue'[k] = Append(queue[k], s)
      /\ queue[k] \in Seq(Queued)
  BY QueueType
<1>2. /\ Len(Append(queue[k], s)) = Len(queue[k]) + 1
      /\ DOMAIN Append(queue[k], s) = DOMAIN queue[k] \cup {Len(queue[k]) + 1}
      /\ Append(queue[k], s)[Len(queue[k]) + 1] = s
      /\ \A i \in DOMAIN queue[k] : Append(queue[k], s)[i] = queue[k][i]
  BY <1>1
<1>3. Queue(k)' = Queue(k) \cup {s}
  BY <1>1, <1>2 DEF Queue
<1>4. \A c \in Conns \ {k} : Queue(c)' = Queue(c)
  BY <1>1 DEF Queue
<1>5. \A i \in DOMAIN queue'[k] :
        \/ i = Len(queue'[k]) /\ queue'[k][i] = s
        \/ i \in DOMAIN queue[k] /\ queue'[k][i] = queue[k][i]
  <2>1. \A i \in DOMAIN Append(queue[k], s) :
          \/ i = Len(Append(queue[k], s)) /\ Append(queue[k], s)[i] = s
          \/ i \in DOMAIN queue[k] /\ Append(queue[k], s)[i] = queue[k][i]
    <3> TAKE i \in DOMAIN Append(queue[k], s)
    <3>1. CASE i \in DOMAIN queue[k]
      BY <1>2, <3>1
    <3>2. CASE i = Len(queue[k]) + 1
      BY <1>2, <3>2
    <3>3. i \in DOMAIN queue[k] \cup {Len(queue[k]) + 1}
      BY <1>2, Zenon
    <3> QED
      BY <3>1, <3>2, <3>3
  <2>2. queue'[k] = Append(queue[k], s)
    BY <1>1
  <2> QED
    BY <2>1, <2>2, Zenon
<1>6. Len(queue'[k]) = Len(queue[k]) + 1
  BY <1>1, <1>2, Zenon
<1> QED
  BY <1>3, <1>4, <1>5, <1>6

\* A worker takes the first statement of its queue; after a close there is none.
LEMMA TakeFromQueue ==
  ASSUME WritesTypeOK, CloseIsLast, NEW c \in Conns, queue[c] # <<>>,
         queue' = [queue EXCEPT ![c] = Tail(@)]
  PROVE  /\ Head(queue[c]) \in Queue(c) /\ Queue(c)' \subseteq Queue(c)
         /\ \A d \in Conns \ {c} : Queue(d)' = Queue(d)
         /\ Head(queue[c]).op = "close" => Queue(c)' = {} /\ c # cur
         /\ \A d \in Conns : \A i \in DOMAIN queue'[d] :
              queue'[d][i].op = "close" => d # cur /\ i = Len(queue'[d])
<1>1. queue \in [Conns -> Seq(Queued)] /\ queue'[c] = Tail(queue[c]) /\ queue[c] \in Seq(Queued)
  BY QueueType
<1>2. /\ Len(Tail(queue[c])) = Len(queue[c]) - 1 /\ Len(queue[c]) \in Nat \ {0}
      /\ DOMAIN Tail(queue[c]) = 1 .. Len(queue[c]) - 1 /\ DOMAIN queue[c] = 1 .. Len(queue[c])
      /\ \A i \in 1 .. Len(queue[c]) - 1 : Tail(queue[c])[i] = queue[c][i + 1]
      /\ Head(queue[c]) = queue[c][1]
  BY <1>1
<1>3. Head(queue[c]) \in Queue(c) /\ Queue(c)' \subseteq Queue(c)
  BY <1>1, <1>2 DEF Queue
<1>4. \A d \in Conns \ {c} : queue'[d] = queue[d] /\ Queue(d)' = Queue(d)
  BY <1>1 DEF Queue
<1>5. Head(queue[c]).op = "close" => Queue(c)' = {} /\ c # cur
  BY <1>1, <1>2 DEF Queue, CloseIsLast
<1>6. \A i \in DOMAIN queue'[c] :
        queue'[c][i].op = "close" => c # cur /\ i = Len(queue'[c])
  BY <1>1, <1>2 DEF CloseIsLast
<1>7. \A d \in Conns : \A i \in DOMAIN queue'[d] :
        queue'[d][i].op = "close" => d # cur /\ i = Len(queue'[d])
  BY <1>4, <1>6 DEF CloseIsLast
<1> QED
  BY <1>3, <1>4, <1>5, <1>7

\* A queue nothing was done to, and what waits on it.
LEMMA QueuesKept ==
  ASSUME queue' = queue
  PROVE  \A c : Queue(c)' = Queue(c)
BY DEF Queue

-----------------------------------------------------------------------------
(* The worker's step.                                                      *)

LEMMA ExecuteAck ==
  ASSUME GuardInv, AckInv, NEW c \in Conns, Execute(c)
  PROVE  AckInv'
<1> DEFINE s == Head(queue[c])
<1>0. /\ WritesTypeOK /\ CloseIsLast /\ SentOnce /\ stall[c] = "no"
      /\ heals' = heals /\ cur' = cur /\ newest' = newest /\ stall' = stall /\ at' = at
      /\ attempt' = attempt /\ conn' = conn /\ slow' = slow
  BY DEF Execute, GuardInv, AckInv
<1>1. /\ s \in Queue(c) /\ Queue(c)' \subseteq Queue(c)
      /\ \A d \in Conns \ {c} : Queue(d)' = Queue(d)
      /\ s.op = "close" => Queue(c)' = {} /\ c # cur
      /\ \A d \in Conns : \A i \in DOMAIN queue'[d] :
           queue'[d][i].op = "close" => d # cur /\ i = Len(queue'[d])
  BY <1>0, TakeFromQueue DEF Execute
<1>2. CloseIsLast'
  BY <1>0, <1>1 DEF CloseIsLast
<1>3. SentOnce'
  BY <1>0, <1>1 DEF SentOnce
<1>4. ASSUME NEW w \in Writes, reply'[w] # reply[w]
      PROVE  AwaitsOn(w, c) /\ s = Stmt(at[w], w, attempt[w])
  <2>1. Awaits(w, s)
    BY <1>0, <1>4 DEF Execute, Answer, WritesTypeOK
  <2> QED
    BY <1>0, <1>1, <2>1, AwaitedIsAwaitsOn
<1>5. \A w \in Writes : reply'[w] = "none" => reply[w] = "none"
  BY <1>0 DEF Execute, Answer, WritesTypeOK
<1>6. \A w \in Writes, d \in Conns : AwaitsOn(w, d)' => AwaitsOn(w, d)
  BY <1>0, <1>1, <1>5 DEF AwaitsOn
<1>7. ASSUME NEW w \in Writes, AwaitsOn(w, c)
      PROVE  \A d \in Conns : AwaitsOn(w, d) => d = c
  BY <1>0, <1>7 DEF AwaitsOn, SentOnce, WritesTypeOK, Asks
<1>8. ASSUME heals # "any"
      PROVE  Waiting' /\ Stored'
  <2>0. Waiting /\ Stored
    BY <1>8 DEF AckInv
  <2>1. \A w \in slow' : \E d \in Conns : stall'[d] # "no" /\ AwaitsOn(w, d)'
    <3> SUFFICES ASSUME NEW w \in slow
                 PROVE  \E d \in Conns : stall[d] # "no" /\ AwaitsOn(w, d)'
      BY <1>0
    <3>1. PICK d \in Conns : stall[d] # "no" /\ AwaitsOn(w, d)
      BY <2>0 DEF Waiting
    <3>2. d # c /\ w \in Writes
      BY <1>0, <3>1 DEF WritesTypeOK
    <3>3. reply'[w] = reply[w]
      BY <1>4, <1>7, <3>1, <3>2
    <3>4. AwaitsOn(w, d)'
      BY <1>0, <1>1, <3>1, <3>2, <3>3 DEF AwaitsOn
    <3> QED
      BY <3>1, <3>4
  <2>2. \A w \in Writes, d \in Conns : AwaitsOn(w, d)' /\ d # cur' => stall'[d] # "no"
    BY <1>0, <1>6, <2>0 DEF Waiting
  <2>3. ASSUME NEW w \in Writes, reply'[w] # reply[w]
        PROVE  c = cur /\ cur # 0
    BY <1>0, <1>4, <2>0, <2>3, CurrentIsLast DEF Waiting
  <2>4. \A v \in Writes : cur' # 0 /\ at'[v] = "stuck" /\ conn'[v] = cur' =>
          stall'[cur'] # "no" /\ \A w \in Writes : ~(at'[w] = "put" /\ reply'[w] = "ok")
    <3> SUFFICES ASSUME NEW v \in Writes, cur # 0, at[v] = "stuck", conn[v] = cur, NEW w \in Writes
                 PROVE  stall[cur] # "no" /\ ~(at[w] = "put" /\ reply'[w] = "ok")
      BY <1>0
    <3>1. stall[cur] # "no" /\ ~(at[w] = "put" /\ reply[w] = "ok")
      BY <2>0 DEF Waiting
    <3> QED
      BY <1>0, <2>3, <3>1
  <2>5. /\ rows \subseteq rows'
        /\ s.op = "put" => open[c] \subseteq open'[c]
        /\ s.op = "commit" => open[c] \subseteq rows'
        /\ \A d \in Conns \ {c} : open'[d] = open[d]
        /\ s.op \in {"put", "commit", "close"}
    BY <1>0 DEF Execute, WritesTypeOK
  <2>6. \A w \in Writes : at'[w] = "put" /\ reply'[w] = "ok" =>
          Row(w)' \in rows' \/ (cur' # 0 /\ Row(w)' \in open'[cur'])
    <3> SUFFICES ASSUME NEW w \in Writes, at[w] = "put", reply'[w] = "ok"
                 PROVE  Row(w) \in rows' \/ (cur # 0 /\ Row(w) \in open'[cur])
      BY <1>0 DEF Row
    <3>1. CASE reply[w] = "ok"
      <4>1. Row(w) \in rows \/ (cur # 0 /\ Row(w) \in open[cur])
        BY <2>0, <3>1 DEF Stored
      <4>2. cur # 0 => cur \in Conns
        BY <1>0, CurrentIsLast
      <4> QED
        BY <1>1, <2>5, <4>1, <4>2
    <3>2. CASE reply[w] # "ok"
      <4>1. AwaitsOn(w, c) /\ s = Stmt("put", w, attempt[w]) /\ c = cur /\ cur # 0
        BY <1>4, <2>3, <3>2
      <4>2. s.op = "put" /\ s.row = Row(w)
        BY <4>1 DEF Stmt, Row
      <4>3. Awaits(w, s)
        BY <4>1, <4>2 DEF Awaits, AwaitsOn
      <4>4. open' = [open EXCEPT ![c] = @ \cup {s.row}]
        BY <1>0, <3>2, <4>2, <4>3 DEF Execute, Answer, WritesTypeOK
      <4> QED
        BY <1>0, <4>1, <4>2, <4>4 DEF WritesTypeOK
    <3> QED
      BY <3>1, <3>2
  <2>7. \A w \in Writes, d \in Conns : AwaitsOn(w, d)' /\ at'[w] = "commit" =>
          Row(w)' \in rows' \/ Row(w)' \in open'[d]
    <3> SUFFICES ASSUME NEW w \in Writes, NEW d \in Conns, AwaitsOn(w, d)', at[w] = "commit"
                 PROVE  Row(w) \in rows' \/ Row(w) \in open'[d]
      BY <1>0 DEF Row
    <3>1. Row(w) \in rows \/ Row(w) \in open[d]
      BY <1>6, <2>0 DEF Stored
    <3>2. d = c => s.op # "close"
      BY <1>1 DEF AwaitsOn
    <3> QED
      BY <2>5, <3>1, <3>2
  <2>8. \A w \in Writes : at'[w] = "done" \/ (at'[w] = "commit" /\ reply'[w] = "ok")
        => Row(w)' \in rows'
    <3> SUFFICES ASSUME NEW w \in Writes, at[w] = "done" \/ (at[w] = "commit" /\ reply'[w] = "ok")
                 PROVE  Row(w) \in rows'
      BY <1>0 DEF Row
    <3>1. CASE at[w] = "done" \/ reply[w] = "ok"
      BY <2>0, <2>5, <3>1 DEF Stored
    <3>2. CASE at[w] = "commit" /\ reply[w] # "ok"
      <4>1. AwaitsOn(w, c) /\ s = Stmt("commit", w, attempt[w])
        BY <1>4, <3>2
      <4>2. s.op = "commit"
        BY <4>1 DEF Stmt
      <4>3. Row(w) \in rows \/ Row(w) \in open[c]
        BY <2>0, <3>2, <4>1 DEF Stored
      <4> QED
        BY <2>5, <4>2, <4>3
    <3> QED
      BY <3>1, <3>2
  <2> QED
    BY <2>1, <2>2, <2>4, <2>6, <2>7, <2>8 DEF Waiting, Stored
<1> QED
  BY <1>0, <1>2, <1>3, <1>8 DEF AckInv

-----------------------------------------------------------------------------
(* The device's steps.                                                     *)

\* The calls that wait for a connection when it stalls are slow from then on.
LEMMA StallAck ==
  ASSUME GuardInv, AckInv, NEW c \in Conns, Stall(c)
  PROVE  AckInv'
<1>0. /\ WritesTypeOK /\ heals' = heals /\ cur' = cur /\ newest' = newest /\ queue' = queue
         /\ open' = open
      /\ rows' = rows /\ at' = at /\ attempt' = attempt /\ conn' = conn /\ reply' = reply
      /\ stall'[c] # "no" /\ \A d \in Conns : stall[d] # "no" => stall'[d] # "no"
      /\ slow' = slow \cup Awaited(c) /\ slow \subseteq Writes
  BY DEF Stall, GuardInv, WritesTypeOK
<1>1. \A d : Queue(d)' = Queue(d)
  BY <1>0, QueuesKept
<1>2. \A w \in Writes, d \in Conns : AwaitsOn(w, d)' <=> AwaitsOn(w, d)
  BY <1>0, <1>1 DEF AwaitsOn
<1>3. CloseIsLast' /\ SentOnce'
  BY <1>0, <1>1 DEF AckInv, CloseIsLast, SentOnce
<1>4. ASSUME heals # "any" PROVE Waiting' /\ Stored'
  <2>0. Waiting /\ Stored
    BY <1>4 DEF AckInv
  <2>1. \A w \in slow' : \E d \in Conns : stall'[d] # "no" /\ AwaitsOn(w, d)'
    <3> SUFFICES ASSUME NEW w \in slow' PROVE \E d \in Conns : stall'[d] # "no" /\ AwaitsOn(w, d)'
      OBVIOUS
    <3>1. CASE w \in slow
      BY <1>0, <1>2, <2>0, <3>1 DEF Waiting
    <3>2. CASE w \in Awaited(c)
      <4>1. w \in Writes
        BY <3>2 DEF Awaited
      <4> QED
        BY <1>0, <1>2, <3>2, <4>1, AwaitedIsAwaitsOn
    <3> QED
      BY <1>0, <3>1, <3>2
  <2>2. \A w \in Writes, d \in Conns : AwaitsOn(w, d)' /\ d # cur' => stall'[d] # "no"
    BY <1>0, <1>2, <2>0 DEF Waiting
  <2>3. \A v \in Writes : cur' # 0 /\ at'[v] = "stuck" /\ conn'[v] = cur' =>
          stall'[cur'] # "no" /\ \A w \in Writes : ~(at'[w] = "put" /\ reply'[w] = "ok")
    BY <1>0, <2>0, CurrentIsLast DEF Waiting
  <2>4. Stored'
    BY <1>0, <1>2, <2>0 DEF Stored, Row
  <2> QED
    BY <2>1, <2>2, <2>3, <2>4 DEF Waiting
<1> QED
  BY <1>0, <1>3, <1>4 DEF AckInv

\* A stall that outlasts its calls ends when none of them waits for it.
LEMMA UnstallAck ==
  ASSUME GuardInv, AckInv, NEW c \in Conns, Unstall(c)
  PROVE  AckInv'
<1>0. /\ WritesTypeOK /\ heals' = heals /\ cur' = cur /\ newest' = newest /\ queue' = queue
         /\ open' = open
      /\ rows' = rows /\ at' = at /\ attempt' = attempt /\ conn' = conn /\ reply' = reply
      /\ slow' = slow /\ \A d \in Conns \ {c} : stall'[d] = stall[d]
      /\ slow \subseteq Writes
  BY DEF Unstall, callVars, GuardInv, WritesTypeOK
<1>1. \A d : Queue(d)' = Queue(d)
  BY <1>0, QueuesKept
<1>2. \A w \in Writes, d \in Conns : AwaitsOn(w, d)' <=> AwaitsOn(w, d)
  BY <1>0, <1>1 DEF AwaitsOn
<1>3. CloseIsLast' /\ SentOnce'
  BY <1>0, <1>1 DEF AckInv, CloseIsLast, SentOnce
<1>4. ASSUME heals # "any" PROVE Waiting' /\ Stored'
  <2>0. Waiting /\ Stored
    BY <1>4 DEF AckInv
  <2>1. heals = "late"
    BY <1>0, <1>4, GuardedWritesAssumption DEF Unstall, WritesTypeOK
  <2>2. \A w \in Writes : ~AwaitsOn(w, c) /\ (conn[w] = c => at[w] # "stuck")
    BY <1>0, <2>1, AwaitedIsAwaitsOn DEF Unstall
  <2>3. \A w \in slow' : \E d \in Conns : stall'[d] # "no" /\ AwaitsOn(w, d)'
    <3> SUFFICES ASSUME NEW w \in slow PROVE \E d \in Conns : stall'[d] # "no" /\ AwaitsOn(w, d)'
      BY <1>0
    <3>1. PICK d \in Conns : stall[d] # "no" /\ AwaitsOn(w, d)
      BY <2>0 DEF Waiting
    <3>2. w \in Writes /\ d # c
      BY <1>0, <2>2, <3>1
    <3> QED
      BY <1>0, <1>2, <3>1, <3>2
  <2>4. \A w \in Writes, d \in Conns : AwaitsOn(w, d)' /\ d # cur' => stall'[d] # "no"
    BY <1>0, <1>2, <2>0, <2>2 DEF Waiting
  <2>5. \A v \in Writes : cur' # 0 /\ at'[v] = "stuck" /\ conn'[v] = cur' =>
          stall'[cur'] # "no" /\ \A w \in Writes : ~(at'[w] = "put" /\ reply'[w] = "ok")
    BY <1>0, <2>0, <2>2, CurrentIsLast DEF Waiting
  <2>6. Stored'
    BY <1>0, <1>2, <2>0 DEF Stored, Row
  <2> QED
    BY <2>3, <2>4, <2>5, <2>6 DEF Waiting
<1> QED
  BY <1>0, <1>3, <1>4 DEF AckInv

-----------------------------------------------------------------------------
(* The calls' steps, by what they do to the queues.                        *)

\* A call that is neither waiting for an answer nor between its statements waits
\* on nothing, and is not slow.
LEMMA NotWaiting ==
  ASSUME WritesTypeOK, Waiting, NEW w \in Writes, ~(at[w] \in Asks /\ reply[w] = "none")
  PROVE  w \notin slow
BY DEF Waiting, AwaitsOn

\* A call leaves the connection: it goes to a place where it awaits no statement.
Leaves(w, x) ==
  /\ x \in {"stuck", "again", "done", "failed"} /\ at' = [at EXCEPT ![w] = x]
  /\ heals' = heals /\ cur' = cur /\ newest' = newest /\ queue' = queue /\ stall' = stall
  /\ open' = open /\ rows' = rows /\ reply' = reply
  /\ slow' \subseteq slow
  /\ w \notin slow' \/ ~(at[w] \in Asks /\ reply[w] = "none")
  /\ \A v \in Writes \ {w} : attempt'[v] = attempt[v] /\ conn'[v] = conn[v]
  /\ at[w] # "idle" => conn'[w] = conn[w]
  /\ attempt'[w] \in Nat /\ attempt'[w] >= attempt[w]
  /\ x = "stuck" => at[w] # "idle" /\ (heals # "any" /\ cur # 0 /\ conn[w] = cur =>
       stall[cur] # "no" /\ \A v \in Writes : ~(at[v] = "put" /\ reply[v] = "ok"))
  /\ x = "done" => attempt'[w] = attempt[w] /\ (heals # "any" => Row(w) \in rows)

LEMMA LeavesAck ==
  ASSUME GuardInv, AckInv, NEW w \in Writes, NEW x, Leaves(w, x)
  PROVE  AckInv'
<1> USE DEF Leaves
<1>0. /\ WritesTypeOK /\ SentOnce /\ CloseIsLast /\ slow \subseteq Writes /\ at'[w] = x
      /\ \A v \in Writes \ {w} : at'[v] = at[v]
  BY DEF GuardInv, AckInv, WritesTypeOK
<1>1. \A d : Queue(d)' = Queue(d)
  BY QueuesKept
<1>2. \A v \in Writes \ {w}, d \in Conns : AwaitsOn(v, d)' <=> AwaitsOn(v, d)
  BY <1>0, <1>1 DEF AwaitsOn
<1>3. \A d \in Conns : ~AwaitsOn(w, d)'
  BY <1>0 DEF AwaitsOn, Asks
<1>4. CloseIsLast'
  BY <1>0 DEF CloseIsLast
<1>5. \A v \in Writes : attempt[v] \in {1, 2}
  BY <1>0 DEF WritesTypeOK
<1>6. SentOnce'
  <2> SUFFICES ASSUME NEW op \in Asks, NEW v \in Writes, NEW n \in {1, 2}, NEW c \in Conns,
                      Stmt(op, v, n) \in Queue(c)
               PROVE  /\ at'[v] # "idle" /\ n <= attempt'[v]
                      /\ op = "commit" /\ n = attempt'[v] => at'[v] # "put"
                      /\ n = 1 => conn'[v] <= c
                      /\ c <= newest
                      /\ \A d \in Conns : Stmt(op, v, n) \in Queue(d) => c = d
    BY <1>1 DEF SentOnce
  <2>1. /\ at[v] # "idle" /\ n <= attempt[v]
        /\ op = "commit" /\ n = attempt[v] => at[v] # "put"
        /\ n = 1 => conn[v] <= c
        /\ c <= newest
        /\ \A d \in Conns : Stmt(op, v, n) \in Queue(d) => c = d
    BY <1>0 DEF SentOnce
  <2>2. CASE v = w
    BY <1>0, <1>5, <2>1, <2>2
  <2>3. CASE v # w
    BY <1>0, <2>1, <2>3
  <2> QED
    BY <2>2, <2>3
<1>7. ASSUME heals # "any" PROVE Waiting' /\ Stored'
  <2>0. Waiting /\ Stored
    BY <1>7 DEF AckInv
  <2>1. w \notin slow'
    BY <1>0, <2>0, NotWaiting
  <2>2. \A v \in slow' : \E d \in Conns : stall'[d] # "no" /\ AwaitsOn(v, d)'
    BY <1>0, <1>2, <2>0, <2>1 DEF Waiting
  <2>3. \A v \in Writes, d \in Conns : AwaitsOn(v, d)' /\ d # cur' => stall'[d] # "no"
    BY <1>2, <1>3, <2>0 DEF Waiting
  <2>4. \A v \in Writes : cur' # 0 /\ at'[v] = "stuck" /\ conn'[v] = cur' =>
          stall'[cur'] # "no" /\ \A u \in Writes : ~(at'[u] = "put" /\ reply'[u] = "ok")
    <3> SUFFICES ASSUME NEW v \in Writes, cur # 0, at'[v] = "stuck", conn'[v] = cur,
            NEW u \in Writes
                 PROVE  stall[cur] # "no" /\ ~(at'[u] = "put" /\ reply[u] = "ok")
      OBVIOUS
    <3>1. stall[cur] # "no" /\ ~(at[u] = "put" /\ reply[u] = "ok")
      <4>1. CASE v = w
        BY <1>0, <1>7, <4>1
      <4>2. CASE v # w
        BY <1>0, <2>0, <4>2 DEF Waiting
      <4> QED
        BY <4>1, <4>2
    <3> QED
      BY <1>0, <3>1
  <2>5. \A v \in Writes : at'[v] = "put" /\ reply'[v] = "ok" =>
          Row(v)' \in rows' \/ (cur' # 0 /\ Row(v)' \in open'[cur'])
    BY <1>0, <2>0 DEF Stored, Row
  <2>6. \A v \in Writes, d \in Conns : AwaitsOn(v, d)' /\ at'[v] = "commit" =>
          Row(v)' \in rows' \/ Row(v)' \in open'[d]
    BY <1>0, <1>2, <1>3, <2>0 DEF Stored, Row
  <2>7. \A v \in Writes : at'[v] = "done" \/ (at'[v] = "commit" /\ reply'[v] = "ok") =>
          Row(v)' \in rows'
    <3> TAKE v \in Writes
    <3>1. CASE v = w
      BY <1>0, <1>7, <3>1 DEF Row
    <3>2. CASE v # w
      BY <1>0, <2>0, <3>2 DEF Stored, Row
    <3> QED
      BY <3>1, <3>2
  <2> QED
    BY <2>2, <2>3, <2>4, <2>5, <2>6, <2>7 DEF Waiting, Stored
<1> QED
  BY <1>4, <1>6, <1>7 DEF AckInv

\* A call sends its next statement to the connection in use.
SendsNext(w, op, n) ==
  /\ op \in Asks /\ n \in {1, 2} /\ cur # 0
  /\ queue' = [queue EXCEPT ![cur] = Append(@, Stmt(op, w, n))]
  /\ at' = [at EXCEPT ![w] = op] /\ reply' = [reply EXCEPT ![w] = "none"]
  /\ slow' = IF stall[cur] # "no" THEN slow \cup {w} ELSE slow
  /\ heals' = heals /\ cur' = cur /\ newest' = newest /\ stall' = stall /\ open' = open
     /\ rows' = rows
  /\ \A v \in Writes \ {w} : attempt'[v] = attempt[v] /\ conn'[v] = conn[v]
  /\ attempt'[w] = n /\ n >= attempt[w]
  /\ conn'[w] <= cur /\ (at[w] # "idle" => conn'[w] = conn[w])
  /\ ~(at[w] \in Asks /\ reply[w] = "none")
  /\ \A c \in Conns : Stmt(op, w, n) \notin Queue(c)
  /\ op = "put" => \A c \in Conns : Stmt("commit", w, n) \notin Queue(c)
  /\ op = "commit" /\ heals # "any" => <<w, n>> \in rows \/ <<w, n>> \in open[cur]

LEMMA SendsAck ==
  ASSUME GuardInv, AckInv, NEW w \in Writes, NEW op, NEW n, SendsNext(w, op, n)
  PROVE  AckInv'
<1> USE DEF SendsNext
<1> DEFINE s == Stmt(op, w, n)
<1>0. /\ WritesTypeOK /\ SentOnce /\ CloseIsLast /\ slow \subseteq Writes
      /\ at'[w] = op /\ reply'[w] = "none"
      /\ \A v \in Writes \ {w} : at'[v] = at[v] /\ reply'[v] = reply[v]
      /\ \A v \in Writes : attempt[v] \in {1, 2}
  BY DEF GuardInv, AckInv, WritesTypeOK
<1>1. cur \in Conns /\ cur = newest /\ cur \in Nat /\ Conns \subseteq Nat
  BY <1>0, CurrentIsLast
<1>2. s \in Queued /\ s.op = op /\ op \in {"put", "commit"}
  BY DEF Stmt, Queued, Ops, Rows, Asks
<1>3. /\ Queue(cur)' = Queue(cur) \cup {s}
      /\ \A c \in Conns \ {cur} : Queue(c)' = Queue(c)
      /\ Len(queue'[cur]) = Len(queue[cur]) + 1
      /\ \A i \in DOMAIN queue'[cur] :
           \/ i = Len(queue'[cur]) /\ queue'[cur][i] = s
           \/ i \in DOMAIN queue[cur] /\ queue'[cur][i] = queue[cur][i]
  BY <1>0, <1>1, <1>2, AppendToQueue
<1>4. \A c \in Conns \ {cur} : queue'[c] = queue[c]
  BY <1>0, <1>1, QueueType
<1>5. CloseIsLast'
  <2>1. \A i \in DOMAIN queue'[cur] : queue'[cur][i].op # "close"
    BY <1>0, <1>1, <1>2, <1>3 DEF CloseIsLast
  <2> QED
    BY <1>0, <1>4, <2>1 DEF CloseIsLast
<1>6. \A c \in Conns : \A r : r \in Queue(c)' <=> r \in Queue(c) \/ (c = cur /\ r = s)
  BY <1>3
<1>7. SentOnce'
  <2> SUFFICES ASSUME NEW o \in Asks, NEW v \in Writes, NEW m \in {1, 2}, NEW c \in Conns,
                      Stmt(o, v, m) \in Queue(c)'
               PROVE  /\ at'[v] # "idle" /\ m <= attempt'[v]
                      /\ o = "commit" /\ m = attempt'[v] => at'[v] # "put"
                      /\ m = 1 => conn'[v] <= c
                      /\ c <= newest
                      /\ \A d \in Conns : Stmt(o, v, m) \in Queue(d)' => c = d
    BY DEF SentOnce
  <2>1. CASE o = op /\ v = w /\ m = n
    <3>1. Stmt(o, v, m) \notin Queue(c) /\ \A d \in Conns : Stmt(o, v, m) \notin Queue(d)
      BY <2>1
    <3>2. c = cur /\ \A d \in Conns : Stmt(o, v, m) \in Queue(d)' => d = cur
      BY <1>6, <3>1, Zenon
    <3> QED
      BY <1>0, <1>1, <1>2, <2>1, <3>2
  <2>2. CASE ~(o = op /\ v = w /\ m = n)
    <3>0. Stmt(o, v, m) # s
      BY <2>2, StmtsDiffer
    <3>1. /\ Stmt(o, v, m) \in Queue(c)
          /\ \A d \in Conns : Stmt(o, v, m) \in Queue(d)' => Stmt(o, v, m) \in Queue(d)
      BY <1>6, <3>0, Zenon
    <3>2. /\ at[v] # "idle" /\ m <= attempt[v]
          /\ o = "commit" /\ m = attempt[v] => at[v] # "put"
          /\ m = 1 => conn[v] <= c
          /\ c <= newest
          /\ \A d \in Conns : Stmt(o, v, m) \in Queue(d) => c = d
      BY <1>0, <3>1 DEF SentOnce
    <3>3. CASE v # w
      BY <1>0, <3>1, <3>2, <3>3
    <3>4. CASE v = w
      <4>1. at'[v] # "idle" /\ m <= attempt'[v] /\ (m = 1 => conn'[v] <= c)
        BY <1>0, <1>2, <3>2, <3>4
      <4>2. o = "commit" /\ m = attempt'[v] => at'[v] # "put"
        BY <1>0, <1>2, <3>1, <3>4
      <4> QED
        BY <3>1, <3>2, <4>1, <4>2
    <3> QED
      BY <3>3, <3>4
  <2> QED
    BY <2>1, <2>2
<1>8. \A v \in Writes \ {w}, d \in Conns : AwaitsOn(v, d)' <=> AwaitsOn(v, d)
  <2> TAKE v \in Writes \ {w}, d \in Conns
  <2>1. Stmt(at[v], v, attempt[v]) # s
    BY StmtsDiffer
  <2>2. \A r : r # s => (r \in Queue(d)' <=> r \in Queue(d))
    BY <1>6
  <2> QED
    BY <1>0, <2>1, <2>2 DEF AwaitsOn
<1>9. \A d \in Conns : AwaitsOn(w, d)' <=> d = cur
  BY <1>0, <1>3, <1>6 DEF AwaitsOn
<1>10. ASSUME heals # "any" PROVE Waiting' /\ Stored'
  <2>0. Waiting /\ Stored
    BY <1>10 DEF AckInv
  <2>1. w \notin slow
    BY <1>0, <2>0, NotWaiting
  <2>2. \A v \in slow' : \E d \in Conns : stall'[d] # "no" /\ AwaitsOn(v, d)'
    <3> SUFFICES ASSUME NEW v \in slow' PROVE \E d \in Conns : stall'[d] # "no" /\ AwaitsOn(v, d)'
      OBVIOUS
    <3>1. CASE v \in slow
      BY <1>0, <1>8, <2>0, <2>1, <3>1 DEF Waiting
    <3>2. CASE v = w /\ stall[cur] # "no"
      BY <1>1, <1>9, <3>2
    <3> QED
      BY <2>1, <3>1, <3>2
  <2>3. \A v \in Writes, d \in Conns : AwaitsOn(v, d)' /\ d # cur' => stall'[d] # "no"
    BY <1>8, <1>9, <2>0 DEF Waiting
  <2>4. \A v \in Writes : cur' # 0 /\ at'[v] = "stuck" /\ conn'[v] = cur' =>
          stall'[cur'] # "no" /\ \A u \in Writes : ~(at'[u] = "put" /\ reply'[u] = "ok")
    <3> SUFFICES ASSUME NEW v \in Writes, at'[v] = "stuck", conn'[v] = cur, NEW u \in Writes
                 PROVE  stall[cur] # "no" /\ ~(at'[u] = "put" /\ reply'[u] = "ok")
      OBVIOUS
    <3>1. v # w /\ at[v] = "stuck" /\ conn[v] = cur
      BY <1>0, <1>2
    <3>2. stall[cur] # "no" /\ ~(at[u] = "put" /\ reply[u] = "ok")
      BY <2>0, <3>1 DEF Waiting
    <3> QED
      BY <1>0, <3>2
  <2>5. \A v \in Writes : at'[v] = "put" /\ reply'[v] = "ok" =>
          Row(v)' \in rows' \/ (cur' # 0 /\ Row(v)' \in open'[cur'])
    BY <1>0, <2>0 DEF Stored, Row
  <2>6. \A v \in Writes, d \in Conns : AwaitsOn(v, d)' /\ at'[v] = "commit" =>
          Row(v)' \in rows' \/ Row(v)' \in open'[d]
    <3> SUFFICES ASSUME NEW v \in Writes, NEW d \in Conns, AwaitsOn(v, d)', at'[v] = "commit"
                 PROVE  Row(v)' \in rows \/ Row(v)' \in open[d]
      OBVIOUS
    <3>1. CASE v = w
      <4>1. op = "commit" /\ d = cur /\ Row(v)' = <<w, n>>
        BY <1>0, <1>9, <3>1 DEF Row
      <4> QED
        BY <1>10, <4>1
    <3>2. CASE v # w
      BY <1>0, <1>8, <2>0, <3>2 DEF Stored, Row
    <3> QED
      BY <3>1, <3>2
  <2>7. \A v \in Writes : at'[v] = "done" \/ (at'[v] = "commit" /\ reply'[v] = "ok") =>
          Row(v)' \in rows'
    <3> TAKE v \in Writes
    <3>1. CASE v = w
      BY <1>0, <1>2, <3>1
    <3>2. CASE v # w
      BY <1>0, <2>0, <3>2 DEF Stored, Row
    <3> QED
      BY <3>1, <3>2
  <2> QED
    BY <2>2, <2>3, <2>4, <2>5, <2>6, <2>7 DEF Waiting, Stored
<1> QED
  BY <1>5, <1>7, <1>10 DEF AckInv

-----------------------------------------------------------------------------
(* The calls' steps.                                                       *)

\* A call that has not sent a statement has none queued.
LEMMA CallAck ==
  ASSUME GuardInv, AckInv, NEW w \in Writes, Call(w)
  PROVE  AckInv'
<1>0. /\ WritesTypeOK /\ SentOnce /\ at[w] = "idle" /\ attempt[w] = 1 /\ attempt' = attempt
      /\ conn' = [conn EXCEPT ![w] = cur]
      /\ heals' = heals /\ cur' = cur /\ newest' = newest /\ stall' = stall /\ open' = open
         /\ rows' = rows
  BY DEF Call, GuardInv, AckInv, CallInv
<1>1. conn'[w] = cur /\ \A v \in Writes \ {w} : attempt'[v] = attempt[v] /\ conn'[v] = conn[v]
  BY <1>0 DEF WritesTypeOK
<1>2. CASE cur # 0 /\ Sends(w, "put")
  <2>1. Statement("put", w) = Stmt("put", w, 1)
    BY <1>0 DEF Statement, Row, Stmt
  <2>2. \A op \in Asks, c \in Conns : Stmt(op, w, 1) \notin Queue(c)
    BY <1>0 DEF SentOnce
  <2>3. cur \in Nat /\ "put" \in Asks /\ "commit" \in Asks /\ at[w] \notin Asks
    BY <1>0, <1>2, CurrentIsLast DEF Asks
  <2>5. /\ attempt'[w] = 1 /\ 1 >= attempt[w] /\ conn'[w] <= cur
        /\ \A c \in Conns : Stmt("put", w, 1) \notin Queue(c)
           /\ Stmt("commit", w, 1) \notin Queue(c)
    BY <1>0, <1>1, <2>2, <2>3
  <2>6. /\ queue' = [queue EXCEPT ![cur] = Append(@, Stmt("put", w, 1))]
        /\ at' = [at EXCEPT ![w] = "put"] /\ reply' = [reply EXCEPT ![w] = "none"]
        /\ slow' = IF stall[cur] # "no" THEN slow \cup {w} ELSE slow
    BY <1>2, <2>1 DEF Sends
  <2>4. SendsNext(w, "put", 1)
    BY <1>0, <1>1, <1>2, <2>3, <2>5, <2>6 DEF SendsNext
  <2> QED
    BY <2>4, SendsAck
<1>3. CASE cur = 0 /\ Ends(w, "failed") /\ UNCHANGED <<queue, reply, slow>>
  <2>1. at[w] \notin Asks
    BY <1>0 DEF Asks
  <2>2. Leaves(w, "failed")
    BY <1>0, <1>1, <1>3, <2>1 DEF Ends, Leaves
  <2> QED
    BY <2>2, LeavesAck
<1> QED
  BY <1>2, <1>3 DEF Call, SendsOrRaises

\* The commit of a row goes where the row is.
LEMMA CommitsAck ==
  ASSUME GuardInv, AckInv, NEW w \in Writes, Commits(w)
  PROVE  AckInv'
<1>0. /\ WritesTypeOK /\ SentOnce /\ at[w] = "put" /\ reply[w] = "ok"
      /\ attempt' = attempt /\ conn' = conn /\ attempt[w] \in {1, 2}
      /\ heals' = heals /\ cur' = cur /\ newest' = newest /\ stall' = stall /\ open' = open
         /\ rows' = rows
  BY DEF Commits, GuardInv, AckInv, WritesTypeOK
<1>2. CASE cur # 0 /\ Sends(w, "commit")
  <2>1. Statement("commit", w) = Stmt("commit", w, attempt[w])
    BY <1>0 DEF Statement, Row, Stmt
  <2>2. \A c \in Conns : Stmt("commit", w, attempt[w]) \notin Queue(c)
    BY <1>0 DEF SentOnce, Asks
  <2>3. conn[w] <= cur
    BY <1>0, <1>2, CurrentIsLast DEF GuardInv, CallInv
  <2>4. heals # "any" => <<w, attempt[w]>> \in rows \/ <<w, attempt[w]>> \in open[cur]
    BY <1>0, <1>2 DEF AckInv, Stored, Row
  <2>5. "commit" \in Asks /\ attempt'[w] = attempt[w] /\ conn'[w] = conn[w]
    BY <1>0 DEF Asks
  <2>6. attempt[w] >= attempt[w] /\ ~(at[w] \in Asks /\ reply[w] = "none")
    BY <1>0
  <2>7. \A v \in Writes \ {w} : attempt'[v] = attempt[v] /\ conn'[v] = conn[v]
    BY <1>0
  <2>8. SendsNext(w, "commit", attempt[w])
    BY <1>0, <1>2, <2>1, <2>2, <2>3, <2>4, <2>5, <2>6, <2>7 DEF Sends, SendsNext
  <2> QED
    BY <2>8, SendsAck
<1>3. CASE cur = 0 /\ Ends(w, "failed") /\ UNCHANGED <<queue, reply, slow>>
  <2>1. Leaves(w, "failed")
    BY <1>0, <1>3 DEF Ends, Leaves
  <2> QED
    BY <2>1, LeavesAck
<1> QED
  BY <1>2, <1>3 DEF Commits, SendsOrRaises

\* The retry's statements are not those of the first attempt.
LEMMA RetryAck ==
  ASSUME GuardInv, AckInv, NEW w \in Writes, Retry(w)
  PROVE  AckInv'
<1>0. /\ WritesTypeOK /\ SentOnce /\ at[w] = "again" /\ attempt[w] = 1 /\ conn' = conn
      /\ heals' = heals /\ cur' = cur /\ newest' = newest /\ stall' = stall /\ open' = open
         /\ rows' = rows
  BY DEF Retry, GuardInv, AckInv, CallInv
<1>1. attempt'[w] = 2 /\ \A v \in Writes \ {w} : attempt'[v] = attempt[v] /\ conn'[v] = conn[v]
  BY <1>0 DEF WritesTypeOK, Retry
<1>2. at[w] \notin Asks
  BY <1>0 DEF Asks
<1>3. CASE cur # 0
  <2>1. \A op \in Asks, c \in Conns : Stmt(op, w, 2) \notin Queue(c)
    BY <1>0 DEF SentOnce
  <2>2. conn[w] <= cur /\ conn'[w] = conn[w]
    BY <1>0, <1>3, CurrentIsLast DEF GuardInv, CallInv
  <2>3. /\ queue' = [queue EXCEPT ![cur] = Append(@, Stmt("put", w, 2))]
        /\ at' = [at EXCEPT ![w] = "put"] /\ reply' = [reply EXCEPT ![w] = "none"]
        /\ slow' = IF stall[cur] # "no" THEN slow \cup {w} ELSE slow
    BY <1>3 DEF Retry, Stmt
  <2>4. "put" \in Asks /\ "commit" \in Asks
    BY DEF Asks
  <2>5. SendsNext(w, "put", 2)
    BY <1>0, <1>1, <1>2, <1>3, <2>1, <2>2, <2>3, <2>4 DEF SendsNext
  <2> QED
    BY <2>5, SendsAck
<1>4. CASE cur = 0
  <2>1. at' = [at EXCEPT ![w] = "failed"] /\ UNCHANGED <<queue, reply, slow>>
    BY <1>4 DEF Retry, Ends
  <2>2. Leaves(w, "failed")
    BY <1>0, <1>1, <1>2, <2>1 DEF Leaves
  <2> QED
    BY <2>2, LeavesAck
<1> QED
  BY <1>3, <1>4

\* A call that returns had its commit answered.
LEMMA EndsAck ==
  ASSUME GuardInv, AckInv, NEW w \in Writes, Returns(w) \/ Raises(w)
  PROVE  AckInv'
<1>0. /\ WritesTypeOK /\ reply[w] # "none" /\ attempt[w] \in {1, 2}
      /\ heals' = heals /\ cur' = cur /\ newest' = newest /\ queue' = queue /\ stall' = stall
      /\ open' = open /\ rows' = rows /\ reply' = reply /\ slow' = slow
      /\ attempt' = attempt /\ conn' = conn
  BY DEF Returns, Raises, GuardInv, WritesTypeOK, connVars
<1>1. CASE Returns(w)
  <2>1. heals # "any" => Row(w) \in rows
    BY <1>1 DEF Returns, AckInv, Stored
  <2>2. at' = [at EXCEPT ![w] = "done"]
    BY <1>1 DEF Returns, Ends
  <2>3. Leaves(w, "done")
    BY <1>0, <2>1, <2>2 DEF Leaves
  <2> QED
    BY <2>3, LeavesAck
<1>2. CASE Raises(w)
  <2>1. at' = [at EXCEPT ![w] = "failed"]
    BY <1>2 DEF Raises, Ends
  <2>2. Leaves(w, "failed")
    BY <1>0, <2>1 DEF Leaves
  <2> QED
    BY <2>2, LeavesAck
<1> QED
  BY <1>1, <1>2

\* A first attempt on the connection in use is given up because that connection is
\* stalled, and when no other call has an answer to act on.
LEMMA TimesOutAck ==
  ASSUME GuardInv, AckInv, NEW w \in Writes, TimesOut(w)
  PROVE  AckInv'
<1>0. /\ WritesTypeOK /\ SentOnce /\ attempt[w] \in {1, 2} /\ at[w] # "idle" /\ w \in slow
         /\ Ready \subseteq {w}
      /\ heals' = heals /\ cur' = cur /\ newest' = newest /\ queue' = queue /\ stall' = stall
      /\ open' = open /\ rows' = rows /\ reply' = reply /\ slow' = slow \ {w}
      /\ attempt' = attempt /\ conn' = conn
  BY DEF TimesOut, GuardInv, AckInv, WritesTypeOK, connVars
<1>1. CASE attempt[w] = 1
  <2>1. at' = [at EXCEPT ![w] = "stuck"]
    BY <1>1 DEF TimesOut, Ends
  <2>2. ASSUME heals # "any", cur # 0, conn[w] = cur
        PROVE  stall[cur] # "no" /\ \A v \in Writes : ~(at[v] = "put" /\ reply[v] = "ok")
    <3>1. PICK c \in Conns : stall[c] # "no" /\ AwaitsOn(w, c)
      BY <1>0, <2>2 DEF AckInv, Waiting
    <3>2. conn[w] <= c /\ c <= newest
      BY <1>0, <1>1, <3>1 DEF AwaitsOn, SentOnce
    <3>3. c = cur
      BY <1>0, <2>2, <3>2, CurrentIsLast
    <3>4. \A v \in Writes : ~(at[v] = "put" /\ reply[v] = "ok")
      BY <1>0, <3>1 DEF Ready, AwaitsOn
    <3> QED
      BY <3>1, <3>3, <3>4
  <2>3. Leaves(w, "stuck")
    BY <1>0, <2>1, <2>2 DEF Leaves
  <2> QED
    BY <2>3, LeavesAck
<1>2. CASE attempt[w] # 1
  <2>1. at' = [at EXCEPT ![w] = "failed"]
    BY <1>2 DEF TimesOut, Ends
  <2>2. Leaves(w, "failed")
    BY <1>0, <2>1 DEF Leaves
  <2> QED
    BY <2>2, LeavesAck
<1> QED
  BY <1>1, <1>2

\* A connection is abandoned when every call on it is held up by its stall: what
\* goes on later goes on with the next connection.
LEMMA ReconnectAck ==
  ASSUME GuardInv, AckInv, NEW w \in Writes, Reconnect(w)
  PROVE  AckInv'
<1>0. /\ WritesTypeOK /\ SentOnce /\ CloseIsLast /\ at[w] = "stuck" /\ attempt[w] \in {1, 2}
         /\ conn[w] # 0
      /\ slow \subseteq Writes
  BY DEF Reconnect, GuardInv, AckInv, WritesTypeOK, CallInv, Active
<1>1. CASE cur # conn[w]
  <2>1. Leaves(w, "again")
    BY <1>0, <1>1 DEF Reconnect, Ends, connVars, Leaves, Asks
  <2> QED
    BY <2>1, LeavesAck
<1>2. CASE cur = conn[w]
  <2> DEFINE s == Statement("close", w)
  <2>1. /\ cur \in Conns /\ cur = newest /\ cur # 0 /\ Conns \subseteq Nat \ {0}
        /\ s \in Queued /\ s.op = "close" /\ cur' = 0
        /\ queue' = [queue EXCEPT ![cur] = Append(@, s)]
        /\ at' = [at EXCEPT ![w] = "opening"]
        /\ heals' = heals /\ newest' = newest /\ stall' = stall /\ open' = open /\ rows' = rows
        /\ attempt' = attempt /\ conn' = conn /\ reply' = reply /\ slow' = slow
    BY <1>0, <1>2, CurrentIsLast, StatementType DEF Reconnect, Abandon, Ops
  <2>0. PICK k \in Conns : k = cur
    BY <2>1
  <2>2. /\ Queue(k)' = Queue(k) \cup {s}
        /\ \A c \in Conns \ {k} : Queue(c)' = Queue(c)
        /\ \A i \in DOMAIN queue'[k] :
             \/ i = Len(queue'[k]) /\ queue'[k][i] = s
             \/ i \in DOMAIN queue[k] /\ queue'[k][i] = queue[k][i]
    <3>1. s \in Queued /\ queue' = [queue EXCEPT ![k] = Append(@, s)]
      BY <2>0, <2>1
    <3> QED
      BY <1>0, <3>1, AppendToQueue
  <2>3. \A c \in Conns \ {k} : queue'[c] = queue[c]
    BY <1>0, <2>0, <2>1, QueueType
  <2>4. at'[w] = "opening" /\ \A v \in Writes \ {w} : at'[v] = at[v]
    BY <1>0, <2>1 DEF WritesTypeOK
  <2>5. CloseIsLast'
    <3>1. \A i \in DOMAIN queue'[k] : queue'[k][i].op = "close" => k # cur' /\ i = Len(queue'[k])
      BY <1>0, <2>0, <2>1, <2>2 DEF CloseIsLast
    <3>2. \A c \in Conns \ {k} : \A i \in DOMAIN queue'[c] :
            queue'[c][i].op = "close" => c # cur' /\ i = Len(queue'[c])
      BY <1>0, <2>0, <2>1, <2>3 DEF CloseIsLast
    <3> QED
      BY <3>1, <3>2 DEF CloseIsLast
  <2>6. \A op \in Asks : \A v, n : \A c \in Conns :
          Stmt(op, v, n) \in Queue(c)' <=> Stmt(op, v, n) \in Queue(c)
    <3> TAKE op \in Asks
    <3> TAKE v, n
    <3>1. Stmt(op, v, n).op # s.op
      BY <2>1 DEF Stmt, Asks
    <3>2. Stmt(op, v, n) # s
      BY <3>1
    <3>3. \A c \in Conns : \A r : r \in Queue(c)' <=> r \in Queue(c) \/ (c = k /\ r = s)
      BY <2>2
    <3> QED
      BY <3>2, <3>3
  <2>7. SentOnce'
    <3> SUFFICES ASSUME NEW op \in Asks, NEW v \in Writes, NEW n \in {1, 2}, NEW c \in Conns,
                        Stmt(op, v, n) \in Queue(c)'
                 PROVE  /\ at'[v] # "idle" /\ n <= attempt'[v]
                        /\ op = "commit" /\ n = attempt'[v] => at'[v] # "put"
                        /\ n = 1 => conn'[v] <= c
                        /\ c <= newest'
                        /\ \A d \in Conns : Stmt(op, v, n) \in Queue(d)' => c = d
      BY DEF SentOnce
    <3>1. /\ Stmt(op, v, n) \in Queue(c)
          /\ \A d \in Conns : Stmt(op, v, n) \in Queue(d)' => Stmt(op, v, n) \in Queue(d)
      BY <2>6, Zenon
    <3>2. /\ at[v] # "idle" /\ n <= attempt[v]
          /\ op = "commit" /\ n = attempt[v] => at[v] # "put"
          /\ n = 1 => conn[v] <= c
          /\ c <= newest
          /\ \A d \in Conns : Stmt(op, v, n) \in Queue(d) => c = d
      BY <1>0, <3>1 DEF SentOnce
    <3>3. at'[v] # "idle" /\ (at'[v] = "put" => at[v] = "put")
      BY <2>4, <3>2
    <3> QED
      BY <2>1, <3>1, <3>2, <3>3
  <2>8. \A v \in Writes, d \in Conns :
          AwaitsOn(v, d)' <=> AwaitsOn(v, d)
    <3> TAKE v \in Writes, d \in Conns
    <3>1. CASE v = w
      BY <1>0, <2>4, <3>1 DEF AwaitsOn, Asks
    <3>2. CASE v # w
      <4>1. at'[v] = at[v] /\ attempt'[v] = attempt[v] /\ reply'[v] = reply[v]
        BY <2>1, <2>4, <3>2
      <4>2. at[v] \in Asks => (Stmt(at[v], v, attempt[v]) \in Queue(d)'
            <=> Stmt(at[v], v, attempt[v]) \in Queue(d))
        BY <2>6, Zenon
      <4> QED
        BY <4>1, <4>2 DEF AwaitsOn
    <3> QED
      BY <3>1, <3>2
  <2>9. ASSUME heals # "any" PROVE Waiting' /\ Stored'
    <3>0. Waiting /\ Stored
      BY <2>9 DEF AckInv
    <3>1. stall[cur] # "no" /\ \A v \in Writes : ~(at[v] = "put" /\ reply[v] = "ok")
      BY <1>0, <1>2, <2>1, <3>0 DEF Waiting
    <3>2. \A v \in slow' : \E d \in Conns : stall'[d] # "no" /\ AwaitsOn(v, d)'
      BY <1>0, <2>1, <2>8, <3>0 DEF Waiting
    <3>3. \A v \in Writes, d \in Conns : AwaitsOn(v, d)' /\ d # cur' => stall'[d] # "no"
      BY <2>1, <2>8, <3>0, <3>1 DEF Waiting
    <3>4. \A v \in Writes : ~(at'[v] = "put" /\ reply'[v] = "ok")
      BY <2>1, <2>4, <3>1
    <3>5. \A v \in Writes, d \in Conns : AwaitsOn(v, d)' /\ at'[v] = "commit" =>
            Row(v)' \in rows' \/ Row(v)' \in open'[d]
      BY <2>1, <2>4, <2>8, <3>0 DEF Stored, Row
    <3>6. \A v \in Writes : at'[v] = "done" \/ (at'[v] = "commit" /\ reply'[v] = "ok") =>
            Row(v)' \in rows'
      BY <2>1, <2>4, <3>0 DEF Stored, Row
    <3> QED
      BY <2>1, <3>2, <3>3, <3>4, <3>5, <3>6 DEF Waiting, Stored
  <2> QED
    BY <2>1, <2>5, <2>7, <2>9 DEF AckInv
<1> QED
  BY <1>1, <1>2

\* The new connection has a queue of its own: nobody waits on it yet.
LEMMA OpenedAck ==
  ASSUME GuardInv, AckInv, NEW w \in Writes, Opened(w)
  PROVE  AckInv'
<1>0. /\ WritesTypeOK /\ SentOnce /\ CloseIsLast /\ at[w] = "opening" /\ w \in Opening /\ cur = 0
      /\ newest' = newest + 1 /\ cur' = newest + 1 /\ newest \in Nat /\ Conns \subseteq Nat \ {0}
      /\ heals' = heals /\ queue' = queue /\ stall' = stall /\ open' = open /\ rows' = rows
      /\ attempt' = attempt /\ conn' = conn /\ reply' = reply /\ slow' = slow
         /\ slow \subseteq Writes
      /\ at'[w] = "again" /\ \A v \in Writes \ {w} : at'[v] = at[v]
  BY CurrentIsLast DEF Opened, Opening, GuardInv, AckInv, WritesTypeOK, OpeningInv
<1>1. \A d : Queue(d)' = Queue(d)
  BY <1>0, QueuesKept
<1>2. \A v \in Writes, d \in Conns : AwaitsOn(v, d)' <=> AwaitsOn(v, d)
  BY <1>0, <1>1 DEF AwaitsOn, Asks
<1>3. CloseIsLast'
  <2>1. \A c \in Conns : \A i \in DOMAIN queue[c] : c <= newest
    BY DEF GuardInv, QueueInv
  <2>2. \A c \in Conns : \A i \in DOMAIN queue[c] : c # cur'
    BY <1>0, <2>1
  <2>3. \A c \in Conns : \A i \in DOMAIN queue[c] :
          queue[c][i].op = "close" => c # cur' /\ i = Len(queue[c])
    BY <1>0, <2>2 DEF CloseIsLast
  <2> QED
    BY <1>0, <2>3 DEF CloseIsLast
<1>4. SentOnce'
  <2> SUFFICES ASSUME NEW op \in Asks, NEW v \in Writes, NEW n \in {1, 2}, NEW c \in Conns,
                      Stmt(op, v, n) \in Queue(c)
               PROVE  /\ at'[v] # "idle" /\ n <= attempt[v]
                      /\ op = "commit" /\ n = attempt[v] => at'[v] # "put"
                      /\ n = 1 => conn[v] <= c
                      /\ c <= newest'
                      /\ \A d \in Conns : Stmt(op, v, n) \in Queue(d) => c = d
    BY <1>0, <1>1 DEF SentOnce
  <2>1. /\ at[v] # "idle" /\ n <= attempt[v]
        /\ op = "commit" /\ n = attempt[v] => at[v] # "put"
        /\ n = 1 => conn[v] <= c
        /\ c <= newest
        /\ \A d \in Conns : Stmt(op, v, n) \in Queue(d) => c = d
    BY <1>0 DEF SentOnce
  <2>2. at'[v] # "idle" /\ (at'[v] = "put" => at[v] = "put")
    BY <1>0, <2>1
  <2> QED
    BY <1>0, <2>1, <2>2
<1>5. ASSUME heals # "any" PROVE Waiting' /\ Stored'
  <2>0. Waiting /\ Stored
    BY <1>5 DEF AckInv
  <2>1. \A v \in slow' : \E d \in Conns : stall'[d] # "no" /\ AwaitsOn(v, d)'
    BY <1>0, <1>2, <2>0 DEF Waiting
  <2>2. \A v \in Writes, d \in Conns : AwaitsOn(v, d)' => stall'[d] # "no"
    BY <1>0, <1>2, <2>0 DEF Waiting
  <2>3. \A v \in Writes : conn'[v] # cur'
    <3> TAKE v \in Writes
    <3>1. conn[v] \in Nat /\ conn[v] <= newest
      BY <1>0, CurrentIsLast DEF GuardInv, CallInv
    <3>2. conn'[v] = conn[v]
      BY <1>0
    <3> QED
      BY <1>0, <3>1, <3>2
  <2>4. \A v \in Writes : at'[v] = "put" /\ reply'[v] = "ok" =>
          Row(v)' \in rows' \/ (cur' # 0 /\ Row(v)' \in open'[cur'])
    BY <1>0, <2>0 DEF Stored, Row
  <2>5. \A v \in Writes, d \in Conns : AwaitsOn(v, d)' /\ at'[v] = "commit" =>
          Row(v)' \in rows' \/ Row(v)' \in open'[d]
    BY <1>0, <1>2, <2>0 DEF Stored, Row
  <2>6. \A v \in Writes : at'[v] = "done" \/ (at'[v] = "commit" /\ reply'[v] = "ok") =>
          Row(v)' \in rows'
    BY <1>0, <2>0 DEF Stored, Row
  <2> QED
    BY <2>1, <2>2, <2>3, <2>4, <2>5, <2>6 DEF Waiting, Stored
<1> QED
  BY <1>0, <1>3, <1>4, <1>5 DEF AckInv

LEMMA OpenFailsAck ==
  ASSUME GuardInv, AckInv, NEW w \in Writes, OpenFails(w)
  PROVE  AckInv'
<1>0. WritesTypeOK /\ at[w] = "opening" /\ attempt[w] \in {1, 2}
  BY DEF GuardInv, WritesTypeOK, OpenFails
<1>1. Leaves(w, "failed")
  BY <1>0 DEF OpenFails, Ends, connVars, Leaves, Asks
<1> QED
  BY <1>1, LeavesAck

-----------------------------------------------------------------------------
(* The theorem.                                                            *)

\* Initially nothing is queued.
LEMMA InitAck == WritesInit => AckInv
<1> SUFFICES ASSUME WritesInit PROVE AckInv
  OBVIOUS
<1>1. \A c \in Conns : Queue(c) = {} /\ DOMAIN queue[c] = {}
  BY DEF WritesInit, Queue
<1>2. CloseIsLast /\ SentOnce
  BY <1>1 DEF CloseIsLast, SentOnce
<1>3. Waiting /\ Stored
  BY <1>1 DEF WritesInit, Waiting, Stored, AwaitsOn
<1> QED
  BY <1>2, <1>3 DEF AckInv

\* Every step keeps the invariant.
LEMMA NextAck == GuardInv /\ AckInv /\ [WritesNext]_writesVars => AckInv'
<1> SUFFICES ASSUME GuardInv, AckInv, [WritesNext]_writesVars
             PROVE  AckInv'
  OBVIOUS
<1>1. CASE UNCHANGED writesVars
  <2>1. \A d : Queue(d)' = Queue(d)
    BY <1>1, QueuesKept DEF writesVars, connVars
  <2>2. \A w \in Writes, d \in Conns : AwaitsOn(w, d)' <=> AwaitsOn(w, d)
    BY <1>1, <2>1 DEF AwaitsOn, writesVars, connVars, callVars
  <2>3. CloseIsLast' /\ SentOnce'
    BY <1>1, <2>1 DEF AckInv, CloseIsLast, SentOnce, writesVars, connVars, callVars
  <2>4. ASSUME heals # "any" PROVE Waiting' /\ Stored'
    <3>1. Waiting /\ Stored /\ slow \subseteq Writes
      BY <2>4 DEF AckInv, GuardInv, WritesTypeOK
    <3>2. Waiting'
      BY <1>1, <2>2, <3>1 DEF Waiting, writesVars, connVars, callVars
    <3>3. Stored'
      BY <1>1, <2>2, <3>1 DEF Stored, Row, writesVars, connVars, callVars
    <3> QED
      BY <3>2, <3>3
  <2> QED
    BY <1>1, <2>3, <2>4 DEF AckInv, writesVars
<1> QED
  BY <1>1, ExecuteAck, StallAck, UnstallAck, CallAck, CommitsAck, EndsAck, TimesOutAck,
     ReconnectAck, OpenedAck, OpenFailsAck, RetryAck
  DEF WritesNext, Task

\* A write whose caller was told that it succeeded is in the table, for any number
\* of writes and of connections that stall, with or without the write lock, when
\* the stalls outlast the calls that wait for them: the reconnect never separates
\* a row from its commit.
THEOREM AcknowledgedIsStored == WritesSpec => []ReturnedIsStored
<1>1. WritesInit => GuardInv /\ AckInv
  BY InitGuard, InitAck
<1>2. GuardInv /\ AckInv /\ [WritesNext]_writesVars => (GuardInv /\ AckInv)'
  BY NextGuard, NextAck
<1>3. GuardInv /\ AckInv => ReturnedIsStored
  <2> SUFFICES ASSUME GuardInv, AckInv, heals # "any", NEW w \in Writes, at[w] = "done"
               PROVE  \E n \in {1, 2} : <<w, n>> \in rows
    BY DEF ReturnedIsStored
  <2>1. Row(w) \in rows
    BY DEF AckInv, Stored
  <2> QED
    BY <2>1 DEF Row, GuardInv, WritesTypeOK
<1> QED
  BY <1>1, <1>2, <1>3, PTL DEF WritesSpec

-----------------------------------------------------------------------------
(* Bytes of sets of captures.                                              *)

\* Bytes over any entries, and one capture's part of them.
BytesOf(f, S) == IqSize * Cardinality(S) + SidecarSize * Cardinality({c \in S : f[c].size # IqSize})

Part(f, S, c) == IF c \in S THEN f[c].size ELSE 0

Sizes == {IqSize, IqSize + SidecarSize}

\* A non-empty set of numbers has a least one.
LEMMA OldestIs ==
  ASSUME NEW S \in SUBSET Nat, S # {}
  PROVE  Oldest(S) \in S /\ \A d \in S : Oldest(S) <= d
PROOF
  <1>1. IsWellFoundedOn(OpToRel(<, Nat), Nat)
    BY NatLessThanWellFounded
  <1>2. \E c \in S : \A d \in S : <<d, c>> \notin OpToRel(<, Nat)
    BY <1>1, WFMin
  <1>3. PICK c \in S : \A d \in S : <<d, c>> \notin OpToRel(<, Nat)
    BY <1>2
  <1>4. ASSUME NEW d \in S PROVE c <= d
    <2>1. d \in Nat /\ c \in Nat
      OBVIOUS
    <2>2. <<d, c>> \in Nat \X Nat
      BY <2>1
    <2>3. <<d, c>>[1] = d /\ <<d, c>>[2] = c
      OBVIOUS
    <2>4. d < c => <<d, c>> \in OpToRel(<, Nat)
      BY <2>2, <2>3 DEF OpToRel
    <2>5. <<d, c>> \notin OpToRel(<, Nat)
      BY <1>3, Zenon
    <2>6. ~ (d < c)
      BY <2>4, <2>5, Zenon
    <2>. QED
      BY <2>1, <2>6
  <1>. QED
    BY <1>4 DEF Oldest

\* The bytes of a set of captures, one taken out.
LEMMA BytesSplit ==
  ASSUME NEW f, NEW S, IsFiniteSet(S), NEW c \in S, f[c].size \in Sizes
  PROVE  BytesOf(f, S) = BytesOf(f, S \ {c}) + f[c].size
PROOF
  <1>. DEFINE Long(T) == {d \in T : f[d].size # IqSize}
  <1>0. IqSize \in Nat /\ SidecarSize \in Nat
    BY CaptureIndexAssumption
  <1>1. IsFiniteSet(S \ {c}) /\ Cardinality(S \ {c}) = Cardinality(S) - 1 /\ Cardinality(S) \in Nat
    BY FS_RemoveElement, FS_CardinalityType
  <1>2. IsFiniteSet(Long(S)) /\ Cardinality(Long(S)) \in Nat
    BY FS_Subset, FS_CardinalityType
  <1>3. IqSize * Cardinality(S) = IqSize * Cardinality(S \ {c}) + IqSize
    <2>. DEFINE n == Cardinality(S)
    <2>1. n \in Nat /\ Cardinality(S \ {c}) = n - 1
      BY <1>1
    <2>. HIDE DEF n
    <2>2. IqSize * n = IqSize * (n - 1) + IqSize
      BY <2>1, <1>0
    <2>. QED
      BY <2>1, <2>2 DEF n
  <1>4. CASE f[c].size = IqSize
    <2>1. Long(S \ {c}) = Long(S)
      BY <1>4
    <2>2. BytesOf(f, S) = IqSize * Cardinality(S) + SidecarSize * Cardinality(Long(S))
      BY DEF BytesOf
    <2>3. BytesOf(f, S \ {c}) = IqSize * Cardinality(S \ {c}) + SidecarSize * Cardinality(Long(S))
      BY <2>1 DEF BytesOf
    <2>4. IqSize * Cardinality(S \ {c}) \in Int /\ SidecarSize * Cardinality(Long(S)) \in Int
      BY <1>0, <1>1, <1>2
    <2>. QED
      BY <1>0, <1>3, <1>4, <2>2, <2>3, <2>4
  <1>5. CASE f[c].size # IqSize
    <2>0. f[c].size = IqSize + SidecarSize
      BY <1>5 DEF Sizes
    <2>1. Long(S \ {c}) = Long(S) \ {c} /\ c \in Long(S)
      BY <1>5
    <2>2. Cardinality(Long(S) \ {c}) = Cardinality(Long(S)) - 1
      BY <1>2, <2>1, FS_RemoveElement
    <2>3. BytesOf(f, S) = IqSize * Cardinality(S) + SidecarSize * Cardinality(Long(S))
      BY DEF BytesOf
    <2>4. BytesOf(f, S \ {c}) = IqSize * Cardinality(S \ {c})
                                + SidecarSize * Cardinality(Long(S) \ {c})
      BY <2>1 DEF BytesOf
    <2>5. SidecarSize * Cardinality(Long(S)) = SidecarSize * Cardinality(Long(S) \ {c})
            + SidecarSize
      <3>. DEFINE n == Cardinality(Long(S))
      <3>1. n \in Nat /\ Cardinality(Long(S) \ {c}) = n - 1
        BY <1>2, <2>2
      <3>. HIDE DEF n
      <3>2. SidecarSize * n = SidecarSize * (n - 1) + SidecarSize
        BY <3>1, <1>0
      <3>. QED
        BY <3>1, <3>2 DEF n
    <2>6. IqSize * Cardinality(S \ {c}) \in Int /\ SidecarSize * Cardinality(Long(S) \ {c}) \in Int
      BY <1>0, <1>1, <1>2, <2>2
    <2>. QED
      BY <1>0, <1>3, <2>0, <2>3, <2>4, <2>5, <2>6
  <1>. QED
    BY <1>4, <1>5

\* A set's bytes depend on the sizes of its entries alone.
LEMMA BytesAgree ==
  ASSUME NEW f, NEW g, NEW S, \A d \in S : f[d].size = g[d].size
  PROVE  BytesOf(f, S) = BytesOf(g, S)
PROOF
  <1>1. {d \in S : f[d].size # IqSize} = {d \in S : g[d].size # IqSize}
    OBVIOUS
  <1>. QED
    BY <1>1 DEF BytesOf

\* A set's bytes are a number, no smaller than those of a part of it, and no smaller
\* than a .sc16 for each.
LEMMA BytesGrow ==
  ASSUME NEW f, NEW S, IsFiniteSet(S), NEW T \in SUBSET S
  PROVE  /\ BytesOf(f, S) \in Nat /\ BytesOf(f, T) \in Nat /\ BytesOf(f, T) <= BytesOf(f, S)
         /\ IqSize * Cardinality(T) \in Nat /\ IqSize * Cardinality(T) <= BytesOf(f, S)
PROOF
  <1>. DEFINE Long(U) == {d \in U : f[d].size # IqSize}
              s == Cardinality(S)
              t == Cardinality(T)
              ls == Cardinality(Long(S))
              lt == Cardinality(Long(T))
  <1>0. IqSize \in Nat /\ SidecarSize \in Nat
    BY CaptureIndexAssumption
  <1>1. IsFiniteSet(T) /\ t <= s /\ t \in Nat /\ s \in Nat
    BY FS_Subset, FS_CardinalityType
  <1>2. IsFiniteSet(Long(S)) /\ ls \in Nat
    BY FS_Subset, FS_CardinalityType
  <1>3. Long(T) \in SUBSET Long(S)
    OBVIOUS
  <1>4. IsFiniteSet(Long(T)) /\ lt \in Nat /\ lt <= ls
    BY <1>2, <1>3, FS_Subset, FS_CardinalityType
  <1>5. BytesOf(f, S) = IqSize * s + SidecarSize * ls
          /\ BytesOf(f, T) = IqSize * t + SidecarSize * lt
    BY DEF BytesOf
  <1>. HIDE DEF s, t, ls, lt
  <1>6. IqSize * t \in Nat /\ IqSize * s \in Nat /\ SidecarSize * ls \in Nat
          /\ SidecarSize * lt \in Nat
    BY <1>0, <1>1, <1>2, <1>4
  <1>7. IqSize * t <= IqSize * s
    BY <1>0, <1>1
  <1>8. SidecarSize * lt <= SidecarSize * ls
    BY <1>0, <1>2, <1>4
  <1>9. /\ IqSize * t + SidecarSize * lt <= IqSize * s + SidecarSize * ls
        /\ IqSize * t <= IqSize * s + SidecarSize * ls
    BY <1>6, <1>7, <1>8
  <1>10. /\ IqSize * t + SidecarSize * lt \in Nat
         /\ IqSize * s + SidecarSize * ls \in Nat
    BY <1>6
  <1>11. IqSize * Cardinality(T) = IqSize * t
    BY DEF t
  <1>. QED
    BY <1>5, <1>6, <1>9, <1>10, <1>11

\* What one capture's way in, out or change does to a total.
LEMMA BytesMove ==
  ASSUME NEW f, NEW g, NEW S, NEW T, NEW c, IsFiniteSet(S), IsFiniteSet(T),
         S \ {c} = T \ {c}, \A d \in S \ {c} : f[d] = g[d],
         c \in S => f[c].size \in Sizes, c \in T => g[c].size \in Sizes
  PROVE  BytesOf(g, T) = BytesOf(f, S) - Part(f, S, c)
                                       + Part(g, T, c)
PROOF
  <1>. DEFINE rest == BytesOf(f, S \ {c})
  <1>0. \A z \in Sizes : z \in Int
    BY CaptureIndexAssumption DEF Sizes
  <1>1. BytesOf(g, T \ {c}) = rest
    <2>1. \A d \in S \ {c} : f[d].size = g[d].size
      OBVIOUS
    <2>2. BytesOf(f, S \ {c}) = BytesOf(g, S \ {c})
      BY <2>1, BytesAgree
    <2>. QED
      BY <2>2
  <1>2. IsFiniteSet(S \ {c})
    BY FS_RemoveElement
  <1>3. rest \in Nat
    BY <1>2, BytesGrow
  <1>4. BytesOf(f, S) = rest + Part(f, S, c)
    <2>1. CASE c \in S
      BY <2>1, BytesSplit DEF Part
    <2>2. CASE c \notin S
      <3>1. S = S \ {c}
        BY <2>2
      <3>2. BytesOf(f, S) = rest
        BY <3>1
      <3>. QED
        BY <3>2, <2>2, <1>3 DEF Part
    <2>. QED
      BY <2>1, <2>2
  <1>5. BytesOf(g, T) = rest + Part(g, T, c)
    <2>1. CASE c \in T
      <3>1. BytesOf(g, T) = BytesOf(g, T \ {c}) + g[c].size
        BY <2>1, BytesSplit
      <3>. QED
        BY <3>1, <1>1, <2>1 DEF Part
    <2>2. CASE c \notin T
      <3>1. T = T \ {c}
        BY <2>2
      <3>2. BytesOf(g, T) = rest
        BY <3>1, <1>1
      <3>. QED
        BY <3>2, <2>2, <1>3 DEF Part
    <2>. QED
      BY <2>1, <2>2
  <1>. HIDE DEF rest
  <1>6. Part(f, S, c) \in Int /\ Part(g, T, c) \in Int
    BY <1>0 DEF Part
  <1>. QED
    BY <1>3, <1>4, <1>5, <1>6

-----------------------------------------------------------------------------
(* The inductive invariant.                                                *)

Phase(v) == IF v = "cap" THEN rc ELSE ev
DeletePhases == {"claim", "iq", "companions"}
Claimed(c) == \E v \in Evictors : victim[v] = c /\ Phase(v) \in {"iq", "companions"}
Cleaned(c) == \E v \in Evictors : victim[v] = c /\ Phase(v) = "companions"
Settling(c) == rc = "settle" /\ RcNext = c
Fresh(c) == rc = "track" /\ c = made

\* Who deletes what, and how far it has come; the captures each thread has on its
\* list were made.
Roles ==
  /\ \A v \in Evictors : (victim[v] # 0) <=> (Phase(v) \in DeletePhases)
  /\ \A v \in Evictors : victim[v] <= made
  /\ rc \in {"marks", "touch", "settle"} => rcTodo # {}
  /\ rc \notin {"marks", "touch", "settle"} => rcTodo = {}
  /\ \A c \in rcTodo : c <= made
  /\ made \in rcTodo => rcTodo = {made}
  /\ \A c \in evLeft : c <= made
  /\ evPrio \subseteq evLeft /\ evBound <= made
  /\ rc # "idle" => made > 0

\* A capture that was not made yet has nothing.
NotYet ==
  \A c \in Captures : c > made =>
    /\ disk[c] = {} /\ index[c] = None /\ measured[c] = None /\ sd[c] = "none"
    /\ c \notin qualified

\* Until it is tracked, the newest capture is known to nobody else.
Arriving ==
  rc = "track" =>
    /\ disk[made] = {"iq"} /\ index[made] = None /\ sd[made] = "grace"
    /\ made \notin evLeft /\ made \notin Deleting /\ measured[made] = None

\* A capture that is on disk is in the index unless it is being deleted.
KnownOf(c) == "iq" \in disk[c] /\ ~Claimed(c) /\ ~Fresh(c) => Tracked(c)
Known == \A c \in 1 .. made : KnownOf(c)

\* What a sidecar's track has measured.
MeasurementOf(c) ==
  /\ sd[c] # "none"
  /\ sd[c] # "add" => measured[c] = None
  /\ sd[c] \in {"look", "measure", "add"} /\ "iq" \in disk[c] => "sidecar" \in disk[c]
  /\ sd[c] = "add" /\ ~measured[c].there => "iq" \notin disk[c]
  /\ measured[c].there => measured[c].size = IqSize + SidecarSize
  /\ ~measured[c].there => measured[c] = None
  /\ ~index[c].there => index[c] = None
Measurements == \A c \in 1 .. made : MeasurementOf(c)

\* What is called a priority capture has its mark.
MarkOf(c) ==
  /\ "iq" \in disk[c] /\ c \notin Deleting
  /\ index[c].priority \/ measured[c].priority \/ Settling(c)
  => "mark" \in disk[c]
Marks == \A c \in 1 .. made : MarkOf(c)

\* A capture of the event of q has its mark, or recording control owes it one.
Owed(q, c) ==
  \/ Fresh(c)
  \/ c \in rcTodo
  \/ q = made /\ c < made /\ (rc \in {"track", "before"} \/ made \in rcTodo)

Events ==
  /\ \A q \in qualified : q <= made /\ origin[q] = "auto" /\ q + Span <= until
  /\ \A q \in qualified, c \in 1 .. made :
       /\ c - q <= Span /\ q - c <= Span
       /\ origin[c] = "auto" /\ "iq" \in disk[c] /\ c \notin Deleting
       => "mark" \in disk[c] \/ Owed(q, c)

\* As long as no track was overtaken: each capture's files and its entry.
ExactOf(c) ==
  /\ Claimed(c) => index[c] = None
  /\ Tracked(c) => "iq" \in disk[c]
  /\ Tracked(c) /\ ~Settling(c) => (index[c].priority <=> "mark" \in disk[c])
  /\ Tracked(c) /\ Settling(c) => "mark" \in disk[c]
  /\ Tracked(c) => index[c].size = IF "sidecar" \in disk[c] /\ sd[c] = "done"
                                     THEN IqSize + SidecarSize ELSE IqSize
  /\ sd[c] \in {"grace", "write"} => "sidecar" \notin disk[c]
  /\ "iq" \notin disk[c] /\ "sidecar" \in disk[c] => sd[c] \in {"look", "drop"} \/ Cleaned(c)
  /\ "iq" \notin disk[c] /\ "mark" \in disk[c] => Settling(c) \/ Cleaned(c)
  /\ sd[c] = "drop" => "iq" \notin disk[c]
ExactUnlessTorn == ~torn => \A c \in 1 .. made : ExactOf(c)

IndexInv ==
  /\ TypeOK /\ TotalsMatch /\ Roles /\ NotYet /\ Arriving /\ Known
  /\ Measurements /\ Marks /\ Events /\ ExactUnlessTorn /\ ArchiveBounded

RcUnlinksIq == rc = "iq" /\ RcUnlinks
RcUnlinksRest == rc = "companions" /\ RcUnlinks
EvUnlinksIq == ev = "iq" /\ EvUnlinks
EvUnlinksRest == ev = "companions" /\ EvUnlinks

-----------------------------------------------------------------------------
(* The totals.                                                             *)

\* There are finitely many captures.
LEMMA Finite ==
  ASSUME NEW S \in SUBSET Captures
  PROVE  IsFiniteSet(S)
PROOF
  <1>1. IsFiniteSet(1 .. MaxCaptures)
    BY CaptureIndexAssumption, FS_Interval
  <1>. QED
    BY <1>1, FS_Subset DEF Captures

Held == Automatic \ Ordinary(Automatic)

\* The totals, with the entries as a parameter.
LEMMA TotalsAre ==
  TotalsMatch <=>
    /\ \A c \in Captures : index[c].size \in IF Tracked(c) THEN Sizes ELSE {0}
    /\ autoBytes = BytesOf(index, Automatic) /\ prioBytes = BytesOf(index, Held)
PROOF
  BY DEF TotalsMatch, Bytes, BytesOf, Held, Sizes

\* What leaves the entries and the totals alone leaves them in agreement.
LEMMA TotalsStay ==
  ASSUME TotalsMatch, index' = index, Automatic' = Automatic, autoBytes' = autoBytes,
         prioBytes' = prioBytes
  PROVE  TotalsMatch'
PROOF
  <1>2. Ordinary(Automatic)' = Ordinary(Automatic)
    BY DEF Ordinary
  <1>3. Bytes(Automatic)' = Bytes(Automatic)
    BY DEF Bytes
  <1>4. Bytes(Automatic \ Ordinary(Automatic))' = Bytes(Automatic \ Ordinary(Automatic))
    BY <1>2 DEF Bytes
  <1>5. \A c \in Captures : Tracked(c)' <=> Tracked(c)
    BY DEF Tracked
  <1>. QED
    BY <1>3, <1>4, <1>5 DEF TotalsMatch

\* _remove_locked and _add_locked keep the totals, whatever entry goes in.
LEMMA ReplaceKeepsTotals ==
  ASSUME TypeOK, TotalsMatch, NEW c \in Captures, NEW e \in Entries,
         e.size \in IF e.there THEN Sizes ELSE {0},
         Replace(c, e), origin' = origin
  PROVE  /\ TotalsMatch' /\ index' \in [Captures -> Entries] /\ autoBytes' \in Nat
         /\ prioBytes' \in 0 .. autoBytes'
PROOF
  <1>1. /\ \A d \in Captures : index[d].size \in IF Tracked(d) THEN Sizes ELSE {0}
        /\ autoBytes = BytesOf(index, Automatic) /\ prioBytes = BytesOf(index, Held)
    BY TotalsAre
  <1>2. index' \in [Captures -> Entries] /\ index'[c] = e
          /\ \A d \in Captures \ {c} : index'[d] = index[d]
    BY DEF TypeOK, Replace
  <1>3. \A z \in Sizes : z \in Nat
    BY CaptureIndexAssumption DEF Sizes
  <1>4. /\ Automatic \in SUBSET Captures /\ Automatic' \in SUBSET Captures
        /\ Held \in SUBSET Captures /\ Held' \in SUBSET Captures /\ Held' \in SUBSET Automatic'
    BY DEF Automatic, Held
  <1>5. /\ IsFiniteSet(Automatic) /\ IsFiniteSet(Automatic') /\ IsFiniteSet(Held)
        /\ IsFiniteSet(Held')
    BY <1>4, Finite
  <1>6. /\ c \in Automatic <=> (index[c].there /\ origin[c] = "auto")
        /\ c \in Automatic' <=> (e.there /\ origin[c] = "auto")
        /\ c \in Held <=> (index[c].there /\ origin[c] = "auto" /\ index[c].priority)
        /\ c \in Held' <=> (e.there /\ origin[c] = "auto" /\ e.priority)
    BY <1>2 DEF Automatic, Held, Ordinary, Tracked
  <1>7. Automatic \ {c} = Automatic' \ {c} /\ Held \ {c} = Held' \ {c}
    BY <1>2 DEF Automatic, Held, Ordinary, Tracked
  <1>8. /\ c \in Automatic => index[c].size \in Sizes
        /\ c \in Automatic' => index'[c].size \in Sizes
        /\ c \in Held => index[c].size \in Sizes
        /\ c \in Held' => index'[c].size \in Sizes
    BY <1>1, <1>2, <1>6 DEF Tracked
  <1>9. BytesOf(index', Automatic') = BytesOf(index, Automatic)
          - Part(index, Automatic, c)
          + Part(index', Automatic', c)
    <2>1. \A d \in Automatic \ {c} : index[d] = index'[d]
      BY <1>2, <1>4
    <2>. QED
      BY <2>1, <1>5, <1>7, <1>8, BytesMove
  <1>10. BytesOf(index', Held') = BytesOf(index, Held)
          - Part(index, Held, c)
          + Part(index', Held', c)
    <2>1. \A d \in Held \ {c} : index[d] = index'[d]
      BY <1>2, <1>4
    <2>. QED
      BY <2>1, <1>5, <1>7, <1>8, BytesMove
  <1>11. ~index[c].there => index[c].size = 0
    BY <1>1 DEF Tracked
  <1>12. ~e.there => e.size = 0
    OBVIOUS
  <1>13. /\ AutoShare(c, index[c]) = Part(index, Automatic, c)
         /\ AutoShare(c, e) = Part(index', Automatic', c)
    BY <1>2, <1>6, <1>11, <1>12 DEF AutoShare, Part
  <1>14. /\ PrioShare(c, index[c]) = Part(index, Held, c)
         /\ PrioShare(c, e) = Part(index', Held', c)
    BY <1>2, <1>6, <1>11, <1>12 DEF PrioShare, Part
  <1>15. autoBytes' = BytesOf(index', Automatic') /\ prioBytes' = BytesOf(index', Held')
    BY <1>1, <1>9, <1>10, <1>13, <1>14 DEF Replace
  <1>16. \A d \in Captures : index'[d].size \in IF Tracked(d)' THEN Sizes ELSE {0}
    BY <1>1, <1>2 DEF Tracked
  <1>17. TotalsMatch'
    BY <1>15, <1>16 DEF TotalsMatch, Bytes, BytesOf, Held, Sizes
  <1>18. /\ BytesOf(index', Automatic') \in Nat /\ BytesOf(index', Held') \in Nat
         /\ BytesOf(index', Held') <= BytesOf(index', Automatic')
    BY <1>4, <1>5, BytesGrow
  <1>. QED
    BY <1>2, <1>15, <1>17, <1>18

-----------------------------------------------------------------------------
(* Helpers.                                                                *)

\* Who is being deleted, spelled out.
LEMMA DeletersAre ==
  /\ \A c : (c \in Deleting) <=> (c = victim["cap"] \/ c = victim["space"])
  /\ \A c : Claimed(c) <=> (\/ c = victim["cap"] /\ rc \in {"iq", "companions"}
                            \/ c = victim["space"] /\ ev \in {"iq", "companions"})
  /\ \A c : Cleaned(c) <=> (\/ c = victim["cap"] /\ rc = "companions"
                            \/ c = victim["space"] /\ ev = "companions")
  /\ \A c : (c \in Deleting') <=> (c = victim'["cap"] \/ c = victim'["space"])
  /\ \A c : Claimed(c)' <=> (\/ c = victim'["cap"] /\ rc' \in {"iq", "companions"}
                             \/ c = victim'["space"] /\ ev' \in {"iq", "companions"})
  /\ \A c : Cleaned(c)' <=> (\/ c = victim'["cap"] /\ rc' = "companions"
                             \/ c = victim'["space"] /\ ev' = "companions")
PROOF
  <1>1. Phase("cap") = rc /\ Phase("space") = ev /\ Phase("cap")' = rc' /\ Phase("space")' = ev'
    BY DEF Phase
  <1>. QED
    BY <1>1 DEF Deleting, Claimed, Cleaned, Evictors

Kept == {c \in Captures : origin[c] = "auto" /\ "iq" \in disk[c]} \ {victim["space"]}

\* An archive within its cap stays so when captures leave it.
LEMMA ArchiveShrinks ==
  ASSUME ArchiveBounded, Kept' \subseteq Kept, rc' = rc
  PROVE  ArchiveBounded'
PROOF
  <1>1. IsFiniteSet(Kept)
    BY Finite DEF Kept
  <1>2. Cardinality(Kept') <= Cardinality(Kept) /\ Cardinality(Kept) \in Nat
          /\ Cardinality(Kept') \in Nat
    BY <1>1, FS_Subset, FS_CardinalityType
  <1>3. rc = "idle" => IqSize * Cardinality(Kept) <= MaxBytes \/ Cardinality(Kept) <= 1
    BY DEF ArchiveBounded, Kept
  <1>4. IqSize * Cardinality(Kept') <= IqSize * Cardinality(Kept)
    <2>. DEFINE m == Cardinality(Kept')
                n == Cardinality(Kept)
    <2>1. m <= n /\ n \in Nat /\ m \in Nat /\ IqSize \in Nat
      BY <1>2, CaptureIndexAssumption
    <2>. HIDE DEF m, n
    <2>2. IqSize * m <= IqSize * n
      BY <2>1
    <2>. QED
      BY <2>2 DEF m, n
  <1>5. /\ IqSize * Cardinality(Kept') \in Nat /\ IqSize * Cardinality(Kept) \in Nat
        /\ MaxBytes \in Nat
    BY <1>2, CaptureIndexAssumption
  <1>6. rc' = "idle" => IqSize * Cardinality(Kept') <= MaxBytes \/ Cardinality(Kept') <= 1
    BY <1>2, <1>3, <1>4, <1>5
  <1>. QED
    BY <1>6 DEF ArchiveBounded, Kept

\* An event stays as whole as it was if no mark of it goes and no debt is dropped.
LEMMA EventsStay ==
  ASSUME Events, qualified' = qualified, origin' = origin, until' = until, made' = made,
         \A c \in 1 .. made : "iq" \in disk'[c] /\ c \notin Deleting' =>
           "iq" \in disk[c] /\ c \notin Deleting,
         \A q \in qualified, c \in 1 .. made :
           /\ "iq" \in disk'[c] /\ c \notin Deleting' /\ origin[c] = "auto"
           /\ c - q <= Span /\ q - c <= Span
           /\ "mark" \in disk[c] \/ Owed(q, c)
           => "mark" \in disk'[c] \/ Owed(q, c)'
  PROVE  Events'
PROOF
  <1>1. \A q \in qualified : q <= made /\ origin[q] = "auto" /\ q + Span <= until
    BY DEF Events
  <1>2. ASSUME NEW q \in qualified, NEW c \in 1 .. made,
               c - q <= Span, q - c <= Span,
               origin[c] = "auto", "iq" \in disk'[c], c \notin Deleting'
        PROVE  "mark" \in disk'[c] \/ Owed(q, c)'
    <2>1. "iq" \in disk[c] /\ c \notin Deleting
      BY <1>2
    <2>2. "mark" \in disk[c] \/ Owed(q, c)
      BY <1>2, <2>1 DEF Events
    <2>. QED
      BY <1>2, <2>2
  <1>3. \A q \in qualified' : q <= made' /\ origin'[q] = "auto" /\ q + Span <= until'
    BY <1>1
  <1>4. \A q \in qualified', c \in 1 .. made' :
          /\ c - q <= Span /\ q - c <= Span
          /\ origin'[c] = "auto" /\ "iq" \in disk'[c] /\ c \notin Deleting'
          => "mark" \in disk'[c] \/ Owed(q, c)'
    BY <1>2
  <1>. QED
    BY <1>3, <1>4 DEF Events

\* The capture that is marked next is one of those to mark, the newest one first.
LEMMA RcNextIs ==
  ASSUME TypeOK, rcTodo # {}
  PROVE  RcNext \in rcTodo /\ (made \in rcTodo => RcNext = made)
PROOF
  <1>1. rcTodo \in SUBSET Nat
    BY DEF TypeOK, Captures
  <1>. QED
    BY <1>1, OldestIs DEF RcNext

\* The victim of the cap is one of the captures in the index.
LEMMA CapVictimIs ==
  ASSUME OverCap
  PROVE  CapVictim \in Automatic
PROOF
  <1>. DEFINE rest == Automatic \ {Newest(Automatic)}
              prio == rest \ Ordinary(rest)
  <1>1. IsFiniteSet(Automatic) /\ Cardinality(Automatic) > 1
    BY Finite DEF Automatic, OverCap
  <1>2. rest # {}
    <2>1. SUFFICES ASSUME rest = {} PROVE FALSE
      OBVIOUS
    <2>2. Cardinality(rest) >= Cardinality(Automatic) - 1
      BY <1>1, FS_RemoveElement, FS_CardinalityType
    <2>3. Cardinality(rest) = 0
      BY <2>1, FS_EmptySet
    <2>4. Cardinality(Automatic) \in Nat
      BY <1>1, FS_CardinalityType
    <2>. QED
      BY <1>1, <2>2, <2>3, <2>4
  <1>3. rest \in SUBSET Nat /\ rest \in SUBSET Automatic
    BY DEF Automatic, Captures
  <1>4. /\ prio # {} \/ Ordinary(rest) # {}
        /\ prio \in SUBSET rest /\ Ordinary(rest) \in SUBSET rest
    BY <1>2 DEF Ordinary
  <1>5. CapVictim = IF PriorityCap = 0 THEN Oldest(rest)
                    ELSE IF prio # {} /\ prioBytes > PriorityCap THEN Oldest(prio)
                    ELSE IF Ordinary(rest) # {} THEN Oldest(Ordinary(rest)) ELSE Oldest(prio)
    BY DEF CapVictim
  <1>6. \A S \in SUBSET rest : S # {} => Oldest(S) \in rest
    BY <1>3, OldestIs
  <1>. HIDE DEF rest, prio
  <1>. QED
    BY <1>2, <1>3, <1>4, <1>5, <1>6

\* What a track measures.
LEMMA MeasureIs ==
  ASSUME NEW c
  PROVE  /\ Measure(c) \in Entries /\ (Measure(c).there <=> "iq" \in disk[c])
         /\ Measure(c).size \in IF Measure(c).there THEN Sizes ELSE {0}
         /\ ~Measure(c).there => Measure(c) = None
         /\ "iq" \in disk[c] => /\ Measure(c).priority = ("mark" \in disk[c])
                                /\ Measure(c).size = IF "sidecar" \in disk[c]
                                     THEN IqSize + SidecarSize ELSE IqSize
PROOF
  <1>1. IqSize \in Nat /\ SidecarSize \in Nat
    BY CaptureIndexAssumption
  <1>2. CASE "iq" \in disk[c]
    <2>1. CaptureSize(c) = IF "sidecar" \in disk[c] THEN IqSize + SidecarSize ELSE IqSize
      BY <1>1, <1>2 DEF CaptureSize
    <2>2. CaptureSize(c) \in Nat /\ CaptureSize(c) \in Sizes
      BY <1>1, <2>1 DEF Sizes
    <2>3. Measure(c) = [size |-> CaptureSize(c), priority |-> "mark" \in disk[c], there |-> TRUE]
      BY <1>2 DEF Measure, Entry
    <2>4. ("mark" \in disk[c]) \in BOOLEAN
      OBVIOUS
    <2>5. Measure(c) \in Entries
      BY <2>2, <2>3, <2>4 DEF Entries
    <2>6. Measure(c).there /\ Measure(c).size = CaptureSize(c)
      BY <2>3
    <2>7. Measure(c).priority = ("mark" \in disk[c])
      BY <2>3
    <2>. QED
      BY <1>2, <2>1, <2>2, <2>5, <2>6, <2>7
  <1>3. CASE "iq" \notin disk[c]
    <2>1. Measure(c) = None
      BY <1>3 DEF Measure
    <2>2. None \in Entries /\ ~None.there /\ None.size = 0
      BY DEF None, Entries
    <2>. QED
      BY <1>3, <2>1, <2>2
  <1>. QED
    BY <1>2, <1>3

\* What the invariant says, part by part and capture by capture.
LEMMA InvGives ==
  ASSUME IndexInv
  PROVE  /\ TypeOK /\ TotalsMatch /\ Roles /\ NotYet /\ Arriving /\ Events
         /\ ExactUnlessTorn /\ ArchiveBounded
         /\ victim["cap"] # 0 <=> rc \in DeletePhases
         /\ victim["space"] # 0 <=> ev \in DeletePhases
         /\ victim["cap"] <= made /\ victim["space"] <= made
         /\ \A x \in 1 .. made : x \in Captures /\ KnownOf(x) /\ MeasurementOf(x) /\ MarkOf(x)
PROOF
  <1>1. /\ TypeOK /\ TotalsMatch /\ Roles /\ NotYet /\ Arriving /\ Known
        /\ Measurements /\ Marks /\ Events /\ ExactUnlessTorn /\ ArchiveBounded
    BY DEF IndexInv
  <1>2. /\ victim["cap"] # 0 <=> rc \in DeletePhases
        /\ victim["space"] # 0 <=> ev \in DeletePhases
        /\ victim["cap"] <= made /\ victim["space"] <= made
    BY <1>1 DEF Roles, Phase, Evictors
  <1>3. ASSUME NEW x \in 1 .. made PROVE x \in Captures
    BY <1>1, CaptureIndexAssumption DEF TypeOK, Captures
  <1>. QED
    BY <1>1, <1>2, <1>3 DEF Known, Measurements, Marks

-----------------------------------------------------------------------------
(* Every action keeps the invariant.                                       *)


\* A new capture is nobody's yet; if it qualifies by itself its event is owed marks.
LEMMA RcFinalizeKeeps ==
  ASSUME IndexInv, RcFinalize
  PROVE  IndexInv'
PROOF
  <1>a. made' = made + 1 /\ made' \in Captures /\ made' \in 1 .. made' /\ made \in Nat
    BY SMTT(30), InvGives, CaptureIndexAssumption DEF RcFinalize, TypeOK, Captures
  <1>b. PICK o \in Origins, q \in BOOLEAN :
          /\ q => o = "auto"
          /\ origin' = [origin EXCEPT ![made'] = o]
          /\ qualified' = IF q THEN qualified \cup {made'} ELSE qualified
          /\ until' = IF q THEN made' + Span ELSE until
    BY DEF RcFinalize
  <1>c. o \in {"auto", "manual"}
    BY CaptureIndexAssumption
  <1>n. /\ index[made'] = None /\ measured[made'] = None /\ made' \notin evLeft
             /\ made' \notin rcTodo
        /\ victim["cap"] # made' /\ victim["space"] # made' /\ made' \notin qualified
    <2>1. index[made'] = None /\ measured[made'] = None /\ made' \notin qualified
      BY InvGives, <1>a DEF NotYet
    <2>2. made' \notin evLeft /\ made' \notin rcTodo
      BY InvGives, <1>a DEF Roles
    <2>3. victim["cap"] # made' /\ victim["space"] # made'
      BY InvGives, <1>a
    <2>. QED
      BY <2>1, <2>2, <2>3
  <1>g. rc = "idle" /\ made < MaxCaptures
    BY DEF RcFinalize, indexVars, pastVars, evVars, RcGoes
  <1>disk. /\ disk'[made'] = {"iq"}
           /\ disk' \in [Captures -> SUBSET Files]
           /\ \A d \in Captures \ {made'} : disk'[d] = disk[d]
           /\ "iq" \in disk'[made']
           /\ "mark" \notin disk'[made']
           /\ "sidecar" \notin disk'[made']
    <2>1. disk'[made'] = {"iq"}
      BY InvGives, <1>a, <1>b, <1>c, <1>n, <1>g DEF RcFinalize, indexVars, pastVars, evVars,
         RcGoes, TypeOK, Captures
    <2>2. disk' \in [Captures -> SUBSET Files]
      BY InvGives, <1>a, <1>b, <1>c, <1>n, <1>g DEF RcFinalize, indexVars, pastVars, evVars,
         RcGoes, TypeOK, Captures, Evictors, Files
    <2>3. \A d \in Captures \ {made'} : disk'[d] = disk[d]
      BY InvGives, <1>a, <1>b, <1>c, <1>n, <1>g DEF RcFinalize, indexVars, pastVars, evVars,
         RcGoes
    <2>4. "iq" \in disk'[made']
      BY InvGives, <1>a, <1>b, <1>c, <1>n, <1>g DEF RcFinalize, indexVars, pastVars, evVars,
         RcGoes, TypeOK, Captures
    <2>5. "mark" \notin disk'[made']
      BY InvGives, <1>a, <1>b, <1>c, <1>n, <1>g DEF RcFinalize, indexVars, pastVars, evVars,
         RcGoes, TypeOK, Captures
    <2>6. "sidecar" \notin disk'[made']
      BY InvGives, <1>a, <1>b, <1>c, <1>n, <1>g DEF RcFinalize, indexVars, pastVars, evVars,
         RcGoes, TypeOK, Captures
    <2>. QED
      BY <2>1, <2>2, <2>3, <2>4, <2>5, <2>6
  <1>origin. /\ origin' \in [Captures -> {"auto", "manual"}]
             /\ origin'[made'] = o
             /\ \A d \in Captures \ {made'} : origin'[d] = origin[d]
    <2>1. origin' \in [Captures -> {"auto", "manual"}]
      BY InvGives, <1>a, <1>b, <1>c, <1>n, <1>g DEF RcFinalize, indexVars, pastVars, evVars,
         RcGoes, TypeOK, Captures
    <2>2. origin'[made'] = o
      BY InvGives, <1>a, <1>b, <1>c, <1>n, <1>g DEF RcFinalize, indexVars, pastVars, evVars,
         RcGoes, TypeOK, Captures
    <2>3. \A d \in Captures \ {made'} : origin'[d] = origin[d]
      BY InvGives, <1>a, <1>b, <1>c, <1>n, <1>g DEF RcFinalize, indexVars, pastVars, evVars,
         RcGoes
    <2>. QED
      BY <2>1, <2>2, <2>3
  <1>qualified. qualified' = IF q THEN qualified \cup {made'} ELSE qualified
    BY InvGives, <1>a, <1>b, <1>c, <1>n, <1>g DEF RcFinalize, indexVars, pastVars, evVars,
       RcGoes
  <1>until. until' = IF q THEN made' + Span ELSE until
    BY InvGives, <1>a, <1>b, <1>c, <1>n, <1>g DEF RcFinalize, indexVars, pastVars, evVars,
       RcGoes
  <1>sd. /\ sd' \in [Captures -> {"none", "grace", "write", "look", "drop", "measure", "add",
              "done"}]
         /\ sd'[made'] = "grace"
         /\ \A d \in Captures \ {made'} : sd'[d] = sd[d]
    <2>1. sd' \in [Captures -> {"none", "grace", "write", "look", "drop", "measure", "add", "done"}]
      BY InvGives, <1>a, <1>b, <1>c, <1>n, <1>g DEF RcFinalize, indexVars, pastVars, evVars,
         RcGoes, TypeOK, Captures
    <2>2. sd'[made'] = "grace"
      BY InvGives, <1>a, <1>b, <1>c, <1>n, <1>g DEF RcFinalize, indexVars, pastVars, evVars,
         RcGoes, TypeOK, Captures
    <2>3. \A d \in Captures \ {made'} : sd'[d] = sd[d]
      BY InvGives, <1>a, <1>b, <1>c, <1>n, <1>g DEF RcFinalize, indexVars, pastVars, evVars,
         RcGoes
    <2>. QED
      BY <2>1, <2>2, <2>3
  <1>rc. rc' = "track"
    BY InvGives, <1>a, <1>b, <1>c, <1>n, <1>g DEF RcFinalize, indexVars, pastVars, evVars,
       RcGoes
  <1>u. /\ index' = index /\ autoBytes' = autoBytes /\ prioBytes' = prioBytes /\ rcTodo' = rcTodo
        /\ ev' = ev /\ evLeft' = evLeft /\ evPrio' = evPrio /\ evBound' = evBound
        /\ evictions' = evictions /\ measured' = measured /\ victim' = victim /\ torn' = torn
    BY DEF RcFinalize, indexVars, pastVars, evVars, RcGoes
  <1>1. TypeOK'
    <2>1. TypeOK
      BY InvGives
    <2>2. made' \in 0 .. MaxCaptures /\ Span \in Nat
      BY <1>a, CaptureIndexAssumption DEF Captures
    <2>3. qualified' \subseteq Captures /\ until' \in Nat
      BY <1>a, <1>qualified, <1>until, <2>1, <2>2 DEF TypeOK
    <2>. QED
      BY <1>disk, <1>origin, <1>sd, <1>rc, <1>u, <2>1, <2>2, <2>3 DEF TypeOK
  <1>2. TotalsMatch'
    <2>1. index[made'] = None
      BY InvGives, <1>a DEF NotYet
    <2>2. Automatic' = Automatic
      BY <1>origin, <1>u, <2>1 DEF Automatic, Tracked, None
    <2>. QED
      BY InvGives, <1>u, <2>2, TotalsStay
  <1>3. Roles'
    BY SMTT(30), InvGives, <1>a, <1>b, <1>c, <1>n, <1>g, <1>rc, <1>u,
       CaptureIndexAssumption DEF TypeOK,
       Roles, Phase, Evictors, DeletePhases, Captures
  <1>4. NotYet'
    BY InvGives, <1>a, <1>b, <1>c, <1>n, <1>g, <1>disk, <1>qualified, <1>sd, <1>u,
       CaptureIndexAssumption DEF TypeOK, NotYet, None, Captures, Roles, Phase, DeletePhases
  <1>5. Arriving'
    BY <1>n, <1>disk, <1>sd, <1>u, DeletersAre DEF Arriving
  <1>6. Known'
    <2>1. ASSUME NEW x \in 1 .. made' PROVE KnownOf(x)'
      <3>1. CASE x = made'
        BY InvGives, <1>a, <1>b, <1>c, <1>n, <1>g, <1>disk, <1>rc, <1>u, DeletersAre, <2>1, <3>1
           DEF TypeOK, KnownOf, Fresh, Tracked, None, Arriving, DeletePhases, Captures, NotYet
      <3>2. CASE x # made'
        BY InvGives, <1>a, <1>b, <1>c, <1>n, <1>g, <1>disk, <1>rc, <1>u, DeletersAre, <2>1, <3>2
           DEF TypeOK, KnownOf, Fresh, Tracked, None, Arriving, DeletePhases, Captures, NotYet
      <3>. QED
        BY <3>1, <3>2
    <2>. QED
      BY <2>1 DEF Known
  <1>7. Measurements'
    <2>1. ASSUME NEW x \in 1 .. made' PROVE MeasurementOf(x)'
      <3>1. CASE x = made'
        BY InvGives, <1>a, <1>b, <1>c, <1>n, <1>g, <1>disk, <1>sd, <1>u, DeletersAre, <2>1, <3>1
           DEF TypeOK, MeasurementOf, None, Arriving, Captures, NotYet
      <3>2. CASE x # made'
        BY InvGives, <1>a, <1>b, <1>c, <1>n, <1>g, <1>disk, <1>sd, <1>u, DeletersAre, <2>1, <3>2
           DEF TypeOK, MeasurementOf, None, Arriving, Captures, NotYet
      <3>. QED
        BY <3>1, <3>2
    <2>. QED
      BY <2>1 DEF Measurements
  <1>8. Marks'
    <2>1. ASSUME NEW x \in 1 .. made' PROVE MarkOf(x)'
      <3>1. CASE x = made'
        BY InvGives, <1>a, <1>b, <1>c, <1>n, <1>g, <1>disk, <1>rc, <1>u, DeletersAre, <2>1, <3>1
           DEF TypeOK, MarkOf, KnownOf, Fresh, Settling, None, Tracked, Captures, Arriving,
           DeletePhases, NotYet
      <3>2. CASE x # made'
        BY InvGives, <1>a, <1>b, <1>c, <1>n, <1>g, <1>disk, <1>rc, <1>u, DeletersAre, <2>1, <3>2
           DEF TypeOK, MarkOf, KnownOf, Fresh, Settling, None, Tracked, Captures, Arriving,
           DeletePhases, NotYet
      <3>. QED
        BY <3>1, <3>2
    <2>. QED
      BY <2>1 DEF Marks
  <1>9. Events'
    <2>1. \A q1 \in qualified : q1 <= made /\ origin[q1] = "auto" /\ q1 + Span <= until
      BY InvGives DEF Events
    <2>2. \A q1 \in qualified' : q1 <= made' /\ origin'[q1] = "auto" /\ q1 + Span <= until'
      BY SMTT(30), InvGives, <1>a, <1>b, <1>c, <1>origin, <1>qualified, <1>until, <2>1,
         CaptureIndexAssumption
         DEF TypeOK, Captures
    <2>3. ASSUME NEW q1 \in qualified', NEW x \in 1 .. made',
                 x - q1 <= Span, q1 - x <= Span,
                 origin'[x] = "auto", "iq" \in disk'[x], x \notin Deleting'
          PROVE  "mark" \in disk'[x] \/ Owed(q1, x)'
      <3>1. CASE x = made'
        BY <1>rc, <3>1 DEF Owed, Fresh
      <3>2. CASE x # made' /\ q1 = made'
        BY <1>a, <1>rc, <3>2 DEF Owed
      <3>3. CASE x # made' /\ q1 # made'
        <4>1. q1 \in qualified /\ x \in 1 .. made /\ x \in Captures
          BY SMTT(30), InvGives, <1>a, <1>qualified, <3>3, CaptureIndexAssumption DEF Captures,
             TypeOK
        <4>2. disk'[x] = disk[x] /\ origin'[x] = origin[x] /\ Deleting' = Deleting
          BY <1>disk, <1>origin, <1>u, <3>3, <4>1 DEF Deleting
        <4>3. "mark" \in disk[x] \/ Owed(q1, x)
          BY InvGives, <2>3, <4>1, <4>2 DEF Events
        <4>4. ~Owed(q1, x)
          BY InvGives, <1>g DEF Owed, Fresh, Roles
        <4>. QED
          BY <4>2, <4>3, <4>4
      <3>. QED
        BY <3>1, <3>2, <3>3
    <2>. QED
      BY <2>2, <2>3 DEF Events
  <1>10. ExactUnlessTorn'
    <2>1. ASSUME NEW x \in 1 .. made', ~torn' PROVE ExactOf(x)'
      <3>0. x # made' => ExactOf(x)
        BY InvGives, <1>a, <1>u, <2>1 DEF ExactUnlessTorn, TypeOK
      <3>1. CASE x = made'
        BY InvGives, <1>a, <1>b, <1>c, <1>n, <1>g, <1>disk, <1>sd, <1>rc, <1>u, DeletersAre,
           <2>1, <3>0, <3>1 DEF TypeOK, ExactOf, MeasurementOf, MarkOf, Settling, Tracked, None,
           Arriving, DeletePhases, Captures, NotYet
      <3>2. CASE x # made'
        BY InvGives, <1>a, <1>b, <1>c, <1>n, <1>g, <1>disk, <1>sd, <1>rc, <1>u, DeletersAre,
           <2>1, <3>0, <3>2 DEF TypeOK, ExactOf, MeasurementOf, MarkOf, Settling, Tracked, None,
           Arriving, DeletePhases, Captures, NotYet
      <3>. QED
        BY <3>1, <3>2
    <2>. QED
      BY <2>1 DEF ExactUnlessTorn
  <1>11. ArchiveBounded'
    BY InvGives, <1>a, <1>b, <1>c, <1>n, <1>g, <1>disk, <1>origin, <1>rc, <1>u DEF
       ArchiveBounded
  <1>. QED
    BY <1>1, <1>2, <1>3, <1>4, <1>5, <1>6, <1>7, <1>8, <1>9, <1>10, <1>11 DEF IndexInv

\* Its track adds it as it lies on disk, and puts it on the list of marks if it has a reason.
LEMMA RcTracksKeeps ==
  ASSUME IndexInv, RcTracks
  PROVE  IndexInv'
PROOF
  <1>a. made \in Captures /\ made \in 1 .. made
    BY InvGives, CaptureIndexAssumption DEF Roles, TypeOK, Captures, RcTracks
  <1>b. TotalsMatch' /\ index' \in [Captures -> Entries] /\ autoBytes' \in Nat
          /\ prioBytes' \in 0 .. autoBytes'
    BY InvGives, <1>a, MeasureIs, ReplaceKeepsTotals DEF RcTracks, pastVars
  <1>m. /\ Measure(made).there /\ Measure(made).size = IqSize /\ ~Measure(made).priority
        /\ Measure(made) \in Entries
    BY InvGives, MeasureIs DEF Arriving, RcTracks
  <1>g. rc = "track"
    BY DEF RcTracks, Replace, Reason, indexVars, pastVars, evVars, RcGoes
  <1>index. /\ index'[made] = Measure(made)
            /\ \A d \in Captures \ {made} : index'[d] = index[d]
    <2>1. index'[made] = Measure(made)
      BY InvGives, <1>a, <1>b, <1>m, <1>g DEF RcTracks, Replace, Reason, indexVars, pastVars,
         evVars, RcGoes
    <2>2. \A d \in Captures \ {made} : index'[d] = index[d]
      BY InvGives, <1>a, <1>b, <1>m, <1>g DEF RcTracks, Replace, Reason, indexVars, pastVars,
         evVars, RcGoes
    <2>. QED
      BY <2>1, <2>2
  <1>rc. \/ rc' = "cap" /\ rcTodo' = {} /\ (origin[made] = "auto" => made \notin qualified
              /\ ~(made <= until))
         \/ rc' = "marks" /\ rcTodo' = {made}
    BY InvGives, <1>a, <1>b, <1>m, <1>g DEF RcTracks, Replace, Reason, indexVars, pastVars,
       evVars, RcGoes
  <1>u. /\ disk' = disk /\ origin' = origin /\ qualified' = qualified /\ until' = until
        /\ made' = made /\ sd' = sd /\ ev' = ev /\ evLeft' = evLeft
        /\ evPrio' = evPrio /\ evBound' = evBound /\ evictions' = evictions /\ measured' = measured
        /\ victim' = victim /\ torn' = torn
    BY DEF RcTracks, Replace, Reason, indexVars, pastVars, evVars, RcGoes
  <1>1. TypeOK'
    BY InvGives, <1>a, <1>b, <1>m, <1>g, <1>index, <1>rc, <1>u, CaptureIndexAssumption DEF
       TypeOK, Captures, Roles, Phase, DeletePhases
  <1>2. TotalsMatch'
    BY <1>b
  <1>3. Roles'
    <2>1. rcTodo' = {} \/ rcTodo' = {made}
      BY <1>rc
    <2>2. rc' \in {"cap", "marks"} /\ (rc' = "marks" <=> rcTodo' # {})
      BY <1>rc
    <2>3. \A v \in Evictors : (victim'[v] # 0) <=> (Phase(v)' \in DeletePhases)
      BY InvGives, <1>g, <1>u, <2>2 DEF Roles, Phase, DeletePhases, Evictors
    <2>. QED
      BY InvGives, <1>a, <1>g, <1>u, <2>1, <2>2, <2>3 DEF Roles, TypeOK, Captures
  <1>4. NotYet'
    <2>1. ASSUME NEW d \in Captures, d > made PROVE index'[d] = index[d]
      BY <1>a, <1>index, <2>1
    <2>. QED
      BY InvGives, <1>u, <2>1 DEF NotYet
  <1>5. Arriving'
    BY InvGives, <1>a, <1>m, <1>g, <1>index, <1>rc, <1>u, DeletersAre, CaptureIndexAssumption
       DEF TypeOK, Arriving, DeletePhases, Roles, Captures
  <1>6. Known'
    <2>1. ASSUME NEW x \in 1 .. made' PROVE KnownOf(x)'
      BY InvGives, <1>a, <1>m, <1>g, <1>index, <1>rc, <1>u, DeletersAre, <2>1 DEF TypeOK,
         KnownOf, Fresh, Tracked, None, Arriving, DeletePhases, Captures
    <2>. QED
      BY <2>1 DEF Known
  <1>7. Measurements'
    <2>1. ASSUME NEW x \in 1 .. made' PROVE MeasurementOf(x)'
      BY InvGives, <1>a, <1>m, <1>g, <1>index, <1>u, DeletersAre, <2>1 DEF TypeOK,
         MeasurementOf, None, Arriving, Captures
    <2>. QED
      BY <2>1 DEF Measurements
  <1>8. Marks'
    <2>1. ASSUME NEW x \in 1 .. made' PROVE MarkOf(x)'
      BY InvGives, <1>a, <1>m, <1>g, <1>index, <1>rc, <1>u, DeletersAre, <2>1 DEF TypeOK,
         MarkOf, KnownOf, Fresh, Settling, None, Tracked, Captures, Arriving, DeletePhases
    <2>. QED
      BY <2>1 DEF Marks
  <1>9. Events'
    <2>1. \A q \in qualified : q <= made /\ origin[q] = "auto" /\ q + Span <= until
      BY InvGives DEF Events
    <2>2. ASSUME NEW q \in qualified, NEW x \in 1 .. made, "iq" \in disk'[x], x \notin Deleting',
                 origin[x] = "auto", x - q <= Span, q - x <= Span,
                 "mark" \in disk[x] \/ Owed(q, x)
          PROVE  "mark" \in disk'[x] \/ Owed(q, x)'
      <3>1. q \in Nat /\ x \in Nat /\ made \in Nat /\ until \in Nat /\ Span \in Nat /\ rcTodo = {}
        BY InvGives, <1>g, CaptureIndexAssumption DEF TypeOK, Captures, Roles
      <3>2. CASE "mark" \in disk[x]
        BY <3>2, <1>u
      <3>3. CASE x = made
        <4>1. made <= until
          BY <2>1, <2>2, <3>1, <3>3
        <4>2. made \in rcTodo'
          BY <1>rc, <2>2, <3>3, <4>1
        <4>. QED
          BY <3>3, <4>2, <1>u DEF Owed
      <3>4. CASE x # made /\ Owed(q, x)
        <4>1. q = made /\ x < made
          BY <3>1, <3>4 DEF Owed, Fresh
        <4>2. made \in rcTodo'
          BY <1>rc, <2>1, <4>1
        <4>. QED
          BY <4>1, <4>2, <1>u DEF Owed
      <3>. QED
        BY <2>2, <3>2, <3>3, <3>4
    <2>3. \A x \in 1 .. made : "iq" \in disk'[x] /\ x \notin Deleting' =>
            "iq" \in disk[x] /\ x \notin Deleting
      BY <1>u, DeletersAre
    <2>. QED
      BY InvGives, <1>u, <2>2, <2>3, EventsStay
  <1>10. ExactUnlessTorn'
    <2>1. ASSUME NEW x \in 1 .. made', ~torn' PROVE ExactOf(x)'
      <3>0. ExactOf(x)
        BY InvGives, <1>u, <2>1 DEF ExactUnlessTorn
      <3>1. CASE x = made
        BY InvGives, <1>a, <1>m, <1>g, <1>index, <1>rc, <1>u, DeletersAre, <2>1, <3>0, <3>1 DEF
           TypeOK, ExactOf, MeasurementOf, MarkOf, Settling, Tracked, None, Arriving,
           DeletePhases, Captures
      <3>2. CASE x # made
        BY InvGives, <1>a, <1>m, <1>g, <1>index, <1>rc, <1>u, DeletersAre, <2>1, <3>0, <3>2 DEF
           TypeOK, ExactOf, MeasurementOf, MarkOf, Settling, Tracked, None, Arriving,
           DeletePhases, Captures
      <3>. QED
        BY <3>1, <3>2
    <2>. QED
      BY <2>1 DEF ExactUnlessTorn
  <1>11. ArchiveBounded'
    BY InvGives, <1>a, <1>m, <1>g, <1>rc, <1>u DEF ArchiveBounded
  <1>. QED
    BY <1>1, <1>2, <1>3, <1>4, <1>5, <1>6, <1>7, <1>8, <1>9, <1>10, <1>11 DEF IndexInv

\* A capture that is skipped has its mark, is gone or takes no part in priority.
LEMMA RcMarkLooksKeeps ==
  ASSUME IndexInv, RcMarkLooks
  PROVE  IndexInv'
PROOF
  <1>a. RcNext \in rcTodo /\ (made \in rcTodo => RcNext = made) /\ RcNext \in 1 .. made
          /\ RcNext \in Captures
    <2>1. rcTodo # {}
      BY InvGives DEF Roles, RcMarkLooks
    <2>2. \A d \in rcTodo : d \in Captures /\ d <= made
      BY InvGives DEF Roles, TypeOK
    <2>3. RcNext \in rcTodo /\ (made \in rcTodo => RcNext = made)
      BY InvGives, <2>1, RcNextIs
    <2>. QED
      BY <2>2, <2>3 DEF Captures
  <1>g. rc = "marks"
    BY DEF RcMarkLooks, RcMarkDone, indexVars, pastVars, evVars, RcGoes
  <1>rc. \/ rc' = "touch" /\ rcTodo' = rcTodo
         \/ /\ ~Tracked(RcNext) \/ index[RcNext].priority \/ origin[RcNext] # "auto"
            /\ rcTodo' = rcTodo \ {RcNext}
                 /\ rc' = IF RcNext = made THEN "before" ELSE IF rcTodo' = {} THEN "cap"
                 ELSE "marks"
    BY InvGives, <1>a, <1>g DEF RcMarkLooks, RcMarkDone, indexVars, pastVars, evVars, RcGoes
  <1>u. /\ disk' = disk /\ index' = index /\ autoBytes' = autoBytes /\ prioBytes' = prioBytes
        /\ origin' = origin /\ qualified' = qualified /\ until' = until /\ made' = made
        /\ sd' = sd /\ ev' = ev /\ evLeft' = evLeft /\ evPrio' = evPrio
        /\ evBound' = evBound /\ evictions' = evictions /\ measured' = measured /\ victim' = victim
        /\ torn' = torn
    BY DEF RcMarkLooks, RcMarkDone, indexVars, pastVars, evVars, RcGoes
  <1>1. TypeOK'
    BY InvGives, <1>a, <1>g, <1>rc, <1>u, CaptureIndexAssumption DEF TypeOK, Captures, Roles,
       Phase, DeletePhases
  <1>2. TotalsMatch'
    <2>1. Automatic' = Automatic
      BY <1>u DEF Automatic, Tracked
    <2>. QED
      BY InvGives, <1>u, <2>1, TotalsStay
  <1>3. Roles'
    BY InvGives, <1>a, <1>g, <1>rc, <1>u, CaptureIndexAssumption DEF TypeOK, Roles, Phase,
       Evictors, DeletePhases, Captures
  <1>4. NotYet'
    BY InvGives, <1>a, <1>g, <1>u, CaptureIndexAssumption DEF TypeOK, NotYet, None, Captures,
       Roles, Phase, DeletePhases
  <1>5. Arriving'
    BY InvGives, <1>a, <1>g, <1>rc, <1>u, DeletersAre, CaptureIndexAssumption DEF TypeOK,
       Arriving, DeletePhases, Roles, Captures
  <1>6. Known'
    <2>1. ASSUME NEW x \in 1 .. made' PROVE KnownOf(x)'
      <3>1. CASE x = RcNext
        BY InvGives, <1>a, <1>g, <1>rc, <1>u, DeletersAre, <2>1, <3>1 DEF TypeOK, KnownOf,
           Fresh, Tracked, None, Arriving, DeletePhases, Captures
      <3>2. CASE x # RcNext
        BY InvGives, <1>a, <1>g, <1>rc, <1>u, DeletersAre, <2>1, <3>2 DEF TypeOK, KnownOf,
           Fresh, Tracked, None, Arriving, DeletePhases, Captures
      <3>. QED
        BY <3>1, <3>2
    <2>. QED
      BY <2>1 DEF Known
  <1>7. Measurements'
    <2>1. ASSUME NEW x \in 1 .. made' PROVE MeasurementOf(x)'
      <3>1. CASE x = RcNext
        BY InvGives, <1>a, <1>g, <1>u, DeletersAre, <2>1, <3>1 DEF TypeOK, MeasurementOf, None,
           Arriving, Captures
      <3>2. CASE x # RcNext
        BY InvGives, <1>a, <1>g, <1>u, DeletersAre, <2>1, <3>2 DEF TypeOK, MeasurementOf, None,
           Arriving, Captures
      <3>. QED
        BY <3>1, <3>2
    <2>. QED
      BY <2>1 DEF Measurements
  <1>8. Marks'
    <2>1. ASSUME NEW x \in 1 .. made' PROVE MarkOf(x)'
      <3>1. CASE x = RcNext
        BY InvGives, <1>a, <1>g, <1>rc, <1>u, DeletersAre, <2>1, <3>1 DEF TypeOK, MarkOf,
           KnownOf, Fresh, Settling, None, Tracked, Captures, Arriving, DeletePhases
      <3>2. CASE x # RcNext
        BY InvGives, <1>a, <1>g, <1>rc, <1>u, DeletersAre, <2>1, <3>2 DEF TypeOK, MarkOf,
           KnownOf, Fresh, Settling, None, Tracked, Captures, Arriving, DeletePhases
      <3>. QED
        BY <3>1, <3>2
    <2>. QED
      BY <2>1 DEF Marks
  <1>9. Events'
    <2>1. \A x \in 1 .. made : "iq" \in disk'[x] /\ x \notin Deleting' =>
            "iq" \in disk[x] /\ x \notin Deleting
      BY InvGives, <1>a, <1>g, <1>rc, <1>u, DeletersAre DEF TypeOK, DeletePhases, Captures
    <2>2. ASSUME NEW q \in qualified, NEW x \in 1 .. made, "iq" \in disk'[x], x \notin Deleting',
                 origin[x] = "auto", x - q <= Span, q - x <= Span,
                 "mark" \in disk[x] \/ Owed(q, x)
          PROVE  "mark" \in disk'[x] \/ Owed(q, x)'
      <3>0. "iq" \in disk[x] /\ x \notin Deleting /\ q <= made
        BY InvGives, <2>1, <2>2 DEF Events
      <3>1. CASE x = RcNext
        BY InvGives, <1>a, <1>g, <1>rc, <1>u, DeletersAre, <2>2, <3>0, <3>1 DEF TypeOK, Owed,
           Fresh, Captures, KnownOf, MarkOf, Settling, Tracked
      <3>2. CASE x # RcNext
        BY InvGives, <1>a, <1>g, <1>rc, <1>u, DeletersAre, <2>2, <3>0, <3>2 DEF TypeOK, Owed,
           Fresh, Captures
      <3>. QED
        BY <3>1, <3>2
    <2>. QED
      BY InvGives, <1>u, <2>1, <2>2, EventsStay
  <1>10. ExactUnlessTorn'
    <2>1. ASSUME NEW x \in 1 .. made', ~torn' PROVE ExactOf(x)'
      <3>0. ExactOf(x)
        BY InvGives, <1>u, <2>1 DEF ExactUnlessTorn
      <3>1. CASE x = RcNext
        BY InvGives, <1>a, <1>g, <1>rc, <1>u, DeletersAre, <2>1, <3>0, <3>1 DEF TypeOK, ExactOf,
           MeasurementOf, MarkOf, Settling, Tracked, None, Arriving, DeletePhases, Captures
      <3>2. CASE x # RcNext
        BY InvGives, <1>a, <1>g, <1>rc, <1>u, DeletersAre, <2>1, <3>0, <3>2 DEF TypeOK, ExactOf,
           MeasurementOf, MarkOf, Settling, Tracked, None, Arriving, DeletePhases, Captures
      <3>. QED
        BY <3>1, <3>2
    <2>. QED
      BY <2>1 DEF ExactUnlessTorn
  <1>11. ArchiveBounded'
    BY InvGives, <1>a, <1>g, <1>rc, <1>u DEF ArchiveBounded
  <1>. QED
    BY <1>1, <1>2, <1>3, <1>4, <1>5, <1>6, <1>7, <1>8, <1>9, <1>10, <1>11 DEF IndexInv

\* The mark is on disk before the entry says so.
LEMMA RcMarkTouchesKeeps ==
  ASSUME IndexInv, RcMarkTouches
  PROVE  IndexInv'
PROOF
  <1>a. RcNext \in rcTodo /\ (made \in rcTodo => RcNext = made) /\ RcNext \in 1 .. made
          /\ RcNext \in Captures
    <2>1. rcTodo # {}
      BY InvGives DEF Roles, RcMarkTouches
    <2>2. \A d \in rcTodo : d \in Captures /\ d <= made
      BY InvGives DEF Roles, TypeOK
    <2>3. RcNext \in rcTodo /\ (made \in rcTodo => RcNext = made)
      BY InvGives, <2>1, RcNextIs
    <2>. QED
      BY <2>2, <2>3 DEF Captures
  <1>g. rc = "touch"
    BY DEF RcMarkTouches, indexVars, pastVars, evVars, RcGoes
  <1>rc. rc' = "settle"
    BY InvGives, <1>a, <1>g DEF RcMarkTouches, indexVars, pastVars, evVars, RcGoes
  <1>disk. /\ disk' \in [Captures -> SUBSET Files]
           /\ \A d \in Captures \ {RcNext} : disk'[d] = disk[d]
           /\ "iq" \in disk'[RcNext] <=> "iq" \in disk[RcNext]
           /\ "mark" \in disk'[RcNext]
           /\ "sidecar" \in disk'[RcNext] <=> "sidecar" \in disk[RcNext]
    <2>1. disk' \in [Captures -> SUBSET Files]
      BY InvGives, <1>a, <1>g DEF RcMarkTouches, indexVars, pastVars, evVars, RcGoes, TypeOK,
         Captures, Evictors, Files
    <2>2. \A d \in Captures \ {RcNext} : disk'[d] = disk[d]
      BY InvGives, <1>a, <1>g DEF RcMarkTouches, indexVars, pastVars, evVars, RcGoes
    <2>3. "iq" \in disk'[RcNext] <=> "iq" \in disk[RcNext]
      BY InvGives, <1>a, <1>g DEF RcMarkTouches, indexVars, pastVars, evVars, RcGoes
    <2>4. "mark" \in disk'[RcNext]
      BY InvGives, <1>a, <1>g DEF RcMarkTouches, indexVars, pastVars, evVars, RcGoes, TypeOK,
         Captures
    <2>5. "sidecar" \in disk'[RcNext] <=> "sidecar" \in disk[RcNext]
      BY InvGives, <1>a, <1>g DEF RcMarkTouches, indexVars, pastVars, evVars, RcGoes
    <2>. QED
      BY <2>1, <2>2, <2>3, <2>4, <2>5
  <1>u. /\ index' = index /\ autoBytes' = autoBytes /\ prioBytes' = prioBytes /\ origin' = origin
        /\ qualified' = qualified /\ until' = until /\ made' = made /\ rcTodo' = rcTodo
        /\ sd' = sd /\ ev' = ev /\ evLeft' = evLeft /\ evPrio' = evPrio
        /\ evBound' = evBound /\ evictions' = evictions /\ measured' = measured /\ victim' = victim
        /\ torn' = torn
    BY DEF RcMarkTouches, indexVars, pastVars, evVars, RcGoes
  <1>r. RcNext' = RcNext
    BY <1>u DEF RcNext, Oldest
  <1>1. TypeOK'
    BY InvGives, <1>a, <1>g, <1>rc, <1>disk, <1>u, CaptureIndexAssumption DEF TypeOK, Captures,
       Roles, Phase, DeletePhases
  <1>2. TotalsMatch'
    <2>1. Automatic' = Automatic
      BY <1>u DEF Automatic, Tracked
    <2>. QED
      BY InvGives, <1>u, <2>1, TotalsStay
  <1>3. Roles'
    BY InvGives, <1>a, <1>g, <1>rc, <1>u, CaptureIndexAssumption DEF TypeOK, Roles, Phase,
       Evictors, DeletePhases, Captures
  <1>4. NotYet'
    BY InvGives, <1>a, <1>g, <1>disk, <1>u, CaptureIndexAssumption DEF TypeOK, NotYet, None,
       Captures, Roles, Phase, DeletePhases
  <1>5. Arriving'
    BY InvGives, <1>a, <1>g, <1>rc, <1>disk, <1>u, DeletersAre, CaptureIndexAssumption DEF
       TypeOK, Arriving, DeletePhases, Roles, Captures
  <1>6. Known'
    <2>1. ASSUME NEW x \in 1 .. made' PROVE KnownOf(x)'
      <3>1. CASE x = RcNext
        BY InvGives, <1>a, <1>g, <1>rc, <1>disk, <1>u, DeletersAre, <2>1, <3>1 DEF TypeOK,
           KnownOf, Fresh, Tracked, None, Arriving, DeletePhases, Captures
      <3>2. CASE x # RcNext
        BY InvGives, <1>a, <1>g, <1>rc, <1>disk, <1>u, DeletersAre, <2>1, <3>2 DEF TypeOK,
           KnownOf, Fresh, Tracked, None, Arriving, DeletePhases, Captures
      <3>. QED
        BY <3>1, <3>2
    <2>. QED
      BY <2>1 DEF Known
  <1>7. Measurements'
    <2>1. ASSUME NEW x \in 1 .. made' PROVE MeasurementOf(x)'
      <3>1. CASE x = RcNext
        BY InvGives, <1>a, <1>g, <1>disk, <1>u, DeletersAre, <2>1, <3>1 DEF TypeOK,
           MeasurementOf, None, Arriving, Captures
      <3>2. CASE x # RcNext
        BY InvGives, <1>a, <1>g, <1>disk, <1>u, DeletersAre, <2>1, <3>2 DEF TypeOK,
           MeasurementOf, None, Arriving, Captures
      <3>. QED
        BY <3>1, <3>2
    <2>. QED
      BY <2>1 DEF Measurements
  <1>8. Marks'
    <2>1. ASSUME NEW x \in 1 .. made' PROVE MarkOf(x)'
      <3>1. CASE x = RcNext
        BY InvGives, <1>a, <1>g, <1>rc, <1>disk, <1>u, <1>r, DeletersAre, <2>1, <3>1 DEF TypeOK,
           MarkOf, KnownOf, Fresh, Settling, None, Tracked, Captures, Arriving, DeletePhases
      <3>2. CASE x # RcNext
        BY InvGives, <1>a, <1>g, <1>rc, <1>disk, <1>u, <1>r, DeletersAre, <2>1, <3>2 DEF TypeOK,
           MarkOf, KnownOf, Fresh, Settling, None, Tracked, Captures, Arriving, DeletePhases
      <3>. QED
        BY <3>1, <3>2
    <2>. QED
      BY <2>1 DEF Marks
  <1>9. Events'
    <2>1. \A x \in 1 .. made : "iq" \in disk'[x] /\ x \notin Deleting' =>
            "iq" \in disk[x] /\ x \notin Deleting
      BY InvGives, <1>a, <1>g, <1>rc, <1>disk, <1>u, DeletersAre DEF TypeOK, DeletePhases,
         Captures
    <2>2. ASSUME NEW q \in qualified, NEW x \in 1 .. made, "iq" \in disk'[x], x \notin Deleting',
                 origin[x] = "auto", x - q <= Span, q - x <= Span,
                 "mark" \in disk[x] \/ Owed(q, x)
          PROVE  "mark" \in disk'[x] \/ Owed(q, x)'
      <3>0. "iq" \in disk[x] /\ x \notin Deleting /\ q <= made
        BY InvGives, <2>1, <2>2 DEF Events
      <3>1. CASE x = RcNext
        BY InvGives, <1>a, <1>g, <1>rc, <1>disk, <1>u, DeletersAre, <2>2, <3>0, <3>1 DEF TypeOK,
           Owed, Fresh, Captures, KnownOf, MarkOf, Settling, Tracked
      <3>2. CASE x # RcNext
        BY InvGives, <1>a, <1>g, <1>rc, <1>disk, <1>u, DeletersAre, <2>2, <3>0, <3>2 DEF TypeOK,
           Owed, Fresh, Captures
      <3>. QED
        BY <3>1, <3>2
    <2>. QED
      BY InvGives, <1>u, <2>1, <2>2, EventsStay
  <1>10. ExactUnlessTorn'
    <2>1. ASSUME NEW x \in 1 .. made', ~torn' PROVE ExactOf(x)'
      <3>0. ExactOf(x)
        BY InvGives, <1>u, <2>1 DEF ExactUnlessTorn
      <3>1. CASE x = RcNext
        BY InvGives, <1>a, <1>g, <1>rc, <1>disk, <1>u, <1>r, DeletersAre, <2>1, <3>0, <3>1 DEF
           TypeOK, ExactOf, MeasurementOf, MarkOf, Settling, Tracked, None, Arriving,
           DeletePhases, Captures
      <3>2. CASE x # RcNext
        BY InvGives, <1>a, <1>g, <1>rc, <1>disk, <1>u, <1>r, DeletersAre, <2>1, <3>0, <3>2 DEF
           TypeOK, ExactOf, MeasurementOf, MarkOf, Settling, Tracked, None, Arriving,
           DeletePhases, Captures
      <3>. QED
        BY <3>1, <3>2
    <2>. QED
      BY <2>1 DEF ExactUnlessTorn
  <1>11. ArchiveBounded'
    BY InvGives, <1>a, <1>g, <1>rc, <1>disk, <1>u DEF ArchiveBounded
  <1>. QED
    BY <1>1, <1>2, <1>3, <1>4, <1>5, <1>6, <1>7, <1>8, <1>9, <1>10, <1>11 DEF IndexInv

\* The entry gets the mark, or the mark of an evicted capture is taken back.
LEMMA RcMarkSettlesKeeps ==
  ASSUME IndexInv, RcMarkSettles
  PROVE  IndexInv'
PROOF
  <1>a. RcNext \in rcTodo /\ (made \in rcTodo => RcNext = made) /\ RcNext \in 1 .. made
          /\ RcNext \in Captures
    <2>1. rcTodo # {}
      BY InvGives DEF Roles, RcMarkSettles
    <2>2. \A d \in rcTodo : d \in Captures /\ d <= made
      BY InvGives DEF Roles, TypeOK
    <2>3. RcNext \in rcTodo /\ (made \in rcTodo => RcNext = made)
      BY InvGives, <2>1, RcNextIs
    <2>. QED
      BY <2>2, <2>3 DEF Captures
  <1>b. TotalsMatch' /\ index' \in [Captures -> Entries] /\ autoBytes' \in Nat
          /\ prioBytes' \in 0 .. autoBytes'
    <2>1. CASE Tracked(RcNext)
      <3>. DEFINE e == [index[RcNext] EXCEPT !.priority = TRUE]
      <3>1. e \in Entries /\ e.size = index[RcNext].size /\ e.there
        BY InvGives, <1>a, <2>1 DEF TypeOK, Entries, Tracked
      <3>2. e.size \in Sizes
        BY InvGives, <1>a, <2>1, <3>1, TotalsAre
      <3>3. Replace(RcNext, e) /\ origin' = origin
        BY <2>1 DEF RcMarkSettles, pastVars
      <3>. HIDE DEF e
      <3>. QED
        BY InvGives, <1>a, <3>1, <3>2, <3>3, ReplaceKeepsTotals
    <2>2. CASE ~Tracked(RcNext)
      <3>1. index' = index /\ autoBytes' = autoBytes /\ prioBytes' = prioBytes /\ origin' = origin
        BY <2>2 DEF RcMarkSettles, indexVars, pastVars
      <3>2. Automatic' = Automatic
        BY <3>1 DEF Automatic, Tracked
      <3>. QED
        BY InvGives, <3>1, <3>2, TotalsStay DEF TypeOK
    <2>. QED
      BY <2>1, <2>2
  <1>g. rc = "settle"
    BY DEF RcMarkSettles, RcMarkDone, Replace, indexVars, pastVars, evVars, RcGoes
  <1>rc. rcTodo' = rcTodo \ {RcNext}
           /\ rc' = IF RcNext = made THEN "before" ELSE IF rcTodo' = {} THEN "cap" ELSE "marks"
    BY InvGives, <1>a, <1>b, <1>g DEF RcMarkSettles, RcMarkDone, Replace, indexVars, pastVars,
       evVars, RcGoes
  <1>index. /\ index[RcNext] \in Entries
            /\ Tracked(RcNext)
                 => index' = [index EXCEPT ![RcNext] = [index[RcNext] EXCEPT !.priority = TRUE]]
            /\ Tracked(RcNext) => index'[RcNext] = [index[RcNext] EXCEPT !.priority = TRUE]
            /\ [index[RcNext] EXCEPT !.priority = TRUE].there = index[RcNext].there
            /\ index[RcNext].there \in BOOLEAN
            /\ Tracked(RcNext) => index[RcNext].there = TRUE
            /\ [index[RcNext] EXCEPT !.priority = TRUE].size = index[RcNext].size
            /\ [index[RcNext] EXCEPT !.priority = TRUE].priority = TRUE
            /\ Tracked(RcNext) => index'[RcNext].there = TRUE
            /\ Tracked(RcNext) => index'[RcNext].priority = TRUE
            /\ Tracked(RcNext) => index'[RcNext].size = index[RcNext].size
            /\ ~Tracked(RcNext) => index' = index
            /\ \A d \in Captures \ {RcNext} : index'[d] = index[d]
    <2>1. index[RcNext] \in Entries
      BY InvGives, <1>a, <1>b, <1>g DEF RcMarkSettles, RcMarkDone, Replace, indexVars, pastVars,
         evVars, RcGoes, TypeOK, Captures
    <2>2. Tracked(RcNext)
            => index' = [index EXCEPT ![RcNext] = [index[RcNext] EXCEPT !.priority = TRUE]]
      BY InvGives, <1>a, <1>b, <1>g DEF RcMarkSettles, RcMarkDone, Replace, indexVars, pastVars,
         evVars, RcGoes
    <2>3. Tracked(RcNext) => index'[RcNext] = [index[RcNext] EXCEPT !.priority = TRUE]
      BY InvGives, <1>a, <1>b, <1>g DEF RcMarkSettles, RcMarkDone, Replace, indexVars, pastVars,
         evVars, RcGoes
    <2>4. [index[RcNext] EXCEPT !.priority = TRUE].there = index[RcNext].there
      BY InvGives, <1>a, <1>b, <1>g DEF RcMarkSettles, RcMarkDone, Replace, indexVars, pastVars,
         evVars, RcGoes
    <2>5. index[RcNext].there \in BOOLEAN
      BY InvGives, <1>a, <1>b, <1>g DEF RcMarkSettles, RcMarkDone, Replace, indexVars, pastVars,
         evVars, RcGoes, TypeOK, Captures, Evictors, Files, None, Entries
    <2>6. Tracked(RcNext) => index[RcNext].there = TRUE
      BY <2>5 DEF Tracked
    <2>7. [index[RcNext] EXCEPT !.priority = TRUE].size = index[RcNext].size
      BY InvGives, <1>a, <1>b, <1>g DEF RcMarkSettles, RcMarkDone, Replace, indexVars, pastVars,
         evVars, RcGoes
    <2>8. [index[RcNext] EXCEPT !.priority = TRUE].priority = TRUE
      BY InvGives, <1>a, <1>b, <1>g DEF RcMarkSettles, RcMarkDone, Replace, indexVars, pastVars,
         evVars, RcGoes
    <2>9. Tracked(RcNext) => index'[RcNext].there = TRUE
      BY InvGives, <1>a, <1>b, <1>g, <2>1, <2>2, <2>3, <2>4, <2>5, <2>6, <2>7, <2>8,
         CaptureIndexAssumption DEF RcMarkSettles, RcMarkDone, Replace, indexVars, pastVars,
         evVars, RcGoes, TypeOK, Captures, Evictors, Files, None, Entries
    <2>10. Tracked(RcNext) => index'[RcNext].priority = TRUE
      BY InvGives, <1>a, <1>b, <1>g DEF RcMarkSettles, RcMarkDone, Replace, indexVars, pastVars,
         evVars, RcGoes, TypeOK, Captures, Evictors, Files, None, Entries
    <2>11. Tracked(RcNext) => index'[RcNext].size = index[RcNext].size
      BY InvGives, <1>a, <1>b, <1>g DEF RcMarkSettles, RcMarkDone, Replace, indexVars, pastVars,
         evVars, RcGoes, TypeOK, Captures, Evictors, Files, None, Entries
    <2>12. ~Tracked(RcNext) => index' = index
      BY InvGives, <1>a, <1>b, <1>g DEF RcMarkSettles, RcMarkDone, Replace, indexVars, pastVars,
         evVars, RcGoes
    <2>13. \A d \in Captures \ {RcNext} : index'[d] = index[d]
      BY InvGives, <1>a, <1>b, <1>g DEF RcMarkSettles, RcMarkDone, Replace, indexVars, pastVars,
         evVars, RcGoes
    <2>. QED
      BY <2>1, <2>2, <2>3, <2>4, <2>5, <2>6, <2>7, <2>8, <2>9, <2>10, <2>11, <2>12, <2>13
  <1>disk. /\ Tracked(RcNext) => disk' = disk
           /\ disk[RcNext] \ {"mark"} \in SUBSET Files
           /\ ~Tracked(RcNext) => disk' = [disk EXCEPT ![RcNext] = disk[RcNext] \ {"mark"}]
           /\ disk \in [Captures -> SUBSET Files]
           /\ [disk EXCEPT ![RcNext] = disk[RcNext] \ {"mark"}] \in [Captures -> SUBSET Files]
           /\ disk' \in [Captures -> SUBSET Files]
           /\ \A d \in Captures \ {RcNext} : disk'[d] = disk[d]
           /\ "iq" \in disk'[RcNext] <=> "iq" \in disk[RcNext]
           /\ "sidecar" \in disk'[RcNext] <=> "sidecar" \in disk[RcNext]
           /\ ~Tracked(RcNext) => "mark" \notin disk'[RcNext]
    <2>1. Tracked(RcNext) => disk' = disk
      BY InvGives, <1>a, <1>b, <1>g DEF RcMarkSettles, RcMarkDone, Replace, indexVars, pastVars,
         evVars, RcGoes
    <2>2. disk[RcNext] \ {"mark"} \in SUBSET Files
      BY InvGives, <1>a, <1>b, <1>g DEF RcMarkSettles, RcMarkDone, Replace, indexVars, pastVars,
         evVars, RcGoes, TypeOK, Captures
    <2>3. ~Tracked(RcNext) => disk' = [disk EXCEPT ![RcNext] = disk[RcNext] \ {"mark"}]
      BY InvGives, <1>a, <1>b, <1>g DEF RcMarkSettles, RcMarkDone, Replace, indexVars, pastVars,
         evVars, RcGoes
    <2>4. disk \in [Captures -> SUBSET Files]
      BY InvGives, <1>a, <1>b, <1>g DEF RcMarkSettles, RcMarkDone, Replace, indexVars, pastVars,
         evVars, RcGoes, TypeOK, Captures
    <2>5. [disk EXCEPT ![RcNext] = disk[RcNext] \ {"mark"}] \in [Captures -> SUBSET Files]
      BY InvGives, <1>a, <1>b, <1>g DEF RcMarkSettles, RcMarkDone, Replace, indexVars, pastVars,
         evVars, RcGoes, TypeOK, Captures
    <2>6. disk' \in [Captures -> SUBSET Files]
      BY InvGives, <1>a, <1>b, <1>g DEF RcMarkSettles, RcMarkDone, Replace, indexVars, pastVars,
         evVars, RcGoes, TypeOK, Captures
    <2>7. \A d \in Captures \ {RcNext} : disk'[d] = disk[d]
      BY InvGives, <1>a, <1>b, <1>g DEF RcMarkSettles, RcMarkDone, Replace, indexVars, pastVars,
         evVars, RcGoes, TypeOK, Captures
    <2>8. "iq" \in disk'[RcNext] <=> "iq" \in disk[RcNext]
      BY InvGives, <1>a, <1>b, <1>g DEF RcMarkSettles, RcMarkDone, Replace, indexVars, pastVars,
         evVars, RcGoes, TypeOK, Captures
    <2>9. "sidecar" \in disk'[RcNext] <=> "sidecar" \in disk[RcNext]
      BY InvGives, <1>a, <1>b, <1>g DEF RcMarkSettles, RcMarkDone, Replace, indexVars, pastVars,
         evVars, RcGoes, TypeOK, Captures
    <2>10. ~Tracked(RcNext) => "mark" \notin disk'[RcNext]
      BY InvGives, <1>a, <1>b, <1>g DEF RcMarkSettles, RcMarkDone, Replace, indexVars, pastVars,
         evVars, RcGoes, TypeOK, Captures
    <2>. QED
      BY <2>1, <2>2, <2>3, <2>4, <2>5, <2>6, <2>7, <2>8, <2>9, <2>10
  <1>u. /\ origin' = origin /\ qualified' = qualified /\ until' = until /\ made' = made
        /\ sd' = sd /\ ev' = ev /\ evLeft' = evLeft /\ evPrio' = evPrio
        /\ evBound' = evBound /\ evictions' = evictions /\ measured' = measured /\ victim' = victim
        /\ torn' = torn
    BY DEF RcMarkSettles, RcMarkDone, Replace, indexVars, pastVars, evVars, RcGoes
  <1>1. TypeOK'
    BY InvGives, <1>a, <1>b, <1>g, <1>rc, <1>index, <1>disk, <1>u, CaptureIndexAssumption DEF
       TypeOK, Captures, Roles, Phase, DeletePhases
  <1>2. TotalsMatch'
    BY <1>b
  <1>3. Roles'
    BY InvGives, <1>a, <1>g, <1>rc, <1>u, CaptureIndexAssumption DEF TypeOK, Roles, Phase,
       Evictors, DeletePhases, Captures
  <1>4. NotYet'
    <2>1. ASSUME NEW d \in Captures, d > made
          PROVE  disk'[d] = disk[d] /\ index'[d] = index[d]
      <3>1. RcNext <= made /\ RcNext \in Nat /\ made \in Nat
        BY InvGives, <1>a DEF TypeOK
      <3>2. d # RcNext
        BY <2>1, <3>1 DEF Captures
      <3>. QED
        BY <2>1, <3>2, <1>disk, <1>index
    <2>. QED
      BY InvGives, <1>u, <2>1 DEF NotYet
  <1>5. Arriving'
    BY InvGives, <1>a, <1>g, <1>rc, <1>index, <1>disk, <1>u, DeletersAre, CaptureIndexAssumption
       DEF TypeOK, Arriving, DeletePhases, Roles, Captures
  <1>6. Known'
    <2>1. ASSUME NEW x \in 1 .. made' PROVE KnownOf(x)'
      <3>1. CASE x = RcNext
        BY InvGives, <1>a, <1>g, <1>rc, <1>index, <1>disk, <1>u, DeletersAre, <2>1, <3>1 DEF
           TypeOK, KnownOf, Fresh, Tracked, None, Arriving, DeletePhases, Captures
      <3>2. CASE x # RcNext
        BY InvGives, <1>a, <1>g, <1>rc, <1>index, <1>disk, <1>u, DeletersAre, <2>1, <3>2 DEF
           TypeOK, KnownOf, Fresh, Tracked, None, Arriving, DeletePhases, Captures
      <3>. QED
        BY <3>1, <3>2
    <2>. QED
      BY <2>1 DEF Known
  <1>7. Measurements'
    <2>1. ASSUME NEW x \in 1 .. made' PROVE MeasurementOf(x)'
      <3>1. CASE x = RcNext
        BY InvGives, <1>a, <1>g, <1>index, <1>disk, <1>u, DeletersAre, <2>1, <3>1 DEF TypeOK,
           MeasurementOf, None, Arriving, Captures
      <3>2. CASE x # RcNext
        BY InvGives, <1>a, <1>g, <1>index, <1>disk, <1>u, DeletersAre, <2>1, <3>2 DEF TypeOK,
           MeasurementOf, None, Arriving, Captures
      <3>. QED
        BY <3>1, <3>2
    <2>. QED
      BY <2>1 DEF Measurements
  <1>8. Marks'
    <2>1. ASSUME NEW x \in 1 .. made' PROVE MarkOf(x)'
      <3>1. CASE x = RcNext
        BY InvGives, <1>a, <1>g, <1>rc, <1>index, <1>disk, <1>u, DeletersAre, <2>1, <3>1 DEF
           TypeOK, MarkOf, KnownOf, Fresh, Settling, None, Tracked, Captures, Arriving,
           DeletePhases
      <3>2. CASE x # RcNext
        BY InvGives, <1>a, <1>g, <1>rc, <1>index, <1>disk, <1>u, DeletersAre, <2>1, <3>2 DEF
           TypeOK, MarkOf, KnownOf, Fresh, Settling, None, Tracked, Captures, Arriving,
           DeletePhases
      <3>. QED
        BY <3>1, <3>2
    <2>. QED
      BY <2>1 DEF Marks
  <1>9. Events'
    <2>1. \A x \in 1 .. made : "iq" \in disk'[x] /\ x \notin Deleting' =>
            "iq" \in disk[x] /\ x \notin Deleting
      BY InvGives, <1>a, <1>g, <1>rc, <1>disk, <1>u, DeletersAre DEF TypeOK, DeletePhases,
         Captures
    <2>2. ASSUME NEW q \in qualified, NEW x \in 1 .. made, "iq" \in disk'[x], x \notin Deleting',
                 origin[x] = "auto", x - q <= Span, q - x <= Span,
                 "mark" \in disk[x] \/ Owed(q, x)
          PROVE  "mark" \in disk'[x] \/ Owed(q, x)'
      <3>0. "iq" \in disk[x] /\ x \notin Deleting /\ q <= made
        BY InvGives, <2>1, <2>2 DEF Events
      <3>1. CASE x = RcNext
        BY InvGives, <1>a, <1>g, <1>rc, <1>disk, <1>u, DeletersAre, <2>2, <3>0, <3>1 DEF TypeOK,
           Owed, Fresh, Captures, KnownOf, MarkOf, Settling, Tracked
      <3>2. CASE x # RcNext
        BY InvGives, <1>a, <1>g, <1>rc, <1>disk, <1>u, DeletersAre, <2>2, <3>0, <3>2 DEF TypeOK,
           Owed, Fresh, Captures
      <3>. QED
        BY <3>1, <3>2
    <2>. QED
      BY InvGives, <1>u, <2>1, <2>2, EventsStay
  <1>10. ExactUnlessTorn'
    <2>1. ASSUME NEW x \in 1 .. made', ~torn' PROVE ExactOf(x)'
      <3>0. ExactOf(x)
        BY InvGives, <1>u, <2>1 DEF ExactUnlessTorn
      <3>1. CASE x = RcNext
        BY InvGives, <1>a, <1>b, <1>g, <1>rc, <1>index, <1>disk, <1>u, DeletersAre, <2>1, <3>0,
           <3>1 DEF TypeOK, ExactOf, MeasurementOf, MarkOf, Settling, Tracked, None, Arriving,
           DeletePhases, Captures
      <3>2. CASE x # RcNext
        BY InvGives, <1>a, <1>b, <1>g, <1>rc, <1>index, <1>disk, <1>u, DeletersAre, <2>1, <3>0,
           <3>2 DEF TypeOK, ExactOf, MeasurementOf, MarkOf, Settling, Tracked, None, Arriving,
           DeletePhases, Captures
      <3>. QED
        BY <3>1, <3>2
    <2>. QED
      BY <2>1 DEF ExactUnlessTorn
  <1>11. ArchiveBounded'
    BY InvGives, <1>a, <1>g, <1>rc, <1>disk, <1>u DEF ArchiveBounded
  <1>. QED
    BY <1>1, <1>2, <1>3, <1>4, <1>5, <1>6, <1>7, <1>8, <1>9, <1>10, <1>11 DEF IndexInv

\* The captures before one that qualified are owed marks as far as they are there.
LEMMA RcListsBeforeKeeps ==
  ASSUME IndexInv, RcListsBefore
  PROVE  IndexInv'
PROOF
  <1>g. rc = "before"
    BY DEF RcListsBefore, Reason, Automatic, indexVars, pastVars, evVars, RcGoes
  <1>rcTodo. /\ rcTodo' \in SUBSET Captures
             /\ rcTodo' # {} => made \in qualified /\ origin[made] = "auto"
             /\ \A d \in rcTodo' : d < made
             /\ \A d \in Captures : /\ made \in qualified /\ origin[made] = "auto" /\ Tracked(d)
                                    /\ origin[d] = "auto" /\ d < made /\ made - d <= Span
                                    => d \in rcTodo'
    <2>1. rcTodo' \in SUBSET Captures
      BY InvGives, <1>g DEF RcListsBefore, Reason, Automatic, indexVars, pastVars, evVars,
         RcGoes
    <2>2. rcTodo' # {} => made \in qualified /\ origin[made] = "auto"
      BY InvGives, <1>g DEF RcListsBefore, Reason, Automatic, indexVars, pastVars, evVars,
         RcGoes
    <2>3. \A d \in rcTodo' : d < made
      BY InvGives, <1>g DEF RcListsBefore, Reason, Automatic, indexVars, pastVars, evVars,
         RcGoes
    <2>4. \A d \in Captures : /\ made \in qualified /\ origin[made] = "auto" /\ Tracked(d)
                                    /\ origin[d] = "auto" /\ d < made /\ made - d <= Span
                                    => d \in rcTodo'
      BY SMTT(30), InvGives, <1>g, CaptureIndexAssumption DEF RcListsBefore, Reason, Automatic,
         indexVars,
         pastVars, evVars, RcGoes, TypeOK, Captures, Evictors, Files
    <2>. QED
      BY <2>1, <2>2, <2>3, <2>4
  <1>rc. rc' = IF rcTodo' = {} THEN "cap" ELSE "marks"
    BY InvGives, <1>g DEF RcListsBefore, Reason, Automatic, indexVars, pastVars, evVars, RcGoes
  <1>u. /\ disk' = disk /\ index' = index /\ autoBytes' = autoBytes /\ prioBytes' = prioBytes
        /\ origin' = origin /\ qualified' = qualified /\ until' = until /\ made' = made
        /\ sd' = sd /\ ev' = ev /\ evLeft' = evLeft /\ evPrio' = evPrio
        /\ evBound' = evBound /\ evictions' = evictions /\ measured' = measured /\ victim' = victim
        /\ torn' = torn
    BY DEF RcListsBefore, Reason, Automatic, indexVars, pastVars, evVars, RcGoes
  <1>1. TypeOK'
    BY InvGives, <1>g, <1>rcTodo, <1>rc, <1>u, CaptureIndexAssumption DEF TypeOK, Captures,
       Roles, Phase, DeletePhases
  <1>2. TotalsMatch'
    <2>1. Automatic' = Automatic
      BY <1>u DEF Automatic, Tracked
    <2>. QED
      BY InvGives, <1>u, <2>1, TotalsStay
  <1>3. Roles'
    BY InvGives, <1>g, <1>rcTodo, <1>rc, <1>u, CaptureIndexAssumption DEF TypeOK, Roles, Phase,
       Evictors, DeletePhases, Captures
  <1>4. NotYet'
    BY InvGives, <1>g, <1>u, CaptureIndexAssumption DEF TypeOK, NotYet, None, Captures, Roles,
       Phase, DeletePhases
  <1>5. Arriving'
    BY InvGives, <1>g, <1>rc, <1>u, DeletersAre, CaptureIndexAssumption DEF TypeOK, Arriving,
       DeletePhases, Roles, Captures
  <1>6. Known'
    <2>1. ASSUME NEW x \in 1 .. made' PROVE KnownOf(x)'
      BY InvGives, <1>g, <1>rc, <1>u, DeletersAre, <2>1 DEF TypeOK, KnownOf, Fresh, Tracked,
         None, Arriving, DeletePhases, Captures
    <2>. QED
      BY <2>1 DEF Known
  <1>7. Measurements'
    <2>1. ASSUME NEW x \in 1 .. made' PROVE MeasurementOf(x)'
      BY InvGives, <1>g, <1>u, DeletersAre, <2>1 DEF TypeOK, MeasurementOf, None, Arriving,
         Captures
    <2>. QED
      BY <2>1 DEF Measurements
  <1>8. Marks'
    <2>1. ASSUME NEW x \in 1 .. made' PROVE MarkOf(x)'
      BY InvGives, <1>g, <1>rcTodo, <1>rc, <1>u, DeletersAre, <2>1 DEF TypeOK, MarkOf, KnownOf,
         Fresh, Settling, None, Tracked, Captures, Arriving, DeletePhases
    <2>. QED
      BY <2>1 DEF Marks
  <1>9. Events'
    <2>1. \A x \in 1 .. made : "iq" \in disk'[x] /\ x \notin Deleting' =>
            "iq" \in disk[x] /\ x \notin Deleting
      BY <1>u, DeletersAre
    <2>2. ASSUME NEW q \in qualified, NEW x \in 1 .. made, "iq" \in disk'[x], x \notin Deleting',
                 origin[x] = "auto", x - q <= Span, q - x <= Span,
                 "mark" \in disk[x] \/ Owed(q, x)
          PROVE  "mark" \in disk'[x] \/ Owed(q, x)'
      <3>1. CASE "mark" \in disk[x]
        BY <1>u, <3>1
      <3>2. CASE Owed(q, x)
        <4>1. q = made /\ x < made
          BY InvGives, <1>g, <3>2 DEF Owed, Fresh, Roles
        <4>2. Tracked(x)
          <5>1. KnownOf(x) /\ "iq" \in disk[x]
            BY InvGives, <2>1, <2>2
          <5>2. ~Claimed(x) /\ ~Fresh(x)
            BY <1>u, <1>g, <2>2, DeletersAre DEF Fresh
          <5>. QED
            BY <5>1, <5>2 DEF KnownOf
        <4>3. origin[made] = "auto" /\ x \in Captures
          BY InvGives, <4>1 DEF Events
        <4>4. x \in rcTodo'
          BY <1>rcTodo, <2>2, <4>1, <4>2, <4>3
        <4>. QED
          BY <4>4 DEF Owed
      <3>. QED
        BY <2>2, <3>1, <3>2
    <2>. QED
      BY InvGives, <1>u, <2>1, <2>2, EventsStay
  <1>10. ExactUnlessTorn'
    <2>1. ASSUME NEW x \in 1 .. made', ~torn' PROVE ExactOf(x)'
      <3>0. ExactOf(x)
        BY InvGives, <1>u, <2>1 DEF ExactUnlessTorn
      <3>. QED
        BY InvGives, <1>g, <1>rcTodo, <1>rc, <1>u, DeletersAre, <2>1, <3>0 DEF TypeOK, ExactOf,
           MeasurementOf, MarkOf, Settling, Tracked, None, Arriving, DeletePhases, Captures
    <2>. QED
      BY <2>1 DEF ExactUnlessTorn
  <1>11. ArchiveBounded'
    BY InvGives, <1>g, <1>rc, <1>u DEF ArchiveBounded
  <1>. QED
    BY <1>1, <1>2, <1>3, <1>4, <1>5, <1>6, <1>7, <1>8, <1>9, <1>10, <1>11 DEF IndexInv

\* Recording control comes to rest only within the cap, on disk and in the index.
LEMMA RcCapKeeps ==
  ASSUME IndexInv, RcCap
  PROVE  IndexInv'
PROOF
  <1>a. OverCap => CapVictim \in 1 .. made /\ CapVictim \in Captures
    <2>1. OverCap => CapVictim \in Automatic
      BY CapVictimIs
    <2>. QED
      BY InvGives, <2>1 DEF NotYet, TypeOK, Automatic, Captures, Tracked, None
  <1>g. rc = "cap"
    BY DEF RcCap, indexVars, pastVars, evVars, RcGoes
  <1>rc. \/ OverCap /\ victim'["cap"] = CapVictim /\ rc' = "claim"
         \/ ~OverCap /\ victim' = victim /\ rc' = "idle"
    BY InvGives, <1>a, <1>g DEF RcCap, indexVars, pastVars, evVars, RcGoes, TypeOK, Captures,
       Evictors, Files
  <1>victim. /\ victim' \in [Evictors -> 0 .. MaxCaptures]
             /\ victim'["space"] = victim["space"]
    <2>1. victim' \in [Evictors -> 0 .. MaxCaptures]
      BY InvGives, <1>a, <1>g DEF RcCap, indexVars, pastVars, evVars, RcGoes, TypeOK, Captures
    <2>2. victim'["space"] = victim["space"]
      BY InvGives, <1>a, <1>g DEF RcCap, indexVars, pastVars, evVars, RcGoes, TypeOK, Captures,
         Evictors, Files
    <2>. QED
      BY <2>1, <2>2
  <1>u. /\ disk' = disk /\ index' = index /\ autoBytes' = autoBytes /\ prioBytes' = prioBytes
        /\ origin' = origin /\ qualified' = qualified /\ until' = until /\ made' = made
        /\ rcTodo' = rcTodo /\ sd' = sd /\ ev' = ev /\ evLeft' = evLeft
        /\ evPrio' = evPrio /\ evBound' = evBound /\ evictions' = evictions /\ measured' = measured
        /\ torn' = torn
    BY DEF RcCap, indexVars, pastVars, evVars, RcGoes
  <1>r. RcNext' = RcNext
    BY <1>u DEF RcNext, Oldest
  <1>1. TypeOK'
    BY InvGives, <1>a, <1>g, <1>rc, <1>victim, <1>u, CaptureIndexAssumption DEF TypeOK,
       Captures, Roles, Phase, DeletePhases
  <1>2. TotalsMatch'
    <2>1. Automatic' = Automatic
      BY <1>u DEF Automatic, Tracked
    <2>. QED
      BY InvGives, <1>u, <2>1, TotalsStay
  <1>3. Roles'
    BY InvGives, <1>a, <1>g, <1>rc, <1>victim, <1>u, CaptureIndexAssumption DEF TypeOK, Roles,
       Phase, Evictors, DeletePhases, Captures
  <1>4. NotYet'
    BY InvGives, <1>a, <1>g, <1>u, CaptureIndexAssumption DEF TypeOK, NotYet, None, Captures,
       Roles, Phase, DeletePhases
  <1>5. Arriving'
    BY InvGives, <1>a, <1>g, <1>rc, <1>victim, <1>u, DeletersAre, CaptureIndexAssumption DEF
       TypeOK, Arriving, DeletePhases, Roles, Captures
  <1>6. Known'
    <2>1. ASSUME NEW x \in 1 .. made' PROVE KnownOf(x)'
      BY InvGives, <1>a, <1>g, <1>rc, <1>victim, <1>u, DeletersAre, <2>1 DEF TypeOK, KnownOf,
         Fresh, Tracked, None, Arriving, DeletePhases, Captures
    <2>. QED
      BY <2>1 DEF Known
  <1>7. Measurements'
    <2>1. ASSUME NEW x \in 1 .. made' PROVE MeasurementOf(x)'
      BY InvGives, <1>a, <1>g, <1>u, DeletersAre, <2>1 DEF TypeOK, MeasurementOf, None,
         Arriving, Captures
    <2>. QED
      BY <2>1 DEF Measurements
  <1>8. Marks'
    <2>1. ASSUME NEW x \in 1 .. made' PROVE MarkOf(x)'
      BY InvGives, <1>a, <1>g, <1>rc, <1>victim, <1>u, <1>r, DeletersAre, <2>1 DEF TypeOK,
         MarkOf, KnownOf, Fresh, Settling, None, Tracked, Captures, Arriving, DeletePhases
    <2>. QED
      BY <2>1 DEF Marks
  <1>9. Events'
    <2>1. \A x \in 1 .. made : "iq" \in disk'[x] /\ x \notin Deleting' =>
            "iq" \in disk[x] /\ x \notin Deleting
      BY InvGives, <1>a, <1>g, <1>rc, <1>victim, <1>u, DeletersAre DEF TypeOK, DeletePhases,
         Captures
    <2>2. ASSUME NEW q \in qualified, NEW x \in 1 .. made, "iq" \in disk'[x], x \notin Deleting',
                 origin[x] = "auto", x - q <= Span, q - x <= Span,
                 "mark" \in disk[x] \/ Owed(q, x)
          PROVE  "mark" \in disk'[x] \/ Owed(q, x)'
      <3>0. "iq" \in disk[x] /\ x \notin Deleting /\ q <= made
        BY InvGives, <2>1, <2>2 DEF Events
      <3>. QED
        BY InvGives, <1>a, <1>g, <1>rc, <1>victim, <1>u, DeletersAre, <2>2, <3>0 DEF TypeOK,
           Owed, Fresh, Captures, KnownOf, Tracked
    <2>. QED
      BY InvGives, <1>u, <2>1, <2>2, EventsStay
  <1>10. ExactUnlessTorn'
    <2>1. ASSUME NEW x \in 1 .. made', ~torn' PROVE ExactOf(x)'
      <3>0. ExactOf(x)
        BY InvGives, <1>u, <2>1 DEF ExactUnlessTorn
      <3>. QED
        BY InvGives, <1>a, <1>g, <1>rc, <1>victim, <1>u, <1>r, DeletersAre, <2>1, <3>0 DEF
           TypeOK, ExactOf, MeasurementOf, MarkOf, Settling, Tracked, None, Arriving,
           DeletePhases, Captures
    <2>. QED
      BY <2>1 DEF ExactUnlessTorn
  <1>11. ArchiveBounded'
    <2>1. SUFFICES ASSUME rc' = "idle"
                   PROVE  IqSize * Cardinality(Kept) <= MaxBytes \/ Cardinality(Kept) <= 1
      <3>1. rc' = "idle" => victim' = victim
        BY <1>rc
      <3>. QED
        BY <1>u, <3>1 DEF ArchiveBounded, Kept
    <2>2. ~OverCap
      BY <1>rc, <2>1
    <2>3. Kept \in SUBSET Automatic
      <3>1. ASSUME NEW c \in Kept PROVE c \in Automatic
        <4>1. /\ c \in 1 .. made /\ "iq" \in disk[c] /\ origin[c] = "auto"
              /\ c # victim["space"] /\ c \in Captures
          BY InvGives, <3>1 DEF Kept, NotYet, TypeOK, Captures
        <4>2. ~Claimed(c) /\ ~Fresh(c)
          BY <1>g, <4>1 DEF Claimed, Fresh, Phase, Evictors
        <4>. QED
          BY InvGives, <4>1, <4>2 DEF KnownOf, Automatic
      <3>. QED
        BY <3>1
    <2>4. IsFiniteSet(Automatic)
      BY Finite DEF Automatic
    <2>5. /\ Cardinality(Kept) <= Cardinality(Automatic) /\ Cardinality(Automatic) \in Nat
          /\ Cardinality(Kept) \in Nat
      BY <2>3, <2>4, FS_Subset, FS_CardinalityType
    <2>6. /\ IqSize * Cardinality(Kept) \in Nat
          /\ IqSize * Cardinality(Kept) <= BytesOf(index, Automatic)
      BY <2>3, <2>4, BytesGrow
    <2>7. autoBytes = BytesOf(index, Automatic)
      BY InvGives, TotalsAre
    <2>8. MaxBytes \in Nat /\ autoBytes \in Nat
      BY InvGives, CaptureIndexAssumption DEF TypeOK
    <2>. QED
      BY <2>2, <2>5, <2>6, <2>7, <2>8 DEF OverCap
  <1>. QED
    BY <1>1, <1>2, <1>3, <1>4, <1>5, <1>6, <1>7, <1>8, <1>9, <1>10, <1>11 DEF IndexInv

\* enforce_cap takes its victim out of the index before its files go.
LEMMA RcClaimsKeeps ==
  ASSUME IndexInv, RcClaims
  PROVE  IndexInv'
PROOF
  <1>a. victim["cap"] \in 1 .. made /\ victim["cap"] \in Captures
    BY InvGives DEF Roles, TypeOK, Captures, Evictors, Phase, DeletePhases, RcClaims
  <1>b. TotalsMatch' /\ index' \in [Captures -> Entries] /\ autoBytes' \in Nat
          /\ prioBytes' \in 0 .. autoBytes'
    <2>1. None \in Entries /\ ~None.there /\ None.size = 0
      BY DEF None, Entries
    <2>2. Replace(victim["cap"], None) /\ origin' = origin
      BY DEF RcClaims, Claim, pastVars
    <2>. QED
      BY InvGives, <1>a, <2>1, <2>2, ReplaceKeepsTotals
  <1>g. rc = "claim"
    BY DEF RcClaims, Claim, Replace, indexVars, pastVars, evVars, RcGoes
  <1>rc. rc' = "iq"
    BY InvGives, <1>a, <1>b, <1>g DEF RcClaims, Claim, Replace, indexVars, pastVars, evVars,
       RcGoes
  <1>index. /\ index'[victim["cap"]] = None
            /\ \A d \in Captures \ {victim["cap"]} : index'[d] = index[d]
    <2>1. index'[victim["cap"]] = None
      BY InvGives, <1>a, <1>b, <1>g DEF RcClaims, Claim, Replace, indexVars, pastVars, evVars,
         RcGoes
    <2>2. \A d \in Captures \ {victim["cap"]} : index'[d] = index[d]
      BY InvGives, <1>a, <1>b, <1>g DEF RcClaims, Claim, Replace, indexVars, pastVars, evVars,
         RcGoes
    <2>. QED
      BY <2>1, <2>2
  <1>u. /\ disk' = disk /\ origin' = origin /\ qualified' = qualified /\ until' = until
        /\ made' = made /\ rcTodo' = rcTodo /\ sd' = sd /\ ev' = ev
        /\ evLeft' = evLeft /\ evPrio' = evPrio /\ evBound' = evBound /\ evictions' = evictions
        /\ measured' = measured /\ victim' = victim /\ torn' = torn
    BY DEF RcClaims, Claim, Replace, indexVars, pastVars, evVars, RcGoes
  <1>r. RcNext' = RcNext
    BY <1>u DEF RcNext, Oldest
  <1>1. TypeOK'
    BY InvGives, <1>a, <1>b, <1>g, <1>rc, <1>index, <1>u, CaptureIndexAssumption DEF TypeOK,
       Captures, Roles, Phase, DeletePhases
  <1>2. TotalsMatch'
    BY <1>b
  <1>3. Roles'
    BY InvGives, <1>a, <1>g, <1>rc, <1>u, CaptureIndexAssumption DEF TypeOK, Roles, Phase,
       Evictors, DeletePhases, Captures
  <1>4. NotYet'
    BY InvGives, <1>a, <1>g, <1>index, <1>u, CaptureIndexAssumption DEF TypeOK, NotYet, None,
       Captures, Roles, Phase, DeletePhases
  <1>5. Arriving'
    BY InvGives, <1>a, <1>g, <1>rc, <1>index, <1>u, DeletersAre, CaptureIndexAssumption DEF
       TypeOK, Arriving, DeletePhases, Roles, Captures
  <1>6. Known'
    <2>1. ASSUME NEW x \in 1 .. made' PROVE KnownOf(x)'
      <3>1. CASE x = victim["cap"]
        BY InvGives, <1>a, <1>g, <1>rc, <1>index, <1>u, DeletersAre, <2>1, <3>1 DEF TypeOK,
           KnownOf, Fresh, Tracked, None, Arriving, DeletePhases, Captures
      <3>2. CASE x # victim["cap"]
        BY InvGives, <1>a, <1>g, <1>rc, <1>index, <1>u, DeletersAre, <2>1, <3>2 DEF TypeOK,
           KnownOf, Fresh, Tracked, None, Arriving, DeletePhases, Captures
      <3>. QED
        BY <3>1, <3>2
    <2>. QED
      BY <2>1 DEF Known
  <1>7. Measurements'
    <2>1. ASSUME NEW x \in 1 .. made' PROVE MeasurementOf(x)'
      <3>1. CASE x = victim["cap"]
        BY InvGives, <1>a, <1>g, <1>index, <1>u, DeletersAre, <2>1, <3>1 DEF TypeOK,
           MeasurementOf, None, Arriving, Captures
      <3>2. CASE x # victim["cap"]
        BY InvGives, <1>a, <1>g, <1>index, <1>u, DeletersAre, <2>1, <3>2 DEF TypeOK,
           MeasurementOf, None, Arriving, Captures
      <3>. QED
        BY <3>1, <3>2
    <2>. QED
      BY <2>1 DEF Measurements
  <1>8. Marks'
    <2>1. ASSUME NEW x \in 1 .. made' PROVE MarkOf(x)'
      <3>1. CASE x = victim["cap"]
        BY InvGives, <1>a, <1>g, <1>rc, <1>index, <1>u, <1>r, DeletersAre, <2>1, <3>1 DEF
           TypeOK, MarkOf, KnownOf, Fresh, Settling, None, Tracked, Captures, Arriving,
           DeletePhases
      <3>2. CASE x # victim["cap"]
        BY InvGives, <1>a, <1>g, <1>rc, <1>index, <1>u, <1>r, DeletersAre, <2>1, <3>2 DEF
           TypeOK, MarkOf, KnownOf, Fresh, Settling, None, Tracked, Captures, Arriving,
           DeletePhases
      <3>. QED
        BY <3>1, <3>2
    <2>. QED
      BY <2>1 DEF Marks
  <1>9. Events'
    <2>1. \A x \in 1 .. made : "iq" \in disk'[x] /\ x \notin Deleting' =>
            "iq" \in disk[x] /\ x \notin Deleting
      BY InvGives, <1>a, <1>g, <1>rc, <1>u, DeletersAre DEF TypeOK, DeletePhases, Captures
    <2>2. ASSUME NEW q \in qualified, NEW x \in 1 .. made, "iq" \in disk'[x], x \notin Deleting',
                 origin[x] = "auto", x - q <= Span, q - x <= Span,
                 "mark" \in disk[x] \/ Owed(q, x)
          PROVE  "mark" \in disk'[x] \/ Owed(q, x)'
      <3>0. "iq" \in disk[x] /\ x \notin Deleting /\ q <= made
        BY InvGives, <2>1, <2>2 DEF Events
      <3>1. CASE x = victim["cap"]
        BY InvGives, <1>a, <1>g, <1>rc, <1>u, DeletersAre, <2>2, <3>0, <3>1 DEF TypeOK, Owed,
           Fresh, Captures, KnownOf, MarkOf, Settling, Tracked
      <3>2. CASE x # victim["cap"]
        BY InvGives, <1>a, <1>g, <1>rc, <1>u, DeletersAre, <2>2, <3>0, <3>2 DEF TypeOK, Owed,
           Fresh, Captures
      <3>. QED
        BY <3>1, <3>2
    <2>. QED
      BY InvGives, <1>u, <2>1, <2>2, EventsStay
  <1>10. ExactUnlessTorn'
    <2>1. ASSUME NEW x \in 1 .. made', ~torn' PROVE ExactOf(x)'
      <3>0. ExactOf(x)
        BY InvGives, <1>u, <2>1 DEF ExactUnlessTorn
      <3>1. CASE x = victim["cap"]
        BY InvGives, <1>a, <1>g, <1>rc, <1>index, <1>u, <1>r, DeletersAre, <2>1, <3>0, <3>1 DEF
           TypeOK, ExactOf, MeasurementOf, MarkOf, Settling, Tracked, None, Arriving,
           DeletePhases, Captures
      <3>2. CASE x # victim["cap"]
        BY InvGives, <1>a, <1>g, <1>rc, <1>index, <1>u, <1>r, DeletersAre, <2>1, <3>0, <3>2 DEF
           TypeOK, ExactOf, MeasurementOf, MarkOf, Settling, Tracked, None, Arriving,
           DeletePhases, Captures
      <3>. QED
        BY <3>1, <3>2
    <2>. QED
      BY <2>1 DEF ExactUnlessTorn
  <1>11. ArchiveBounded'
    BY InvGives, <1>a, <1>g, <1>rc, <1>u DEF ArchiveBounded
  <1>. QED
    BY <1>1, <1>2, <1>3, <1>4, <1>5, <1>6, <1>7, <1>8, <1>9, <1>10, <1>11 DEF IndexInv

\* The storage thread takes its victim out of the index before its files go.
LEMMA EvClaimsKeeps ==
  ASSUME IndexInv, EvClaims
  PROVE  IndexInv'
PROOF
  <1>a. victim["space"] \in 1 .. made /\ victim["space"] \in Captures
    BY InvGives DEF Roles, TypeOK, Captures, Evictors, Phase, DeletePhases, EvClaims
  <1>b. TotalsMatch' /\ index' \in [Captures -> Entries] /\ autoBytes' \in Nat
          /\ prioBytes' \in 0 .. autoBytes'
    <2>1. None \in Entries /\ ~None.there /\ None.size = 0
      BY DEF None, Entries
    <2>2. Replace(victim["space"], None) /\ origin' = origin
      BY DEF EvClaims, Claim, pastVars
    <2>. QED
      BY InvGives, <1>a, <2>1, <2>2, ReplaceKeepsTotals
  <1>g. ev = "claim"
    BY DEF EvClaims, Claim, Replace, indexVars, pastVars, rcVars
  <1>ev. ev' = "iq"
    BY InvGives, <1>a, <1>b, <1>g DEF EvClaims, Claim, Replace, indexVars, pastVars, rcVars
  <1>index. /\ index'[victim["space"]] = None
            /\ \A d \in Captures \ {victim["space"]} : index'[d] = index[d]
    <2>1. index'[victim["space"]] = None
      BY InvGives, <1>a, <1>b, <1>g DEF EvClaims, Claim, Replace, indexVars, pastVars, rcVars
    <2>2. \A d \in Captures \ {victim["space"]} : index'[d] = index[d]
      BY InvGives, <1>a, <1>b, <1>g DEF EvClaims, Claim, Replace, indexVars, pastVars, rcVars
    <2>. QED
      BY <2>1, <2>2
  <1>u. /\ disk' = disk /\ origin' = origin /\ qualified' = qualified /\ until' = until
        /\ made' = made /\ rc' = rc /\ rcTodo' = rcTodo /\ sd' = sd
        /\ evLeft' = evLeft /\ evPrio' = evPrio /\ evBound' = evBound /\ evictions' = evictions
        /\ measured' = measured /\ victim' = victim /\ torn' = torn
    BY DEF EvClaims, Claim, Replace, indexVars, pastVars, rcVars
  <1>r. RcNext' = RcNext
    BY <1>u DEF RcNext, Oldest
  <1>1. TypeOK'
    BY InvGives, <1>a, <1>b, <1>g, <1>ev, <1>index, <1>u, CaptureIndexAssumption DEF TypeOK,
       Captures, Roles, Phase, DeletePhases
  <1>2. TotalsMatch'
    BY <1>b
  <1>3. Roles'
    BY InvGives, <1>a, <1>g, <1>ev, <1>u, CaptureIndexAssumption DEF TypeOK, Roles, Phase,
       Evictors, DeletePhases, Captures
  <1>4. NotYet'
    BY InvGives, <1>a, <1>g, <1>index, <1>u, CaptureIndexAssumption DEF TypeOK, NotYet, None,
       Captures, Roles, Phase, DeletePhases
  <1>5. Arriving'
    BY InvGives, <1>a, <1>g, <1>index, <1>u, DeletersAre, CaptureIndexAssumption DEF TypeOK,
       Arriving, DeletePhases, Roles, Captures
  <1>6. Known'
    <2>1. ASSUME NEW x \in 1 .. made' PROVE KnownOf(x)'
      <3>1. CASE x = victim["space"]
        BY InvGives, <1>a, <1>g, <1>ev, <1>index, <1>u, DeletersAre, <2>1, <3>1 DEF TypeOK,
           KnownOf, Fresh, Tracked, None, Arriving, DeletePhases, Captures
      <3>2. CASE x # victim["space"]
        BY InvGives, <1>a, <1>g, <1>ev, <1>index, <1>u, DeletersAre, <2>1, <3>2 DEF TypeOK,
           KnownOf, Fresh, Tracked, None, Arriving, DeletePhases, Captures
      <3>. QED
        BY <3>1, <3>2
    <2>. QED
      BY <2>1 DEF Known
  <1>7. Measurements'
    <2>1. ASSUME NEW x \in 1 .. made' PROVE MeasurementOf(x)'
      <3>1. CASE x = victim["space"]
        BY InvGives, <1>a, <1>g, <1>index, <1>u, DeletersAre, <2>1, <3>1 DEF TypeOK,
           MeasurementOf, None, Arriving, Captures
      <3>2. CASE x # victim["space"]
        BY InvGives, <1>a, <1>g, <1>index, <1>u, DeletersAre, <2>1, <3>2 DEF TypeOK,
           MeasurementOf, None, Arriving, Captures
      <3>. QED
        BY <3>1, <3>2
    <2>. QED
      BY <2>1 DEF Measurements
  <1>8. Marks'
    <2>1. ASSUME NEW x \in 1 .. made' PROVE MarkOf(x)'
      <3>1. CASE x = victim["space"]
        BY InvGives, <1>a, <1>g, <1>index, <1>u, <1>r, DeletersAre, <2>1, <3>1 DEF TypeOK,
           MarkOf, KnownOf, Fresh, Settling, None, Tracked, Captures, Arriving, DeletePhases
      <3>2. CASE x # victim["space"]
        BY InvGives, <1>a, <1>g, <1>index, <1>u, <1>r, DeletersAre, <2>1, <3>2 DEF TypeOK,
           MarkOf, KnownOf, Fresh, Settling, None, Tracked, Captures, Arriving, DeletePhases
      <3>. QED
        BY <3>1, <3>2
    <2>. QED
      BY <2>1 DEF Marks
  <1>9. Events'
    <2>1. \A x \in 1 .. made : "iq" \in disk'[x] /\ x \notin Deleting' =>
            "iq" \in disk[x] /\ x \notin Deleting
      BY InvGives, <1>a, <1>g, <1>u, DeletersAre DEF TypeOK, DeletePhases, Captures
    <2>2. ASSUME NEW q \in qualified, NEW x \in 1 .. made, "iq" \in disk'[x], x \notin Deleting',
                 origin[x] = "auto", x - q <= Span, q - x <= Span,
                 "mark" \in disk[x] \/ Owed(q, x)
          PROVE  "mark" \in disk'[x] \/ Owed(q, x)'
      <3>0. "iq" \in disk[x] /\ x \notin Deleting /\ q <= made
        BY InvGives, <2>1, <2>2 DEF Events
      <3>1. CASE x = victim["space"]
        BY InvGives, <1>a, <1>g, <1>u, DeletersAre, <2>2, <3>0, <3>1 DEF TypeOK, Owed, Fresh,
           Captures, KnownOf, MarkOf, Settling, Tracked
      <3>2. CASE x # victim["space"]
        BY InvGives, <1>a, <1>g, <1>u, DeletersAre, <2>2, <3>0, <3>2 DEF TypeOK, Owed, Fresh,
           Captures
      <3>. QED
        BY <3>1, <3>2
    <2>. QED
      BY InvGives, <1>u, <2>1, <2>2, EventsStay
  <1>10. ExactUnlessTorn'
    <2>1. ASSUME NEW x \in 1 .. made', ~torn' PROVE ExactOf(x)'
      <3>0. ExactOf(x)
        BY InvGives, <1>u, <2>1 DEF ExactUnlessTorn
      <3>1. CASE x = victim["space"]
        BY InvGives, <1>a, <1>g, <1>ev, <1>index, <1>u, <1>r, DeletersAre, <2>1, <3>0, <3>1 DEF
           TypeOK, ExactOf, MeasurementOf, MarkOf, Settling, Tracked, None, Arriving,
           DeletePhases, Captures
      <3>2. CASE x # victim["space"]
        BY InvGives, <1>a, <1>g, <1>ev, <1>index, <1>u, <1>r, DeletersAre, <2>1, <3>0, <3>2 DEF
           TypeOK, ExactOf, MeasurementOf, MarkOf, Settling, Tracked, None, Arriving,
           DeletePhases, Captures
      <3>. QED
        BY <3>1, <3>2
    <2>. QED
      BY <2>1 DEF ExactUnlessTorn
  <1>11. ArchiveBounded'
    <2>1. Kept' \subseteq Kept
      BY InvGives, <1>a, <1>g, <1>u DEF TypeOK, Kept, Captures, Evictors, Roles, Phase,
         DeletePhases
    <2>. QED
      BY InvGives, <1>u, <2>1, ArchiveShrinks
  <1>. QED
    BY <1>1, <1>2, <1>3, <1>4, <1>5, <1>6, <1>7, <1>8, <1>9, <1>10, <1>11 DEF IndexInv

\* enforce_cap unlinks its victim's .sc16.
LEMMA RcUnlinksIqKeeps ==
  ASSUME IndexInv, RcUnlinksIq
  PROVE  IndexInv'
PROOF
  <1>a. victim["cap"] \in 1 .. made /\ victim["cap"] \in Captures
    BY InvGives DEF Roles, TypeOK, Captures, Evictors, Phase, DeletePhases, RcUnlinksIq
  <1>g. rc = "iq"
    BY DEF RcUnlinksIq, RcUnlinks, Unlink, indexVars, pastVars, evVars, RcGoes
  <1>rc. rc' = "companions"
    BY InvGives, <1>a, <1>g DEF RcUnlinksIq, RcUnlinks, Unlink, indexVars, pastVars, evVars,
       RcGoes
  <1>disk. /\ disk[victim["cap"]] \ {"iq"} \in SUBSET Files
           /\ disk' \in [Captures -> SUBSET Files]
           /\ \A d \in Captures \ {victim["cap"]} : disk'[d] = disk[d]
           /\ "iq" \notin disk'[victim["cap"]]
           /\ "mark" \in disk'[victim["cap"]] <=> "mark" \in disk[victim["cap"]]
           /\ "sidecar" \in disk'[victim["cap"]] <=> "sidecar" \in disk[victim["cap"]]
    <2>1. disk[victim["cap"]] \ {"iq"} \in SUBSET Files
      BY InvGives, <1>a, <1>g DEF RcUnlinksIq, RcUnlinks, Unlink, indexVars, pastVars, evVars,
         RcGoes, TypeOK, Captures
    <2>2. disk' \in [Captures -> SUBSET Files]
      BY InvGives, <1>a, <1>g DEF RcUnlinksIq, RcUnlinks, Unlink, indexVars, pastVars, evVars,
         RcGoes, TypeOK, Captures
    <2>3. \A d \in Captures \ {victim["cap"]} : disk'[d] = disk[d]
      BY InvGives, <1>a, <1>g DEF RcUnlinksIq, RcUnlinks, Unlink, indexVars, pastVars, evVars,
         RcGoes, TypeOK, Captures
    <2>4. "iq" \notin disk'[victim["cap"]]
      BY InvGives, <1>a, <1>g DEF RcUnlinksIq, RcUnlinks, Unlink, indexVars, pastVars, evVars,
         RcGoes, TypeOK, Captures
    <2>5. "mark" \in disk'[victim["cap"]] <=> "mark" \in disk[victim["cap"]]
      BY InvGives, <1>a, <1>g DEF RcUnlinksIq, RcUnlinks, Unlink, indexVars, pastVars, evVars,
         RcGoes, TypeOK, Captures
    <2>6. "sidecar" \in disk'[victim["cap"]] <=> "sidecar" \in disk[victim["cap"]]
      BY InvGives, <1>a, <1>g DEF RcUnlinksIq, RcUnlinks, Unlink, indexVars, pastVars, evVars,
         RcGoes, TypeOK, Captures
    <2>. QED
      BY <2>1, <2>2, <2>3, <2>4, <2>5, <2>6
  <1>u. /\ index' = index /\ autoBytes' = autoBytes /\ prioBytes' = prioBytes /\ origin' = origin
        /\ qualified' = qualified /\ until' = until /\ made' = made /\ rcTodo' = rcTodo
        /\ sd' = sd /\ ev' = ev /\ evLeft' = evLeft /\ evPrio' = evPrio
        /\ evBound' = evBound /\ evictions' = evictions /\ measured' = measured /\ victim' = victim
        /\ torn' = torn
    BY DEF RcUnlinksIq, RcUnlinks, Unlink, indexVars, pastVars, evVars, RcGoes
  <1>r. RcNext' = RcNext
    BY <1>u DEF RcNext, Oldest
  <1>1. TypeOK'
    BY InvGives, <1>a, <1>g, <1>rc, <1>disk, <1>u, CaptureIndexAssumption DEF TypeOK, Captures,
       Roles, Phase, DeletePhases
  <1>2. TotalsMatch'
    <2>1. Automatic' = Automatic
      BY <1>u DEF Automatic, Tracked
    <2>. QED
      BY InvGives, <1>u, <2>1, TotalsStay
  <1>3. Roles'
    BY InvGives, <1>a, <1>g, <1>rc, <1>u, CaptureIndexAssumption DEF TypeOK, Roles, Phase,
       Evictors, DeletePhases, Captures
  <1>4. NotYet'
    BY SMTT(30), InvGives, <1>a, <1>g, <1>disk, <1>u, CaptureIndexAssumption DEF TypeOK, NotYet,
       None,
       Captures, Roles, Phase, DeletePhases
  <1>5. Arriving'
    BY InvGives, <1>a, <1>g, <1>rc, <1>disk, <1>u, DeletersAre, CaptureIndexAssumption DEF
       TypeOK, Arriving, DeletePhases, Roles, Captures
  <1>6. Known'
    <2>1. ASSUME NEW x \in 1 .. made' PROVE KnownOf(x)'
      <3>1. CASE x = victim["cap"]
        BY InvGives, <1>a, <1>g, <1>rc, <1>disk, <1>u, DeletersAre, <2>1, <3>1 DEF TypeOK,
           KnownOf, Fresh, Tracked, None, Arriving, DeletePhases, Captures
      <3>2. CASE x # victim["cap"]
        BY InvGives, <1>a, <1>g, <1>rc, <1>disk, <1>u, DeletersAre, <2>1, <3>2 DEF TypeOK,
           KnownOf, Fresh, Tracked, None, Arriving, DeletePhases, Captures
      <3>. QED
        BY <3>1, <3>2
    <2>. QED
      BY <2>1 DEF Known
  <1>7. Measurements'
    <2>1. ASSUME NEW x \in 1 .. made' PROVE MeasurementOf(x)'
      <3>1. CASE x = victim["cap"]
        BY InvGives, <1>a, <1>g, <1>disk, <1>u, DeletersAre, <2>1, <3>1 DEF TypeOK,
           MeasurementOf, None, Arriving, Captures
      <3>2. CASE x # victim["cap"]
        BY InvGives, <1>a, <1>g, <1>disk, <1>u, DeletersAre, <2>1, <3>2 DEF TypeOK,
           MeasurementOf, None, Arriving, Captures
      <3>. QED
        BY <3>1, <3>2
    <2>. QED
      BY <2>1 DEF Measurements
  <1>8. Marks'
    <2>1. ASSUME NEW x \in 1 .. made' PROVE MarkOf(x)'
      <3>1. CASE x = victim["cap"]
        BY InvGives, <1>a, <1>g, <1>rc, <1>disk, <1>u, <1>r, DeletersAre, <2>1, <3>1 DEF TypeOK,
           MarkOf, KnownOf, Fresh, Settling, None, Tracked, Captures, Arriving, DeletePhases
      <3>2. CASE x # victim["cap"]
        BY InvGives, <1>a, <1>g, <1>rc, <1>disk, <1>u, <1>r, DeletersAre, <2>1, <3>2 DEF TypeOK,
           MarkOf, KnownOf, Fresh, Settling, None, Tracked, Captures, Arriving, DeletePhases
      <3>. QED
        BY <3>1, <3>2
    <2>. QED
      BY <2>1 DEF Marks
  <1>9. Events'
    <2>1. \A x \in 1 .. made : "iq" \in disk'[x] /\ x \notin Deleting' =>
            "iq" \in disk[x] /\ x \notin Deleting
      BY InvGives, <1>a, <1>g, <1>rc, <1>disk, <1>u, DeletersAre DEF TypeOK, DeletePhases,
         Captures
    <2>2. ASSUME NEW q \in qualified, NEW x \in 1 .. made, "iq" \in disk'[x], x \notin Deleting',
                 origin[x] = "auto", x - q <= Span, q - x <= Span,
                 "mark" \in disk[x] \/ Owed(q, x)
          PROVE  "mark" \in disk'[x] \/ Owed(q, x)'
      <3>0. "iq" \in disk[x] /\ x \notin Deleting /\ q <= made
        BY InvGives, <2>1, <2>2 DEF Events
      <3>1. CASE x = victim["cap"]
        BY InvGives, <1>a, <1>g, <1>rc, <1>disk, <1>u, DeletersAre, <2>2, <3>0, <3>1 DEF TypeOK,
           Owed, Fresh, Captures, KnownOf, MarkOf, Settling, Tracked
      <3>2. CASE x # victim["cap"]
        BY InvGives, <1>a, <1>g, <1>rc, <1>disk, <1>u, DeletersAre, <2>2, <3>0, <3>2 DEF TypeOK,
           Owed, Fresh, Captures
      <3>. QED
        BY <3>1, <3>2
    <2>. QED
      BY InvGives, <1>u, <2>1, <2>2, EventsStay
  <1>10. ExactUnlessTorn'
    <2>1. ASSUME NEW x \in 1 .. made', ~torn' PROVE ExactOf(x)'
      <3>0. ExactOf(x)
        BY InvGives, <1>u, <2>1 DEF ExactUnlessTorn
      <3>1. CASE x = victim["cap"]
        BY InvGives, <1>a, <1>g, <1>rc, <1>disk, <1>u, <1>r, DeletersAre, <2>1, <3>0, <3>1 DEF
           TypeOK, ExactOf, MeasurementOf, MarkOf, Settling, Tracked, None, Arriving,
           DeletePhases, Captures
      <3>2. CASE x # victim["cap"]
        BY InvGives, <1>a, <1>g, <1>rc, <1>disk, <1>u, <1>r, DeletersAre, <2>1, <3>0, <3>2 DEF
           TypeOK, ExactOf, MeasurementOf, MarkOf, Settling, Tracked, None, Arriving,
           DeletePhases, Captures
      <3>. QED
        BY <3>1, <3>2
    <2>. QED
      BY <2>1 DEF ExactUnlessTorn
  <1>11. ArchiveBounded'
    BY InvGives, <1>a, <1>g, <1>rc, <1>disk, <1>u DEF ArchiveBounded
  <1>. QED
    BY <1>1, <1>2, <1>3, <1>4, <1>5, <1>6, <1>7, <1>8, <1>9, <1>10, <1>11 DEF IndexInv

\* enforce_cap unlinks its victim's companions.
LEMMA RcUnlinksRestKeeps ==
  ASSUME IndexInv, RcUnlinksRest
  PROVE  IndexInv'
PROOF
  <1>a. victim["cap"] \in 1 .. made /\ victim["cap"] \in Captures
    BY InvGives DEF Roles, TypeOK, Captures, Evictors, Phase, DeletePhases, RcUnlinksRest
  <1>g. rc = "companions"
    BY DEF RcUnlinksRest, RcUnlinks, Unlink, Deleted, Files, indexVars, pastVars, evVars, RcGoes
  <1>rc. rc' = "cap"
    BY InvGives, <1>a, <1>g DEF RcUnlinksRest, RcUnlinks, Unlink, Deleted, indexVars, pastVars,
       evVars, RcGoes
  <1>disk. /\ disk'[victim["cap"]] = {}
           /\ disk' \in [Captures -> SUBSET Files]
           /\ \A d \in Captures \ {victim["cap"]} : disk'[d] = disk[d]
           /\ "iq" \notin disk'[victim["cap"]]
           /\ "mark" \notin disk'[victim["cap"]]
           /\ "sidecar" \notin disk'[victim["cap"]]
    <2>1. disk'[victim["cap"]] = {}
      BY InvGives, <1>a, <1>g DEF RcUnlinksRest, RcUnlinks, Unlink, Deleted, indexVars,
         pastVars, evVars, RcGoes, TypeOK, Captures
    <2>2. disk' \in [Captures -> SUBSET Files]
      BY InvGives, <1>a, <1>g DEF RcUnlinksRest, RcUnlinks, Unlink, Deleted, indexVars,
         pastVars, evVars, RcGoes, TypeOK, Captures
    <2>3. \A d \in Captures \ {victim["cap"]} : disk'[d] = disk[d]
      BY InvGives, <1>a, <1>g DEF RcUnlinksRest, RcUnlinks, Unlink, Deleted, indexVars,
         pastVars, evVars, RcGoes, TypeOK, Captures
    <2>4. "iq" \notin disk'[victim["cap"]]
      BY InvGives, <1>a, <1>g DEF RcUnlinksRest, RcUnlinks, Unlink, Deleted, indexVars,
         pastVars, evVars, RcGoes, TypeOK, Captures
    <2>5. "mark" \notin disk'[victim["cap"]]
      BY InvGives, <1>a, <1>g DEF RcUnlinksRest, RcUnlinks, Unlink, Deleted, indexVars,
         pastVars, evVars, RcGoes, TypeOK, Captures
    <2>6. "sidecar" \notin disk'[victim["cap"]]
      BY InvGives, <1>a, <1>g DEF RcUnlinksRest, RcUnlinks, Unlink, Deleted, indexVars,
         pastVars, evVars, RcGoes, TypeOK, Captures
    <2>. QED
      BY <2>1, <2>2, <2>3, <2>4, <2>5, <2>6
  <1>victim. /\ victim' \in [Evictors -> 0 .. MaxCaptures]
             /\ victim'["cap"] = 0
             /\ victim'["space"] = victim["space"]
    <2>1. victim' \in [Evictors -> 0 .. MaxCaptures]
      BY InvGives, <1>a, <1>g, CaptureIndexAssumption DEF RcUnlinksRest, RcUnlinks, Unlink,
         Deleted, Files, indexVars, pastVars, evVars, RcGoes, TypeOK, Captures, Evictors
    <2>2. victim'["cap"] = 0
      BY InvGives, <1>a, <1>g DEF RcUnlinksRest, RcUnlinks, Unlink, Deleted, Files, indexVars,
         pastVars, evVars, RcGoes, TypeOK, Captures, Evictors
    <2>3. victim'["space"] = victim["space"]
      BY InvGives, <1>a, <1>g DEF RcUnlinksRest, RcUnlinks, Unlink, Deleted, Files, indexVars,
         pastVars, evVars, RcGoes, TypeOK, Captures, Evictors
    <2>. QED
      BY <2>1, <2>2, <2>3
  <1>u. /\ index' = index /\ autoBytes' = autoBytes /\ prioBytes' = prioBytes /\ origin' = origin
        /\ qualified' = qualified /\ until' = until /\ made' = made /\ rcTodo' = rcTodo
        /\ sd' = sd /\ ev' = ev /\ evLeft' = evLeft /\ evPrio' = evPrio
        /\ evBound' = evBound /\ evictions' = evictions /\ measured' = measured /\ torn' = torn
    BY DEF RcUnlinksRest, RcUnlinks, Unlink, Deleted, Files, indexVars, pastVars, evVars, RcGoes
  <1>r. RcNext' = RcNext
    BY <1>u DEF RcNext, Oldest
  <1>1. TypeOK'
    BY InvGives, <1>a, <1>g, <1>rc, <1>disk, <1>victim, <1>u, CaptureIndexAssumption DEF TypeOK,
       Captures, Roles, Phase, DeletePhases
  <1>2. TotalsMatch'
    <2>1. Automatic' = Automatic
      BY <1>u DEF Automatic, Tracked
    <2>. QED
      BY InvGives, <1>u, <2>1, TotalsStay
  <1>3. Roles'
    BY InvGives, <1>a, <1>g, <1>rc, <1>victim, <1>u, CaptureIndexAssumption DEF TypeOK, Roles,
       Phase, Evictors, DeletePhases, Captures
  <1>4. NotYet'
    BY InvGives, <1>a, <1>g, <1>disk, <1>u, CaptureIndexAssumption DEF TypeOK, NotYet, None,
       Captures, Roles, Phase, DeletePhases
  <1>5. Arriving'
    BY InvGives, <1>a, <1>g, <1>rc, <1>disk, <1>victim, <1>u, DeletersAre,
       CaptureIndexAssumption DEF TypeOK, Arriving, DeletePhases, Roles, Captures
  <1>6. Known'
    <2>1. ASSUME NEW x \in 1 .. made' PROVE KnownOf(x)'
      <3>1. CASE x = victim["cap"]
        BY InvGives, <1>a, <1>g, <1>rc, <1>disk, <1>victim, <1>u, DeletersAre, <2>1, <3>1 DEF
           TypeOK, KnownOf, Fresh, Tracked, None, Arriving, DeletePhases, Captures
      <3>2. CASE x # victim["cap"]
        BY InvGives, <1>a, <1>g, <1>rc, <1>disk, <1>victim, <1>u, DeletersAre, <2>1, <3>2 DEF
           TypeOK, KnownOf, Fresh, Tracked, None, Arriving, DeletePhases, Captures
      <3>. QED
        BY <3>1, <3>2
    <2>. QED
      BY <2>1 DEF Known
  <1>7. Measurements'
    <2>1. ASSUME NEW x \in 1 .. made' PROVE MeasurementOf(x)'
      <3>1. CASE x = victim["cap"]
        BY InvGives, <1>a, <1>g, <1>disk, <1>u, DeletersAre, <2>1, <3>1 DEF TypeOK,
           MeasurementOf, None, Arriving, Captures
      <3>2. CASE x # victim["cap"]
        BY InvGives, <1>a, <1>g, <1>disk, <1>u, DeletersAre, <2>1, <3>2 DEF TypeOK,
           MeasurementOf, None, Arriving, Captures
      <3>. QED
        BY <3>1, <3>2
    <2>. QED
      BY <2>1 DEF Measurements
  <1>8. Marks'
    <2>1. ASSUME NEW x \in 1 .. made' PROVE MarkOf(x)'
      <3>1. CASE x = victim["cap"]
        BY InvGives, <1>a, <1>g, <1>rc, <1>disk, <1>victim, <1>u, <1>r, DeletersAre, <2>1, <3>1
           DEF TypeOK, MarkOf, KnownOf, Fresh, Settling, None, Tracked, Captures, Arriving,
           DeletePhases
      <3>2. CASE x # victim["cap"]
        BY InvGives, <1>a, <1>g, <1>rc, <1>disk, <1>victim, <1>u, <1>r, DeletersAre, <2>1, <3>2
           DEF TypeOK, MarkOf, KnownOf, Fresh, Settling, None, Tracked, Captures, Arriving,
           DeletePhases
      <3>. QED
        BY <3>1, <3>2
    <2>. QED
      BY <2>1 DEF Marks
  <1>9. Events'
    <2>1. \A x \in 1 .. made : "iq" \in disk'[x] /\ x \notin Deleting' =>
            "iq" \in disk[x] /\ x \notin Deleting
      BY InvGives, <1>a, <1>g, <1>rc, <1>disk, <1>victim, <1>u, DeletersAre DEF TypeOK,
         DeletePhases, Captures
    <2>2. ASSUME NEW q \in qualified, NEW x \in 1 .. made, "iq" \in disk'[x], x \notin Deleting',
                 origin[x] = "auto", x - q <= Span, q - x <= Span,
                 "mark" \in disk[x] \/ Owed(q, x)
          PROVE  "mark" \in disk'[x] \/ Owed(q, x)'
      <3>0. "iq" \in disk[x] /\ x \notin Deleting /\ q <= made
        BY InvGives, <2>1, <2>2 DEF Events
      <3>1. CASE x = victim["cap"]
        BY InvGives, <1>a, <1>g, <1>rc, <1>disk, <1>victim, <1>u, DeletersAre, <2>2, <3>0, <3>1
           DEF TypeOK, Owed, Fresh, Captures, KnownOf, MarkOf, Settling, Tracked
      <3>2. CASE x # victim["cap"]
        BY InvGives, <1>a, <1>g, <1>rc, <1>disk, <1>victim, <1>u, DeletersAre, <2>2, <3>0, <3>2
           DEF TypeOK, Owed, Fresh, Captures
      <3>. QED
        BY <3>1, <3>2
    <2>. QED
      BY InvGives, <1>u, <2>1, <2>2, EventsStay
  <1>10. ExactUnlessTorn'
    <2>1. ASSUME NEW x \in 1 .. made', ~torn' PROVE ExactOf(x)'
      <3>0. ExactOf(x)
        BY InvGives, <1>u, <2>1 DEF ExactUnlessTorn
      <3>1. CASE x = victim["cap"]
        BY InvGives, <1>a, <1>g, <1>rc, <1>disk, <1>victim, <1>u, <1>r, DeletersAre, <2>1, <3>0,
           <3>1 DEF TypeOK, ExactOf, MeasurementOf, MarkOf, Settling, Tracked, None, Arriving,
           DeletePhases, Captures
      <3>2. CASE x # victim["cap"]
        BY InvGives, <1>a, <1>g, <1>rc, <1>disk, <1>victim, <1>u, <1>r, DeletersAre, <2>1, <3>0,
           <3>2 DEF TypeOK, ExactOf, MeasurementOf, MarkOf, Settling, Tracked, None, Arriving,
           DeletePhases, Captures
      <3>. QED
        BY <3>1, <3>2
    <2>. QED
      BY <2>1 DEF ExactUnlessTorn
  <1>11. ArchiveBounded'
    BY InvGives, <1>a, <1>g, <1>rc, <1>disk, <1>victim, <1>u DEF ArchiveBounded
  <1>. QED
    BY <1>1, <1>2, <1>3, <1>4, <1>5, <1>6, <1>7, <1>8, <1>9, <1>10, <1>11 DEF IndexInv

\* The storage thread unlinks its victim's .sc16.
LEMMA EvUnlinksIqKeeps ==
  ASSUME IndexInv, EvUnlinksIq
  PROVE  IndexInv'
PROOF
  <1>a. victim["space"] \in 1 .. made /\ victim["space"] \in Captures
    BY InvGives DEF Roles, TypeOK, Captures, Evictors, Phase, DeletePhases, EvUnlinksIq
  <1>g. ev = "iq"
    BY DEF EvUnlinksIq, EvUnlinks, Unlink, indexVars, pastVars, rcVars
  <1>ev. ev' = "companions"
    BY InvGives, <1>a, <1>g DEF EvUnlinksIq, EvUnlinks, Unlink, indexVars, pastVars, rcVars
  <1>disk. /\ disk[victim["space"]] \ {"iq"} \in SUBSET Files
           /\ disk' \in [Captures -> SUBSET Files]
           /\ \A d \in Captures \ {victim["space"]} : disk'[d] = disk[d]
           /\ "iq" \notin disk'[victim["space"]]
           /\ "mark" \in disk'[victim["space"]] <=> "mark" \in disk[victim["space"]]
           /\ "sidecar" \in disk'[victim["space"]] <=> "sidecar" \in disk[victim["space"]]
    <2>1. disk[victim["space"]] \ {"iq"} \in SUBSET Files
      BY InvGives, <1>a, <1>g DEF EvUnlinksIq, EvUnlinks, Unlink, indexVars, pastVars, rcVars,
         TypeOK, Captures
    <2>2. disk' \in [Captures -> SUBSET Files]
      BY InvGives, <1>a, <1>g DEF EvUnlinksIq, EvUnlinks, Unlink, indexVars, pastVars, rcVars,
         TypeOK, Captures
    <2>3. \A d \in Captures \ {victim["space"]} : disk'[d] = disk[d]
      BY InvGives, <1>a, <1>g DEF EvUnlinksIq, EvUnlinks, Unlink, indexVars, pastVars, rcVars,
         TypeOK, Captures
    <2>4. "iq" \notin disk'[victim["space"]]
      BY InvGives, <1>a, <1>g DEF EvUnlinksIq, EvUnlinks, Unlink, indexVars, pastVars, rcVars,
         TypeOK, Captures
    <2>5. "mark" \in disk'[victim["space"]] <=> "mark" \in disk[victim["space"]]
      BY InvGives, <1>a, <1>g DEF EvUnlinksIq, EvUnlinks, Unlink, indexVars, pastVars, rcVars,
         TypeOK, Captures
    <2>6. "sidecar" \in disk'[victim["space"]] <=> "sidecar" \in disk[victim["space"]]
      BY InvGives, <1>a, <1>g DEF EvUnlinksIq, EvUnlinks, Unlink, indexVars, pastVars, rcVars,
         TypeOK, Captures
    <2>. QED
      BY <2>1, <2>2, <2>3, <2>4, <2>5, <2>6
  <1>u. /\ index' = index /\ autoBytes' = autoBytes /\ prioBytes' = prioBytes /\ origin' = origin
        /\ qualified' = qualified /\ until' = until /\ made' = made /\ rc' = rc
        /\ rcTodo' = rcTodo /\ sd' = sd /\ evLeft' = evLeft /\ evPrio' = evPrio
        /\ evBound' = evBound /\ evictions' = evictions /\ measured' = measured /\ victim' = victim
        /\ torn' = torn
    BY DEF EvUnlinksIq, EvUnlinks, Unlink, indexVars, pastVars, rcVars
  <1>r. RcNext' = RcNext
    BY <1>u DEF RcNext, Oldest
  <1>1. TypeOK'
    BY InvGives, <1>a, <1>g, <1>ev, <1>disk, <1>u, CaptureIndexAssumption DEF TypeOK, Captures,
       Roles, Phase, DeletePhases
  <1>2. TotalsMatch'
    <2>1. Automatic' = Automatic
      BY <1>u DEF Automatic, Tracked
    <2>. QED
      BY InvGives, <1>u, <2>1, TotalsStay
  <1>3. Roles'
    BY InvGives, <1>a, <1>g, <1>ev, <1>u, CaptureIndexAssumption DEF TypeOK, Roles, Phase,
       Evictors, DeletePhases, Captures
  <1>4. NotYet'
    BY SMTT(30), InvGives, <1>a, <1>g, <1>ev, <1>disk, <1>u, <1>r,
       CaptureIndexAssumption DEF TypeOK,
       NotYet, None, Captures, Roles, Phase, DeletePhases
  <1>5. Arriving'
    BY InvGives, <1>a, <1>g, <1>disk, <1>u, DeletersAre, CaptureIndexAssumption DEF TypeOK,
       Arriving, DeletePhases, Roles, Captures
  <1>6. Known'
    <2>1. ASSUME NEW x \in 1 .. made' PROVE KnownOf(x)'
      <3>1. CASE x = victim["space"]
        BY InvGives, <1>a, <1>g, <1>ev, <1>disk, <1>u, DeletersAre, <2>1, <3>1 DEF TypeOK,
           KnownOf, Fresh, Tracked, None, Arriving, DeletePhases, Captures
      <3>2. CASE x # victim["space"]
        BY InvGives, <1>a, <1>g, <1>ev, <1>disk, <1>u, DeletersAre, <2>1, <3>2 DEF TypeOK,
           KnownOf, Fresh, Tracked, None, Arriving, DeletePhases, Captures
      <3>. QED
        BY <3>1, <3>2
    <2>. QED
      BY <2>1 DEF Known
  <1>7. Measurements'
    <2>1. ASSUME NEW x \in 1 .. made' PROVE MeasurementOf(x)'
      <3>1. CASE x = victim["space"]
        BY InvGives, <1>a, <1>g, <1>disk, <1>u, DeletersAre, <2>1, <3>1 DEF TypeOK,
           MeasurementOf, None, Arriving, Captures
      <3>2. CASE x # victim["space"]
        BY InvGives, <1>a, <1>g, <1>disk, <1>u, DeletersAre, <2>1, <3>2 DEF TypeOK,
           MeasurementOf, None, Arriving, Captures
      <3>. QED
        BY <3>1, <3>2
    <2>. QED
      BY <2>1 DEF Measurements
  <1>8. Marks'
    <2>1. ASSUME NEW x \in 1 .. made' PROVE MarkOf(x)'
      <3>1. CASE x = victim["space"]
        BY InvGives, <1>a, <1>g, <1>disk, <1>u, <1>r, DeletersAre, <2>1, <3>1 DEF TypeOK,
           MarkOf, KnownOf, Fresh, Settling, None, Tracked, Captures, Arriving, DeletePhases
      <3>2. CASE x # victim["space"]
        BY InvGives, <1>a, <1>g, <1>disk, <1>u, <1>r, DeletersAre, <2>1, <3>2 DEF TypeOK,
           MarkOf, KnownOf, Fresh, Settling, None, Tracked, Captures, Arriving, DeletePhases
      <3>. QED
        BY <3>1, <3>2
    <2>. QED
      BY <2>1 DEF Marks
  <1>9. Events'
    <2>1. \A x \in 1 .. made : "iq" \in disk'[x] /\ x \notin Deleting' =>
            "iq" \in disk[x] /\ x \notin Deleting
      BY InvGives, <1>a, <1>g, <1>disk, <1>u, DeletersAre DEF TypeOK, DeletePhases, Captures
    <2>2. ASSUME NEW q \in qualified, NEW x \in 1 .. made, "iq" \in disk'[x], x \notin Deleting',
                 origin[x] = "auto", x - q <= Span, q - x <= Span,
                 "mark" \in disk[x] \/ Owed(q, x)
          PROVE  "mark" \in disk'[x] \/ Owed(q, x)'
      <3>0. "iq" \in disk[x] /\ x \notin Deleting /\ q <= made
        BY InvGives, <2>1, <2>2 DEF Events
      <3>1. CASE x = victim["space"]
        BY InvGives, <1>a, <1>g, <1>disk, <1>u, DeletersAre, <2>2, <3>0, <3>1 DEF TypeOK, Owed,
           Fresh, Captures, KnownOf, MarkOf, Settling, Tracked
      <3>2. CASE x # victim["space"]
        BY InvGives, <1>a, <1>g, <1>disk, <1>u, DeletersAre, <2>2, <3>0, <3>2 DEF TypeOK, Owed,
           Fresh, Captures
      <3>. QED
        BY <3>1, <3>2
    <2>. QED
      BY InvGives, <1>u, <2>1, <2>2, EventsStay
  <1>10. ExactUnlessTorn'
    <2>1. ASSUME NEW x \in 1 .. made', ~torn' PROVE ExactOf(x)'
      <3>0. ExactOf(x)
        BY InvGives, <1>u, <2>1 DEF ExactUnlessTorn
      <3>1. CASE x = victim["space"]
        BY InvGives, <1>a, <1>g, <1>ev, <1>disk, <1>u, <1>r, DeletersAre, <2>1, <3>0, <3>1 DEF
           TypeOK, ExactOf, MeasurementOf, MarkOf, Settling, Tracked, None, Arriving,
           DeletePhases, Captures
      <3>2. CASE x # victim["space"]
        BY InvGives, <1>a, <1>g, <1>ev, <1>disk, <1>u, <1>r, DeletersAre, <2>1, <3>0, <3>2 DEF
           TypeOK, ExactOf, MeasurementOf, MarkOf, Settling, Tracked, None, Arriving,
           DeletePhases, Captures
      <3>. QED
        BY <3>1, <3>2
    <2>. QED
      BY <2>1 DEF ExactUnlessTorn
  <1>11. ArchiveBounded'
    <2>1. Kept' \subseteq Kept
      BY InvGives, <1>a, <1>g, <1>disk, <1>u DEF TypeOK, Kept, Captures, Evictors, Roles, Phase,
         DeletePhases
    <2>. QED
      BY InvGives, <1>u, <2>1, ArchiveShrinks
  <1>. QED
    BY <1>1, <1>2, <1>3, <1>4, <1>5, <1>6, <1>7, <1>8, <1>9, <1>10, <1>11 DEF IndexInv

\* The storage thread unlinks its victim's companions.
LEMMA EvUnlinksRestKeeps ==
  ASSUME IndexInv, EvUnlinksRest
  PROVE  IndexInv'
PROOF
  <1>a. victim["space"] \in 1 .. made /\ victim["space"] \in Captures
    BY InvGives DEF Roles, TypeOK, Captures, Evictors, Phase, DeletePhases, EvUnlinksRest
  <1>g. ev = "companions"
    BY DEF EvUnlinksRest, EvUnlinks, Unlink, Deleted, Files, indexVars, pastVars, rcVars
  <1>ev. ev' = "next"
    BY InvGives, <1>a, <1>g DEF EvUnlinksRest, EvUnlinks, Unlink, Deleted, indexVars, pastVars,
       rcVars
  <1>disk. /\ disk'[victim["space"]] = {}
           /\ disk' \in [Captures -> SUBSET Files]
           /\ \A d \in Captures \ {victim["space"]} : disk'[d] = disk[d]
           /\ "iq" \notin disk'[victim["space"]]
           /\ "mark" \notin disk'[victim["space"]]
           /\ "sidecar" \notin disk'[victim["space"]]
    <2>1. disk'[victim["space"]] = {}
      BY InvGives, <1>a, <1>g DEF EvUnlinksRest, EvUnlinks, Unlink, Deleted, indexVars,
         pastVars, rcVars, TypeOK, Captures
    <2>2. disk' \in [Captures -> SUBSET Files]
      BY InvGives, <1>a, <1>g DEF EvUnlinksRest, EvUnlinks, Unlink, Deleted, indexVars,
         pastVars, rcVars, TypeOK, Captures
    <2>3. \A d \in Captures \ {victim["space"]} : disk'[d] = disk[d]
      BY InvGives, <1>a, <1>g DEF EvUnlinksRest, EvUnlinks, Unlink, Deleted, indexVars,
         pastVars, rcVars, TypeOK, Captures
    <2>4. "iq" \notin disk'[victim["space"]]
      BY InvGives, <1>a, <1>g DEF EvUnlinksRest, EvUnlinks, Unlink, Deleted, indexVars,
         pastVars, rcVars, TypeOK, Captures
    <2>5. "mark" \notin disk'[victim["space"]]
      BY InvGives, <1>a, <1>g DEF EvUnlinksRest, EvUnlinks, Unlink, Deleted, indexVars,
         pastVars, rcVars, TypeOK, Captures
    <2>6. "sidecar" \notin disk'[victim["space"]]
      BY InvGives, <1>a, <1>g DEF EvUnlinksRest, EvUnlinks, Unlink, Deleted, indexVars,
         pastVars, rcVars, TypeOK, Captures
    <2>. QED
      BY <2>1, <2>2, <2>3, <2>4, <2>5, <2>6
  <1>victim. /\ victim' \in [Evictors -> 0 .. MaxCaptures]
             /\ victim'["space"] = 0
             /\ victim'["cap"] = victim["cap"]
    <2>1. victim' \in [Evictors -> 0 .. MaxCaptures]
      BY InvGives, <1>a, <1>g, CaptureIndexAssumption DEF EvUnlinksRest, EvUnlinks, Unlink,
         Deleted, Files, indexVars, pastVars, rcVars, TypeOK, Captures, Evictors
    <2>2. victim'["space"] = 0
      BY InvGives, <1>a, <1>g DEF EvUnlinksRest, EvUnlinks, Unlink, Deleted, Files, indexVars,
         pastVars, rcVars, TypeOK, Captures, Evictors
    <2>3. victim'["cap"] = victim["cap"]
      BY InvGives, <1>a, <1>g DEF EvUnlinksRest, EvUnlinks, Unlink, Deleted, Files, indexVars,
         pastVars, rcVars, TypeOK, Captures, Evictors
    <2>. QED
      BY <2>1, <2>2, <2>3
  <1>u. /\ index' = index /\ autoBytes' = autoBytes /\ prioBytes' = prioBytes /\ origin' = origin
        /\ qualified' = qualified /\ until' = until /\ made' = made /\ rc' = rc
        /\ rcTodo' = rcTodo /\ sd' = sd /\ evLeft' = evLeft /\ evPrio' = evPrio
        /\ evBound' = evBound /\ evictions' = evictions /\ measured' = measured /\ torn' = torn
    BY DEF EvUnlinksRest, EvUnlinks, Unlink, Deleted, Files, indexVars, pastVars, rcVars
  <1>r. RcNext' = RcNext
    BY <1>u DEF RcNext, Oldest
  <1>1. TypeOK'
    BY InvGives, <1>a, <1>g, <1>ev, <1>disk, <1>victim, <1>u, CaptureIndexAssumption DEF TypeOK,
       Captures, Roles, Phase, DeletePhases
  <1>2. TotalsMatch'
    <2>1. Automatic' = Automatic
      BY <1>u DEF Automatic, Tracked
    <2>. QED
      BY InvGives, <1>u, <2>1, TotalsStay
  <1>3. Roles'
    BY InvGives, <1>a, <1>g, <1>ev, <1>victim, <1>u, CaptureIndexAssumption DEF TypeOK, Roles,
       Phase, Evictors, DeletePhases, Captures
  <1>4. NotYet'
    BY InvGives, <1>a, <1>g, <1>disk, <1>u, CaptureIndexAssumption DEF TypeOK, NotYet, None,
       Captures, Roles, Phase, DeletePhases
  <1>5. Arriving'
    BY InvGives, <1>a, <1>g, <1>disk, <1>victim, <1>u, DeletersAre, CaptureIndexAssumption DEF
       TypeOK, Arriving, DeletePhases, Roles, Captures
  <1>6. Known'
    <2>1. ASSUME NEW x \in 1 .. made' PROVE KnownOf(x)'
      <3>1. CASE x = victim["space"]
        BY InvGives, <1>a, <1>g, <1>ev, <1>disk, <1>victim, <1>u, DeletersAre, <2>1, <3>1 DEF
           TypeOK, KnownOf, Fresh, Tracked, None, Arriving, DeletePhases, Captures
      <3>2. CASE x # victim["space"]
        BY InvGives, <1>a, <1>g, <1>ev, <1>disk, <1>victim, <1>u, DeletersAre, <2>1, <3>2 DEF
           TypeOK, KnownOf, Fresh, Tracked, None, Arriving, DeletePhases, Captures
      <3>. QED
        BY <3>1, <3>2
    <2>. QED
      BY <2>1 DEF Known
  <1>7. Measurements'
    <2>1. ASSUME NEW x \in 1 .. made' PROVE MeasurementOf(x)'
      <3>1. CASE x = victim["space"]
        BY InvGives, <1>a, <1>g, <1>disk, <1>u, DeletersAre, <2>1, <3>1 DEF TypeOK,
           MeasurementOf, None, Arriving, Captures
      <3>2. CASE x # victim["space"]
        BY InvGives, <1>a, <1>g, <1>disk, <1>u, DeletersAre, <2>1, <3>2 DEF TypeOK,
           MeasurementOf, None, Arriving, Captures
      <3>. QED
        BY <3>1, <3>2
    <2>. QED
      BY <2>1 DEF Measurements
  <1>8. Marks'
    <2>1. ASSUME NEW x \in 1 .. made' PROVE MarkOf(x)'
      <3>1. CASE x = victim["space"]
        BY InvGives, <1>a, <1>g, <1>disk, <1>victim, <1>u, <1>r, DeletersAre, <2>1, <3>1 DEF
           TypeOK, MarkOf, KnownOf, Fresh, Settling, None, Tracked, Captures, Arriving,
           DeletePhases
      <3>2. CASE x # victim["space"]
        BY InvGives, <1>a, <1>g, <1>disk, <1>victim, <1>u, <1>r, DeletersAre, <2>1, <3>2 DEF
           TypeOK, MarkOf, KnownOf, Fresh, Settling, None, Tracked, Captures, Arriving,
           DeletePhases
      <3>. QED
        BY <3>1, <3>2
    <2>. QED
      BY <2>1 DEF Marks
  <1>9. Events'
    <2>1. \A x \in 1 .. made : "iq" \in disk'[x] /\ x \notin Deleting' =>
            "iq" \in disk[x] /\ x \notin Deleting
      BY InvGives, <1>a, <1>g, <1>disk, <1>victim, <1>u, DeletersAre DEF TypeOK, DeletePhases,
         Captures
    <2>2. ASSUME NEW q \in qualified, NEW x \in 1 .. made, "iq" \in disk'[x], x \notin Deleting',
                 origin[x] = "auto", x - q <= Span, q - x <= Span,
                 "mark" \in disk[x] \/ Owed(q, x)
          PROVE  "mark" \in disk'[x] \/ Owed(q, x)'
      <3>0. "iq" \in disk[x] /\ x \notin Deleting /\ q <= made
        BY InvGives, <2>1, <2>2 DEF Events
      <3>1. CASE x = victim["space"]
        BY InvGives, <1>a, <1>g, <1>disk, <1>victim, <1>u, DeletersAre, <2>2, <3>0, <3>1 DEF
           TypeOK, Owed, Fresh, Captures, KnownOf, MarkOf, Settling, Tracked
      <3>2. CASE x # victim["space"]
        BY InvGives, <1>a, <1>g, <1>disk, <1>victim, <1>u, DeletersAre, <2>2, <3>0, <3>2 DEF
           TypeOK, Owed, Fresh, Captures
      <3>. QED
        BY <3>1, <3>2
    <2>. QED
      BY InvGives, <1>u, <2>1, <2>2, EventsStay
  <1>10. ExactUnlessTorn'
    <2>1. ASSUME NEW x \in 1 .. made', ~torn' PROVE ExactOf(x)'
      <3>0. ExactOf(x)
        BY InvGives, <1>u, <2>1 DEF ExactUnlessTorn
      <3>1. CASE x = victim["space"]
        BY InvGives, <1>a, <1>g, <1>ev, <1>disk, <1>victim, <1>u, <1>r, DeletersAre, <2>1, <3>0,
           <3>1 DEF TypeOK, ExactOf, MeasurementOf, MarkOf, Settling, Tracked, None, Arriving,
           DeletePhases, Captures
      <3>2. CASE x # victim["space"]
        BY InvGives, <1>a, <1>g, <1>ev, <1>disk, <1>victim, <1>u, <1>r, DeletersAre, <2>1, <3>0,
           <3>2 DEF TypeOK, ExactOf, MeasurementOf, MarkOf, Settling, Tracked, None, Arriving,
           DeletePhases, Captures
      <3>. QED
        BY <3>1, <3>2
    <2>. QED
      BY <2>1 DEF ExactUnlessTorn
  <1>11. ArchiveBounded'
    <2>1. Kept' \subseteq Kept
      BY InvGives, <1>a, <1>g, <1>disk, <1>victim, <1>u DEF TypeOK, Kept, Captures, Evictors,
         Roles, Phase, DeletePhases
    <2>. QED
      BY InvGives, <1>u, <2>1, ArchiveShrinks
  <1>. QED
    BY <1>1, <1>2, <1>3, <1>4, <1>5, <1>6, <1>7, <1>8, <1>9, <1>10, <1>11 DEF IndexInv

\* A storage tick begins: the captures made until now may go.
LEMMA EvBeginsKeeps ==
  ASSUME IndexInv, EvBegins
  PROVE  IndexInv'
PROOF
  <1>g. ev = "idle"
    BY DEF EvBegins, indexVars, pastVars, rcVars
  <1>ev. ev' = "list"
    BY InvGives, <1>g DEF EvBegins, indexVars, pastVars, rcVars
  <1>evBound. evBound' = made
    BY InvGives, <1>g DEF EvBegins, indexVars, pastVars, rcVars
  <1>u. /\ disk' = disk /\ index' = index /\ autoBytes' = autoBytes /\ prioBytes' = prioBytes
        /\ origin' = origin /\ qualified' = qualified /\ until' = until /\ made' = made
        /\ rc' = rc /\ rcTodo' = rcTodo /\ sd' = sd /\ evLeft' = evLeft
        /\ evPrio' = evPrio /\ measured' = measured /\ victim' = victim /\ torn' = torn
    BY DEF EvBegins, indexVars, pastVars, rcVars
  <1>r. RcNext' = RcNext
    BY <1>u DEF RcNext, Oldest
  <1>1. TypeOK'
    BY InvGives, <1>g, <1>ev, <1>evBound, <1>u, CaptureIndexAssumption DEF TypeOK, Captures,
       Roles, Phase, DeletePhases
  <1>2. TotalsMatch'
    <2>1. Automatic' = Automatic
      BY <1>u DEF Automatic, Tracked
    <2>. QED
      BY InvGives, <1>u, <2>1, TotalsStay
  <1>3. Roles'
    BY InvGives, <1>g, <1>ev, <1>evBound, <1>u, CaptureIndexAssumption DEF TypeOK, Roles, Phase,
       Evictors, DeletePhases, Captures
  <1>4. NotYet'
    BY InvGives, <1>g, <1>u, CaptureIndexAssumption DEF TypeOK, NotYet, None, Captures, Roles,
       Phase, DeletePhases
  <1>5. Arriving'
    BY InvGives, <1>g, <1>u, DeletersAre, CaptureIndexAssumption DEF TypeOK, Arriving,
       DeletePhases, Roles, Captures
  <1>6. Known'
    <2>1. ASSUME NEW x \in 1 .. made' PROVE KnownOf(x)'
      BY InvGives, <1>g, <1>ev, <1>u, DeletersAre, <2>1 DEF TypeOK, KnownOf, Fresh, Tracked,
         None, Arriving, DeletePhases, Captures
    <2>. QED
      BY <2>1 DEF Known
  <1>7. Measurements'
    <2>1. ASSUME NEW x \in 1 .. made' PROVE MeasurementOf(x)'
      BY InvGives, <1>g, <1>u, DeletersAre, <2>1 DEF TypeOK, MeasurementOf, None, Arriving,
         Captures
    <2>. QED
      BY <2>1 DEF Measurements
  <1>8. Marks'
    <2>1. ASSUME NEW x \in 1 .. made' PROVE MarkOf(x)'
      BY InvGives, <1>g, <1>u, <1>r, DeletersAre, <2>1 DEF TypeOK, MarkOf, KnownOf, Fresh,
         Settling, None, Tracked, Captures, Arriving, DeletePhases
    <2>. QED
      BY <2>1 DEF Marks
  <1>9. Events'
    <2>1. \A x \in 1 .. made : "iq" \in disk'[x] /\ x \notin Deleting' =>
            "iq" \in disk[x] /\ x \notin Deleting
      BY InvGives, <1>g, <1>u, DeletersAre DEF TypeOK, DeletePhases, Captures
    <2>2. ASSUME NEW q \in qualified, NEW x \in 1 .. made, "iq" \in disk'[x], x \notin Deleting',
                 origin[x] = "auto", x - q <= Span, q - x <= Span,
                 "mark" \in disk[x] \/ Owed(q, x)
          PROVE  "mark" \in disk'[x] \/ Owed(q, x)'
      <3>0. "iq" \in disk[x] /\ x \notin Deleting /\ q <= made
        BY InvGives, <2>1, <2>2 DEF Events
      <3>. QED
        BY InvGives, <1>g, <1>u, DeletersAre, <2>2, <3>0 DEF TypeOK, Owed, Fresh, Captures,
           KnownOf, Tracked
    <2>. QED
      BY InvGives, <1>u, <2>1, <2>2, EventsStay
  <1>10. ExactUnlessTorn'
    <2>1. ASSUME NEW x \in 1 .. made', ~torn' PROVE ExactOf(x)'
      <3>0. ExactOf(x)
        BY InvGives, <1>u, <2>1 DEF ExactUnlessTorn
      <3>. QED
        BY InvGives, <1>g, <1>ev, <1>u, <1>r, DeletersAre, <2>1, <3>0 DEF TypeOK, ExactOf,
           MeasurementOf, MarkOf, Settling, Tracked, None, Arriving, DeletePhases, Captures
    <2>. QED
      BY <2>1 DEF ExactUnlessTorn
  <1>11. ArchiveBounded'
    <2>1. Kept' \subseteq Kept
      BY InvGives, <1>g, <1>u DEF TypeOK, Kept, Captures, Evictors, Roles, Phase, DeletePhases
    <2>. QED
      BY InvGives, <1>u, <2>1, ArchiveShrinks
  <1>. QED
    BY <1>1, <1>2, <1>3, <1>4, <1>5, <1>6, <1>7, <1>8, <1>9, <1>10, <1>11 DEF IndexInv

\* The snapshot holds captures that were made, and never one that is being tracked.
LEMMA EvListsKeeps ==
  ASSUME IndexInv, EvLists
  PROVE  IndexInv'
PROOF
  <1>g. ev = "list"
    BY DEF EvLists, Automatic, indexVars, pastVars, rcVars
  <1>ev. ev' = "next"
    BY InvGives, <1>g DEF EvLists, Automatic, indexVars, pastVars, rcVars
  <1>evBound. evBound' = 0
    BY InvGives, <1>g DEF EvLists, Automatic, indexVars, pastVars, rcVars
  <1>evLeft. evLeft' \subseteq Captures /\ \A d \in evLeft' : d <= evBound /\ Tracked(d)
    BY InvGives, <1>g DEF EvLists, Automatic, indexVars, pastVars, rcVars
  <1>evPrio. evPrio' \subseteq evLeft'
    BY InvGives, <1>g DEF EvLists, Automatic, indexVars, pastVars, rcVars
  <1>u. /\ disk' = disk /\ index' = index /\ autoBytes' = autoBytes /\ prioBytes' = prioBytes
        /\ origin' = origin /\ qualified' = qualified /\ until' = until /\ made' = made
        /\ rc' = rc /\ rcTodo' = rcTodo /\ sd' = sd /\ evictions' = evictions
        /\ measured' = measured /\ victim' = victim /\ torn' = torn
    BY DEF EvLists, Automatic, indexVars, pastVars, rcVars
  <1>r. RcNext' = RcNext
    BY <1>u DEF RcNext, Oldest
  <1>1. TypeOK'
    BY SMTT(30), InvGives, <1>g, <1>ev, <1>evBound, <1>evLeft, <1>evPrio, <1>u,
       CaptureIndexAssumption DEF
       TypeOK, Captures, Roles, Phase, DeletePhases
  <1>2. TotalsMatch'
    <2>1. Automatic' = Automatic
      BY <1>u DEF Automatic, Tracked
    <2>. QED
      BY InvGives, <1>u, <2>1, TotalsStay
  <1>3. Roles'
    BY InvGives, <1>g, <1>ev, <1>evBound, <1>evLeft, <1>evPrio, <1>u, CaptureIndexAssumption DEF
       TypeOK, Roles, Phase, Evictors, DeletePhases, Captures
  <1>4. NotYet'
    BY InvGives, <1>g, <1>u, CaptureIndexAssumption DEF TypeOK, NotYet, None, Captures, Roles,
       Phase, DeletePhases
  <1>5. Arriving'
    BY InvGives, <1>g, <1>evLeft, <1>u, DeletersAre, CaptureIndexAssumption DEF TypeOK,
       Arriving, DeletePhases, Roles, Captures, Tracked, None
  <1>6. Known'
    <2>1. ASSUME NEW x \in 1 .. made' PROVE KnownOf(x)'
      BY InvGives, <1>g, <1>ev, <1>u, DeletersAre, <2>1 DEF TypeOK, KnownOf, Fresh, Tracked,
         None, Arriving, DeletePhases, Captures
    <2>. QED
      BY <2>1 DEF Known
  <1>7. Measurements'
    <2>1. ASSUME NEW x \in 1 .. made' PROVE MeasurementOf(x)'
      BY InvGives, <1>g, <1>u, DeletersAre, <2>1 DEF TypeOK, MeasurementOf, None, Arriving,
         Captures, Tracked
    <2>. QED
      BY <2>1 DEF Measurements
  <1>8. Marks'
    <2>1. ASSUME NEW x \in 1 .. made' PROVE MarkOf(x)'
      BY InvGives, <1>g, <1>u, <1>r, DeletersAre, <2>1 DEF TypeOK, MarkOf, KnownOf, Fresh,
         Settling, None, Tracked, Captures, Arriving, DeletePhases
    <2>. QED
      BY <2>1 DEF Marks
  <1>9. Events'
    <2>1. \A x \in 1 .. made : "iq" \in disk'[x] /\ x \notin Deleting' =>
            "iq" \in disk[x] /\ x \notin Deleting
      BY InvGives, <1>g, <1>u, DeletersAre DEF TypeOK, DeletePhases, Captures
    <2>2. ASSUME NEW q \in qualified, NEW x \in 1 .. made, "iq" \in disk'[x], x \notin Deleting',
                 origin[x] = "auto", x - q <= Span, q - x <= Span,
                 "mark" \in disk[x] \/ Owed(q, x)
          PROVE  "mark" \in disk'[x] \/ Owed(q, x)'
      <3>0. "iq" \in disk[x] /\ x \notin Deleting /\ q <= made
        BY InvGives, <2>1, <2>2 DEF Events
      <3>. QED
        BY InvGives, <1>g, <1>u, DeletersAre, <2>2, <3>0 DEF TypeOK, Owed, Fresh, Captures,
           KnownOf, Tracked
    <2>. QED
      BY InvGives, <1>u, <2>1, <2>2, EventsStay
  <1>10. ExactUnlessTorn'
    <2>1. ASSUME NEW x \in 1 .. made', ~torn' PROVE ExactOf(x)'
      <3>0. ExactOf(x)
        BY InvGives, <1>u, <2>1 DEF ExactUnlessTorn
      <3>. QED
        BY InvGives, <1>g, <1>ev, <1>u, <1>r, DeletersAre, <2>1, <3>0 DEF TypeOK, ExactOf,
           MeasurementOf, MarkOf, Settling, Tracked, None, Arriving, DeletePhases, Captures
    <2>. QED
      BY <2>1 DEF ExactUnlessTorn
  <1>11. ArchiveBounded'
    <2>1. Kept' \subseteq Kept
      BY InvGives, <1>g, <1>u DEF TypeOK, Kept, Captures, Evictors, Roles, Phase, DeletePhases
    <2>. QED
      BY InvGives, <1>u, <2>1, ArchiveShrinks
  <1>. QED
    BY <1>1, <1>2, <1>3, <1>4, <1>5, <1>6, <1>7, <1>8, <1>9, <1>10, <1>11 DEF IndexInv

\* The storage thread picks its next victim.
LEMMA EvTakesKeeps ==
  ASSUME IndexInv, EvTakes
  PROVE  IndexInv'
PROOF
  <1>a. EvNext \in evLeft /\ EvNext \in 1 .. made /\ EvNext \in Captures
    <2>1. evLeft \in SUBSET Nat /\ evLeft # {}
      BY InvGives DEF TypeOK, Captures, EvTakes
    <2>2. EvNext \in evLeft
      <3>1. CASE evLeft \ evPrio # {}
        BY <2>1, <3>1, OldestIs DEF EvNext
      <3>2. CASE evLeft \ evPrio = {}
        BY <2>1, <3>2, OldestIs DEF EvNext
      <3>. QED
        BY <3>1, <3>2
    <2>. QED
      BY InvGives, <2>2 DEF Roles, TypeOK, Captures
  <1>g. ev = "next"
    BY DEF EvTakes, indexVars, pastVars, rcVars
  <1>ev. ev' = "claim"
    BY InvGives, <1>a, <1>g DEF EvTakes, indexVars, pastVars, rcVars
  <1>evLeft. evLeft' = evLeft \ {EvNext} /\ evPrio' = evPrio \ {EvNext}
    BY InvGives, <1>a, <1>g DEF EvTakes, indexVars, pastVars, rcVars
  <1>victim. /\ victim' \in [Evictors -> 0 .. MaxCaptures]
             /\ victim'["space"] = EvNext
             /\ victim'["cap"] = victim["cap"]
    <2>1. victim' \in [Evictors -> 0 .. MaxCaptures]
      BY InvGives, <1>a, <1>g DEF EvTakes, indexVars, pastVars, rcVars, TypeOK, Captures,
         Evictors, Files
    <2>2. victim'["space"] = EvNext
      BY InvGives, <1>a, <1>g DEF EvTakes, indexVars, pastVars, rcVars, TypeOK, Captures,
         Evictors, Files
    <2>3. victim'["cap"] = victim["cap"]
      BY InvGives, <1>a, <1>g DEF EvTakes, indexVars, pastVars, rcVars
    <2>. QED
      BY <2>1, <2>2, <2>3
  <1>u. /\ disk' = disk /\ index' = index /\ autoBytes' = autoBytes /\ prioBytes' = prioBytes
        /\ origin' = origin /\ qualified' = qualified /\ until' = until /\ made' = made
        /\ rc' = rc /\ rcTodo' = rcTodo /\ sd' = sd /\ evBound' = evBound
        /\ evictions' = evictions /\ measured' = measured /\ torn' = torn
    BY DEF EvTakes, indexVars, pastVars, rcVars
  <1>r. RcNext' = RcNext
    BY <1>u DEF RcNext, Oldest
  <1>1. TypeOK'
    BY InvGives, <1>a, <1>g, <1>ev, <1>evLeft, <1>victim, <1>u, CaptureIndexAssumption DEF
       TypeOK, Captures, Roles, Phase, DeletePhases
  <1>2. TotalsMatch'
    <2>1. Automatic' = Automatic
      BY <1>u DEF Automatic, Tracked
    <2>. QED
      BY InvGives, <1>u, <2>1, TotalsStay
  <1>3. Roles'
    BY SMTT(30), InvGives, <1>a, <1>g, <1>ev, <1>evLeft, <1>victim, <1>u, CaptureIndexAssumption DEF
       TypeOK, Roles, Phase, Evictors, DeletePhases, Captures
  <1>4. NotYet'
    BY InvGives, <1>a, <1>g, <1>u, CaptureIndexAssumption DEF TypeOK, NotYet, None, Captures,
       Roles, Phase, DeletePhases
  <1>5. Arriving'
    BY InvGives, <1>a, <1>g, <1>evLeft, <1>victim, <1>u, DeletersAre, CaptureIndexAssumption DEF
       TypeOK, Arriving, DeletePhases, Roles, Captures
  <1>6. Known'
    <2>1. ASSUME NEW x \in 1 .. made' PROVE KnownOf(x)'
      BY InvGives, <1>a, <1>g, <1>ev, <1>victim, <1>u, DeletersAre, <2>1 DEF TypeOK, KnownOf,
         Fresh, Tracked, None, Arriving, DeletePhases, Captures
    <2>. QED
      BY <2>1 DEF Known
  <1>7. Measurements'
    <2>1. ASSUME NEW x \in 1 .. made' PROVE MeasurementOf(x)'
      BY InvGives, <1>a, <1>g, <1>u, DeletersAre, <2>1 DEF TypeOK, MeasurementOf, None,
         Arriving, Captures
    <2>. QED
      BY <2>1 DEF Measurements
  <1>8. Marks'
    <2>1. ASSUME NEW x \in 1 .. made' PROVE MarkOf(x)'
      BY InvGives, <1>a, <1>g, <1>victim, <1>u, <1>r, DeletersAre, <2>1 DEF TypeOK, MarkOf,
         KnownOf, Fresh, Settling, None, Tracked, Captures, Arriving, DeletePhases
    <2>. QED
      BY <2>1 DEF Marks
  <1>9. Events'
    <2>1. \A x \in 1 .. made : "iq" \in disk'[x] /\ x \notin Deleting' =>
            "iq" \in disk[x] /\ x \notin Deleting
      BY InvGives, <1>a, <1>g, <1>victim, <1>u, DeletersAre DEF TypeOK, DeletePhases, Captures
    <2>2. ASSUME NEW q \in qualified, NEW x \in 1 .. made, "iq" \in disk'[x], x \notin Deleting',
                 origin[x] = "auto", x - q <= Span, q - x <= Span,
                 "mark" \in disk[x] \/ Owed(q, x)
          PROVE  "mark" \in disk'[x] \/ Owed(q, x)'
      <3>0. "iq" \in disk[x] /\ x \notin Deleting /\ q <= made
        BY InvGives, <2>1, <2>2 DEF Events
      <3>. QED
        BY InvGives, <1>a, <1>g, <1>victim, <1>u, DeletersAre, <2>2, <3>0 DEF TypeOK, Owed,
           Fresh, Captures, KnownOf, Tracked
    <2>. QED
      BY InvGives, <1>u, <2>1, <2>2, EventsStay
  <1>10. ExactUnlessTorn'
    <2>1. ASSUME NEW x \in 1 .. made', ~torn' PROVE ExactOf(x)'
      <3>0. ExactOf(x)
        BY InvGives, <1>u, <2>1 DEF ExactUnlessTorn
      <3>. QED
        BY InvGives, <1>a, <1>g, <1>ev, <1>victim, <1>u, <1>r, DeletersAre, <2>1, <3>0 DEF
           TypeOK, ExactOf, MeasurementOf, MarkOf, Settling, Tracked, None, Arriving,
           DeletePhases, Captures
    <2>. QED
      BY <2>1 DEF ExactUnlessTorn
  <1>11. ArchiveBounded'
    <2>1. Kept' \subseteq Kept
      BY InvGives, <1>a, <1>g, <1>victim, <1>u DEF TypeOK, Kept, Captures, Evictors, Roles,
         Phase, DeletePhases
    <2>. QED
      BY InvGives, <1>u, <2>1, ArchiveShrinks
  <1>. QED
    BY <1>1, <1>2, <1>3, <1>4, <1>5, <1>6, <1>7, <1>8, <1>9, <1>10, <1>11 DEF IndexInv

\* The storage thread has room, or nothing left to evict.
LEMMA EvEndsKeeps ==
  ASSUME IndexInv, EvEnds
  PROVE  IndexInv'
PROOF
  <1>g. ev = "next"
    BY DEF EvEnds, indexVars, pastVars, rcVars
  <1>ev. ev' = "idle"
    BY InvGives, <1>g DEF EvEnds, indexVars, pastVars, rcVars
  <1>evLeft. evLeft' = {} /\ evPrio' = {}
    BY InvGives, <1>g DEF EvEnds, indexVars, pastVars, rcVars
  <1>u. /\ disk' = disk /\ index' = index /\ autoBytes' = autoBytes /\ prioBytes' = prioBytes
        /\ origin' = origin /\ qualified' = qualified /\ until' = until /\ made' = made
        /\ rc' = rc /\ rcTodo' = rcTodo /\ sd' = sd /\ evBound' = evBound
        /\ evictions' = evictions /\ measured' = measured /\ victim' = victim /\ torn' = torn
    BY DEF EvEnds, indexVars, pastVars, rcVars
  <1>r. RcNext' = RcNext
    BY <1>u DEF RcNext, Oldest
  <1>1. TypeOK'
    BY InvGives, <1>g, <1>ev, <1>evLeft, <1>u, CaptureIndexAssumption DEF TypeOK, Captures,
       Roles, Phase, DeletePhases
  <1>2. TotalsMatch'
    <2>1. Automatic' = Automatic
      BY <1>u DEF Automatic, Tracked
    <2>. QED
      BY InvGives, <1>u, <2>1, TotalsStay
  <1>3. Roles'
    BY InvGives, <1>g, <1>ev, <1>evLeft, <1>u, CaptureIndexAssumption DEF TypeOK, Roles, Phase,
       Evictors, DeletePhases, Captures
  <1>4. NotYet'
    BY InvGives, <1>g, <1>u, CaptureIndexAssumption DEF TypeOK, NotYet, None, Captures, Roles,
       Phase, DeletePhases
  <1>5. Arriving'
    BY InvGives, <1>g, <1>evLeft, <1>u, DeletersAre, CaptureIndexAssumption DEF TypeOK,
       Arriving, DeletePhases, Roles, Captures
  <1>6. Known'
    <2>1. ASSUME NEW x \in 1 .. made' PROVE KnownOf(x)'
      BY InvGives, <1>g, <1>ev, <1>u, DeletersAre, <2>1 DEF TypeOK, KnownOf, Fresh, Tracked,
         None, Arriving, DeletePhases, Captures
    <2>. QED
      BY <2>1 DEF Known
  <1>7. Measurements'
    <2>1. ASSUME NEW x \in 1 .. made' PROVE MeasurementOf(x)'
      BY InvGives, <1>g, <1>u, DeletersAre, <2>1 DEF TypeOK, MeasurementOf, None, Arriving,
         Captures
    <2>. QED
      BY <2>1 DEF Measurements
  <1>8. Marks'
    <2>1. ASSUME NEW x \in 1 .. made' PROVE MarkOf(x)'
      BY InvGives, <1>g, <1>u, <1>r, DeletersAre, <2>1 DEF TypeOK, MarkOf, KnownOf, Fresh,
         Settling, None, Tracked, Captures, Arriving, DeletePhases
    <2>. QED
      BY <2>1 DEF Marks
  <1>9. Events'
    <2>1. \A x \in 1 .. made : "iq" \in disk'[x] /\ x \notin Deleting' =>
            "iq" \in disk[x] /\ x \notin Deleting
      BY InvGives, <1>g, <1>u, DeletersAre DEF TypeOK, DeletePhases, Captures
    <2>2. ASSUME NEW q \in qualified, NEW x \in 1 .. made, "iq" \in disk'[x], x \notin Deleting',
                 origin[x] = "auto", x - q <= Span, q - x <= Span,
                 "mark" \in disk[x] \/ Owed(q, x)
          PROVE  "mark" \in disk'[x] \/ Owed(q, x)'
      <3>0. "iq" \in disk[x] /\ x \notin Deleting /\ q <= made
        BY InvGives, <2>1, <2>2 DEF Events
      <3>. QED
        BY InvGives, <1>g, <1>u, DeletersAre, <2>2, <3>0 DEF TypeOK, Owed, Fresh, Captures,
           KnownOf, Tracked
    <2>. QED
      BY InvGives, <1>u, <2>1, <2>2, EventsStay
  <1>10. ExactUnlessTorn'
    <2>1. ASSUME NEW x \in 1 .. made', ~torn' PROVE ExactOf(x)'
      <3>0. ExactOf(x)
        BY InvGives, <1>u, <2>1 DEF ExactUnlessTorn
      <3>. QED
        BY InvGives, <1>g, <1>ev, <1>u, <1>r, DeletersAre, <2>1, <3>0 DEF TypeOK, ExactOf,
           MeasurementOf, MarkOf, Settling, Tracked, None, Arriving, DeletePhases, Captures
    <2>. QED
      BY <2>1 DEF ExactUnlessTorn
  <1>11. ArchiveBounded'
    <2>1. Kept' \subseteq Kept
      BY InvGives, <1>g, <1>u DEF TypeOK, Kept, Captures, Evictors, Roles, Phase, DeletePhases
    <2>. QED
      BY InvGives, <1>u, <2>1, ArchiveShrinks
  <1>. QED
    BY <1>1, <1>2, <1>3, <1>4, <1>5, <1>6, <1>7, <1>8, <1>9, <1>10, <1>11 DEF IndexInv

\* A sidecar's coroutine wakes after the track of its capture's own finalize.
LEMMA SdWakesKeeps ==
  ASSUME IndexInv, NEW c \in Captures, SdWakes(c)
  PROVE  IndexInv'
PROOF
  <1>a. c \in 1 .. made
    BY InvGives DEF NotYet, TypeOK, Captures, SdWakes
  <1>g. sd[c] = "grace" /\ ~(c = made /\ rc = "track")
    BY DEF SdWakes, indexVars, pastVars, rcVars, evVars, SdGoes
  <1>sd. /\ sd' \in [Captures -> {"none", "grace", "write", "look", "drop", "measure", "add",
              "done"}]
         /\ sd'[c] = IF "iq" \in disk[c] THEN "write" ELSE "done"
         /\ \A d \in Captures \ {c} : sd'[d] = sd[d]
    <2>1. sd' \in [Captures -> {"none", "grace", "write", "look", "drop", "measure", "add", "done"}]
      BY InvGives, <1>a, <1>g DEF SdWakes, indexVars, pastVars, rcVars, evVars, SdGoes, TypeOK,
         Captures
    <2>2. sd'[c] = IF "iq" \in disk[c] THEN "write" ELSE "done"
      BY InvGives, <1>a, <1>g DEF SdWakes, indexVars, pastVars, rcVars, evVars, SdGoes, TypeOK,
         Captures
    <2>3. \A d \in Captures \ {c} : sd'[d] = sd[d]
      BY InvGives, <1>a, <1>g DEF SdWakes, indexVars, pastVars, rcVars, evVars, SdGoes
    <2>. QED
      BY <2>1, <2>2, <2>3
  <1>u. /\ disk' = disk /\ index' = index /\ autoBytes' = autoBytes /\ prioBytes' = prioBytes
        /\ origin' = origin /\ qualified' = qualified /\ until' = until /\ made' = made
        /\ rc' = rc /\ rcTodo' = rcTodo /\ ev' = ev /\ evLeft' = evLeft
        /\ evPrio' = evPrio /\ evBound' = evBound /\ evictions' = evictions /\ measured' = measured
        /\ victim' = victim /\ torn' = torn
    BY DEF SdWakes, indexVars, pastVars, rcVars, evVars, SdGoes
  <1>r. RcNext' = RcNext
    BY <1>u DEF RcNext, Oldest
  <1>1. TypeOK'
    BY InvGives, <1>a, <1>g, <1>sd, <1>u, CaptureIndexAssumption DEF TypeOK, Captures, Roles,
       Phase, DeletePhases
  <1>2. TotalsMatch'
    <2>1. Automatic' = Automatic
      BY <1>u DEF Automatic, Tracked
    <2>. QED
      BY InvGives, <1>u, <2>1, TotalsStay
  <1>3. Roles'
    BY InvGives, <1>a, <1>g, <1>u, CaptureIndexAssumption DEF TypeOK, Roles, Phase, Evictors,
       DeletePhases, Captures
  <1>4. NotYet'
    BY InvGives, <1>a, <1>g, <1>sd, <1>u, CaptureIndexAssumption DEF TypeOK, NotYet, None,
       Captures, Roles, Phase, DeletePhases
  <1>5. Arriving'
    BY InvGives, <1>a, <1>g, <1>sd, <1>u, DeletersAre, CaptureIndexAssumption DEF TypeOK,
       Arriving, DeletePhases, Roles, Captures
  <1>6. Known'
    <2>1. ASSUME NEW x \in 1 .. made' PROVE KnownOf(x)'
      <3>1. CASE x = c
        BY InvGives, <1>a, <1>g, <1>u, DeletersAre, <2>1, <3>1 DEF TypeOK, KnownOf, Fresh,
           Tracked, None, Arriving, DeletePhases, Captures
      <3>2. CASE x # c
        BY InvGives, <1>a, <1>g, <1>u, DeletersAre, <2>1, <3>2 DEF TypeOK, KnownOf, Fresh,
           Tracked, None, Arriving, DeletePhases, Captures
      <3>. QED
        BY <3>1, <3>2
    <2>. QED
      BY <2>1 DEF Known
  <1>7. Measurements'
    <2>1. ASSUME NEW x \in 1 .. made' PROVE MeasurementOf(x)'
      <3>1. CASE x = c
        BY InvGives, <1>a, <1>g, <1>sd, <1>u, DeletersAre, <2>1, <3>1 DEF TypeOK, MeasurementOf,
           None, Arriving, Captures
      <3>2. CASE x # c
        BY InvGives, <1>a, <1>g, <1>sd, <1>u, DeletersAre, <2>1, <3>2 DEF TypeOK, MeasurementOf,
           None, Arriving, Captures
      <3>. QED
        BY <3>1, <3>2
    <2>. QED
      BY <2>1 DEF Measurements
  <1>8. Marks'
    <2>1. ASSUME NEW x \in 1 .. made' PROVE MarkOf(x)'
      <3>1. CASE x = c
        BY InvGives, <1>a, <1>g, <1>u, <1>r, DeletersAre, <2>1, <3>1 DEF TypeOK, MarkOf,
           KnownOf, Fresh, Settling, None, Tracked, Captures, Arriving, DeletePhases
      <3>2. CASE x # c
        BY InvGives, <1>a, <1>g, <1>u, <1>r, DeletersAre, <2>1, <3>2 DEF TypeOK, MarkOf,
           KnownOf, Fresh, Settling, None, Tracked, Captures, Arriving, DeletePhases
      <3>. QED
        BY <3>1, <3>2
    <2>. QED
      BY <2>1 DEF Marks
  <1>9. Events'
    <2>1. \A x \in 1 .. made : "iq" \in disk'[x] /\ x \notin Deleting' =>
            "iq" \in disk[x] /\ x \notin Deleting
      BY InvGives, <1>a, <1>g, <1>u, DeletersAre DEF TypeOK, DeletePhases, Captures
    <2>2. ASSUME NEW q \in qualified, NEW x \in 1 .. made, "iq" \in disk'[x], x \notin Deleting',
                 origin[x] = "auto", x - q <= Span, q - x <= Span,
                 "mark" \in disk[x] \/ Owed(q, x)
          PROVE  "mark" \in disk'[x] \/ Owed(q, x)'
      <3>0. "iq" \in disk[x] /\ x \notin Deleting /\ q <= made
        BY InvGives, <2>1, <2>2 DEF Events
      <3>1. CASE x = c
        BY InvGives, <1>a, <1>g, <1>u, DeletersAre, <2>2, <3>0, <3>1 DEF TypeOK, Owed, Fresh,
           Captures, KnownOf, MarkOf, Settling, Tracked
      <3>2. CASE x # c
        BY InvGives, <1>a, <1>g, <1>u, DeletersAre, <2>2, <3>0, <3>2 DEF TypeOK, Owed, Fresh,
           Captures
      <3>. QED
        BY <3>1, <3>2
    <2>. QED
      BY InvGives, <1>u, <2>1, <2>2, EventsStay
  <1>10. ExactUnlessTorn'
    <2>1. ASSUME NEW x \in 1 .. made', ~torn' PROVE ExactOf(x)'
      <3>0. ExactOf(x)
        BY InvGives, <1>u, <2>1 DEF ExactUnlessTorn
      <3>1. CASE x = c
        BY InvGives, <1>a, <1>g, <1>sd, <1>u, <1>r, DeletersAre, <2>1, <3>0, <3>1 DEF TypeOK,
           ExactOf, MeasurementOf, MarkOf, Settling, Tracked, None, Arriving, DeletePhases,
           Captures
      <3>2. CASE x # c
        BY InvGives, <1>a, <1>g, <1>sd, <1>u, <1>r, DeletersAre, <2>1, <3>0, <3>2 DEF TypeOK,
           ExactOf, MeasurementOf, MarkOf, Settling, Tracked, None, Arriving, DeletePhases,
           Captures
      <3>. QED
        BY <3>1, <3>2
    <2>. QED
      BY <2>1 DEF ExactUnlessTorn
  <1>11. ArchiveBounded'
    <2>1. Kept' \subseteq Kept
      BY InvGives, <1>a, <1>g, <1>u DEF TypeOK, Kept, Captures, Evictors, Roles, Phase,
         DeletePhases
    <2>. QED
      BY InvGives, <1>u, <2>1, ArchiveShrinks
  <1>. QED
    BY <1>1, <1>2, <1>3, <1>4, <1>5, <1>6, <1>7, <1>8, <1>9, <1>10, <1>11 DEF IndexInv

\* It writes the sidecar.
LEMMA SdWritesKeeps ==
  ASSUME IndexInv, NEW c \in Captures, SdWrites(c)
  PROVE  IndexInv'
PROOF
  <1>a. c \in 1 .. made
    BY InvGives DEF NotYet, TypeOK, Captures, SdWrites
  <1>g. sd[c] = "write"
    BY DEF SdWrites, indexVars, pastVars, rcVars, evVars, SdGoes
  <1>sd. /\ sd' \in [Captures -> {"none", "grace", "write", "look", "drop", "measure", "add",
              "done"}]
         /\ sd'[c] = "look"
         /\ \A d \in Captures \ {c} : sd'[d] = sd[d]
    <2>1. sd' \in [Captures -> {"none", "grace", "write", "look", "drop", "measure", "add", "done"}]
      BY InvGives, <1>a, <1>g DEF SdWrites, indexVars, pastVars, rcVars, evVars, SdGoes, TypeOK,
         Captures
    <2>2. sd'[c] = "look"
      BY InvGives, <1>a, <1>g DEF SdWrites, indexVars, pastVars, rcVars, evVars, SdGoes, TypeOK,
         Captures
    <2>3. \A d \in Captures \ {c} : sd'[d] = sd[d]
      BY InvGives, <1>a, <1>g DEF SdWrites, indexVars, pastVars, rcVars, evVars, SdGoes
    <2>. QED
      BY <2>1, <2>2, <2>3
  <1>disk. /\ disk' \in [Captures -> SUBSET Files]
           /\ \A d \in Captures \ {c} : disk'[d] = disk[d]
           /\ "iq" \in disk'[c] <=> "iq" \in disk[c]
           /\ "mark" \in disk'[c] <=> "mark" \in disk[c]
           /\ "sidecar" \in disk'[c]
    <2>1. disk' \in [Captures -> SUBSET Files]
      BY InvGives, <1>a, <1>g DEF SdWrites, indexVars, pastVars, rcVars, evVars, SdGoes, TypeOK,
         Captures, Evictors, Files
    <2>2. \A d \in Captures \ {c} : disk'[d] = disk[d]
      BY InvGives, <1>a, <1>g DEF SdWrites, indexVars, pastVars, rcVars, evVars, SdGoes
    <2>3. "iq" \in disk'[c] <=> "iq" \in disk[c]
      BY InvGives, <1>a, <1>g DEF SdWrites, indexVars, pastVars, rcVars, evVars, SdGoes
    <2>4. "mark" \in disk'[c] <=> "mark" \in disk[c]
      BY InvGives, <1>a, <1>g DEF SdWrites, indexVars, pastVars, rcVars, evVars, SdGoes
    <2>5. "sidecar" \in disk'[c]
      BY InvGives, <1>a, <1>g DEF SdWrites, indexVars, pastVars, rcVars, evVars, SdGoes, TypeOK,
         Captures
    <2>. QED
      BY <2>1, <2>2, <2>3, <2>4, <2>5
  <1>u. /\ index' = index /\ autoBytes' = autoBytes /\ prioBytes' = prioBytes /\ origin' = origin
        /\ qualified' = qualified /\ until' = until /\ made' = made /\ rc' = rc
        /\ rcTodo' = rcTodo /\ ev' = ev /\ evLeft' = evLeft /\ evPrio' = evPrio
        /\ evBound' = evBound /\ evictions' = evictions /\ measured' = measured /\ victim' = victim
        /\ torn' = torn
    BY DEF SdWrites, indexVars, pastVars, rcVars, evVars, SdGoes
  <1>r. RcNext' = RcNext
    BY <1>u DEF RcNext, Oldest
  <1>1. TypeOK'
    BY InvGives, <1>a, <1>g, <1>sd, <1>disk, <1>u, CaptureIndexAssumption DEF TypeOK, Captures,
       Roles, Phase, DeletePhases
  <1>2. TotalsMatch'
    <2>1. Automatic' = Automatic
      BY <1>u DEF Automatic, Tracked
    <2>. QED
      BY InvGives, <1>u, <2>1, TotalsStay
  <1>3. Roles'
    BY InvGives, <1>a, <1>g, <1>u, CaptureIndexAssumption DEF TypeOK, Roles, Phase, Evictors,
       DeletePhases, Captures
  <1>4. NotYet'
    BY InvGives, <1>a, <1>g, <1>sd, <1>disk, <1>u, CaptureIndexAssumption DEF TypeOK, NotYet,
       None, Captures, Roles, Phase, DeletePhases
  <1>5. Arriving'
    BY InvGives, <1>a, <1>g, <1>sd, <1>disk, <1>u, DeletersAre, CaptureIndexAssumption DEF
       TypeOK, Arriving, DeletePhases, Roles, Captures
  <1>6. Known'
    <2>1. ASSUME NEW x \in 1 .. made' PROVE KnownOf(x)'
      <3>1. CASE x = c
        BY InvGives, <1>a, <1>g, <1>disk, <1>u, DeletersAre, <2>1, <3>1 DEF TypeOK, KnownOf,
           Fresh, Tracked, None, Arriving, DeletePhases, Captures
      <3>2. CASE x # c
        BY InvGives, <1>a, <1>g, <1>disk, <1>u, DeletersAre, <2>1, <3>2 DEF TypeOK, KnownOf,
           Fresh, Tracked, None, Arriving, DeletePhases, Captures
      <3>. QED
        BY <3>1, <3>2
    <2>. QED
      BY <2>1 DEF Known
  <1>7. Measurements'
    <2>1. ASSUME NEW x \in 1 .. made' PROVE MeasurementOf(x)'
      <3>1. CASE x = c
        BY InvGives, <1>a, <1>g, <1>sd, <1>disk, <1>u, DeletersAre, <2>1, <3>1 DEF TypeOK,
           MeasurementOf, None, Arriving, Captures
      <3>2. CASE x # c
        BY InvGives, <1>a, <1>g, <1>sd, <1>disk, <1>u, DeletersAre, <2>1, <3>2 DEF TypeOK,
           MeasurementOf, None, Arriving, Captures
      <3>. QED
        BY <3>1, <3>2
    <2>. QED
      BY <2>1 DEF Measurements
  <1>8. Marks'
    <2>1. ASSUME NEW x \in 1 .. made' PROVE MarkOf(x)'
      <3>1. CASE x = c
        BY InvGives, <1>a, <1>g, <1>disk, <1>u, <1>r, DeletersAre, <2>1, <3>1 DEF TypeOK,
           MarkOf, KnownOf, Fresh, Settling, None, Tracked, Captures, Arriving, DeletePhases
      <3>2. CASE x # c
        BY InvGives, <1>a, <1>g, <1>disk, <1>u, <1>r, DeletersAre, <2>1, <3>2 DEF TypeOK,
           MarkOf, KnownOf, Fresh, Settling, None, Tracked, Captures, Arriving, DeletePhases
      <3>. QED
        BY <3>1, <3>2
    <2>. QED
      BY <2>1 DEF Marks
  <1>9. Events'
    <2>1. \A x \in 1 .. made : "iq" \in disk'[x] /\ x \notin Deleting' =>
            "iq" \in disk[x] /\ x \notin Deleting
      BY InvGives, <1>a, <1>g, <1>disk, <1>u, DeletersAre DEF TypeOK, DeletePhases, Captures
    <2>2. ASSUME NEW q \in qualified, NEW x \in 1 .. made, "iq" \in disk'[x], x \notin Deleting',
                 origin[x] = "auto", x - q <= Span, q - x <= Span,
                 "mark" \in disk[x] \/ Owed(q, x)
          PROVE  "mark" \in disk'[x] \/ Owed(q, x)'
      <3>0. "iq" \in disk[x] /\ x \notin Deleting /\ q <= made
        BY InvGives, <2>1, <2>2 DEF Events
      <3>1. CASE x = c
        BY InvGives, <1>a, <1>g, <1>disk, <1>u, DeletersAre, <2>2, <3>0, <3>1 DEF TypeOK, Owed,
           Fresh, Captures, KnownOf, MarkOf, Settling, Tracked
      <3>2. CASE x # c
        BY InvGives, <1>a, <1>g, <1>disk, <1>u, DeletersAre, <2>2, <3>0, <3>2 DEF TypeOK, Owed,
           Fresh, Captures
      <3>. QED
        BY <3>1, <3>2
    <2>. QED
      BY InvGives, <1>u, <2>1, <2>2, EventsStay
  <1>10. ExactUnlessTorn'
    <2>1. ASSUME NEW x \in 1 .. made', ~torn' PROVE ExactOf(x)'
      <3>0. ExactOf(x)
        BY InvGives, <1>u, <2>1 DEF ExactUnlessTorn
      <3>1. CASE x = c
        BY InvGives, <1>a, <1>g, <1>sd, <1>disk, <1>u, <1>r, DeletersAre, <2>1, <3>0, <3>1 DEF
           TypeOK, ExactOf, MeasurementOf, MarkOf, Settling, Tracked, None, Arriving,
           DeletePhases, Captures
      <3>2. CASE x # c
        BY InvGives, <1>a, <1>g, <1>sd, <1>disk, <1>u, <1>r, DeletersAre, <2>1, <3>0, <3>2 DEF
           TypeOK, ExactOf, MeasurementOf, MarkOf, Settling, Tracked, None, Arriving,
           DeletePhases, Captures
      <3>. QED
        BY <3>1, <3>2
    <2>. QED
      BY <2>1 DEF ExactUnlessTorn
  <1>11. ArchiveBounded'
    <2>1. Kept' \subseteq Kept
      BY InvGives, <1>a, <1>g, <1>disk, <1>u DEF TypeOK, Kept, Captures, Evictors, Roles, Phase,
         DeletePhases
    <2>. QED
      BY InvGives, <1>u, <2>1, ArchiveShrinks
  <1>. QED
    BY <1>1, <1>2, <1>3, <1>4, <1>5, <1>6, <1>7, <1>8, <1>9, <1>10, <1>11 DEF IndexInv

\* It looks whether the capture is still there.
LEMMA SdLooksKeeps ==
  ASSUME IndexInv, NEW c \in Captures, SdLooks(c)
  PROVE  IndexInv'
PROOF
  <1>a. c \in 1 .. made
    BY InvGives DEF NotYet, TypeOK, Captures, SdLooks
  <1>g. sd[c] = "look"
    BY DEF SdLooks, indexVars, pastVars, rcVars, evVars, SdGoes
  <1>sd. /\ sd' \in [Captures -> {"none", "grace", "write", "look", "drop", "measure", "add",
              "done"}]
         /\ sd'[c] = IF "iq" \in disk[c] THEN "measure" ELSE "drop"
         /\ \A d \in Captures \ {c} : sd'[d] = sd[d]
    <2>1. sd' \in [Captures -> {"none", "grace", "write", "look", "drop", "measure", "add", "done"}]
      BY InvGives, <1>a, <1>g DEF SdLooks, indexVars, pastVars, rcVars, evVars, SdGoes, TypeOK,
         Captures
    <2>2. sd'[c] = IF "iq" \in disk[c] THEN "measure" ELSE "drop"
      BY InvGives, <1>a, <1>g DEF SdLooks, indexVars, pastVars, rcVars, evVars, SdGoes, TypeOK,
         Captures
    <2>3. \A d \in Captures \ {c} : sd'[d] = sd[d]
      BY InvGives, <1>a, <1>g DEF SdLooks, indexVars, pastVars, rcVars, evVars, SdGoes
    <2>. QED
      BY <2>1, <2>2, <2>3
  <1>u. /\ disk' = disk /\ index' = index /\ autoBytes' = autoBytes /\ prioBytes' = prioBytes
        /\ origin' = origin /\ qualified' = qualified /\ until' = until /\ made' = made
        /\ rc' = rc /\ rcTodo' = rcTodo /\ ev' = ev /\ evLeft' = evLeft
        /\ evPrio' = evPrio /\ evBound' = evBound /\ evictions' = evictions /\ measured' = measured
        /\ victim' = victim /\ torn' = torn
    BY DEF SdLooks, indexVars, pastVars, rcVars, evVars, SdGoes
  <1>r. RcNext' = RcNext
    BY <1>u DEF RcNext, Oldest
  <1>1. TypeOK'
    BY InvGives, <1>a, <1>g, <1>sd, <1>u, CaptureIndexAssumption DEF TypeOK, Captures, Roles,
       Phase, DeletePhases
  <1>2. TotalsMatch'
    <2>1. Automatic' = Automatic
      BY <1>u DEF Automatic, Tracked
    <2>. QED
      BY InvGives, <1>u, <2>1, TotalsStay
  <1>3. Roles'
    BY InvGives, <1>a, <1>g, <1>u, CaptureIndexAssumption DEF TypeOK, Roles, Phase, Evictors,
       DeletePhases, Captures
  <1>4. NotYet'
    BY InvGives, <1>a, <1>g, <1>sd, <1>u, CaptureIndexAssumption DEF TypeOK, NotYet, None,
       Captures, Roles, Phase, DeletePhases
  <1>5. Arriving'
    BY InvGives, <1>a, <1>g, <1>sd, <1>u, DeletersAre, CaptureIndexAssumption DEF TypeOK,
       Arriving, DeletePhases, Roles, Captures
  <1>6. Known'
    <2>1. ASSUME NEW x \in 1 .. made' PROVE KnownOf(x)'
      <3>1. CASE x = c
        BY InvGives, <1>a, <1>g, <1>u, DeletersAre, <2>1, <3>1 DEF TypeOK, KnownOf, Fresh,
           Tracked, None, Arriving, DeletePhases, Captures
      <3>2. CASE x # c
        BY InvGives, <1>a, <1>g, <1>u, DeletersAre, <2>1, <3>2 DEF TypeOK, KnownOf, Fresh,
           Tracked, None, Arriving, DeletePhases, Captures
      <3>. QED
        BY <3>1, <3>2
    <2>. QED
      BY <2>1 DEF Known
  <1>7. Measurements'
    <2>1. ASSUME NEW x \in 1 .. made' PROVE MeasurementOf(x)'
      <3>1. CASE x = c
        BY InvGives, <1>a, <1>g, <1>sd, <1>u, DeletersAre, <2>1, <3>1 DEF TypeOK, MeasurementOf,
           None, Arriving, Captures
      <3>2. CASE x # c
        BY InvGives, <1>a, <1>g, <1>sd, <1>u, DeletersAre, <2>1, <3>2 DEF TypeOK, MeasurementOf,
           None, Arriving, Captures
      <3>. QED
        BY <3>1, <3>2
    <2>. QED
      BY <2>1 DEF Measurements
  <1>8. Marks'
    <2>1. ASSUME NEW x \in 1 .. made' PROVE MarkOf(x)'
      <3>1. CASE x = c
        BY InvGives, <1>a, <1>g, <1>u, <1>r, DeletersAre, <2>1, <3>1 DEF TypeOK, MarkOf,
           KnownOf, Fresh, Settling, None, Tracked, Captures, Arriving, DeletePhases
      <3>2. CASE x # c
        BY InvGives, <1>a, <1>g, <1>u, <1>r, DeletersAre, <2>1, <3>2 DEF TypeOK, MarkOf,
           KnownOf, Fresh, Settling, None, Tracked, Captures, Arriving, DeletePhases
      <3>. QED
        BY <3>1, <3>2
    <2>. QED
      BY <2>1 DEF Marks
  <1>9. Events'
    <2>1. \A x \in 1 .. made : "iq" \in disk'[x] /\ x \notin Deleting' =>
            "iq" \in disk[x] /\ x \notin Deleting
      BY InvGives, <1>a, <1>g, <1>u, DeletersAre DEF TypeOK, DeletePhases, Captures
    <2>2. ASSUME NEW q \in qualified, NEW x \in 1 .. made, "iq" \in disk'[x], x \notin Deleting',
                 origin[x] = "auto", x - q <= Span, q - x <= Span,
                 "mark" \in disk[x] \/ Owed(q, x)
          PROVE  "mark" \in disk'[x] \/ Owed(q, x)'
      <3>0. "iq" \in disk[x] /\ x \notin Deleting /\ q <= made
        BY InvGives, <2>1, <2>2 DEF Events
      <3>1. CASE x = c
        BY InvGives, <1>a, <1>g, <1>u, DeletersAre, <2>2, <3>0, <3>1 DEF TypeOK, Owed, Fresh,
           Captures, KnownOf, MarkOf, Settling, Tracked
      <3>2. CASE x # c
        BY InvGives, <1>a, <1>g, <1>u, DeletersAre, <2>2, <3>0, <3>2 DEF TypeOK, Owed, Fresh,
           Captures
      <3>. QED
        BY <3>1, <3>2
    <2>. QED
      BY InvGives, <1>u, <2>1, <2>2, EventsStay
  <1>10. ExactUnlessTorn'
    <2>1. ASSUME NEW x \in 1 .. made', ~torn' PROVE ExactOf(x)'
      <3>0. ExactOf(x)
        BY InvGives, <1>u, <2>1 DEF ExactUnlessTorn
      <3>1. CASE x = c
        BY InvGives, <1>a, <1>g, <1>sd, <1>u, <1>r, DeletersAre, <2>1, <3>0, <3>1 DEF TypeOK,
           ExactOf, MeasurementOf, MarkOf, Settling, Tracked, None, Arriving, DeletePhases,
           Captures
      <3>2. CASE x # c
        BY InvGives, <1>a, <1>g, <1>sd, <1>u, <1>r, DeletersAre, <2>1, <3>0, <3>2 DEF TypeOK,
           ExactOf, MeasurementOf, MarkOf, Settling, Tracked, None, Arriving, DeletePhases,
           Captures
      <3>. QED
        BY <3>1, <3>2
    <2>. QED
      BY <2>1 DEF ExactUnlessTorn
  <1>11. ArchiveBounded'
    <2>1. Kept' \subseteq Kept
      BY InvGives, <1>a, <1>g, <1>u DEF TypeOK, Kept, Captures, Evictors, Roles, Phase,
         DeletePhases
    <2>. QED
      BY InvGives, <1>u, <2>1, ArchiveShrinks
  <1>. QED
    BY <1>1, <1>2, <1>3, <1>4, <1>5, <1>6, <1>7, <1>8, <1>9, <1>10, <1>11 DEF IndexInv

\* It takes back the sidecar of an evicted capture.
LEMMA SdDropsKeeps ==
  ASSUME IndexInv, NEW c \in Captures, SdDrops(c)
  PROVE  IndexInv'
PROOF
  <1>a. c \in 1 .. made
    BY InvGives DEF NotYet, TypeOK, Captures, SdDrops
  <1>g. sd[c] = "drop"
    BY DEF SdDrops, indexVars, pastVars, rcVars, evVars, SdGoes
  <1>sd. /\ sd' \in [Captures -> {"none", "grace", "write", "look", "drop", "measure", "add",
              "done"}]
         /\ sd'[c] = "done"
         /\ \A d \in Captures \ {c} : sd'[d] = sd[d]
    <2>1. sd' \in [Captures -> {"none", "grace", "write", "look", "drop", "measure", "add", "done"}]
      BY InvGives, <1>a, <1>g DEF SdDrops, indexVars, pastVars, rcVars, evVars, SdGoes, TypeOK,
         Captures
    <2>2. sd'[c] = "done"
      BY InvGives, <1>a, <1>g DEF SdDrops, indexVars, pastVars, rcVars, evVars, SdGoes, TypeOK,
         Captures
    <2>3. \A d \in Captures \ {c} : sd'[d] = sd[d]
      BY InvGives, <1>a, <1>g DEF SdDrops, indexVars, pastVars, rcVars, evVars, SdGoes
    <2>. QED
      BY <2>1, <2>2, <2>3
  <1>disk. /\ disk' \in [Captures -> SUBSET Files]
           /\ \A d \in Captures \ {c} : disk'[d] = disk[d]
           /\ "iq" \in disk'[c] <=> "iq" \in disk[c]
           /\ "mark" \in disk'[c] <=> "mark" \in disk[c]
           /\ "sidecar" \notin disk'[c]
    <2>1. disk' \in [Captures -> SUBSET Files]
      BY InvGives, <1>a, <1>g DEF SdDrops, indexVars, pastVars, rcVars, evVars, SdGoes, TypeOK,
         Captures
    <2>2. \A d \in Captures \ {c} : disk'[d] = disk[d]
      BY InvGives, <1>a, <1>g DEF SdDrops, indexVars, pastVars, rcVars, evVars, SdGoes
    <2>3. "iq" \in disk'[c] <=> "iq" \in disk[c]
      BY InvGives, <1>a, <1>g DEF SdDrops, indexVars, pastVars, rcVars, evVars, SdGoes
    <2>4. "mark" \in disk'[c] <=> "mark" \in disk[c]
      BY InvGives, <1>a, <1>g DEF SdDrops, indexVars, pastVars, rcVars, evVars, SdGoes
    <2>5. "sidecar" \notin disk'[c]
      BY InvGives, <1>a, <1>g DEF SdDrops, indexVars, pastVars, rcVars, evVars, SdGoes, TypeOK,
         Captures
    <2>. QED
      BY <2>1, <2>2, <2>3, <2>4, <2>5
  <1>u. /\ index' = index /\ autoBytes' = autoBytes /\ prioBytes' = prioBytes /\ origin' = origin
        /\ qualified' = qualified /\ until' = until /\ made' = made /\ rc' = rc
        /\ rcTodo' = rcTodo /\ ev' = ev /\ evLeft' = evLeft /\ evPrio' = evPrio
        /\ evBound' = evBound /\ evictions' = evictions /\ measured' = measured /\ victim' = victim
        /\ torn' = torn
    BY DEF SdDrops, indexVars, pastVars, rcVars, evVars, SdGoes
  <1>r. RcNext' = RcNext
    BY <1>u DEF RcNext, Oldest
  <1>1. TypeOK'
    BY InvGives, <1>a, <1>g, <1>sd, <1>disk, <1>u, CaptureIndexAssumption DEF TypeOK, Captures,
       Roles, Phase, DeletePhases
  <1>2. TotalsMatch'
    <2>1. Automatic' = Automatic
      BY <1>u DEF Automatic, Tracked
    <2>. QED
      BY InvGives, <1>u, <2>1, TotalsStay
  <1>3. Roles'
    BY InvGives, <1>a, <1>g, <1>u, CaptureIndexAssumption DEF TypeOK, Roles, Phase, Evictors,
       DeletePhases, Captures
  <1>4. NotYet'
    BY InvGives, <1>a, <1>g, <1>sd, <1>disk, <1>u, CaptureIndexAssumption DEF TypeOK, NotYet,
       None, Captures, Roles, Phase, DeletePhases
  <1>5. Arriving'
    BY InvGives, <1>a, <1>g, <1>sd, <1>disk, <1>u, DeletersAre, CaptureIndexAssumption DEF
       TypeOK, Arriving, DeletePhases, Roles, Captures
  <1>6. Known'
    <2>1. ASSUME NEW x \in 1 .. made' PROVE KnownOf(x)'
      <3>1. CASE x = c
        BY InvGives, <1>a, <1>g, <1>disk, <1>u, DeletersAre, <2>1, <3>1 DEF TypeOK, KnownOf,
           Fresh, Tracked, None, Arriving, DeletePhases, Captures
      <3>2. CASE x # c
        BY InvGives, <1>a, <1>g, <1>disk, <1>u, DeletersAre, <2>1, <3>2 DEF TypeOK, KnownOf,
           Fresh, Tracked, None, Arriving, DeletePhases, Captures
      <3>. QED
        BY <3>1, <3>2
    <2>. QED
      BY <2>1 DEF Known
  <1>7. Measurements'
    <2>1. ASSUME NEW x \in 1 .. made' PROVE MeasurementOf(x)'
      <3>1. CASE x = c
        BY InvGives, <1>a, <1>g, <1>sd, <1>disk, <1>u, DeletersAre, <2>1, <3>1 DEF TypeOK,
           MeasurementOf, None, Arriving, Captures
      <3>2. CASE x # c
        BY InvGives, <1>a, <1>g, <1>sd, <1>disk, <1>u, DeletersAre, <2>1, <3>2 DEF TypeOK,
           MeasurementOf, None, Arriving, Captures
      <3>. QED
        BY <3>1, <3>2
    <2>. QED
      BY <2>1 DEF Measurements
  <1>8. Marks'
    <2>1. ASSUME NEW x \in 1 .. made' PROVE MarkOf(x)'
      <3>1. CASE x = c
        BY InvGives, <1>a, <1>g, <1>disk, <1>u, <1>r, DeletersAre, <2>1, <3>1 DEF TypeOK,
           MarkOf, KnownOf, Fresh, Settling, None, Tracked, Captures, Arriving, DeletePhases
      <3>2. CASE x # c
        BY InvGives, <1>a, <1>g, <1>disk, <1>u, <1>r, DeletersAre, <2>1, <3>2 DEF TypeOK,
           MarkOf, KnownOf, Fresh, Settling, None, Tracked, Captures, Arriving, DeletePhases
      <3>. QED
        BY <3>1, <3>2
    <2>. QED
      BY <2>1 DEF Marks
  <1>9. Events'
    <2>1. \A x \in 1 .. made : "iq" \in disk'[x] /\ x \notin Deleting' =>
            "iq" \in disk[x] /\ x \notin Deleting
      BY InvGives, <1>a, <1>g, <1>disk, <1>u, DeletersAre DEF TypeOK, DeletePhases, Captures
    <2>2. ASSUME NEW q \in qualified, NEW x \in 1 .. made, "iq" \in disk'[x], x \notin Deleting',
                 origin[x] = "auto", x - q <= Span, q - x <= Span,
                 "mark" \in disk[x] \/ Owed(q, x)
          PROVE  "mark" \in disk'[x] \/ Owed(q, x)'
      <3>0. "iq" \in disk[x] /\ x \notin Deleting /\ q <= made
        BY InvGives, <2>1, <2>2 DEF Events
      <3>1. CASE x = c
        BY InvGives, <1>a, <1>g, <1>disk, <1>u, DeletersAre, <2>2, <3>0, <3>1 DEF TypeOK, Owed,
           Fresh, Captures, KnownOf, MarkOf, Settling, Tracked
      <3>2. CASE x # c
        BY InvGives, <1>a, <1>g, <1>disk, <1>u, DeletersAre, <2>2, <3>0, <3>2 DEF TypeOK, Owed,
           Fresh, Captures
      <3>. QED
        BY <3>1, <3>2
    <2>. QED
      BY InvGives, <1>u, <2>1, <2>2, EventsStay
  <1>10. ExactUnlessTorn'
    <2>1. ASSUME NEW x \in 1 .. made', ~torn' PROVE ExactOf(x)'
      <3>0. ExactOf(x)
        BY InvGives, <1>u, <2>1 DEF ExactUnlessTorn
      <3>1. CASE x = c
        BY InvGives, <1>a, <1>g, <1>sd, <1>disk, <1>u, <1>r, DeletersAre, <2>1, <3>0, <3>1 DEF
           TypeOK, ExactOf, MeasurementOf, MarkOf, Settling, Tracked, None, Arriving,
           DeletePhases, Captures
      <3>2. CASE x # c
        BY InvGives, <1>a, <1>g, <1>sd, <1>disk, <1>u, <1>r, DeletersAre, <2>1, <3>0, <3>2 DEF
           TypeOK, ExactOf, MeasurementOf, MarkOf, Settling, Tracked, None, Arriving,
           DeletePhases, Captures
      <3>. QED
        BY <3>1, <3>2
    <2>. QED
      BY <2>1 DEF ExactUnlessTorn
  <1>11. ArchiveBounded'
    <2>1. Kept' \subseteq Kept
      BY InvGives, <1>a, <1>g, <1>disk, <1>u DEF TypeOK, Kept, Captures, Evictors, Roles, Phase,
         DeletePhases
    <2>. QED
      BY InvGives, <1>u, <2>1, ArchiveShrinks
  <1>. QED
    BY <1>1, <1>2, <1>3, <1>4, <1>5, <1>6, <1>7, <1>8, <1>9, <1>10, <1>11 DEF IndexInv

\* Its track measures the capture outside the lock.
LEMMA SdMeasuresKeeps ==
  ASSUME IndexInv, NEW c \in Captures, SdMeasures(c)
  PROVE  IndexInv'
PROOF
  <1>a. c \in 1 .. made
    BY InvGives DEF NotYet, TypeOK, Captures, SdMeasures
  <1>m. /\ Measure(c) \in Entries /\ (Measure(c).there <=> "iq" \in disk[c])
        /\ ~Measure(c).there => Measure(c) = None
        /\ "iq" \in disk[c] =>
             /\ Measure(c).priority = ("mark" \in disk[c])
             /\ Measure(c).size = IF "sidecar" \in disk[c] THEN IqSize + SidecarSize ELSE IqSize
    BY MeasureIs
  <1>g. sd[c] = "measure"
    BY DEF SdMeasures, indexVars, pastVars, rcVars, evVars, SdGoes
  <1>sd. /\ sd' \in [Captures -> {"none", "grace", "write", "look", "drop", "measure", "add",
              "done"}]
         /\ sd'[c] = "add"
         /\ \A d \in Captures \ {c} : sd'[d] = sd[d]
    <2>1. sd' \in [Captures -> {"none", "grace", "write", "look", "drop", "measure", "add", "done"}]
      BY InvGives, <1>a, <1>m, <1>g DEF SdMeasures, indexVars, pastVars, rcVars, evVars, SdGoes,
         TypeOK, Captures
    <2>2. sd'[c] = "add"
      BY InvGives, <1>a, <1>m, <1>g DEF SdMeasures, indexVars, pastVars, rcVars, evVars, SdGoes,
         TypeOK, Captures
    <2>3. \A d \in Captures \ {c} : sd'[d] = sd[d]
      BY InvGives, <1>a, <1>m, <1>g DEF SdMeasures, indexVars, pastVars, rcVars, evVars, SdGoes
    <2>. QED
      BY <2>1, <2>2, <2>3
  <1>measured. /\ measured' \in [Captures -> Entries]
               /\ measured'[c] = Measure(c)
               /\ \A d \in Captures \ {c} : measured'[d] = measured[d]
    <2>1. measured' \in [Captures -> Entries]
      BY InvGives, <1>a, <1>m, <1>g DEF SdMeasures, indexVars, pastVars, rcVars, evVars, SdGoes,
         TypeOK, Captures
    <2>2. measured'[c] = Measure(c)
      BY InvGives, <1>a, <1>m, <1>g DEF SdMeasures, indexVars, pastVars, rcVars, evVars, SdGoes,
         TypeOK, Captures
    <2>3. \A d \in Captures \ {c} : measured'[d] = measured[d]
      BY InvGives, <1>a, <1>m, <1>g DEF SdMeasures, indexVars, pastVars, rcVars, evVars, SdGoes
    <2>. QED
      BY <2>1, <2>2, <2>3
  <1>u. /\ disk' = disk /\ index' = index /\ autoBytes' = autoBytes /\ prioBytes' = prioBytes
        /\ origin' = origin /\ qualified' = qualified /\ until' = until /\ made' = made
        /\ rc' = rc /\ rcTodo' = rcTodo /\ ev' = ev /\ evLeft' = evLeft
        /\ evPrio' = evPrio /\ evBound' = evBound /\ evictions' = evictions /\ victim' = victim
        /\ torn' = torn
    BY DEF SdMeasures, indexVars, pastVars, rcVars, evVars, SdGoes
  <1>r. RcNext' = RcNext
    BY <1>u DEF RcNext, Oldest
  <1>1. TypeOK'
    BY InvGives, <1>a, <1>m, <1>g, <1>sd, <1>measured, <1>u, CaptureIndexAssumption DEF TypeOK,
       Captures, Roles, Phase, DeletePhases
  <1>2. TotalsMatch'
    <2>1. Automatic' = Automatic
      BY <1>u DEF Automatic, Tracked
    <2>. QED
      BY InvGives, <1>u, <2>1, TotalsStay
  <1>3. Roles'
    BY InvGives, <1>a, <1>m, <1>g, <1>u, CaptureIndexAssumption DEF TypeOK, Roles, Phase,
       Evictors, DeletePhases, Captures
  <1>4. NotYet'
    BY InvGives, <1>a, <1>m, <1>g, <1>sd, <1>measured, <1>u, CaptureIndexAssumption DEF TypeOK,
       NotYet, None, Captures, Roles, Phase, DeletePhases
  <1>5. Arriving'
    BY InvGives, <1>a, <1>m, <1>g, <1>sd, <1>measured, <1>u, DeletersAre, CaptureIndexAssumption
       DEF TypeOK, Arriving, DeletePhases, Roles, Captures
  <1>6. Known'
    <2>1. ASSUME NEW x \in 1 .. made' PROVE KnownOf(x)'
      <3>1. CASE x = c
        BY InvGives, <1>a, <1>m, <1>g, <1>u, DeletersAre, <2>1, <3>1 DEF TypeOK, KnownOf, Fresh,
           Tracked, None, Arriving, DeletePhases, Captures
      <3>2. CASE x # c
        BY InvGives, <1>a, <1>m, <1>g, <1>u, DeletersAre, <2>1, <3>2 DEF TypeOK, KnownOf, Fresh,
           Tracked, None, Arriving, DeletePhases, Captures
      <3>. QED
        BY <3>1, <3>2
    <2>. QED
      BY <2>1 DEF Known
  <1>7. Measurements'
    <2>1. ASSUME NEW x \in 1 .. made' PROVE MeasurementOf(x)'
      <3>1. CASE x = c
        BY InvGives, <1>a, <1>m, <1>g, <1>sd, <1>measured, <1>u, DeletersAre, <2>1, <3>1 DEF
           TypeOK, MeasurementOf, None, Arriving, Captures
      <3>2. CASE x # c
        BY InvGives, <1>a, <1>m, <1>g, <1>sd, <1>measured, <1>u, DeletersAre, <2>1, <3>2 DEF
           TypeOK, MeasurementOf, None, Arriving, Captures
      <3>. QED
        BY <3>1, <3>2
    <2>. QED
      BY <2>1 DEF Measurements
  <1>8. Marks'
    <2>1. ASSUME NEW x \in 1 .. made' PROVE MarkOf(x)'
      <3>1. CASE x = c
        BY InvGives, <1>a, <1>m, <1>g, <1>measured, <1>u, <1>r, DeletersAre, <2>1, <3>1 DEF
           TypeOK, MarkOf, KnownOf, Fresh, Settling, None, Tracked, Captures, Arriving,
           DeletePhases
      <3>2. CASE x # c
        BY InvGives, <1>a, <1>m, <1>g, <1>measured, <1>u, <1>r, DeletersAre, <2>1, <3>2 DEF
           TypeOK, MarkOf, KnownOf, Fresh, Settling, None, Tracked, Captures, Arriving,
           DeletePhases
      <3>. QED
        BY <3>1, <3>2
    <2>. QED
      BY <2>1 DEF Marks
  <1>9. Events'
    <2>1. \A x \in 1 .. made : "iq" \in disk'[x] /\ x \notin Deleting' =>
            "iq" \in disk[x] /\ x \notin Deleting
      BY InvGives, <1>a, <1>m, <1>g, <1>u, DeletersAre DEF TypeOK, DeletePhases, Captures
    <2>2. ASSUME NEW q \in qualified, NEW x \in 1 .. made, "iq" \in disk'[x], x \notin Deleting',
                 origin[x] = "auto", x - q <= Span, q - x <= Span,
                 "mark" \in disk[x] \/ Owed(q, x)
          PROVE  "mark" \in disk'[x] \/ Owed(q, x)'
      <3>0. "iq" \in disk[x] /\ x \notin Deleting /\ q <= made
        BY InvGives, <2>1, <2>2 DEF Events
      <3>1. CASE x = c
        BY InvGives, <1>a, <1>m, <1>g, <1>u, DeletersAre, <2>2, <3>0, <3>1 DEF TypeOK, Owed,
           Fresh, Captures, KnownOf, MarkOf, Settling, Tracked
      <3>2. CASE x # c
        BY InvGives, <1>a, <1>m, <1>g, <1>u, DeletersAre, <2>2, <3>0, <3>2 DEF TypeOK, Owed,
           Fresh, Captures
      <3>. QED
        BY <3>1, <3>2
    <2>. QED
      BY InvGives, <1>u, <2>1, <2>2, EventsStay
  <1>10. ExactUnlessTorn'
    <2>1. ASSUME NEW x \in 1 .. made', ~torn' PROVE ExactOf(x)'
      <3>0. ExactOf(x)
        BY InvGives, <1>u, <2>1 DEF ExactUnlessTorn
      <3>1. CASE x = c
        BY InvGives, <1>a, <1>m, <1>g, <1>sd, <1>u, <1>r, DeletersAre, <2>1, <3>0, <3>1 DEF
           TypeOK, ExactOf, MeasurementOf, MarkOf, Settling, Tracked, None, Arriving,
           DeletePhases, Captures
      <3>2. CASE x # c
        BY InvGives, <1>a, <1>m, <1>g, <1>sd, <1>u, <1>r, DeletersAre, <2>1, <3>0, <3>2 DEF
           TypeOK, ExactOf, MeasurementOf, MarkOf, Settling, Tracked, None, Arriving,
           DeletePhases, Captures
      <3>. QED
        BY <3>1, <3>2
    <2>. QED
      BY <2>1 DEF ExactUnlessTorn
  <1>11. ArchiveBounded'
    <2>1. Kept' \subseteq Kept
      BY InvGives, <1>a, <1>m, <1>g, <1>u DEF TypeOK, Kept, Captures, Evictors, Roles, Phase,
         DeletePhases
    <2>. QED
      BY InvGives, <1>u, <2>1, ArchiveShrinks
  <1>. QED
    BY <1>1, <1>2, <1>3, <1>4, <1>5, <1>6, <1>7, <1>8, <1>9, <1>10, <1>11 DEF IndexInv

\* Its track adds what it measured; unless overtaken, that is what is on disk.
LEMMA SdAddsKeeps ==
  ASSUME IndexInv, NEW c \in Captures, SdAdds(c)
  PROVE  IndexInv'
PROOF
  <1>a. c \in 1 .. made
    BY InvGives DEF NotYet, TypeOK, Captures, SdAdds
  <1>m. /\ Measure(c).there <=> "iq" \in disk[c]
        /\ ~Measure(c).there => Measure(c) = None
        /\ "iq" \in disk[c] =>
             /\ Measure(c).priority = ("mark" \in disk[c])
             /\ Measure(c).size = IF "sidecar" \in disk[c] THEN IqSize + SidecarSize ELSE IqSize
    BY MeasureIs
  <1>b. TotalsMatch' /\ index' \in [Captures -> Entries] /\ autoBytes' \in Nat
          /\ prioBytes' \in 0 .. autoBytes'
    <2>1. measured[c] \in Entries
      BY InvGives DEF TypeOK
    <2>2. measured[c].size \in IF measured[c].there THEN Sizes ELSE {0}
      BY InvGives, <1>a DEF MeasurementOf, Sizes, None
    <2>. QED
      BY InvGives, <2>1, <2>2, ReplaceKeepsTotals DEF SdAdds, Add, pastVars
  <1>g. sd[c] = "add"
    BY DEF SdAdds, SdGoes, Add, Replace, Deleting, pastVars, rcVars, evVars
  <1>sd. /\ sd' \in [Captures -> {"none", "grace", "write", "look", "drop", "measure", "add",
              "done"}]
         /\ sd'[c] = "done"
         /\ \A d \in Captures \ {c} : sd'[d] = sd[d]
    <2>1. sd' \in [Captures -> {"none", "grace", "write", "look", "drop", "measure", "add", "done"}]
      BY InvGives, <1>a, <1>m, <1>b, <1>g DEF SdAdds, SdGoes, Add, Replace, Deleting, pastVars,
         rcVars, evVars, TypeOK, Captures
    <2>2. sd'[c] = "done"
      BY InvGives, <1>a, <1>m, <1>b, <1>g DEF SdAdds, SdGoes, Add, Replace, Deleting, pastVars,
         rcVars, evVars, TypeOK, Captures
    <2>3. \A d \in Captures \ {c} : sd'[d] = sd[d]
      BY InvGives, <1>a, <1>m, <1>b, <1>g DEF SdAdds, SdGoes, Add, Replace, Deleting, pastVars,
         rcVars, evVars
    <2>. QED
      BY <2>1, <2>2, <2>3
  <1>measured. /\ None \in Entries
               /\ measured' \in [Captures -> Entries]
               /\ measured'[c] = None
               /\ \A d \in Captures \ {c} : measured'[d] = measured[d]
    <2>1. None \in Entries
      BY InvGives, <1>a, <1>m, <1>b, <1>g DEF SdAdds, SdGoes, Add, Replace, Deleting, pastVars,
         rcVars, evVars, TypeOK, Captures, Evictors, Files, None, Entries
    <2>2. measured' \in [Captures -> Entries]
      BY InvGives, <1>a, <1>m, <1>b, <1>g DEF SdAdds, SdGoes, Add, Replace, Deleting, pastVars,
         rcVars, evVars, TypeOK, Captures, Evictors, Files, None, Entries
    <2>3. measured'[c] = None
      BY InvGives, <1>a, <1>m, <1>b, <1>g DEF SdAdds, SdGoes, Add, Replace, Deleting, pastVars,
         rcVars, evVars, TypeOK, Captures
    <2>4. \A d \in Captures \ {c} : measured'[d] = measured[d]
      BY InvGives, <1>a, <1>m, <1>b, <1>g DEF SdAdds, SdGoes, Add, Replace, Deleting, pastVars,
         rcVars, evVars
    <2>. QED
      BY <2>1, <2>2, <2>3, <2>4
  <1>index. /\ index'[c] = measured[c]
            /\ \A d \in Captures \ {c} : index'[d] = index[d]
    <2>1. index'[c] = measured[c]
      BY InvGives, <1>a, <1>m, <1>b, <1>g DEF SdAdds, SdGoes, Add, Replace, Deleting, pastVars,
         rcVars, evVars
    <2>2. \A d \in Captures \ {c} : index'[d] = index[d]
      BY InvGives, <1>a, <1>m, <1>b, <1>g DEF SdAdds, SdGoes, Add, Replace, Deleting, pastVars,
         rcVars, evVars
    <2>. QED
      BY <2>1, <2>2
  <1>torn. torn' \in BOOLEAN /\ (~torn' => ~torn /\ measured[c] = Measure(c)
             /\ (measured[c].there => c \notin Deleting))
    BY InvGives, <1>a, <1>m, <1>b, <1>g DEF SdAdds, SdGoes, Add, Replace, Deleting, pastVars,
       rcVars, evVars
  <1>u. /\ disk' = disk /\ origin' = origin /\ qualified' = qualified /\ until' = until
        /\ made' = made /\ rc' = rc /\ rcTodo' = rcTodo /\ ev' = ev
        /\ evLeft' = evLeft /\ evPrio' = evPrio /\ evBound' = evBound /\ evictions' = evictions
        /\ victim' = victim
    BY DEF SdAdds, SdGoes, Add, Replace, Deleting, pastVars, rcVars, evVars
  <1>r. RcNext' = RcNext
    BY <1>u DEF RcNext, Oldest
  <1>1. TypeOK'
    BY InvGives, <1>a, <1>m, <1>b, <1>g, <1>sd, <1>measured, <1>index, <1>torn, <1>u,
       CaptureIndexAssumption DEF TypeOK, Captures, Roles, Phase, DeletePhases
  <1>2. TotalsMatch'
    BY <1>b
  <1>3. Roles'
    BY InvGives, <1>a, <1>m, <1>g, <1>u, CaptureIndexAssumption DEF TypeOK, Roles, Phase,
       Evictors, DeletePhases, Captures
  <1>4. NotYet'
    BY ZenonT(40), InvGives, <1>a, <1>m, <1>g, <1>sd, <1>measured, <1>index, <1>u,
       CaptureIndexAssumption
       DEF TypeOK, NotYet, None, Captures, Roles, Phase, DeletePhases
  <1>5. Arriving'
    BY SMTT(30), InvGives, <1>a, <1>m, <1>g, <1>sd, <1>measured, <1>index, <1>u, DeletersAre,
       CaptureIndexAssumption DEF TypeOK, Arriving, DeletePhases, Roles, Captures,
       MeasurementOf, MarkOf
  <1>6. Known'
    <2>1. ASSUME NEW x \in 1 .. made' PROVE KnownOf(x)'
      <3>1. CASE x = c
        BY InvGives, <1>a, <1>m, <1>g, <1>index, <1>u, DeletersAre, <2>1, <3>1 DEF TypeOK,
           KnownOf, Fresh, Tracked, None, Arriving, DeletePhases, Captures, MeasurementOf,
           MarkOf
      <3>2. CASE x # c
        BY InvGives, <1>a, <1>m, <1>g, <1>index, <1>u, DeletersAre, <2>1, <3>2 DEF TypeOK,
           KnownOf, Fresh, Tracked, None, Arriving, DeletePhases, Captures, MeasurementOf,
           MarkOf
      <3>. QED
        BY <3>1, <3>2
    <2>. QED
      BY <2>1 DEF Known
  <1>7. Measurements'
    <2>1. ASSUME NEW x \in 1 .. made' PROVE MeasurementOf(x)'
      <3>1. CASE x = c
        BY InvGives, <1>a, <1>m, <1>g, <1>sd, <1>measured, <1>index, <1>u, DeletersAre, <2>1,
           <3>1 DEF TypeOK, MeasurementOf, None, Arriving, Captures, MarkOf
      <3>2. CASE x # c
        BY InvGives, <1>a, <1>m, <1>g, <1>sd, <1>measured, <1>index, <1>u, DeletersAre, <2>1,
           <3>2 DEF TypeOK, MeasurementOf, None, Arriving, Captures, MarkOf
      <3>. QED
        BY <3>1, <3>2
    <2>. QED
      BY <2>1 DEF Measurements
  <1>8. Marks'
    <2>1. ASSUME NEW x \in 1 .. made' PROVE MarkOf(x)'
      <3>1. CASE x = c
        BY InvGives, <1>a, <1>m, <1>g, <1>measured, <1>index, <1>u, <1>r, DeletersAre, <2>1,
           <3>1 DEF TypeOK, MarkOf, KnownOf, Fresh, Settling, None, Tracked, Captures, Arriving,
           DeletePhases, MeasurementOf
      <3>2. CASE x # c
        BY InvGives, <1>a, <1>m, <1>g, <1>measured, <1>index, <1>u, <1>r, DeletersAre, <2>1,
           <3>2 DEF TypeOK, MarkOf, KnownOf, Fresh, Settling, None, Tracked, Captures, Arriving,
           DeletePhases, MeasurementOf
      <3>. QED
        BY <3>1, <3>2
    <2>. QED
      BY <2>1 DEF Marks
  <1>9. Events'
    <2>1. \A x \in 1 .. made : "iq" \in disk'[x] /\ x \notin Deleting' =>
            "iq" \in disk[x] /\ x \notin Deleting
      BY InvGives, <1>a, <1>m, <1>g, <1>u, DeletersAre DEF TypeOK, DeletePhases, Captures
    <2>2. ASSUME NEW q \in qualified, NEW x \in 1 .. made, "iq" \in disk'[x], x \notin Deleting',
                 origin[x] = "auto", x - q <= Span, q - x <= Span,
                 "mark" \in disk[x] \/ Owed(q, x)
          PROVE  "mark" \in disk'[x] \/ Owed(q, x)'
      <3>0. "iq" \in disk[x] /\ x \notin Deleting /\ q <= made
        BY InvGives, <2>1, <2>2 DEF Events
      <3>1. CASE x = c
        BY InvGives, <1>a, <1>m, <1>g, <1>u, DeletersAre, <2>2, <3>0, <3>1 DEF TypeOK, Owed,
           Fresh, Captures, KnownOf, MarkOf, Settling, Tracked
      <3>2. CASE x # c
        BY InvGives, <1>a, <1>m, <1>g, <1>u, DeletersAre, <2>2, <3>0, <3>2 DEF TypeOK, Owed,
           Fresh, Captures
      <3>. QED
        BY <3>1, <3>2
    <2>. QED
      BY InvGives, <1>u, <2>1, <2>2, EventsStay
  <1>10. ExactUnlessTorn'
    <2>1. ASSUME NEW x \in 1 .. made', ~torn' PROVE ExactOf(x)'
      <3>0. ExactOf(x) /\ x \in 1 .. made
        BY InvGives, <1>u, <1>torn, <2>1 DEF ExactUnlessTorn
      <3>1. CASE x = c
        <4>1. index'[c] = Measure(c) /\ (Measure(c).there => c \notin Deleting) /\ sd'[c] = "done"
          BY <1>torn, <1>index, <1>sd, <2>1
        <4>2. KnownOf(c) /\ MeasurementOf(c) /\ MarkOf(c)
          BY InvGives, <1>a
        <4>3. (Settling(c)' <=> Settling(c)) /\ (Claimed(c)' <=> Claimed(c))
                /\ (Cleaned(c)' <=> Cleaned(c))
          BY <1>r, <1>u, DeletersAre DEF Settling
        <4>4. CASE "iq" \in disk[c]
          <5>1. /\ index'[c].there /\ index'[c].priority = ("mark" \in disk'[c])
                /\ index'[c].size = IqSize + SidecarSize /\ "sidecar" \in disk'[c]
                /\ disk'[c] = disk[c]
            BY <1>m, <1>u, <1>g, <4>1, <4>2, <4>4 DEF MeasurementOf
          <5>2. c \notin Deleting /\ ~Claimed(c)
            BY <1>m, <4>1, <4>4, DeletersAre
          <5>3. Settling(c) => "mark" \in disk'[c]
            BY <4>2, <4>4, <5>1, <5>2 DEF MarkOf
          <5>. QED
            BY <3>1, <4>1, <4>3, <4>4, <5>1, <5>2, <5>3 DEF ExactOf, Tracked
        <4>5. CASE "iq" \notin disk[c]
          <5>1. index'[c] = None /\ ~index'[c].there /\ disk'[c] = disk[c]
            BY <1>m, <1>u, <4>1, <4>5 DEF None
          <5>2. /\ "sidecar" \in disk[c] => Cleaned(c)
                /\ "mark" \in disk[c] => Settling(c) \/ Cleaned(c)
            BY <1>g, <3>0, <3>1, <4>5 DEF ExactOf
          <5>. QED
            BY <3>1, <4>1, <4>3, <4>5, <5>1, <5>2 DEF ExactOf, Tracked
        <4>. QED
          BY <4>4, <4>5
      <3>2. CASE x # c
        BY InvGives, <1>a, <1>b, <1>g, <1>sd, <1>measured, <1>index, <1>torn, <1>u, <1>r,
           DeletersAre, <2>1, <3>0, <3>2 DEF TypeOK, ExactOf, Settling, Tracked, None, Captures
      <3>. QED
        BY <3>1, <3>2
    <2>. QED
      BY <2>1 DEF ExactUnlessTorn
  <1>11. ArchiveBounded'
    <2>1. Kept' \subseteq Kept
      BY InvGives, <1>a, <1>m, <1>g, <1>u DEF TypeOK, Kept, Captures, Evictors, Roles, Phase,
         DeletePhases
    <2>. QED
      BY InvGives, <1>u, <2>1, ArchiveShrinks
  <1>. QED
    BY <1>1, <1>2, <1>3, <1>4, <1>5, <1>6, <1>7, <1>8, <1>9, <1>10, <1>11 DEF IndexInv
-----------------------------------------------------------------------------
(* The theorems.                                                           *)

\* An empty archive satisfies the invariant.
LEMMA InitIsIndexInv ==
  Init => IndexInv
PROOF
  <1>. SUFFICES ASSUME Init PROVE IndexInv
    OBVIOUS
  <1>0. None \in Entries /\ ~None.there /\ None.size = 0 /\ IqSize \in Nat /\ MaxBytes \in Nat
    BY CaptureIndexAssumption DEF None, Entries
  <1>1. TypeOK
    <2>1. disk \in [Captures -> SUBSET Files]
      BY DEF Init
    <2>2. index \in [Captures -> Entries] /\ measured \in [Captures -> Entries]
      BY <1>0 DEF Init
    <2>3. origin \in [Captures -> {"auto", "manual"}]
      BY DEF Init
    <2>4. sd \in [Captures -> {"none", "grace", "write", "look", "drop", "measure", "add", "done"}]
      BY DEF Init
    <2>5. 0 \in 0 .. MaxCaptures
      BY CaptureIndexAssumption
    <2>6. victim \in [Evictors -> 0 .. MaxCaptures]
      BY <2>5 DEF Init
    <2>7. autoBytes \in Nat /\ prioBytes \in 0 .. autoBytes /\ until \in Nat
      BY DEF Init
    <2>. QED
      BY <2>1, <2>2, <2>3, <2>4, <2>5, <2>6, <2>7 DEF Init, TypeOK
  <1>2. TotalsMatch
    <2>1. Automatic = {} /\ Held = {}
      BY <1>0 DEF Init, Automatic, Tracked, Held
    <2>2. BytesOf(index, {}) = 0
      <3>1. {c \in {} : index[c].size # IqSize} = {}
        OBVIOUS
      <3>2. Cardinality({}) = 0
        BY FS_EmptySet
      <3>3. IqSize * 0 = 0 /\ SidecarSize * 0 = 0
        BY CaptureIndexAssumption
      <3>. QED
        BY <3>1, <3>2, <3>3 DEF BytesOf
    <2>3. \A c \in Captures : index[c].size \in IF Tracked(c) THEN Sizes ELSE {0}
      BY <1>0 DEF Init, Tracked
    <2>. QED
      BY <2>1, <2>2, <2>3, TotalsAre DEF Init
  <1>3. Roles /\ NotYet /\ Arriving
    BY <1>0 DEF Init, Roles, NotYet, Arriving, Phase, Evictors, DeletePhases
  <1>4. Known /\ Measurements /\ Marks /\ Events /\ ExactUnlessTorn
    BY DEF Init, Known, Measurements, Marks, Events, ExactUnlessTorn
  <1>5. ArchiveBounded
    <2>1. Kept = {}
      BY DEF Init, Kept
    <2>2. Cardinality(Kept) = 0
      BY <2>1, FS_EmptySet
    <2>. QED
      BY <2>2 DEF ArchiveBounded, Kept
  <1>. QED
    BY <1>1, <1>2, <1>3, <1>4, <1>5 DEF IndexInv

\* A step that changes nothing keeps it.
LEMMA StutterKeeps ==
  ASSUME IndexInv, UNCHANGED vars
  PROVE  IndexInv'
PROOF
  <1>1. /\ disk' = disk /\ index' = index /\ autoBytes' = autoBytes /\ prioBytes' = prioBytes
        /\ origin' = origin /\ qualified' = qualified /\ until' = until /\ made' = made
        /\ rc' = rc /\ rcTodo' = rcTodo /\ sd' = sd /\ ev' = ev /\ evLeft' = evLeft
        /\ evPrio' = evPrio /\ evBound' = evBound /\ evictions' = evictions
        /\ measured' = measured /\ victim' = victim /\ torn' = torn
    BY DEF vars, indexVars, pastVars, rcVars, evVars
  <1>2. Automatic' = Automatic /\ RcNext' = RcNext /\ Kept' = Kept
    BY <1>1 DEF Automatic, Tracked, RcNext, Oldest, Kept
  <1>3. TotalsMatch' /\ ArchiveBounded'
    BY <1>1, <1>2, InvGives, TotalsStay, ArchiveShrinks
  <1>4. TypeOK' /\ Roles' /\ NotYet' /\ Arriving'
    BY <1>1, InvGives DEF TypeOK, Roles, Phase, NotYet, Arriving, Deleting
  <1>5. Known' /\ Measurements' /\ Marks'
    BY <1>1, <1>2, InvGives, DeletersAre
       DEF Known, KnownOf, Fresh, Tracked, Measurements, MeasurementOf, Marks, MarkOf, Settling
  <1>6. Events'
    BY <1>1, InvGives, DeletersAre DEF Events, Owed, Fresh
  <1>7. ExactUnlessTorn'
    BY <1>1, <1>2, InvGives, DeletersAre DEF ExactUnlessTorn, ExactOf, Tracked, Settling
  <1>. QED
    BY <1>3, <1>4, <1>5, <1>6, <1>7 DEF IndexInv

\* Every step of the three threads keeps it.
LEMMA StepKeepsIndexInv ==
  IndexInv /\ [Next]_vars => IndexInv'
PROOF
  <1>. SUFFICES ASSUME IndexInv, [Next]_vars PROVE IndexInv'
    OBVIOUS
  <1>1. CASE RcStep
    <2>1. RcUnlinks => RcUnlinksIq \/ RcUnlinksRest
      BY DEF RcUnlinks, RcUnlinksIq, RcUnlinksRest
    <2>. QED
      BY <1>1, <2>1, RcFinalizeKeeps, RcTracksKeeps, RcMarkLooksKeeps, RcMarkTouchesKeeps,
         RcMarkSettlesKeeps, RcListsBeforeKeeps, RcCapKeeps, RcClaimsKeeps, RcUnlinksIqKeeps,
         RcUnlinksRestKeeps DEF RcStep
  <1>2. CASE EvStep
    <2>1. EvUnlinks => EvUnlinksIq \/ EvUnlinksRest
      BY DEF EvUnlinks, EvUnlinksIq, EvUnlinksRest
    <2>. QED
      BY <1>2, <2>1, EvBeginsKeeps, EvListsKeeps, EvTakesKeeps, EvEndsKeeps, EvClaimsKeeps,
         EvUnlinksIqKeeps, EvUnlinksRestKeeps DEF EvStep
  <1>3. ASSUME NEW c \in Captures, SdStep(c) PROVE IndexInv'
    BY <1>3, SdWakesKeeps, SdWritesKeeps, SdLooksKeeps, SdDropsKeeps, SdMeasuresKeeps,
       SdAddsKeeps DEF SdStep
  <1>4. CASE UNCHANGED vars
    BY <1>4, StutterKeeps
  <1>. QED
    BY <1>1, <1>2, <1>3, <1>4 DEF Next

\* The invariant holds in every state of the archive.
THEOREM IndexIsInvariant == Spec => []IndexInv
PROOF
  <1>. QED
    BY InitIsIndexInv, StepKeepsIndexInv, PTL DEF Spec

\* The index is the disk (local.py): the totals are those of the entries, an entry is
\* what a fresh measure of its files would give, and no mark or sidecar outlives its
\* capture, for every capture nobody works on.
THEOREM DiskAndIndexAgree == Spec => []IndexIsTheDisk
PROOF
  <1>1. IndexInv => IndexIsTheDisk
    <2>. SUFFICES ASSUME IndexInv PROVE IndexIsTheDisk
      OBVIOUS
    <2>1. TypeOK /\ TotalsMatch
      BY InvGives
    <2>2. ASSUME ~torn, NEW c \in Captures, Calm(c)
          PROVE  /\ index[c] = Measure(c)
                 /\ sd[c] # "write" /\ "iq" \notin disk[c] => disk[c] = {}
      <3>1. c \in 1 .. made /\ ExactOf(c) /\ MeasurementOf(c) /\ KnownOf(c)
        BY <2>2, InvGives DEF Calm, Captures, ExactUnlessTorn
      <3>2. ~Settling(c) /\ ~Claimed(c) /\ ~Cleaned(c) /\ ~Fresh(c)
        <4>1. ~Settling(c)
          <5>1. rc = "settle" => RcNext \in rcTodo
            BY InvGives, RcNextIs DEF Roles
          <5>. QED
            BY <2>2, <5>1 DEF Calm, Settling
        <4>2. ~Claimed(c) /\ ~Cleaned(c)
          BY <2>2, DeletersAre DEF Calm
        <4>3. ~Fresh(c)
          BY <2>2 DEF Calm, Fresh
        <4>. QED
          BY <4>1, <4>2, <4>3
      <3>3. CASE "iq" \in disk[c]
        <4>1. index[c].there
          BY <3>1, <3>2, <3>3 DEF KnownOf, Tracked
        <4>2. index[c].priority = ("mark" \in disk[c])
          <5>1. index[c].priority \in BOOLEAN
            BY InvGives DEF TypeOK, Entries
          <5>2. index[c].priority <=> "mark" \in disk[c]
            BY <3>1, <3>2, <4>1 DEF ExactOf, Tracked
          <5>. QED
            BY <5>1, <5>2
        <4>3. index[c].size = CaptureSize(c)
          <5>1. "sidecar" \in disk[c] => sd[c] = "done"
            BY <2>2, <3>1 DEF Calm, ExactOf
          <5>2. index[c].size = IF "sidecar" \in disk[c] THEN IqSize + SidecarSize ELSE IqSize
            BY <3>1, <4>1, <5>1 DEF ExactOf, Tracked
          <5>. QED
            BY <3>3, <5>2, CaptureIndexAssumption DEF CaptureSize
        <4>4. index[c] \in Entries
          BY InvGives DEF TypeOK
        <4>5. index[c] = [size |-> index[c].size, priority |-> index[c].priority,
                          there |-> index[c].there]
          BY <4>4 DEF Entries
        <4>6. index[c].there = TRUE
          BY <4>1, <4>4 DEF Entries
        <4>7. index[c] = Measure(c)
          BY <3>3, <4>2, <4>3, <4>5, <4>6 DEF Measure, Entry
        <4>. QED
          BY <3>3, <4>7
      <3>4. CASE "iq" \notin disk[c]
        <4>1. ~index[c].there
          BY <3>1, <3>4 DEF ExactOf, Tracked
        <4>2. index[c] = None
          BY <3>1, <4>1 DEF MeasurementOf
        <4>3. "sidecar" \notin disk[c] /\ "mark" \notin disk[c]
          BY <2>2, <3>1, <3>2, <3>4 DEF ExactOf, Calm
        <4>4. disk[c] \subseteq Files
          BY InvGives DEF TypeOK
        <4>5. disk[c] = {}
          BY <3>4, <4>3, <4>4 DEF Files
        <4>. QED
          BY <3>4, <4>2, <4>5 DEF Measure
      <3>. QED
        BY <3>3, <3>4
    <2>3. IndexIsDisk
      BY <2>2 DEF IndexIsDisk
    <2>4. NoOrphans
      BY <2>2 DEF NoOrphans
    <2>. QED
      BY <2>1, <2>3, <2>4 DEF IndexIsTheDisk
  <1>. QED
    BY <1>1, IndexIsInvariant, PTL

\* Evictions take whole events (local.py, streaming.py): the captures within the span
\* of one that qualified are marked with it, and the archive fits its cap again after
\* each capture.
THEOREM EventsStayWhole == Spec => []EvictsWholeEvents
PROOF
  <1>1. IndexInv => EvictsWholeEvents
    <2>. SUFFICES ASSUME IndexInv PROVE EvictsWholeEvents
      OBVIOUS
    <2>1. EventIsWhole
      <3>1. SUFFICES ASSUME rc = "idle", NEW q \in qualified, NEW c \in 1 .. made,
                            c - q <= Span, q - c <= Span, origin[c] = "auto",
                            "iq" \in disk[c], c \notin Deleting
                     PROVE  "mark" \in disk[c]
        BY DEF EventIsWhole
      <3>2. "mark" \in disk[c] \/ Owed(q, c)
        BY <3>1, InvGives DEF Events
      <3>3. rcTodo = {}
        BY <3>1, InvGives DEF Roles
      <3>. QED
        BY <3>1, <3>2, <3>3 DEF Owed, Fresh
    <2>. QED
      BY <2>1, InvGives DEF EvictsWholeEvents
  <1>. QED
    BY <1>1, IndexIsInvariant, PTL
=============================================================================
