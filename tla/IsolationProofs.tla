-------------------------- MODULE IsolationProofs --------------------------
(***************************************************************************)
(* What the isolation stage promises of a burst, for any ring, queue and   *)
(* batch size: it is counted once, whoever drains the queue and whenever   *)
(* a submit meets a stop, and in a lossless replay its samples are read    *)
(* before the receiver overwrites them.                                    *)
(***************************************************************************)
EXTENDS Isolation, SequenceTheorems, FiniteSetTheorems, TLAPS

Bursts == [id : Ids, ring : Nat, start : Nat, stop : Nat, snr : Powers]
Batches == [ring : Nat, cands : Seq(Bursts)]
Works == [burst : Bursts, data : {"read", "overwritten", "unwritten", "failed"}]
Places == [ring : Nat, at : Nat]

Types ==
  /\ happens \in Scenarios /\ running \in BOOLEAN /\ gen \in 1..2
  /\ rings \in Seq(Nat) /\ rings # <<>>
  /\ rx \in {"read", "lead", "put", "halted", "off"} /\ rxGen \in 1..2
  /\ rx = "put" => Chunk <= rings[Ring]
  /\ grids \in Seq(Places) /\ Len(grids) <= GridMax /\ grid \in Places
  /\ bt \in {"get", "submit", "idle", "publish", "dead", "off"} /\ btGen \in 1..2
  /\ seen \in Nat \cup {None} /\ done \in [gen : Nat, end : Nat]
  /\ lead \in Nat \cup {None}
  /\ on \in BOOLEAN /\ stopped \in BOOLEAN /\ thread \in BOOLEAN
  /\ wk \in {"check", "get", "snap", "one", "drain", "off"}
  /\ budget.used \in Nat
  /\ stop \in [Stoppers -> {"idle", "begin", "drain", "put", "join", "final"}]

\* What the bursts are in: the batch found last, the queue, the worker's hands.
Holders ==
  /\ found \in Seq(Bursts)
  /\ queue \in Seq(Batches) /\ Len(queue) <= QueueMax
  /\ wk \in {"snap", "one"} => batch \in Batches
  /\ unread \in Seq(Bursts) /\ lazy \in Seq(Bursts) /\ ready \in Seq(Works)
  /\ made \in 0..MaxBursts

\* The worker lets nothing go that it holds, and ends only when stopped; the
\* stop mark is put in by a stop, and nothing but stop marks after the end.
Control ==
  /\ wk # "snap" => unread = <<>>
  /\ wk \notin {"snap", "one"} => lazy = <<>> /\ ready = <<>>
  /\ wk \in {"drain", "off"} => stopped
  /\ \A p \in Stoppers : stop[p] \in {"drain", "put", "join", "final"} => stopped
  /\ \A i \in 1..Len(queue) : queue[i] = StopMark => stopped
  /\ wk = "off" => \A i \in 1..Len(queue) : queue[i].cands = <<>>

\* No burst is in two places.
Distinct(cands) ==
  \A i, j \in 1..Len(cands) : cands[i].id = cands[j].id => i = j
DistinctWorks(works) ==
  \A i, j \in 1..Len(works) : works[i].burst.id = works[j].burst.id => i = j
DistinctBatches(batches) ==
  /\ \A i \in 1..Len(batches) : Distinct(batches[i].cands)
  /\ \A i, j \in 1..Len(batches) :
       i # j => IdsOf(batches[i].cands) \cap IdsOf(batches[j].cands) = {}

IdsOfWorks(works) == {works[i].burst.id : i \in 1..Len(works)}
Holding == Queued \cup InWork

Apart ==
  /\ Distinct(unread) /\ Distinct(lazy) /\ DistinctWorks(ready)
  /\ DistinctBatches(queue)
  /\ IdsOf(unread) \cap IdsOf(lazy) = {} /\ IdsOf(unread) \cap IdsOfWorks(ready) = {}
  /\ IdsOf(lazy) \cap IdsOfWorks(ready) = {} /\ Queued \cap InWork = {}

\* What is held or about to be handed over is not counted yet.
Counts ==
  /\ fate \in [Ids -> Seq(Verdicts)]
  /\ \A b \in Ids : Len(fate[b]) <= 1 /\ (fate[b] # <<>> => b <= made)
  /\ \A b \in Holding : fate[b] = <<>> /\ b <= made
  /\ bt = "submit" =>
       /\ found # <<>> /\ Distinct(found)
       /\ \A b \in IdsOf(found) : fate[b] = <<>> /\ b <= made /\ b \notin Holding

Inv == Types /\ Holders /\ Control /\ Apart /\ Counts

----------------------------------------------------------------------------
\* Ids along a sequence of bursts, of works and of batches.

LEMMA AppendBurst ==
  ASSUME NEW s \in Seq(Bursts), NEW b \in Bursts
  PROVE  /\ IdsOf(Append(s, b)) = IdsOf(s) \cup {b.id}
         /\ Distinct(s) /\ b.id \notin IdsOf(s) => Distinct(Append(s, b))
<1> DEFINE t == Append(s, b)
<1>1. /\ Len(s) \in Nat /\ Len(t) = Len(s) + 1 /\ t[Len(s) + 1] = b
      /\ \A i \in 1..Len(s) : t[i] = s[i]
  BY AppendProperties, LenProperties
<1> HIDE DEF t
<1>2. 1..Len(t) = 1..Len(s) \cup {Len(s) + 1}
  BY <1>1
<1>3. IdsOf(t) = IdsOf(s) \cup {b.id}
  BY <1>1, <1>2 DEF IdsOf
<1>4. ASSUME Distinct(s), b.id \notin IdsOf(s) PROVE Distinct(t)
  BY <1>1, <1>2, <1>4 DEF Distinct, IdsOf
<1> QED BY <1>3, <1>4 DEF t

LEMMA TailBurst ==
  ASSUME NEW s \in Seq(Bursts), s # <<>>
  PROVE  /\ Head(s) \in Bursts /\ Tail(s) \in Seq(Bursts)
         /\ IdsOf(s) = IdsOf(Tail(s)) \cup {Head(s).id}
         /\ Distinct(s) => Distinct(Tail(s)) /\ Head(s).id \notin IdsOf(Tail(s))
<1> DEFINE t == Tail(s)
<1>1. /\ Len(s) \in Nat \ {0} /\ Len(t) = Len(s) - 1 /\ Head(s) = s[1]
      /\ \A i \in 1..Len(t) : t[i] = s[i + 1]
      /\ Head(s) \in Bursts /\ t \in Seq(Bursts)
  BY HeadTailProperties, LenProperties, EmptySeq
<1> HIDE DEF t
<1>2. \A i \in 1..Len(s) : i = 1 \/ (i - 1 \in 1..Len(t) /\ t[i - 1] = s[i])
  BY <1>1
<1>3. \A i \in 1..Len(t) : i + 1 \in 1..Len(s) /\ i + 1 # 1
  BY <1>1
<1>4. IdsOf(s) = IdsOf(t) \cup {Head(s).id}
  BY SMTT(30), <1>1, <1>2, <1>3 DEF IdsOf
<1>5. ASSUME Distinct(s) PROVE Distinct(t) /\ Head(s).id \notin IdsOf(t)
  <2>1. ASSUME NEW i \in 1..Len(t), NEW j \in 1..Len(t), t[i].id = t[j].id PROVE i = j
    <3>1. i + 1 = j + 1 BY <1>1, <1>3, <1>5, <2>1 DEF Distinct
    <3> QED BY <3>1
  <2>2. ASSUME NEW i \in 1..Len(t) PROVE t[i].id # Head(s).id
    <3>1. 1 \in 1..Len(s) BY <1>1
    <3> QED BY <1>1, <1>3, <1>5, <3>1 DEF Distinct
  <2> QED BY <2>1, <2>2 DEF Distinct, IdsOf
<1> QED BY <1>1, <1>4, <1>5 DEF t

LEMMA AppendWork ==
  ASSUME NEW s \in Seq(Works), NEW w \in Works
  PROVE  /\ IdsOfWorks(Append(s, w)) = IdsOfWorks(s) \cup {w.burst.id}
         /\ DistinctWorks(s) /\ w.burst.id \notin IdsOfWorks(s) => DistinctWorks(Append(s, w))
<1> DEFINE t == Append(s, w)
<1>1. /\ Len(s) \in Nat /\ Len(t) = Len(s) + 1 /\ t[Len(s) + 1] = w
      /\ \A i \in 1..Len(s) : t[i] = s[i]
  BY AppendProperties, LenProperties
<1> HIDE DEF t
<1>2. 1..Len(t) = 1..Len(s) \cup {Len(s) + 1}
  BY <1>1
<1>3. IdsOfWorks(t) = IdsOfWorks(s) \cup {w.burst.id}
  BY <1>1, <1>2 DEF IdsOfWorks
<1>4. ASSUME DistinctWorks(s), w.burst.id \notin IdsOfWorks(s) PROVE DistinctWorks(t)
  BY <1>1, <1>2, <1>4 DEF DistinctWorks, IdsOfWorks
<1> QED BY <1>3, <1>4 DEF t

LEMMA TailWork ==
  ASSUME NEW s \in Seq(Works), s # <<>>
  PROVE  /\ Head(s) \in Works /\ Tail(s) \in Seq(Works)
         /\ IdsOfWorks(s) = IdsOfWorks(Tail(s)) \cup {Head(s).burst.id}
         /\ DistinctWorks(s) =>
              DistinctWorks(Tail(s)) /\ Head(s).burst.id \notin IdsOfWorks(Tail(s))
<1> DEFINE t == Tail(s)
<1>1. /\ Len(s) \in Nat \ {0} /\ Len(t) = Len(s) - 1 /\ Head(s) = s[1]
      /\ \A i \in 1..Len(t) : t[i] = s[i + 1]
      /\ Head(s) \in Works /\ t \in Seq(Works)
  BY HeadTailProperties, LenProperties, EmptySeq
<1> HIDE DEF t
<1>2. \A i \in 1..Len(s) : i = 1 \/ (i - 1 \in 1..Len(t) /\ t[i - 1] = s[i])
  BY <1>1
<1>3. \A i \in 1..Len(t) : i + 1 \in 1..Len(s) /\ i + 1 # 1
  BY <1>1
<1>4. IdsOfWorks(s) = IdsOfWorks(t) \cup {Head(s).burst.id}
  BY <1>1, <1>2, <1>3 DEF IdsOfWorks
<1>5. ASSUME DistinctWorks(s) PROVE DistinctWorks(t) /\ Head(s).burst.id \notin IdsOfWorks(t)
  <2>1. ASSUME NEW i \in 1..Len(t), NEW j \in 1..Len(t), t[i].burst.id = t[j].burst.id
        PROVE  i = j
    <3>1. i + 1 = j + 1 BY <1>1, <1>3, <1>5, <2>1 DEF DistinctWorks
    <3> QED BY <3>1
  <2>2. ASSUME NEW i \in 1..Len(t) PROVE t[i].burst.id # Head(s).burst.id
    <3>1. 1 \in 1..Len(s) BY <1>1
    <3> QED BY <1>1, <1>3, <1>5, <3>1 DEF DistinctWorks
  <2> QED BY <2>1, <2>2 DEF DistinctWorks, IdsOfWorks
<1> QED BY <1>1, <1>4, <1>5 DEF t

QueuedIn(q) == UNION {IdsOf(q[i].cands) : i \in 1..Len(q)}

LEMMA AppendBatch ==
  ASSUME NEW q \in Seq(Batches), NEW item \in Batches
  PROVE  /\ Append(q, item) \in Seq(Batches) /\ Len(Append(q, item)) = Len(q) + 1
         /\ \A i \in 1..Len(q) : Append(q, item)[i] = q[i]
         /\ Append(q, item)[Len(q) + 1] = item
         /\ QueuedIn(Append(q, item)) = QueuedIn(q) \cup IdsOf(item.cands)
         /\ DistinctBatches(q) /\ Distinct(item.cands)
              /\ IdsOf(item.cands) \cap QueuedIn(q) = {} => DistinctBatches(Append(q, item))
<1> DEFINE t == Append(q, item)
<1>1. /\ Len(q) \in Nat /\ Len(t) = Len(q) + 1 /\ t[Len(q) + 1] = item
      /\ \A i \in 1..Len(q) : t[i] = q[i]
      /\ t \in Seq(Batches)
  BY AppendProperties, LenProperties
<1> HIDE DEF t
<1>2. 1..Len(t) = 1..Len(q) \cup {Len(q) + 1}
  BY <1>1
<1>3. QueuedIn(t) = QueuedIn(q) \cup IdsOf(item.cands)
  BY <1>1, <1>2 DEF QueuedIn
<1>4. ASSUME DistinctBatches(q), Distinct(item.cands), IdsOf(item.cands) \cap QueuedIn(q) = {}
      PROVE  DistinctBatches(t)
  <2>1. \A i \in 1..Len(q) : IdsOf(q[i].cands) \cap IdsOf(item.cands) = {}
    BY <1>4 DEF QueuedIn
  <2>2. \A i \in 1..Len(t) : Distinct(t[i].cands)
    BY <1>1, <1>2, <1>4 DEF DistinctBatches
  <2>3. ASSUME NEW i \in 1..Len(t), NEW j \in 1..Len(t), i # j
        PROVE  IdsOf(t[i].cands) \cap IdsOf(t[j].cands) = {}
    <3>1. CASE i \in 1..Len(q) /\ j \in 1..Len(q)
      BY <1>1, <1>4, <2>3, <3>1 DEF DistinctBatches
    <3>2. CASE i = Len(q) + 1
      BY <1>1, <1>2, <2>1, <2>3, <3>2
    <3>3. CASE j = Len(q) + 1
      BY <1>1, <1>2, <2>1, <2>3, <3>3
    <3> QED BY <1>2, <3>1, <3>2, <3>3
  <2> QED BY <2>2, <2>3 DEF DistinctBatches
<1> QED BY <1>1, <1>3, <1>4 DEF t

LEMMA TailBatch ==
  ASSUME NEW q \in Seq(Batches), q # <<>>
  PROVE  /\ Head(q) \in Batches /\ Head(q) = q[1] /\ Tail(q) \in Seq(Batches)
         /\ Len(Tail(q)) = Len(q) - 1 /\ Len(q) \in Nat \ {0}
         /\ \A i \in 1..Len(Tail(q)) : Tail(q)[i] = q[i + 1] /\ i + 1 \in 1..Len(q)
         /\ QueuedIn(q) = QueuedIn(Tail(q)) \cup IdsOf(Head(q).cands)
         /\ DistinctBatches(q) =>
              /\ DistinctBatches(Tail(q)) /\ Distinct(Head(q).cands)
              /\ IdsOf(Head(q).cands) \cap QueuedIn(Tail(q)) = {}
<1> DEFINE t == Tail(q)
<1>1. /\ Len(q) \in Nat \ {0} /\ Len(t) = Len(q) - 1 /\ Head(q) = q[1]
      /\ \A i \in 1..Len(t) : t[i] = q[i + 1]
      /\ Head(q) \in Batches /\ t \in Seq(Batches)
  BY HeadTailProperties, LenProperties, EmptySeq
<1> HIDE DEF t
<1>2. \A i \in 1..Len(q) : i = 1 \/ (i - 1 \in 1..Len(t) /\ t[i - 1] = q[i])
  BY <1>1
<1>3. \A i \in 1..Len(t) : i + 1 \in 1..Len(q) /\ i + 1 # 1
  BY <1>1
<1>4. QueuedIn(q) = QueuedIn(t) \cup IdsOf(Head(q).cands)
  BY SMTT(30), <1>1, <1>2, <1>3 DEF QueuedIn
<1>5. ASSUME DistinctBatches(q)
      PROVE  /\ DistinctBatches(t) /\ Distinct(Head(q).cands)
             /\ IdsOf(Head(q).cands) \cap QueuedIn(t) = {}
  <2>1. DistinctBatches(t)
    <3>1. \A i \in 1..Len(t) : Distinct(t[i].cands)
      BY <1>1, <1>3, <1>5 DEF DistinctBatches
    <3>2. ASSUME NEW i \in 1..Len(t), NEW j \in 1..Len(t), i # j
          PROVE  IdsOf(t[i].cands) \cap IdsOf(t[j].cands) = {}
      <4>1. i + 1 # j + 1 BY <1>1, <3>2
      <4>2. IdsOf(q[i + 1].cands) \cap IdsOf(q[j + 1].cands) = {}
        BY <1>3, <1>5, <4>1 DEF DistinctBatches
      <4> QED BY <1>1, <4>2
    <3> QED BY <3>1, <3>2 DEF DistinctBatches
  <2>2. ASSUME NEW i \in 1..Len(t)
        PROVE  IdsOf(Head(q).cands) \cap IdsOf(t[i].cands) = {}
    <3>1. 1 \in 1..Len(q) BY <1>1
    <3>2. IdsOf(q[1].cands) \cap IdsOf(q[i + 1].cands) = {}
      BY <1>3, <1>5, <3>1 DEF DistinctBatches
    <3> QED BY <1>1, <3>2
  <2>3. Distinct(Head(q).cands)
    BY <1>1, <1>5 DEF DistinctBatches
  <2> QED BY <2>1, <2>2, <2>3 DEF QueuedIn
<1> QED BY <1>1, <1>3, <1>4, <1>5 DEF t

----------------------------------------------------------------------------
\* The threads' types.

LEMMA LeadLimitType == LeadLimit \in Nat \cup {None}
<1>1. Chunk \in Nat /\ {Capacity, Interval, MaxLen, Guard, Margin} \subseteq Nat
  BY IsolationAssumption
<1> QED BY <1>1 DEF LeadLimit, LargerOf, Reserve, None

LEMMA RingsGrow ==
  ASSUME rings \in Seq(Nat), rings # <<>>
  PROVE  /\ Ring \in Nat \ {0} /\ rings[Ring] \in Nat
         /\ Append(rings, 0) \in Seq(Nat) /\ Append(rings, 0) # <<>>
         /\ [rings EXCEPT ![Ring] = @ + Chunk] \in Seq(Nat)
         /\ [rings EXCEPT ![Ring] = @ + Chunk] # <<>>
         /\ Len([rings EXCEPT ![Ring] = @ + Chunk]) = Ring
         /\ [rings EXCEPT ![Ring] = @ + Chunk][Ring] = rings[Ring] + Chunk
<1>1. Chunk \in Nat
  BY IsolationAssumption
<1>2. Ring \in Nat \ {0} /\ Ring = Len(rings)
  BY EmptySeq, LenProperties DEF Ring
<1>3. rings[Ring] \in Nat
  BY <1>2, ElementOfSeq
<1>4. Append(rings, 0) \in Seq(Nat) /\ Append(rings, 0) # <<>>
  BY AppendProperties
<1>5. rings[Ring] + Chunk \in Nat /\ Ring \in 1..Len(rings)
  BY <1>1, <1>2, <1>3
<1>6. /\ [rings EXCEPT ![Ring] = rings[Ring] + Chunk] \in Seq(Nat)
      /\ Len([rings EXCEPT ![Ring] = rings[Ring] + Chunk]) = Len(rings)
      /\ \A j \in 1..Len(rings) : [rings EXCEPT ![Ring] = rings[Ring] + Chunk][j]
            = IF j = Ring THEN rings[Ring] + Chunk ELSE rings[j]
  BY <1>5, ExceptSeq
<1>7. [rings EXCEPT ![Ring] = rings[Ring] + Chunk] # <<>>
  BY <1>2, <1>6, EmptySeq
<1> QED BY <1>2, <1>3, <1>4, <1>5, <1>6, <1>7

\* What the gate picks: places of the batch, none of them twice.
LEMMA PickFacts ==
  ASSUME NEW cands \in Seq(Bursts), budget.used \in Nat, NEW p \in Picks(cands)
  PROVE  /\ GateWindow(cands).used + Cardinality(DOMAIN p) \in Nat
         /\ \E n \in Nat : p \in [1..n -> 1..Len(cands)]
         /\ \A i, j \in DOMAIN p : p[i] = p[j] => i = j
<1>1. GateWindow(cands).used \in Nat
  BY DEF GateWindow
<1>2. Cardinality(Strong(cands)) \in Nat
  <2>1. Len(cands) \in Nat
    BY LenProperties
  <2>2. IsFiniteSet(1..Len(cands))
    BY <2>1, FS_Interval
  <2> QED BY <2>2, FS_Subset, FS_CardinalityType DEF Strong
<1>3. LargerOf(0, MaxPerSec - GateWindow(cands).used) \in Nat
  <2>1. MaxPerSec \in Nat
    BY IsolationAssumption
  <2> QED BY <1>1, <2>1 DEF LargerOf
<1>4. PICK n \in Nat : p \in [1..n -> Strong(cands)]
  BY <1>2, <1>3 DEF Picks
<1>5. Cardinality(DOMAIN p) \in Nat
  BY <1>4, FS_Interval, FS_CardinalityType
<1>6. ASSUME NEW i \in DOMAIN p, NEW j \in DOMAIN p, i < j PROVE p[i] # p[j]
  <2>1. Before(cands, p[i], p[j])
    BY <1>6 DEF Picks
  <2>2. p[j] \in 1..Len(cands) /\ p[j] \in Int
    BY <1>4 DEF Strong
  <2>3. cands[p[j]].snr \in Nat
    <3>1. cands[p[j]] \in Bursts
      BY <2>2, ElementOfSeq
    <3> QED BY <3>1, IsolationAssumption DEF Bursts
  <2> QED BY <2>1, <2>2, <2>3 DEF Before
<1>7. \A i, j \in DOMAIN p : p[i] = p[j] => i = j
  BY <1>4, <1>6
<1>8. p \in [1..n -> 1..Len(cands)]
  BY <1>4 DEF Strong
<1>9. GateWindow(cands).used + Cardinality(DOMAIN p) \in Nat
  BY <1>1, <1>5
<1> QED BY <1>7, <1>8, <1>9

LEMMA TypesInit == Init => Types
<1> SUFFICES ASSUME Init PROVE Types
  OBVIOUS
<1>1. rings \in Seq(Nat) /\ rings # <<>> /\ grids \in Seq(Places) /\ Len(grids) <= GridMax
  BY IsolationAssumption DEF Init
<1>2. grid \in Places /\ done \in [gen : Nat, end : Nat]
  BY DEF Init, Places
<1>3. lead \in Nat \cup {None} /\ seen \in Nat \cup {None}
  BY LeadLimitType DEF Init
<1>4. budget.used \in Nat
  BY DEF Init
<1>5. stop \in [Stoppers -> {"idle", "begin", "drain", "put", "join", "final"}]
  BY DEF Init
<1>6. /\ running \in BOOLEAN /\ on \in BOOLEAN /\ stopped \in BOOLEAN /\ thread \in BOOLEAN
      /\ happens \in Scenarios
  BY DEF Init
<1>7. /\ gen \in 1..2 /\ rxGen \in 1..2 /\ btGen \in 1..2 /\ rx = "read"
      /\ bt \in {"get", "submit", "idle", "publish", "dead", "off"}
      /\ wk \in {"check", "get", "snap", "one", "drain", "off"}
  BY DEF Init
<1> QED BY <1>1, <1>2, <1>3, <1>4, <1>5, <1>6, <1>7 DEF Types

LEMMA TypesStep == Types /\ Holders /\ [Next]_vars => Types'
<1> SUFFICES ASSUME Types, Holders, [Next]_vars PROVE Types'
  OBVIOUS
<1> USE DEF Types, Ring, stream, detector, worker, stage
<1>1. CASE RxTop
  <2>1. CASE ~running /\ rx' = "off" /\ UNCHANGED <<rings, rxGen, lead, on, stop>>
    BY ZenonT(30), <1>1, <2>1 DEF RxTop
  <2>2. CASE rxGen' = gen /\ rings' = Append(rings, 0) /\ lead' = LeadLimit /\ rx' = "read"
               /\ UNCHANGED <<on, stop>>
    BY ZenonT(30), <1>1, <2>2, RingsGrow, LeadLimitType DEF RxTop
  <2>3. CASE rxGen' = gen /\ rings' = Append(rings, 0)
               /\ on' = FALSE /\ lead' = None /\ rx' = "halted"
               /\ stop' = [stop EXCEPT !["rx"] = "begin"]
    BY <1>1, <2>3, RingsGrow DEF RxTop, Stoppers
  <2>4. CASE rx' = "lead" /\ UNCHANGED <<rings, rxGen, lead, on, stop>>
    BY ZenonT(30), <1>1, <2>4 DEF RxTop
  <2> QED BY <1>1, <2>1, <2>2, <2>3, <2>4 DEF RxTop
<1>2. CASE RxHalted
  BY <1>2 DEF RxHalted
<1>3. CASE RxWrite
  <2>1. /\ rings' \in Seq(Nat) /\ rings' # <<>>
        /\ Len(rings') = Ring /\ rings'[Ring] = rings[Ring] + Chunk /\ rings[Ring] \in Nat
    BY <1>3, RingsGrow DEF RxWrite
  <2>2. Chunk \in Nat
    BY IsolationAssumption
  <2>3. Chunk <= rings'[Ring']
    BY <2>1, <2>2 DEF Ring
  <2>4. lead' \in Nat \cup {None}
    BY <1>3 DEF RxWrite
  <2>5. UNCHANGED <<happens, running, gen, rxGen, grids, detector, on, worker, stage, fate>> /\ rx' = "put"
    BY <1>3 DEF RxWrite
  <2> QED BY <2>1, <2>3, <2>4, <2>5
<1>4. CASE RxPut
  <2>1. grids' \in Seq(Places) /\ Len(grids') <= GridMax
    <3>1. CASE Len(grids) < GridMax /\ grids' = Append(grids, [ring |-> Ring, at |-> rings[Ring] - Chunk])
      <4>1. [ring |-> Ring, at |-> rings[Ring] - Chunk] \in Places
        <5>1. Ring \in Nat /\ rings[Ring] \in Nat
          BY RingsGrow
        <5>2. Chunk \in Nat /\ rx = "put"
          BY <1>4, IsolationAssumption DEF RxPut
        <5>3. rings[Ring] - Chunk \in Nat
          BY <5>1, <5>2
        <5> QED BY <5>1, <5>3 DEF Places
      <4>2. grids' \in Seq(Places) /\ Len(grids') = Len(grids) + 1
        BY <3>1, <4>1, AppendProperties
      <4>3. Len(grids) \in Nat /\ GridMax \in Nat
        BY LenProperties, IsolationAssumption
      <4> QED BY <3>1, <4>2, <4>3
    <3> QED BY <1>4, <3>1 DEF RxPut
  <2> QED BY <1>4, <2>1 DEF RxPut
<1>5. CASE BtTop
  BY <1>5 DEF BtTop
<1>6. CASE BtTake
  <2>1. grids' \in Seq(Places) /\ Len(grids') <= GridMax /\ grid' \in Places
    <3>1. grids # <<>> /\ grids' = Tail(grids) /\ grid' = Head(grids)
      BY <1>6 DEF BtTake
    <3>2. Head(grids) \in Places /\ Tail(grids) \in Seq(Places) /\ Len(Tail(grids)) = Len(grids) - 1
      BY <3>1, HeadTailProperties
    <3>3. Len(grids) \in Nat /\ GridMax \in Nat
      BY LenProperties, IsolationAssumption
    <3> QED BY <3>1, <3>2, <3>3
  <2>2. seen' \in Nat \cup {None} /\ bt' \in {"submit", "publish"}
    <3>1. Head(grids).at \in Nat /\ Chunk \in Nat
      BY <1>6, <2>1, IsolationAssumption DEF BtTake, Places
    <3>2. BtFeeds(Head(grids))
      BY <1>6 DEF BtTake
    <3>3. bt' \in {"submit", "publish"}
      BY <3>2 DEF BtFeeds
    <3>4. seen' = Head(grids).at \/ seen' = Head(grids).at + Chunk \/ (seen # None /\ seen' = seen)
      BY <3>2 DEF BtFeeds
    <3> QED BY <3>1, <3>3, <3>4
  <2> QED BY <1>6, <2>1, <2>2 DEF BtTake
<1>7. CASE BtSubmit
  BY <1>7 DEF BtSubmit
<1>8. CASE BtIdle
  BY <1>8 DEF BtIdle
<1>9. CASE BtPublish
  <2>1. BtEnd \in Nat
    <3>1. grid.at \in Nat /\ Chunk \in Nat
      BY IsolationAssumption DEF Places
    <3> QED BY <3>1 DEF BtEnd
  <2>2. done' \in [gen : Nat, end : Nat]
    BY <1>9, <2>1 DEF BtPublish
  <2> QED BY <1>9, <2>2 DEF BtPublish
<1>10. CASE WkCheck
  BY <1>10 DEF WkCheck
<1>11. CASE WkGet
  <2>1. budget'.used \in Nat
    <3>1. CASE Gate(Head(queue).cands)
      <4>1. PICK p \in Picks(Head(queue).cands) :
              budget' = [at |-> GateWindow(Head(queue).cands).at,
                        used |-> GateWindow(Head(queue).cands).used + Cardinality(DOMAIN p)]
        BY <3>1 DEF Gate
      <4>2. Head(queue).cands \in Seq(Bursts)
        <5>1. Head(queue) \in Batches
          BY <1>11, HeadTailProperties DEF WkGet, Holders
        <5> QED BY <5>1 DEF Batches
      <4> QED BY <4>1, <4>2, PickFacts
    <3> QED BY <1>11, <3>1 DEF WkGet
  <2> QED BY <1>11, <2>1 DEF WkGet
<1>12. CASE WkSnap
  BY <1>12 DEF WkSnap
<1>13. CASE WkOne
  BY <1>13 DEF WkOne
<1>14. CASE WkDrain
  BY <1>14 DEF WkDrain
<1>15. ASSUME NEW p \in Stoppers, Stop(p) PROVE Types'
  <2>1. CASE StopBegin(p)
    BY <1>15, <2>1 DEF StopBegin, Goes
  <2>2. CASE StopDrains(p)
    BY <1>15, <2>2 DEF StopDrains, Goes
  <2>3. CASE StopPuts(p)
    BY <1>15, <2>3 DEF StopPuts, Goes
  <2>4. CASE StopJoins(p)
    <3>1. thread' \in BOOLEAN
      BY <2>4 DEF StopJoins
    <3>2. stop' \in [Stoppers -> {"idle", "begin", "drain", "put", "join", "final"}]
      BY <1>15, <2>4 DEF StopJoins, Goes
    <3>3. UNCHANGED <<happens, running, gen, stream, detector, on, worker, stopped, queue, fate>>
      BY <2>4 DEF StopJoins
    <3> QED BY <3>1, <3>2, <3>3
  <2> QED BY <1>15, <2>1, <2>2, <2>3, <2>4 DEF Stop
<1>16. CASE Reconfigure
  BY <1>16 DEF Reconfigure
<1>17. CASE Shutdown
  <2>1. running' \in BOOLEAN /\ UNCHANGED <<happens, gen, stream, detector, on, worker, stage, fate>>
    BY <1>17 DEF Shutdown
  <2> QED BY <2>1
<1>18. CASE StopStage
  BY <1>18 DEF StopStage, Stoppers
<1>19. CASE UNCHANGED vars
  BY <1>19 DEF vars
<1> QED BY <1>1, <1>2, <1>3, <1>4, <1>5, <1>6, <1>7, <1>8, <1>9, <1>10, <1>11, <1>12, <1>13,
           <1>14, <1>15, <1>16, <1>17, <1>18, <1>19 DEF Next, Rx, Bt, Wk

----------------------------------------------------------------------------
\* What a step does to the bursts: nothing; it counts some that are held; or the
\* batch found last is taken into the queue, or counted at once.
Handled ==
  \/ fate' = fate /\ Holding' = Holding
  \/ \E S \in SUBSET Holding, v \in Verdicts :
       fate' = Counted(S, v) /\ Holding' = Holding \ S
  \/ /\ bt = "submit" /\ bt' # "submit" /\ ~stopped /\ ~stopped' /\ fate' = fate
     /\ Holding' = Holding \cup IdsOf(found)
  \/ /\ bt = "submit" /\ bt' # "submit"
     /\ fate' = Counted(IdsOf(found), "queue_full") /\ Holding' = Holding

\* A batch is about to be handed over because it was, or because it was just found.
Found ==
  /\ made' \in made..MaxBursts /\ found' \in Seq(Bursts)
  /\ bt' = "submit" =>
       \/ bt = "submit" /\ found' = found
       \/ /\ found' # <<>> /\ Distinct(found') /\ fate' = fate /\ Holding' = Holding
          /\ \A b \in IdsOf(found') : made < b /\ b <= made'

LEMMA IdsAreIds ==
  ASSUME NEW s \in Seq(Bursts) PROVE IdsOf(s) \subseteq Ids
<1>1. \A i \in 1..Len(s) : s[i] \in Bursts
  BY ElementOfSeq
<1> QED BY <1>1 DEF IdsOf, Bursts

LEMMA CountedIs ==
  ASSUME fate \in [Ids -> Seq(Verdicts)], NEW S \in SUBSET Ids, NEW v \in Verdicts,
         \A b \in S : fate[b] = <<>>
  PROVE  /\ Counted(S, v) \in [Ids -> Seq(Verdicts)]
         /\ \A b \in S : Counted(S, v)[b] = <<v>>
         /\ \A b \in Ids \ S : Counted(S, v)[b] = fate[b]
<1>1. Append(<<>>, v) = <<v>> /\ <<v>> \in Seq(Verdicts) /\ Len(<<v>>) = 1
  OBVIOUS
<1>2. \A b \in S : Append(fate[b], v) = <<v>>
  BY <1>1
<1>3. \A b \in Ids : Counted(S, v)[b] = IF b \in S THEN Append(fate[b], v) ELSE fate[b]
  BY DEF Counted
<1>4. \A b \in Ids : (IF b \in S THEN Append(fate[b], v) ELSE fate[b]) \in Seq(Verdicts)
  BY <1>1, <1>2
<1>5. Counted(S, v) \in [Ids -> Seq(Verdicts)]
  BY <1>4 DEF Counted
<1>6. \A b \in S : Counted(S, v)[b] = <<v>>
  BY <1>1, <1>2, <1>3
<1>7. \A b \in Ids \ S : Counted(S, v)[b] = fate[b]
  BY <1>3
<1> QED BY <1>5, <1>6, <1>7

\* Whatever a step does to the bursts, none is counted twice.
LEMMA CountsStep ==
  ASSUME Holders, Counts, Holding \subseteq Ids, Handled, Found
  PROVE  Counts'
<1>1. IdsOf(found) \subseteq Ids /\ "queue_full" \in Verdicts
  BY IdsAreIds DEF Holders, Verdicts
<1>2. made \in Nat /\ made' \in Nat /\ made <= made' /\ Ids \subseteq Nat
  <2>1. MaxBursts \in Nat
    BY IsolationAssumption
  <2> QED BY <2>1 DEF Holders, Found, Ids
<1>20. \A b \in Ids : b <= made => b <= made'
  BY <1>2
<1>3. /\ fate' \in [Ids -> Seq(Verdicts)]
      /\ \A b \in Ids : Len(fate'[b]) <= 1 /\ (fate'[b] # <<>> => b <= made')
      /\ \A b \in Holding' : fate'[b] = <<>> /\ b <= made'
      /\ bt = "submit" /\ bt' = "submit" =>
           \A b \in IdsOf(found) : fate'[b] = <<>> /\ b \notin Holding'
  <2>1. CASE fate' = fate /\ Holding' = Holding
    BY <1>1, <1>2, <2>1 DEF Counts
  <2>2. CASE \E S \in SUBSET Holding, v \in Verdicts :
               fate' = Counted(S, v) /\ Holding' = Holding \ S
    <3>1. PICK S \in SUBSET Holding, v \in Verdicts :
                 fate' = Counted(S, v) /\ Holding' = Holding \ S
      BY <2>2
    <3>2. \A b \in S : fate[b] = <<>> /\ b <= made
      BY DEF Counts
    <3>3. /\ fate' \in [Ids -> Seq(Verdicts)]
          /\ \A b \in S : fate'[b] = <<v>> /\ Len(<<v>>) <= 1
          /\ \A b \in Ids \ S : fate'[b] = fate[b]
      <4>1. S \in SUBSET Ids /\ fate \in [Ids -> Seq(Verdicts)] /\ \A b \in S : fate[b] = <<>>
        BY <3>2 DEF Counts
      <4>2. /\ Counted(S, v) \in [Ids -> Seq(Verdicts)]
            /\ \A b \in S : Counted(S, v)[b] = <<v>>
            /\ \A b \in Ids \ S : Counted(S, v)[b] = fate[b]
        BY <4>1, CountedIs
      <4> QED BY <3>1, <4>2
    <3>4. \A b \in Ids : Len(fate'[b]) <= 1 /\ (fate'[b] # <<>> => b <= made')
      BY <1>20, <3>2, <3>3 DEF Counts
    <3>5. \A b \in Holding' : fate'[b] = <<>> /\ b <= made'
      BY <1>20, <3>1, <3>3 DEF Counts
    <3> QED BY <1>1, <3>1, <3>3, <3>4, <3>5 DEF Counts
  <2>3. CASE /\ bt = "submit" /\ bt' # "submit" /\ fate' = fate
             /\ Holding' = Holding \cup IdsOf(found)
    BY <1>1, <1>2, <2>3 DEF Counts
  <2>4. CASE /\ bt = "submit" /\ bt' # "submit"
             /\ fate' = Counted(IdsOf(found), "queue_full") /\ Holding' = Holding
    <3>1. \A b \in IdsOf(found) : fate[b] = <<>> /\ b <= made /\ b \notin Holding
      BY <2>4 DEF Counts
    <3>2. /\ fate' \in [Ids -> Seq(Verdicts)]
          /\ \A b \in IdsOf(found) : fate'[b] = <<"queue_full">> /\ Len(<<"queue_full">>) <= 1
          /\ \A b \in Ids \ IdsOf(found) : fate'[b] = fate[b]
      <4>1. fate \in [Ids -> Seq(Verdicts)] /\ \A b \in IdsOf(found) : fate[b] = <<>>
        BY <3>1 DEF Counts
      <4>2. /\ Counted(IdsOf(found), "queue_full") \in [Ids -> Seq(Verdicts)]
            /\ \A b \in IdsOf(found) : Counted(IdsOf(found), "queue_full")[b] = <<"queue_full">>
            /\ \A b \in Ids \ IdsOf(found) : Counted(IdsOf(found), "queue_full")[b] = fate[b]
        <5>1. ASSUME NEW S \in SUBSET Ids, NEW v \in Verdicts, \A b \in S : fate[b] = <<>>
              PROVE  /\ Counted(S, v) \in [Ids -> Seq(Verdicts)]
                     /\ \A b \in S : Counted(S, v)[b] = <<v>>
                     /\ \A b \in Ids \ S : Counted(S, v)[b] = fate[b]
          BY <4>1, <5>1, CountedIs
        <5>2. IdsOf(found) \in SUBSET Ids /\ "queue_full" \in Verdicts
          BY <1>1
        <5> QED BY <4>1, <5>1, <5>2, Zenon
      <4> QED BY <2>4, <4>2
    <3>3. \A b \in Ids : Len(fate'[b]) <= 1 /\ (fate'[b] # <<>> => b <= made')
      BY <1>20, <3>1, <3>2 DEF Counts
    <3>4. \A b \in Holding' : fate'[b] = <<>> /\ b <= made'
      BY <1>20, <2>4, <3>1, <3>2 DEF Counts
    <3> QED BY <2>4, <3>2, <3>3, <3>4
  <2> QED BY <2>1, <2>2, <2>3, <2>4 DEF Handled
<1>4. ASSUME bt' = "submit"
      PROVE  /\ found' # <<>> /\ Distinct(found')
             /\ \A b \in IdsOf(found') : fate'[b] = <<>> /\ b <= made' /\ b \notin Holding'
  <2>1. CASE bt = "submit" /\ found' = found
    <3>1. \A b \in IdsOf(found) : fate'[b] = <<>> /\ b \notin Holding'
      BY <1>3, <1>4, <2>1
    <3>2. \A b \in IdsOf(found) : b <= made'
      BY <1>1, <1>20, <2>1 DEF Counts
    <3> QED BY <2>1, <3>1, <3>2 DEF Counts
  <2>2. CASE /\ found' # <<>> /\ Distinct(found') /\ fate' = fate /\ Holding' = Holding
             /\ \A b \in IdsOf(found') : made < b /\ b <= made'
    <3>1. IdsOf(found') \subseteq Ids
      BY IdsAreIds DEF Found
    <3>2. ASSUME NEW b \in IdsOf(found') PROVE ~(b <= made)
      <4>1. b \in Nat /\ made < b
        BY <1>2, <2>2, <3>1
      <4> QED BY <1>2, <4>1
    <3> QED BY <1>2, <2>2, <3>1, <3>2 DEF Counts
  <2> QED BY <1>4, <2>1, <2>2 DEF Found
<1>5. (IdsOf(found))' = IdsOf(found') /\ (Distinct(found))' = Distinct(found')
  BY DEF IdsOf, Distinct
<1> QED BY <1>3, <1>4, <1>5 DEF Counts

----------------------------------------------------------------------------
\* What every step has to show of the bursts.
StepOK == Holders' /\ Control' /\ Apart' /\ Handled /\ Found

LEMMA HoldingIs ==
  /\ Queued = QueuedIn(queue) /\ InWork = IdsOf(unread) \cup IdsOf(lazy) \cup IdsOfWorks(ready)
  /\ Queued' = QueuedIn(queue')
  /\ InWork' = IdsOf(unread') \cup IdsOf(lazy') \cup IdsOfWorks(ready')
  /\ Holding = Queued \cup InWork /\ Holding' = Queued' \cup InWork'
  BY DEF Holding, Queued, InWork, QueuedIn, IdsOf, IdsOfWorks

LEMMA ApartIs ==
  Apart' <=>
    /\ Distinct(unread') /\ Distinct(lazy') /\ DistinctWorks(ready')
    /\ DistinctBatches(queue')
    /\ IdsOf(unread') \cap IdsOf(lazy') = {} /\ IdsOf(unread') \cap IdsOfWorks(ready') = {}
    /\ IdsOf(lazy') \cap IdsOfWorks(ready') = {} /\ Queued' \cap InWork' = {}
  BY DEF Apart, Distinct, DistinctWorks, DistinctBatches, IdsOf, IdsOfWorks

LEMMA HoldingInIds == Holders => Holding \subseteq Ids
<1> SUFFICES ASSUME Holders PROVE Holding \subseteq Ids
  OBVIOUS
<1>1. QueuedIn(queue) \subseteq Ids
  <2>1. ASSUME NEW i \in 1..Len(queue) PROVE IdsOf(queue[i].cands) \subseteq Ids
    <3>1. queue[i] \in Batches
      BY ElementOfSeq DEF Holders
    <3> QED BY <3>1, IdsAreIds DEF Batches
  <2> QED BY <2>1 DEF QueuedIn
<1>2. IdsOf(unread) \subseteq Ids /\ IdsOf(lazy) \subseteq Ids
  BY IdsAreIds DEF Holders
<1>3. IdsOfWorks(ready) \subseteq Ids
  <2>1. \A i \in 1..Len(ready) : ready[i] \in Works
    BY ElementOfSeq DEF Holders
  <2> QED BY <2>1 DEF IdsOfWorks, Works, Bursts
<1> QED BY <1>1, <1>2, <1>3, HoldingIs

\* A step that touches no burst.
LEMMA Untouched ==
  ASSUME Inv, UNCHANGED <<queue, unread, lazy, ready, fate, found, made>>,
         bt' = "submit" => bt = "submit",
         wk' \in {"snap", "one"} => wk \in {"snap", "one"} /\ UNCHANGED batch,
         Control'
  PROVE  StepOK
<1>1. Holders'
  BY DEF Inv, Holders
<1>2. Apart'
  BY ApartIs, HoldingIs DEF Inv, Apart
<1>3. Handled
  BY HoldingIs DEF Handled
<1>4. Found
  <2>1. MaxBursts \in Nat
    BY IsolationAssumption
  <2>2. made' \in made..MaxBursts /\ found' \in Seq(Bursts)
    BY <2>1 DEF Inv, Holders
  <2>3. bt' = "submit" => bt = "submit" /\ found' = found
    OBVIOUS
  <2> QED BY <2>2, <2>3 DEF Found
<1> QED BY <1>1, <1>2, <1>3, <1>4 DEF StepOK

\* The bursts of an evaluation are new.
LEMMA NumberedAreNew ==
  ASSUME NEW k \in Nat, made \in Nat, made + k <= MaxBursts, NEW r \in Nat,
         NEW m, NEW n \in Nat, NEW bs \in [1..k -> Completed(m, n)]
  PROVE  /\ Numbered(bs, r) \in Seq(Bursts) /\ Len(Numbered(bs, r)) = k
         /\ Distinct(Numbered(bs, r))
         /\ \A b \in IdsOf(Numbered(bs, r)) : made < b /\ b <= made + k
         /\ \A i \in 1..k : Numbered(bs, r)[i].start = bs[i].start
<1> DEFINE item(i) == [id |-> made + i, ring |-> r, start |-> bs[i].start,
                       stop |-> bs[i].stop, snr |-> bs[i].snr]
           s == [i \in 1..k |-> item(i)]
<1>1. bs \in Seq(Completed(m, n)) /\ Len(bs) = k
  OBVIOUS
<1>2. \A i \in 1..k : bs[i] \in [start : 0..n, stop : 0..n, snr : Powers]
  BY DEF Completed
<1>3. \A i \in 1..k : item(i) \in Bursts
  <2>1. \A i \in 1..k : made + i \in Ids
    <3>1. MaxBursts \in Nat
      BY IsolationAssumption
    <3> QED BY <3>1 DEF Ids
  <2> QED BY <1>2, <2>1 DEF Bursts
<1>4. s \in Seq(Bursts) /\ Len(s) = k
  BY <1>3
<1>5. Numbered(bs, r) = s
  BY <1>1 DEF Numbered
<1>6. \A i \in 1..k : s[i].id = made + i /\ s[i].start = bs[i].start
  OBVIOUS
<1> HIDE DEF s
<1>7. Distinct(s)
  BY <1>4, <1>6 DEF Distinct
<1>8. \A b \in IdsOf(s) : made < b /\ b <= made + k
  BY <1>4, <1>6 DEF IdsOf
<1> QED BY <1>4, <1>5, <1>6, <1>7, <1>8

LEMMA TakeStep == Inv /\ BtTake => StepOK
<1> SUFFICES ASSUME Inv, BtTake PROVE StepOK
  OBVIOUS
<1> DEFINE g == Head(grids)
           n == g.at + Chunk
<1>1. UNCHANGED <<queue, batch, unread, lazy, ready, fate, wk, stopped, stop>>
  BY DEF BtTake, worker, stage
<1>2. g \in Places /\ n \in Nat /\ g.ring \in Nat
  <2>1. g \in Places
    BY HeadTailProperties DEF Inv, Types, BtTake
  <2> QED BY <2>1, IsolationAssumption DEF Places
<1>3. made \in Nat /\ made <= MaxBursts /\ MaxBursts \in Nat
  BY IsolationAssumption DEF Inv, Holders
<1>4. Holding' = Holding /\ Apart'
  BY <1>1, HoldingIs, ApartIs DEF Inv, Apart
<1>5. /\ made' \in made..MaxBursts /\ found' \in Seq(Bursts)
      /\ bt' = "submit" => /\ found' # <<>> /\ Distinct(found')
                           /\ \A b \in IdsOf(found') : made < b /\ b <= made'
  <2>1. CASE found' = <<>> /\ made' = made /\ bt' = "publish"
    BY <1>3, <2>1
  <2>2. CASE \E k \in 0..BatchMax, from \in {g.at, seen} :
               /\ made + k <= MaxBursts /\ made' = made + k
               /\ \E bs \in [1..k -> Completed(from, n)] : found' = Numbered(bs, g.ring)
               /\ bt' = IF on /\ found' # <<>> THEN "submit" ELSE "publish"
    <3>1. PICK k \in 0..BatchMax, from \in {g.at, seen} :
                 /\ made + k <= MaxBursts /\ made' = made + k
                 /\ \E bs \in [1..k -> Completed(from, n)] : found' = Numbered(bs, g.ring)
                 /\ bt' = IF on /\ found' # <<>> THEN "submit" ELSE "publish"
      BY <2>2
    <3>2. PICK bs \in [1..k -> Completed(from, n)] : found' = Numbered(bs, g.ring)
      BY <3>1
    <3>3. k \in Nat
      BY IsolationAssumption
    <3>4. /\ found' \in Seq(Bursts) /\ Distinct(found')
          /\ \A b \in IdsOf(found') : made < b /\ b <= made + k
      BY <1>2, <1>3, <3>1, <3>2, <3>3, NumberedAreNew
    <3>5. made' \in made..MaxBursts
      BY <1>3, <3>1, <3>3
    <3>6. bt' = "submit" => found' # <<>>
      BY <3>1
    <3> QED BY <3>1, <3>4, <3>5, <3>6
  <2>3. BtFeeds(g)
    BY DEF BtTake
  <2> QED BY <2>1, <2>2, <2>3 DEF BtFeeds
<1>6. Holders' /\ Control'
  <2>1. made' \in 0..MaxBursts
    BY <1>3, <1>5
  <2> QED BY <1>1, <1>5, <2>1 DEF Inv, Holders, Control
<1>7. Handled
  BY <1>1, <1>4 DEF Handled
<1>8. Found
  BY <1>1, <1>4, <1>5 DEF Found
<1> QED BY <1>4, <1>6, <1>7, <1>8 DEF StepOK

LEMMA SubmitStep == Inv /\ BtSubmit => StepOK
<1> SUFFICES ASSUME Inv, BtSubmit PROVE StepOK
  OBVIOUS
<1>1. /\ bt = "submit" /\ bt' # "submit" /\ Submit(found)
      /\ UNCHANGED <<found, made, wk, batch, unread, lazy, ready, stopped, stop>>
  BY DEF BtSubmit, worker
<1>2. /\ found \in Seq(Bursts) /\ Distinct(found) /\ found # <<>>
      /\ IdsOf(found) \cap Holding = {}
  BY <1>1 DEF Inv, Holders, Counts
<1>3. Found
  <2>1. made' \in made..MaxBursts
    <3>1. MaxBursts \in Nat /\ made \in 0..MaxBursts
      BY IsolationAssumption DEF Inv, Holders
    <3> QED BY <1>1, <3>1
  <2> QED BY <1>1, <1>2, <2>1 DEF Found
<1>4. CASE stopped \/ Len(queue) >= QueueMax
  <2>1. fate' = Counted(IdsOf(found), "queue_full") /\ UNCHANGED queue
    BY <1>1, <1>4 DEF Submit
  <2>2. Holders' /\ Control'
    BY <1>1, <2>1 DEF Inv, Holders, Control
  <2>3. Holding' = Holding /\ Apart'
    BY <1>1, <2>1, HoldingIs, ApartIs DEF Inv, Apart
  <2>4. Handled
    BY <1>1, <2>1, <2>3 DEF Handled
  <2> QED BY <1>3, <2>2, <2>3, <2>4 DEF StepOK
<1>5. CASE ~stopped /\ ~(Len(queue) >= QueueMax)
  <2> DEFINE item == [ring |-> Ring, cands |-> found]
  <2>1. queue' = Append(queue, item) /\ fate' = fate
    BY <1>1, <1>5 DEF Submit
  <2>2. item \in Batches /\ Ring > 0 /\ item.cands = found /\ item # StopMark
    <3>1. Ring \in Nat \ {0}
      BY RingsGrow DEF Inv, Types
    <3>2. item \in Batches
      BY <1>2, <3>1 DEF Batches
    <3>3. item.ring # StopMark.ring
      BY <3>1 DEF StopMark
    <3> QED BY <3>1, <3>2, <3>3
  <2>3. /\ queue' \in Seq(Batches) /\ Len(queue') = Len(queue) + 1
        /\ \A i \in 1..Len(queue) : queue'[i] = queue[i]
        /\ queue'[Len(queue) + 1] = item
        /\ QueuedIn(queue') = QueuedIn(queue) \cup IdsOf(found)
        /\ DistinctBatches(queue) /\ IdsOf(found) \cap QueuedIn(queue) = {}
             => DistinctBatches(queue')
    BY <1>2, <2>1, <2>2, AppendBatch DEF Inv, Holders
  <2>4. Len(queue) \in Nat /\ QueueMax \in Nat
    BY LenProperties, IsolationAssumption DEF Inv, Holders
  <2>5. Holders'
    BY <1>1, <1>5, <2>3, <2>4 DEF Inv, Holders
  <2>6. wk # "off"
    BY <1>5 DEF Inv, Control
  <2>7. \A i \in 1..Len(queue') : queue'[i] = StopMark => stopped
    <3>1. \A i \in 1..Len(queue') : i \in 1..Len(queue) \/ i = Len(queue) + 1
      BY <2>3, <2>4
    <3> QED BY <2>2, <2>3, <3>1 DEF Inv, Control
  <2>8. Control'
    BY <1>1, <2>6, <2>7 DEF Inv, Control
  <2>9. Holding' = Holding \cup IdsOf(found)
    BY <1>1, <2>3, HoldingIs
  <2>10. Apart'
    BY <1>1, <1>2, <2>3, HoldingIs, ApartIs DEF Inv, Apart
  <2>11. Handled
    BY <1>1, <1>5, <2>1, <2>9 DEF Handled
  <2> QED BY <1>3, <2>5, <2>8, <2>10, <2>11 DEF StepOK
<1> QED BY <1>4, <1>5

\* Nothing new is found, and the batch found last is not about to be handed over
\* unless it was.
LEMMA NothingFound ==
  ASSUME Inv, UNCHANGED <<bt, found, made>> PROVE Found
<1>1. MaxBursts \in Nat /\ made \in 0..MaxBursts /\ found \in Seq(Bursts)
  BY IsolationAssumption DEF Inv, Holders
<1>2. made' \in made..MaxBursts
  BY <1>1
<1> QED BY <1>1, <1>2 DEF Found

LEMMA GetStep == Inv /\ WkGet => StepOK
<1> SUFFICES ASSUME Inv, WkGet PROVE StepOK
  OBVIOUS
<1>1. /\ wk = "get" /\ queue # <<>> /\ queue' = Tail(queue)
      /\ UNCHANGED <<bt, found, made, lazy, ready, stopped, stop>>
      /\ unread = <<>> /\ lazy = <<>> /\ ready = <<>>
  BY DEF WkGet, detector, Inv, Control
<1>2. Found
  BY <1>1, NothingFound DEF WkGet, detector
<1>3. /\ Head(queue) \in Batches /\ Head(queue) = queue[1] /\ Tail(queue) \in Seq(Batches)
      /\ Len(Tail(queue)) = Len(queue) - 1 /\ Len(queue) \in Nat \ {0}
      /\ \A i \in 1..Len(Tail(queue)) : Tail(queue)[i] = queue[i + 1] /\ i + 1 \in 1..Len(queue)
      /\ QueuedIn(queue) = QueuedIn(Tail(queue)) \cup IdsOf(Head(queue).cands)
      /\ DistinctBatches(Tail(queue)) /\ Distinct(Head(queue).cands)
      /\ IdsOf(Head(queue).cands) \cap QueuedIn(Tail(queue)) = {}
  BY <1>1, TailBatch DEF Inv, Holders, Apart
<1>4. IdsOf(<<>>) = {} /\ IdsOfWorks(<<>>) = {} /\ Distinct(<<>>) /\ DistinctWorks(<<>>)
  BY DEF IdsOf, IdsOfWorks, Distinct, DistinctWorks
<1>5. QueueMax \in Nat
  BY IsolationAssumption
<1>6. CASE Head(queue) = StopMark
  <2>1. /\ wk' = "drain" /\ UNCHANGED <<batch, unread, fate>> /\ stopped
    <3>1. 1 \in 1..Len(queue)
      BY <1>3
    <3> QED BY <1>1, <1>3, <1>6, <3>1 DEF WkGet, Inv, Control
  <2>2. IdsOf(Head(queue).cands) = {}
    BY <1>4, <1>6 DEF StopMark
  <2>3. Holders'
    BY <1>1, <1>3, <1>5, <2>1 DEF Inv, Holders
  <2>4. Control'
    BY <1>1, <1>3, <2>1 DEF Inv, Control
  <2>5. Holding' = Holding /\ Apart'
    BY <1>1, <1>3, <1>4, <2>1, <2>2, HoldingIs, ApartIs
  <2>6. Handled
    BY <2>1, <2>5 DEF Handled
  <2> QED BY <1>2, <2>3, <2>4, <2>5, <2>6 DEF StepOK
<1>7. CASE Head(queue) # StopMark
  <2> DEFINE cands == Head(queue).cands
  <2>1. /\ batch' = Head(queue) /\ Gate(cands) /\ wk' = "snap"
        /\ cands \in Seq(Bursts) /\ budget.used \in Nat
    BY <1>3, <1>7 DEF WkGet, Batches, Inv, Types
  <2>2. PICK p \in Picks(cands) :
          /\ unread' = [i \in DOMAIN p |-> cands[p[i]]]
          /\ fate' = Counted(IdsOf(cands) \ {cands[p[i]].id : i \in DOMAIN p}, "gated_out")
    BY <2>1 DEF Gate
  <2> HIDE DEF cands
  <2>3. PICK k \in Nat : p \in [1..k -> 1..Len(cands)]
    BY <2>1, PickFacts
  <2>4. \A i, j \in 1..k : p[i] = p[j] => i = j
    BY <2>1, <2>3, PickFacts
  <2>5. \A i \in 1..k : cands[p[i]] \in Bursts
    BY <2>1, <2>3, ElementOfSeq
  <2>6. unread' \in Seq(Bursts) /\ Len(unread') = k /\ \A i \in 1..k : unread'[i] = cands[p[i]]
    BY <2>2, <2>3, <2>5
  <2>7. Distinct(unread')
    <3>1. Distinct(cands) /\ \A i \in 1..k : p[i] \in 1..Len(cands)
      BY <1>3, <2>3 DEF cands
    <3>2. ASSUME NEW i \in 1..k, NEW j \in 1..k, cands[p[i]].id = cands[p[j]].id PROVE i = j
      <4>1. p[i] = p[j]
        BY <3>1, <3>2 DEF Distinct
      <4> QED BY <2>4, <4>1
    <3> QED BY <2>6, <3>2 DEF Distinct
  <2>8. /\ IdsOf(unread') = {cands[p[i]].id : i \in DOMAIN p}
        /\ IdsOf(unread') \subseteq IdsOf(cands)
    <3>1. DOMAIN p = 1..k /\ \A i \in 1..k : p[i] \in 1..Len(cands)
      BY <2>3
    <3>2. IdsOf(unread') = {cands[p[i]].id : i \in DOMAIN p}
      BY <2>6, <3>1 DEF IdsOf
    <3> QED BY <3>1, <3>2 DEF IdsOf
  <2>9. Holders'
    BY <1>1, <1>3, <1>5, <2>1, <2>6 DEF Inv, Holders
  <2>10. Control'
    BY <1>1, <1>3, <2>1 DEF Inv, Control
  <2>11. Apart'
    BY <1>1, <1>3, <1>4, <2>7, <2>8, HoldingIs, ApartIs DEF cands
  <2>12. Handled
    <3> DEFINE S == IdsOf(cands) \ IdsOf(unread')
    <3>1. Holding = QueuedIn(queue) /\ Holding' = QueuedIn(queue') \cup IdsOf(unread')
      BY <1>1, <1>4, HoldingIs
    <3>2. S \in SUBSET Holding /\ Holding' = Holding \ S
      BY <1>1, <1>3, <2>8, <3>1 DEF cands
    <3>3. fate' = Counted(S, "gated_out") /\ "gated_out" \in Verdicts
      BY <2>2, <2>8 DEF Verdicts
    <3> QED BY <3>2, <3>3 DEF Handled
  <2> QED BY <1>2, <2>9, <2>10, <2>11, <2>12 DEF StepOK
<1> QED BY <1>6, <1>7

LEMMA SnapStep == Inv /\ WkSnap => StepOK
<1> SUFFICES ASSUME Inv, WkSnap PROVE StepOK
  OBVIOUS
<1>1. /\ wk = "snap" /\ batch \in Batches
      /\ UNCHANGED <<bt, found, made, queue, batch, stopped, stop, fate>>
  BY DEF WkSnap, detector, stage, Inv, Holders
<1>2. Found
  BY <1>1, NothingFound DEF WkSnap, detector
<1>3. CASE unread = <<>>
  <2>1. wk' = "one" /\ UNCHANGED <<unread, lazy, ready>>
    BY <1>3 DEF WkSnap
  <2>2. Control'
    BY <1>1, <1>3, <2>1 DEF Inv, Control
  <2>3. bt' = "submit" => bt = "submit"
    BY <1>1
  <2> QED BY <1>1, <2>1, <2>2, <2>3, Untouched
<1>4. CASE unread # <<>>
  <2> DEFINE b == Head(unread)
  <2>1. /\ b \in Bursts /\ Tail(unread) \in Seq(Bursts)
        /\ IdsOf(unread) = IdsOf(Tail(unread)) \cup {b.id}
        /\ Distinct(Tail(unread)) /\ b.id \notin IdsOf(Tail(unread))
    BY <1>4, TailBurst DEF Inv, Holders, Apart
  <2>2. unread' = Tail(unread) /\ wk' = wk
    BY <1>4 DEF WkSnap
  <2>3. Control'
    BY <1>1, <2>2 DEF Inv, Control
  <2>4. /\ b.id \in IdsOf(unread) /\ b.id \notin IdsOf(lazy) /\ b.id \notin IdsOfWorks(ready)
        /\ lazy \in Seq(Bursts) /\ ready \in Seq(Works)
    BY <2>1 DEF Inv, Holders, Apart
  <2>5. CASE lazy' = Append(lazy, b) /\ UNCHANGED ready
    <3>1. lazy' \in Seq(Bursts)
      BY <2>1, <2>4, <2>5, AppendProperties
    <3>2. IdsOf(lazy') = IdsOf(lazy) \cup {b.id} /\ Distinct(lazy')
      BY <2>1, <2>4, <2>5, AppendBurst DEF Inv, Apart
    <3>3. Holding' = Holding /\ Apart'
      BY <1>1, <2>1, <2>2, <2>4, <2>5, <3>2, HoldingIs, ApartIs DEF Inv, Apart
    <3>4. Holders'
      BY <1>1, <2>1, <2>2, <2>5, <3>1 DEF Inv, Holders
    <3> QED BY <1>1, <1>2, <2>3, <3>3, <3>4 DEF StepOK, Handled
  <2>6. ASSUME NEW d \in {"read", "overwritten", "unwritten", "failed"},
               ready' = Append(ready, [burst |-> b, data |-> d]), UNCHANGED lazy
        PROVE  StepOK
    <3> DEFINE w == [burst |-> b, data |-> d]
    <3>1. w \in Works /\ w.burst.id = b.id
      BY <2>1 DEF Works
    <3>2. ready' \in Seq(Works)
      BY <2>4, <2>6, <3>1, AppendProperties
    <3>3. IdsOfWorks(ready') = IdsOfWorks(ready) \cup {b.id} /\ DistinctWorks(ready')
      BY <2>4, <2>6, <3>1, AppendWork DEF Inv, Apart
    <3>4. Holding' = Holding /\ Apart'
      BY <1>1, <2>1, <2>2, <2>4, <2>6, <3>3, HoldingIs, ApartIs DEF Inv, Apart
    <3>5. Holders'
      BY <1>1, <2>1, <2>2, <2>6, <3>2 DEF Inv, Holders
    <3> QED BY <1>1, <1>2, <2>3, <3>4, <3>5 DEF StepOK, Handled
  <2>7. Read(batch.ring, b) \in {"read", "overwritten", "unwritten", "failed"}
    BY DEF Read
  <2>8. \/ lazy' = Append(lazy, b) /\ UNCHANGED ready
        \/ \E d \in {Read(batch.ring, b), "failed"} :
             ready' = Append(ready, [burst |-> b, data |-> d]) /\ UNCHANGED lazy
    BY <1>4 DEF WkSnap
  <2> QED BY <2>5, <2>6, <2>7, <2>8
<1> QED BY <1>3, <1>4

\* A burst that leaves the worker's hands is counted with a verdict.
LEMMA VerdictType ==
  ASSUME NEW b, NEW d \in {"read", "overwritten", "unwritten", "failed"}
  PROVE  Verdict(b, d) \in Verdicts
BY DEF Verdict, Verdicts

LEMMA OneStep == Inv /\ WkOne => StepOK
<1> SUFFICES ASSUME Inv, WkOne PROVE StepOK
  OBVIOUS
<1>1. /\ wk = "one" /\ batch \in Batches /\ unread = <<>>
      /\ UNCHANGED <<bt, found, made, queue, unread, stopped, stop>>
  BY DEF WkOne, detector, stage, Inv, Holders, Control
<1>2. Found
  BY <1>1, NothingFound DEF WkOne, detector
<1>3. "error" \in Verdicts
  BY DEF Verdicts
<1>4. CASE lazy # <<>>
  <2> DEFINE b == Head(lazy)
  <2>1. /\ b \in Bursts /\ Tail(lazy) \in Seq(Bursts)
        /\ IdsOf(lazy) = IdsOf(Tail(lazy)) \cup {b.id}
        /\ Distinct(Tail(lazy)) /\ b.id \notin IdsOf(Tail(lazy))
    BY <1>4, TailBurst DEF Inv, Holders, Apart
  <2>2. /\ lazy' = Tail(lazy) /\ UNCHANGED <<ready, wk, batch>>
        /\ \E v \in Verdicts : fate' = Counted({b.id}, v)
    <3>1. Verdict(b, Read(batch.ring, b)) \in Verdicts
      BY VerdictType DEF Read
    <3> QED BY <1>3, <1>4, <3>1 DEF WkOne
  <2>3. Holders' /\ Control'
    BY <1>1, <2>1, <2>2 DEF Inv, Holders, Control
  <2>4. {b.id} \in SUBSET Holding /\ Holding' = Holding \ {b.id}
    BY <1>1, <2>1, <2>2, HoldingIs DEF Inv, Apart
  <2>5. Apart'
    BY <1>1, <2>1, <2>2, HoldingIs, ApartIs DEF Inv, Apart
  <2>6. Handled
    BY <2>2, <2>4 DEF Handled
  <2> QED BY <1>2, <2>3, <2>5, <2>6 DEF StepOK
<1>5. CASE lazy = <<>> /\ ready # <<>>
  <2> DEFINE w == Head(ready)
             b == w.burst
  <2>1. /\ w \in Works /\ Tail(ready) \in Seq(Works)
        /\ IdsOfWorks(ready) = IdsOfWorks(Tail(ready)) \cup {b.id}
        /\ DistinctWorks(Tail(ready)) /\ b.id \notin IdsOfWorks(Tail(ready))
    BY <1>5, TailWork DEF Inv, Holders, Apart
  <2>2. /\ ready' = Tail(ready) /\ UNCHANGED <<lazy, wk, batch>>
        /\ \E v \in Verdicts : fate' = Counted({b.id}, v)
    <3>1. Verdict(b, w.data) \in Verdicts
      BY <2>1, VerdictType DEF Works
    <3> QED BY <1>3, <1>5, <3>1 DEF WkOne
  <2>3. Holders' /\ Control'
    BY <1>1, <2>1, <2>2 DEF Inv, Holders, Control
  <2>4. {b.id} \in SUBSET Holding /\ Holding' = Holding \ {b.id}
    BY <1>1, <2>1, <2>2, HoldingIs DEF Inv, Apart
  <2>5. Apart'
    BY <1>1, <2>1, <2>2, HoldingIs, ApartIs DEF Inv, Apart
  <2>6. Handled
    BY <2>2, <2>4 DEF Handled
  <2> QED BY <1>2, <2>3, <2>5, <2>6 DEF StepOK
<1>6. CASE lazy = <<>> /\ ready = <<>>
  <2>1. wk' = "check" /\ UNCHANGED <<lazy, ready, fate>>
    BY <1>6 DEF WkOne
  <2>2. Control'
    BY <1>1, <1>6, <2>1 DEF Inv, Control
  <2>3. bt' = "submit" => bt = "submit"
    BY <1>1
  <2> QED BY <1>1, <2>1, <2>2, <2>3, Untouched
<1> QED BY <1>4, <1>5, <1>6

\* Whoever drains an item of the queue counts its bursts.
LEMMA DrainStep ==
  ASSUME Inv, DrainsOne, UNCHANGED <<detector, batch, unread, lazy, ready, wk, stopped, stop>>
  PROVE  StepOK
<1>1. /\ queue # <<>> /\ queue' = Tail(queue)
      /\ fate' = Counted(IdsOf(Head(queue).cands), "queue_full")
      /\ UNCHANGED <<bt, found, made>>
  BY DEF DrainsOne, detector
<1>2. /\ Head(queue) \in Batches /\ Tail(queue) \in Seq(Batches)
      /\ Len(Tail(queue)) = Len(queue) - 1 /\ Len(queue) \in Nat \ {0}
      /\ \A i \in 1..Len(Tail(queue)) : Tail(queue)[i] = queue[i + 1] /\ i + 1 \in 1..Len(queue)
      /\ QueuedIn(queue) = QueuedIn(Tail(queue)) \cup IdsOf(Head(queue).cands)
      /\ DistinctBatches(Tail(queue))
      /\ IdsOf(Head(queue).cands) \cap QueuedIn(Tail(queue)) = {}
  BY <1>1, TailBatch DEF Inv, Holders, Apart
<1>3. QueueMax \in Nat
  BY IsolationAssumption
<1>4. Holders'
  BY <1>1, <1>2, <1>3 DEF Inv, Holders
<1>5. Control'
  BY <1>1, <1>2 DEF Inv, Control
<1>6. Apart'
  BY <1>1, <1>2, HoldingIs, ApartIs DEF Inv, Apart
<1>7. Handled
  <2> DEFINE S == IdsOf(Head(queue).cands)
  <2>1. S \in SUBSET Holding /\ Holding' = Holding \ S
    BY <1>1, <1>2, HoldingIs DEF Inv, Apart
  <2>2. fate' = Counted(S, "queue_full") /\ "queue_full" \in Verdicts
    BY <1>1 DEF Verdicts
  <2> QED BY <2>1, <2>2 DEF Handled
<1>8. Found
  BY <1>1, NothingFound
<1> QED BY <1>4, <1>5, <1>6, <1>7, <1>8 DEF StepOK

LEMMA PutStep == ASSUME Inv, NEW p \in Stoppers, StopPuts(p) PROVE StepOK
<1>1. /\ stop[p] = "put" /\ stop' = [stop EXCEPT ![p] = "join"] /\ stopped
      /\ UNCHANGED <<bt, found, made, fate, wk, batch, unread, lazy, ready, stopped>>
  BY DEF StopPuts, Goes, detector, worker, Inv, Control
<1>2. Found
  BY <1>1, NothingFound DEF StopPuts
<1>3. stop \in [Stoppers -> {"idle", "begin", "drain", "put", "join", "final"}]
  BY DEF Inv, Types
<1>4. CASE UNCHANGED queue
  <2>1. Control'
    BY <1>1, <1>3, <1>4 DEF Inv, Control
  <2>2. bt' = "submit" => bt = "submit"
    BY <1>1
  <2> QED BY <1>1, <1>4, <2>1, <2>2, Untouched
<1>5. CASE queue' = Append(queue, StopMark) /\ Len(queue) < QueueMax
  <2>1. StopMark \in Batches /\ StopMark.cands = <<>> /\ IdsOf(StopMark.cands) = {}
        /\ Distinct(StopMark.cands)
    BY DEF StopMark, Batches, IdsOf, Distinct
  <2>2. /\ queue' \in Seq(Batches) /\ Len(queue') = Len(queue) + 1
        /\ \A i \in 1..Len(queue) : queue'[i] = queue[i]
        /\ queue'[Len(queue) + 1] = StopMark
        /\ QueuedIn(queue') = QueuedIn(queue) \cup IdsOf(StopMark.cands)
        /\ DistinctBatches(queue')
    BY SMTT(30), <1>5, <2>1, AppendBatch DEF Inv, Holders, Apart
  <2>3. Len(queue) \in Nat /\ QueueMax \in Nat
    BY LenProperties, IsolationAssumption DEF Inv, Holders
  <2>4. Holders'
    BY <1>1, <1>5, <2>2, <2>3 DEF Inv, Holders
  <2>5. \A i \in 1..Len(queue') : i \in 1..Len(queue) \/ i = Len(queue) + 1
    BY <2>2, <2>3
  <2>6. Control'
    BY <1>1, <1>3, <2>1, <2>2, <2>5 DEF Inv, Control
  <2>7. Holding' = Holding /\ Apart'
    BY <1>1, <2>1, <2>2, HoldingIs, ApartIs DEF Inv, Apart
  <2>8. Handled
    BY <1>1, <2>7 DEF Handled
  <2> QED BY <1>2, <2>4, <2>6, <2>7, <2>8 DEF StepOK
<1> QED BY <1>4, <1>5 DEF StopPuts

LEMMA EveryStep == Inv /\ [Next]_vars => StepOK
<1> SUFFICES ASSUME Inv, [Next]_vars PROVE StepOK
  OBVIOUS
<1> USE DEF stream, detector, worker, stage
<1>1. ASSUME Rx \/ Reconfigure \/ Shutdown \/ StopStage \/ UNCHANGED vars PROVE StepOK
  <2>1. UNCHANGED <<queue, batch, unread, lazy, ready, fate, found, made, bt, wk, stopped>>
    BY <1>1 DEF Rx, RxTop, RxHalted, RxWrite, RxPut, Reconfigure, Shutdown, StopStage, vars
  <2>2. \A p \in Stoppers : stop'[p] = stop[p] \/ stop'[p] \in {"idle", "begin"}
    BY <1>1 DEF Rx, RxTop, RxHalted, RxWrite, RxPut, Reconfigure, Shutdown, StopStage, vars,
                Inv, Types
  <2>3. Control'
    BY <2>1, <2>2 DEF Inv, Control
  <2>4. (bt' = "submit" => bt = "submit")
        /\ (wk' \in {"snap", "one"} => wk \in {"snap", "one"} /\ UNCHANGED batch)
    BY <2>1
  <2> QED BY <2>1, <2>3, <2>4, Untouched
<1>2. ASSUME BtTop \/ BtIdle \/ BtPublish PROVE StepOK
  <2>1. UNCHANGED <<queue, batch, unread, lazy, ready, fate, found, made, wk, stopped, stop>>
        /\ (bt' = "submit" => bt = "submit")
    BY <1>2 DEF BtTop, BtIdle, BtPublish
  <2>2. Control'
    BY <2>1 DEF Inv, Control
  <2> QED BY <2>1, <2>2, Untouched
<1>3. CASE WkCheck
  <2>1. UNCHANGED <<queue, batch, unread, lazy, ready, fate, found, made, bt, stopped, stop>>
        /\ wk = "check" /\ wk' = IF stopped THEN "drain" ELSE "get"
    BY <1>3 DEF WkCheck
  <2>2. Control'
    BY <2>1 DEF Inv, Control
  <2> QED BY <2>1, <2>2, Untouched
<1>4. CASE WkDrain
  <2>1. CASE DrainsOne /\ UNCHANGED wk
    BY <1>4, <2>1, DrainStep DEF WkDrain
  <2>2. CASE queue = <<>> /\ wk' = "off" /\ UNCHANGED <<queue, fate>>
    <3>1. /\ UNCHANGED <<queue, batch, unread, lazy, ready, fate, found, made, bt, stopped, stop>>
          /\ wk = "drain"
      BY <1>4, <2>2 DEF WkDrain
    <3>2. Control'
      <4>1. \A i \in 1..Len(queue') : FALSE
        BY <2>2, <3>1
      <4> QED BY <2>2, <3>1, <4>1 DEF Inv, Control
    <3> QED BY <2>2, <3>1, <3>2, Untouched
  <2> QED BY <1>4, <2>1, <2>2 DEF WkDrain
<1>5. ASSUME NEW p \in Stoppers, Stop(p) PROVE StepOK
  <2>1. CASE StopPuts(p)
    BY <2>1, PutStep
  <2>2. CASE /\ stop[p] \in {"drain", "final"} /\ DrainsOne /\ UNCHANGED stop
             /\ UNCHANGED <<happens, running, gen, stream, detector, on, worker, stopped, thread>>
    BY <2>2, DrainStep
  <2>3. ASSUME /\ UNCHANGED <<queue, batch, unread, lazy, ready, fate, found, made, bt, wk>>
               /\ stopped => stopped'
               /\ \A q \in Stoppers : stop'[q] = stop[q] \/ stopped' \/ stop'[q] = "idle"
        PROVE  StepOK
    <3>1. \A q \in Stoppers : stop'[q] \in {"drain", "put", "join", "final"} => stopped'
      BY <2>3 DEF Inv, Control
    <3>2. Control'
      BY <2>3, <3>1 DEF Inv, Control
    <3> QED BY <2>3, <3>2, Untouched
  <2>4. CASE StopBegin(p)
    <3>1. /\ UNCHANGED <<queue, batch, unread, lazy, ready, fate, found, made, bt, wk>>
          /\ stopped' = (stopped \/ thread)
          /\ stop' = [stop EXCEPT ![p] = IF thread THEN "drain" ELSE "idle"]
      BY <2>4 DEF StopBegin, Goes
    <3>2. \A q \in Stoppers : stop'[q] = stop[q] \/ stopped' \/ stop'[q] = "idle"
      BY <3>1 DEF Inv, Types
    <3> QED BY <2>3, <3>1, <3>2
  <2>5. CASE StopJoins(p)
    <3>1. /\ UNCHANGED <<queue, batch, unread, lazy, ready, fate, found, made, bt, wk, stopped>>
          /\ stop[p] = "join"
          /\ \E there \in {"final", "idle"} : stop' = [stop EXCEPT ![p] = there]
      BY <2>5 DEF StopJoins, Goes
    <3>2. \A q \in Stoppers : stop'[q] = stop[q] \/ stopped' \/ stop'[q] = "idle"
      BY <3>1 DEF Inv, Types, Control
    <3> QED BY <2>3, <3>1, <3>2
  <2>6. CASE /\ stop[p] \in {"drain", "final"}
             /\ \E there \in {"put", "idle"} : stop' = [stop EXCEPT ![p] = there]
             /\ UNCHANGED <<happens, running, gen, stream, detector, on, worker, stopped, thread,
                            queue, fate>>
    <3>1. stopped
      BY <1>5, <2>6 DEF Inv, Control
    <3>2. /\ UNCHANGED <<queue, batch, unread, lazy, ready, fate, found, made, bt, wk, stopped>>
      BY <2>6
    <3> QED BY <2>3, <3>1, <3>2
  <2>7. StopDrains(p) => StepOK
    BY <2>2, <2>6 DEF StopDrains, Goes
  <2> QED BY <1>5, <2>1, <2>4, <2>5, <2>7 DEF Stop
<1> QED BY <1>1, <1>2, <1>3, <1>4, <1>5, TakeStep, SubmitStep, GetStep, SnapStep, OneStep
        DEF Next, Bt, Wk

LEMMA InvInit == Init => Inv
<1> SUFFICES ASSUME Init PROVE Inv
  OBVIOUS
<1>1. Types
  BY TypesInit
<1>2. QueueMax \in Nat /\ MaxBursts \in Nat
  BY IsolationAssumption
<1>3. /\ found = <<>> /\ queue = <<>> /\ unread = <<>> /\ lazy = <<>> /\ ready = <<>>
      /\ made = 0 /\ wk = "check" /\ bt = "get" /\ stopped = FALSE
      /\ stop = [p \in Stoppers |-> "idle"] /\ fate = [b \in Ids |-> <<>>]
  BY DEF Init
<1>4. Holders
  BY <1>2, <1>3 DEF Holders
<1>5. Control
  BY <1>3 DEF Control
<1>6. /\ IdsOf(<<>>) = {} /\ IdsOfWorks(<<>>) = {} /\ QueuedIn(<<>>) = {}
      /\ Distinct(<<>>) /\ DistinctWorks(<<>>) /\ DistinctBatches(<<>>)
  BY DEF IdsOf, IdsOfWorks, QueuedIn, Distinct, DistinctWorks, DistinctBatches
<1>7. Apart /\ Holding = {}
  BY <1>3, <1>6, HoldingIs DEF Apart
<1>8. Counts
  BY <1>3, <1>7 DEF Counts
<1> QED BY <1>1, <1>4, <1>5, <1>7, <1>8 DEF Inv

LEMMA InvStep == Inv /\ [Next]_vars => Inv'
<1> SUFFICES ASSUME Inv, [Next]_vars PROVE Inv'
  OBVIOUS
<1>1. Types'
  BY TypesStep DEF Inv
<1>2. StepOK
  BY EveryStep
<1>3. Counts'
  BY <1>2, CountsStep, HoldingInIds DEF Inv, StepOK
<1> QED BY <1>1, <1>2, <1>3 DEF Inv, StepOK

LEMMA Invariance == Spec => []Inv
BY InvInit, InvStep, PTL DEF Spec

----------------------------------------------------------------------------
\* The ledger the stage keeps.
Book == [b \in Ids |-> BookOf(b)]
Closed == stopped /\ wk = "off"

LEMMA BookIs ==
  /\ Counts => Book = [b \in Ids |-> IF fate[b] # <<>> THEN fate[b][1]
                                   ELSE IF b \in Holding THEN "held" ELSE "new"]
  /\ Counts' => Book' = [b \in Ids |-> IF fate'[b] # <<>> THEN fate'[b][1]
                                   ELSE IF b \in Holding' THEN "held" ELSE "new"]
<1>1. ASSUME NEW s \in Seq(Verdicts), s # <<>>, Len(s) <= 1 PROVE Len(s) = 1
  <2>1. Len(s) \in Nat \ {0}
    BY <1>1, EmptySeq
  <2>2. \A n \in Nat \ {0} : n <= 1 => n = 1
    OBVIOUS
  <2> QED BY <1>1, <2>1, <2>2, Zenon
<1>2. ASSUME Counts, NEW b \in Ids
      PROVE  BookOf(b) = IF fate[b] # <<>> THEN fate[b][1]
                         ELSE IF b \in Holding THEN "held" ELSE "new"
  BY <1>1, <1>2 DEF Counts, BookOf, Holding
<1>3. ASSUME Counts', NEW b \in Ids
      PROVE  BookOf(b)' = IF fate'[b] # <<>> THEN fate'[b][1]
                          ELSE IF b \in Holding' THEN "held" ELSE "new"
  BY <1>1, <1>3 DEF Counts, BookOf, Holding
<1> QED BY <1>2, <1>3 DEF Book

\* The stage closes when its worker has ended, which holds nothing by then.
LEMMA ClosedStep ==
  ASSUME Inv, [Next]_vars
  PROVE  \/ Closed' = Closed
         \/ ~Closed /\ Closed' = TRUE /\ Holding = {} /\ Holding' = Holding /\ fate' = fate
<1> USE DEF stream, detector, worker, stage
<1>1. ASSUME UNCHANGED wk, stopped => stopped' PROVE Closed' = Closed
  BY <1>1 DEF Closed, Inv, Control
<1>2. ASSUME wk # "off", wk' # "off" PROVE Closed' = Closed
  BY <1>2 DEF Closed
<1>3. CASE Rx \/ Bt \/ Reconfigure \/ Shutdown \/ StopStage \/ UNCHANGED vars
  <2>1. UNCHANGED <<wk, stopped>>
    BY <1>3 DEF Rx, RxTop, RxHalted, RxWrite, RxPut, Bt, BtTop, BtTake, BtSubmit, BtIdle, BtPublish,
                Reconfigure, Shutdown, StopStage, vars
  <2> QED BY <1>1, <2>1
<1>4. CASE WkCheck \/ WkGet \/ WkSnap \/ WkOne
  BY <1>2, <1>4 DEF WkCheck, WkGet, WkSnap, WkOne
<1>5. CASE WkDrain
  <2>1. CASE UNCHANGED wk
    BY <1>1, <1>5, <2>1 DEF WkDrain
  <2>2. CASE queue = <<>> /\ wk' = "off" /\ UNCHANGED <<queue, fate>>
    <3>1. /\ wk = "drain" /\ stopped /\ stopped' = stopped
          /\ unread = <<>> /\ lazy = <<>> /\ ready = <<>> /\ queue = <<>>
          /\ UNCHANGED <<queue, unread, lazy, ready, fate>>
      BY <1>5, <2>2 DEF WkDrain, Inv, Control
    <3>2. /\ QueuedIn(<<>>) = {} /\ IdsOf(<<>>) = {} /\ IdsOfWorks(<<>>) = {}
      BY DEF QueuedIn, IdsOf, IdsOfWorks
    <3>3. Holding = {} /\ Holding' = Holding
      BY <3>1, <3>2, HoldingIs
    <3> QED BY <2>2, <3>1, <3>3 DEF Closed
  <2> QED BY <1>5, <2>1, <2>2 DEF WkDrain
<1>6. ASSUME NEW p \in Stoppers, Stop(p) PROVE Closed' = Closed
  <2>1. UNCHANGED wk /\ (stopped => stopped')
    <3>1. CASE StopBegin(p)
      BY <3>1 DEF StopBegin
    <3>2. CASE StopDrains(p) \/ StopPuts(p) \/ StopJoins(p)
      BY <3>2 DEF StopDrains, StopPuts, StopJoins
    <3> QED BY <1>6, <3>1, <3>2 DEF Stop
  <2> QED BY <1>1, <2>1
<1> QED BY <1>3, <1>4, <1>5, <1>6 DEF Next, Wk

LEMMA LedgerStep == Inv /\ [Next]_vars => [CountedOnce!Next]_CountedOnce!ledger
<1> SUFFICES ASSUME Inv, [Next]_vars PROVE [CountedOnce!Next]_CountedOnce!ledger
  OBVIOUS
<1>1. Inv' /\ StepOK
  BY InvStep, EveryStep
<1>2. /\ Book = [b \in Ids |-> IF fate[b] # <<>> THEN fate[b][1]
                              ELSE IF b \in Holding THEN "held" ELSE "new"]
      /\ Book' = [b \in Ids |-> IF fate'[b] # <<>> THEN fate'[b][1]
                               ELSE IF b \in Holding' THEN "held" ELSE "new"]
  BY <1>1, BookIs DEF Inv
<1>3. /\ fate \in [Ids -> Seq(Verdicts)] /\ Holding \subseteq Ids
      /\ \A b \in Holding : fate[b] = <<>>
      /\ Closed = TRUE => stopped
  BY HoldingInIds DEF Inv, Counts, Closed
<1>12. ASSUME NEW S \in SUBSET Ids, NEW v \in Verdicts, \A b \in S : fate[b] = <<>>,
              fate' = Counted(S, v)
       PROVE  /\ \A b \in S : fate'[b] = <<v>>
              /\ \A b \in Ids \ S : fate'[b] = fate[b]
  <2>1. /\ \A b \in S : Counted(S, v)[b] = <<v>>
        /\ \A b \in Ids \ S : Counted(S, v)[b] = fate[b]
    BY <1>3, <1>12, CountedIs
  <2> QED BY <1>12, <2>1
<1>4. ASSUME fate' = fate, Holding' = Holding, Closed' = Closed
      PROVE  UNCHANGED CountedOnce!ledger
  BY <1>2, <1>4 DEF CountedOnce!ledger, Book, Closed
<1>5. ASSUME NEW S \in SUBSET Ids, S # {}, \A b \in S : Book[b] = "new",
             NEW v \in Verdicts \cup {"held"},
             Book' = [b \in Ids |-> IF b \in S THEN v ELSE Book[b]],
             Closed => v # "held", Closed' = Closed
      PROVE  CountedOnce!Next
  <2>1. CountedOnce!Take(S)
    <3>1. Closed => \A b \in S : Book'[b] # "held"
      BY <1>5
    <3> QED BY <1>5, <3>1 DEF CountedOnce!Take, Book, Closed
  <2> QED BY <2>1 DEF CountedOnce!Next
<1>6. ASSUME NEW S \in SUBSET Ids, S # {}, \A b \in S : Book[b] = "held", NEW v \in Verdicts,
             Book' = [b \in Ids |-> IF b \in S THEN v ELSE Book[b]], Closed' = Closed
      PROVE  CountedOnce!Next
  <2>1. CountedOnce!Settle(S)
    BY <1>6 DEF CountedOnce!Settle, Book, Closed
  <2> QED BY <2>1 DEF CountedOnce!Next
<1>7. CASE fate' = fate /\ Holding' = Holding
  <2>1. CASE Closed' = Closed
    BY <1>4, <1>7, <2>1
  <2>2. CASE ~Closed /\ Closed' = TRUE /\ Holding = {}
    <3>1. Book' = Book
      BY <1>2, <1>7
    <3>2. \A b \in Ids : Book[b] # "held"
      <4>1. \A b \in Ids : fate[b] # <<>> => fate[b][1] \in Verdicts
        <5>1. ASSUME NEW s \in Seq(Verdicts), s # <<>> PROVE s[1] \in Verdicts
          <6>1. 1 \in 1..Len(s)
            BY <5>1, EmptySeq
          <6> QED BY <6>1, ElementOfSeq
        <5> QED BY <1>3, <5>1
      <4>2. "held" \notin Verdicts
        BY DEF Verdicts
      <4> QED BY <1>2, <2>2, <4>1, <4>2
    <3>3. CountedOnce!Close
      BY <2>2, <3>1, <3>2 DEF CountedOnce!Close, Book, Closed
    <3> QED BY <3>3 DEF CountedOnce!Next
  <2> QED BY <2>1, <2>2, ClosedStep
<1>8. CASE \E S \in SUBSET Holding, v \in Verdicts : fate' = Counted(S, v) /\ Holding' = Holding \ S
  <2>1. PICK S \in SUBSET Holding, v \in Verdicts :
               fate' = Counted(S, v) /\ Holding' = Holding \ S
    BY <1>8
  <2>2. /\ \A b \in S : fate'[b] = <<v>>
        /\ \A b \in Ids \ S : fate'[b] = fate[b]
    <3>1. S \in SUBSET Ids /\ \A b \in S : fate[b] = <<>>
      BY <1>3
    <3> QED BY <1>12, <2>1, <3>1, Zenon
  <2>3. CASE S = {}
    <3>1. Holding' = Holding
      BY <2>1, <2>3
    <3>2. fate' \in [Ids -> Seq(Verdicts)]
      BY <1>1 DEF Inv, Counts
    <3>3. fate' = fate
      BY <1>3, <2>2, <2>3, <3>2
    <3> QED BY <1>7, <3>1, <3>3
  <2>4. CASE S # {}
    <3>1. \A b \in S : Book[b] = "held"
      BY <1>2, <1>3
    <3>2. <<v>> # <<>> /\ <<v>>[1] = v
      OBVIOUS
    <3>3. Book' = [b \in Ids |-> IF b \in S THEN v ELSE Book[b]]
      BY <1>2, <2>1, <2>2, <3>2
    <3>4. Closed' = Closed
      BY <1>3, <2>4, ClosedStep
    <3> QED BY <1>3, <1>6, <2>4, <3>1, <3>3, <3>4
  <2> QED BY <2>3, <2>4
<1>9. ASSUME bt = "submit"
      PROVE  /\ IdsOf(found) \in SUBSET Ids /\ IdsOf(found) # {}
             /\ \A b \in IdsOf(found) : fate[b] = <<>> /\ b \notin Holding /\ Book[b] = "new"
  <2>1. IdsOf(found) \in SUBSET Ids
    BY IdsAreIds DEF Inv, Holders
  <2>2. IdsOf(found) # {}
    <3>1. 1 \in 1..Len(found)
      BY <1>9, EmptySeq DEF Inv, Holders, Counts
    <3> QED BY <3>1 DEF IdsOf
  <2>3. \A b \in IdsOf(found) : fate[b] = <<>> /\ b \notin Holding
    BY <1>9 DEF Inv, Counts
  <2> QED BY <1>2, <2>1, <2>2, <2>3
<1>10. CASE /\ bt = "submit" /\ ~stopped /\ ~stopped' /\ fate' = fate
            /\ Holding' = Holding \cup IdsOf(found)
  <2>1. Closed' = Closed /\ ~Closed
    BY <1>10 DEF Closed
  <2>2. Book' = [b \in Ids |-> IF b \in IdsOf(found) THEN "held" ELSE Book[b]]
    BY <1>2, <1>9, <1>10
  <2> QED BY <1>5, <1>9, <1>10, <2>1, <2>2
<1>11. CASE bt = "submit" /\ fate' = Counted(IdsOf(found), "queue_full") /\ Holding' = Holding
  <2> DEFINE S == IdsOf(found)
  <2>1. S \in SUBSET Ids /\ S # {} /\ "queue_full" \in Verdicts
        /\ \A b \in S : fate[b] = <<>> /\ b \notin Holding /\ Book[b] = "new"
    BY <1>9, <1>11 DEF Verdicts
  <2> HIDE DEF S
  <2>2. /\ \A b \in S : fate'[b] = <<"queue_full">>
        /\ \A b \in Ids \ S : fate'[b] = fate[b]
    <3>1. fate' = Counted(S, "queue_full")
      BY <1>11 DEF S
    <3> QED BY <1>12, <2>1, <3>1, Zenon
  <2>3. <<"queue_full">> # <<>> /\ <<"queue_full">>[1] = "queue_full" /\ "queue_full" # "held"
    OBVIOUS
  <2>4. Book' = [b \in Ids |-> IF b \in S THEN "queue_full" ELSE Book[b]]
    BY <1>2, <1>11, <2>1, <2>2, <2>3
  <2>5. Closed' = Closed
    <3>1. fate' # fate
      BY <2>1, <2>2, <2>3
    <3> QED BY <3>1, ClosedStep
  <2> QED BY <1>5, <2>1, <2>3, <2>4, <2>5
<1> QED BY <1>1, <1>7, <1>8, <1>10, <1>11 DEF StepOK, Handled

\* Every burst handed to the isolation stage is held by it until it is counted, and
\* is counted once, whoever drains the queue and whenever a submit meets a stop;
\* once the worker has ended nothing is held (isolation.py, submit and stop).
THEOREM EveryBurstIsCountedOnce == Spec => HandedOver
<1>1. Init => CountedOnce!Init
  <2> SUFFICES ASSUME Init PROVE CountedOnce!Init
    OBVIOUS
  <2>1. Counts /\ wk = "check" /\ Holding = {} /\ \A b \in Ids : fate[b] = <<>>
    <3>1. QueuedIn(<<>>) = {} /\ IdsOf(<<>>) = {} /\ IdsOfWorks(<<>>) = {}
      BY DEF QueuedIn, IdsOf, IdsOfWorks
    <3>2. Holding = {}
      BY <3>1, HoldingIs DEF Init
    <3> QED BY <3>2, InvInit DEF Init, Inv
  <2>2. Book = [b \in Ids |-> "new"]
    BY <2>1, BookIs
  <2> QED BY <2>1, <2>2 DEF CountedOnce!Init, Book
<1> QED BY <1>1, LedgerStep, Invariance, PTL DEF Spec, HandedOver, CountedOnce!Spec

----------------------------------------------------------------------------
\* A lossless replay that runs, with the ring it was given.
Replaying == Lossless /\ running /\ gen = 1 /\ bt # "dead" /\ RingSuffices

\* Nothing has been reconfigured, halted or stopped.
Steady ==
  /\ Ring = 1 /\ rxGen = 1 /\ btGen = 1 /\ on /\ ~stopped
  /\ rx \in {"read", "lead", "put"} /\ bt # "off"
  /\ stop = [p \in Stoppers |-> "idle"] /\ lead = Capacity - Reserve

\* How far the burst thread has come with the grid at hand, and how far the
\* receiver has come with the chunk whose grid it has put.
Busy == bt \in {"submit", "idle", "publish"}
Base == IF Busy THEN BtEnd ELSE DoneEnd
Handed == rings[1] - (IF rx = "put" THEN Chunk ELSE 0)

\* The grids between the receiver and the burst thread follow each other without
\* a gap, the receiver is no further ahead than the lead lets it, and the last
\* evaluation is less than an interval behind.
Chained ==
  /\ \A i \in 1..Len(grids) :
       /\ grids[i].ring = 1
       /\ grids[i].at = IF i = 1 THEN Base ELSE grids[i - 1].at + Chunk
  /\ Handed = IF grids = <<>> THEN Base ELSE grids[Len(grids)].at + Chunk
  /\ Busy => grid.at = DoneEnd
  /\ rings[1] <= DoneEnd + lead
  /\ seen # None => Base < seen + Interval

\* The bursts at hand begin near the grid at hand, and are read from its ring.
Near(b) == b.start + Interval + Margin + MaxLen > DoneEnd
NearBursts ==
  /\ bt = "submit" => \A i \in 1..Len(found) : Near(found[i])
  /\ bt # "idle" => queue = <<>> /\ wk \in {"check", "get"}
  /\ \A i \in 1..Len(queue) :
       queue[i].ring = 1 /\ \A k \in 1..Len(queue[i].cands) : Near(queue[i].cands[k])
  /\ wk \in {"snap", "one"} => batch.ring = 1
  /\ \A i \in 1..Len(unread) : Near(unread[i])
  /\ \A i \in 1..Len(lazy) : Near(lazy[i])

\* Nothing read so far had been overwritten.
NoneOverwritten ==
  /\ \A i \in 1..Len(ready) : ready[i].data # "overwritten"
  /\ \A b \in Ids : \A i \in 1..Len(fate[b]) : fate[b][i] # "overwritten"

ReplayInv == Replaying => Steady /\ Chained /\ NearBursts /\ NoneOverwritten

LEMMA ConstantsAreNat ==
  /\ {Chunk, Capacity, Interval, MaxLen, QueueMax, GridMax} \subseteq Nat \ {0}
  /\ {Guard, Margin, Longest, MaxBursts} \subseteq Nat
  /\ Reserve = Interval + Margin + MaxLen + 2 * Guard
BY IsolationAssumption DEF Reserve

\* A replay that still runs ran before, too.
LEMMA ReplayingBefore ==
  ASSUME Types, [Next]_vars, Replaying' PROVE Replaying
<1> USE DEF stream, detector, worker, stage
<1>1. CASE Rx
  BY <1>1 DEF Rx, RxTop, RxHalted, RxWrite, RxPut, Replaying, Lossless
<1>2. CASE Bt
  <2>1. CASE BtTop \/ BtTake
    BY <2>1 DEF BtTop, BtTake, Replaying, Lossless
  <2>2. CASE BtSubmit \/ BtIdle \/ BtPublish
    BY <2>2 DEF BtSubmit, BtIdle, BtPublish, Replaying, Lossless
  <2> QED BY <1>2, <2>1, <2>2 DEF Bt
<1>3. CASE Wk
  BY <1>3 DEF Wk, WkCheck, WkGet, WkSnap, WkOne, WkDrain, Replaying, Lossless
<1>4. ASSUME NEW p \in Stoppers, Stop(p) PROVE Replaying
  BY <1>4 DEF Stop, StopBegin, StopDrains, StopPuts, StopJoins, Replaying, Lossless
<1>5. CASE Reconfigure
  <2>1. gen' = 2
    BY <1>5 DEF Reconfigure
  <2> QED BY <2>1 DEF Replaying
<1>6. CASE Shutdown \/ StopStage
  BY <1>6 DEF Shutdown, StopStage, Replaying, Lossless
<1>7. CASE UNCHANGED vars
  BY <1>7 DEF vars, Replaying, Lossless
<1> QED BY <1>1, <1>2, <1>3, <1>4, <1>5, <1>6, <1>7 DEF Next

\* The numbers of a steady replay.
LEMMA SteadyNumbers ==
  ASSUME Types, Steady
  PROVE  /\ rings[1] \in Nat /\ DoneEnd \in Nat /\ grid.at \in Nat /\ BtEnd = grid.at + Chunk
         /\ Base \in Nat /\ lead \in Int /\ seen \in Int /\ 1 \in 1..Len(rings)
<1>1. rings[1] \in Nat /\ 1 \in 1..Len(rings)
  BY RingsGrow DEF Types, Steady, Ring
<1>2. DoneEnd \in Nat /\ grid.at \in Nat
  BY DEF Types, DoneEnd, Places
<1>3. BtEnd = grid.at + Chunk /\ BtEnd \in Nat
  BY <1>2, ConstantsAreNat DEF BtEnd
<1>4. lead \in Int /\ seen \in Int
  BY DEF Types, None
<1> QED BY <1>1, <1>2, <1>3, <1>4 DEF Base

\* A burst that begins near the grid at hand is still in the ring.
LEMMA NearIsInRing ==
  ASSUME Types, Replaying, Steady, Chained, NEW b \in Bursts, Near(b)
  PROVE  Read(1, b) # "overwritten"
<1>1. /\ rings[1] \in Nat /\ DoneEnd \in Nat /\ b.start \in Nat
      /\ rings[1] <= DoneEnd + (Capacity - Reserve)
      /\ b.start + Interval + Margin + MaxLen > DoneEnd
  BY SteadyNumbers DEF Steady, Chained, Near, Bursts
<1>2. rings[1] - Capacity <= b.start - Guard
  BY <1>1, ConstantsAreNat
<1>3. ReadStart(b) >= Oldest(1)
  <2>1. Guard \in Nat /\ Capacity \in Nat
    BY ConstantsAreNat
  <2>2. \A m, k \in Int : m <= k => LargerOf(0, k) >= LargerOf(0, m)
    BY DEF LargerOf
  <2>3. b.start - Guard \in Int /\ rings[1] - Capacity \in Int
    BY <1>1, <2>1
  <2> QED BY <1>2, <2>2, <2>3 DEF ReadStart, Oldest
<1>4. ReadStart(b) \in Int /\ Oldest(1) \in Int
  BY <1>1, ConstantsAreNat DEF ReadStart, Oldest, LargerOf
<1> QED BY <1>3, <1>4 DEF Read

\* The bursts of an evaluation begin near its grid.
LEMMA CompletedAreNear ==
  ASSUME RingSuffices, NEW at \in Nat, NEW from \in Nat, from + Interval > at,
         NEW n \in Nat, NEW b \in Completed(from, n)
  PROVE  b.start + Interval + Margin + MaxLen > at
<1>1. b.start \in Nat /\ b.stop \in Nat /\ b.stop - b.start <= Longest /\ b.stop >= from - Margin
  BY DEF Completed
<1>2. Longest <= MaxLen
  BY DEF RingSuffices
<1> QED BY <1>1, <1>2, ConstantsAreNat

\* What a step of a replay that still runs has to show.
ReplayOK == Steady' /\ Chained' /\ NearBursts' /\ NoneOverwritten'

LEMMA ReplayRx ==
  ASSUME Inv, Replaying, Steady, Chained, NearBursts, NoneOverwritten, Rx
  PROVE  ReplayOK
<1> USE DEF stream, detector, worker, stage
<1>1. /\ rings[1] \in Nat /\ DoneEnd \in Nat /\ Base \in Nat /\ lead \in Int
      /\ 1 \in 1..Len(rings) /\ Ring = 1 /\ Len(rings) = 1
  BY SteadyNumbers DEF Inv, Steady, Ring
<1>2. Chunk \in Nat \ {0}
  BY ConstantsAreNat
<1>3. /\ UNCHANGED <<happens, running, gen, detector, worker, queue, stopped, fate>>
  BY DEF Rx, RxTop, RxHalted, RxWrite, RxPut
<1>4. ASSUME UNCHANGED rxGen
      PROVE  /\ DoneEnd' = DoneEnd /\ Base' = Base /\ (Busy' <=> Busy)
             /\ NearBursts' /\ NoneOverwritten'
  BY <1>3, <1>4 DEF DoneEnd, Base, Busy, BtEnd, NearBursts, Near, NoneOverwritten
<1>5. CASE RxTop
  <2>1. rx = "read" /\ rx' = "lead" /\ UNCHANGED <<rings, rxGen, lead, on, stop, grids>>
    BY <1>5 DEF RxTop, Replaying, Steady
  <2>2. Steady'
    BY <1>3, <2>1 DEF Steady, Ring
  <2>3. Handed' = Handed
    BY <2>1 DEF Handed
  <2>4. Chained'
    BY <1>3, <1>4, <2>1, <2>3 DEF Chained
  <2> QED BY <1>4, <2>1, <2>2, <2>4 DEF ReplayOK
<1>6. CASE RxHalted
  BY <1>6 DEF RxHalted, Steady
<1>7. CASE RxWrite
  <2>1. lead # None
    <3>1. Capacity - Reserve >= 2 * Chunk /\ Capacity \in Nat /\ Reserve \in Nat
      BY ConstantsAreNat DEF Replaying, RingSuffices
    <3> QED BY <1>2, <3>1 DEF Steady, None
  <2>2. /\ rx = "lead" /\ rx' = "put" /\ rings' = [rings EXCEPT ![Ring] = @ + Chunk]
        /\ UNCHANGED <<lead, rxGen, on, stop, grids>>
        /\ rings[Ring] + Chunk - DoneEnd <= lead
    BY <1>7, <2>1 DEF RxWrite, Replaying, Steady
  <2>3. rings'[1] = rings[1] + Chunk /\ Ring' = 1
    BY <1>1, <2>2, RingsGrow DEF Ring, Inv, Types
  <2>4. rings'[1] <= DoneEnd + lead
    BY <1>1, <1>2, <2>2, <2>3
  <2>5. Handed' = Handed
    BY <1>1, <1>2, <2>2, <2>3 DEF Handed
  <2>6. Steady'
    BY <1>3, <2>2, <2>3 DEF Steady
  <2>7. Chained'
    BY <1>3, <1>4, <2>2, <2>4, <2>5 DEF Chained
  <2> QED BY <1>4, <2>2, <2>6, <2>7 DEF ReplayOK
<1>8. CASE RxPut
  <2> DEFINE place == [ring |-> Ring, at |-> rings[Ring] - Chunk]
  <2>1. /\ rx = "put" /\ rx' = "read" /\ grids' = Append(grids, place)
        /\ UNCHANGED <<rings, rxGen, lead, on, stop>>
    BY <1>8 DEF RxPut, Replaying
  <2>2. place.ring = 1 /\ place.at = Handed /\ place \in Places /\ Handed = rings[1] - Chunk
        /\ Handed' = rings[1]
    <3>1. rings[1] - Chunk \in Nat
      BY <1>1, <1>2, <2>1 DEF Inv, Types
    <3> QED BY <1>1, <2>1, <3>1 DEF Handed, Places
  <2>3. Steady'
    BY <1>3, <2>1 DEF Steady, Ring
  <2>4. /\ Len(grids') = Len(grids) + 1 /\ Len(grids) \in Nat
        /\ \A i \in 1..Len(grids) : grids'[i] = grids[i]
        /\ grids'[Len(grids) + 1] = place /\ grids' # <<>>
    BY <2>1, <2>2, AppendProperties, LenProperties DEF Inv, Types
  <2> HIDE DEF place
  <2>5. Handed' = place.at + Chunk
    BY <1>1, <1>2, <2>2
  <2>6. place.at = IF grids = <<>> THEN Base ELSE grids[Len(grids)].at + Chunk
    BY <2>2 DEF Chained
  <2>7. ASSUME NEW i \in 1..Len(grids')
        PROVE  /\ grids'[i].ring = 1
               /\ grids'[i].at = IF i = 1 THEN Base ELSE grids'[i - 1].at + Chunk
    <3>1. CASE i \in 1..Len(grids)
      <4>1. i # 1 => i - 1 \in 1..Len(grids)
        BY <2>4, <3>1
      <4> QED BY <2>4, <3>1, <4>1 DEF Chained
    <3>2. CASE i = Len(grids) + 1
      <4>1. CASE grids = <<>>
        <5>1. i = 1
          BY <3>2, <4>1
        <5> QED BY <2>2, <2>4, <2>6, <3>2, <4>1, <5>1
      <4>2. CASE grids # <<>>
        <5>1. Len(grids) \in 1..Len(grids) /\ i # 1 /\ i - 1 = Len(grids)
          BY <2>4, <3>2, <4>2, EmptySeq DEF Inv, Types
        <5> QED BY <2>2, <2>4, <2>6, <3>2, <4>2, <5>1
      <4> QED BY <4>1, <4>2
    <3> QED BY <2>4, <3>1, <3>2
  <2>8. Handed' = IF grids' = <<>> THEN Base ELSE grids'[Len(grids')].at + Chunk
    BY <2>4, <2>5
  <2>9. Chained'
    BY <1>3, <1>4, <2>1, <2>7, <2>8 DEF Chained
  <2> QED BY <1>4, <2>1, <2>3, <2>9 DEF ReplayOK
<1> QED BY <1>5, <1>6, <1>7, <1>8 DEF Rx

LEMMA ReplayTake ==
  ASSUME Inv, Replaying, Steady, Chained, NearBursts, NoneOverwritten, BtTake
  PROVE  ReplayOK
<1> DEFINE g == Head(grids)
           n == g.at + Chunk
           from == IF seen = None \/ g.ring # grid.ring THEN g.at ELSE seen
<1>1. /\ bt = "get" /\ grids # <<>> /\ grids' = Tail(grids) /\ grid' = g /\ BtFeeds(g)
      /\ bt' \in {"submit", "publish"}
      /\ UNCHANGED <<happens, running, gen, rings, rx, rxGen, lead, btGen, done, on, wk, batch,
                     unread, lazy, ready, stopped, queue, stop, fate>>
  BY DEF BtTake, BtFeeds, worker, stage
<1>2. /\ rings[1] \in Nat /\ DoneEnd \in Nat /\ lead \in Int /\ seen \in Int
      /\ seen # None => seen \in Nat
  BY SteadyNumbers DEF Inv, Types
<1>3. Chunk \in Nat \ {0} /\ Interval \in Nat \ {0}
  BY ConstantsAreNat
<1>4. /\ Len(grids) \in Nat \ {0} /\ Len(grids') = Len(grids) - 1 /\ g = grids[1] /\ g \in Places
      /\ \A i \in 1..Len(grids') : grids'[i] = grids[i + 1]
      /\ grids' = <<>> <=> Len(grids') = 0
  <2>1. /\ grids \in Seq(Places) /\ g \in Places /\ grids' \in Seq(Places) /\ g = grids[1]
        /\ Len(grids') = Len(grids) - 1
        /\ \A i \in 1..Len(grids') : grids'[i] = grids[i + 1]
    BY <1>1, HeadTailProperties DEF Inv, Types
  <2>2. Len(grids) \in Nat \ {0}
    BY <1>1, <2>1, LenProperties, EmptySeq
  <2>3. grids' = <<>> <=> Len(grids') = 0
    BY <2>1, EmptySeq
  <2> QED BY <2>1, <2>2, <2>3
<1>5. /\ g.ring = 1 /\ g.at = DoneEnd /\ Base = DoneEnd /\ n = DoneEnd + Chunk
      /\ seen # None => DoneEnd < seen + Interval
  <2>1. 1 \in 1..Len(grids) /\ Base = DoneEnd
    BY <1>1, <1>4 DEF Base, Busy
  <2> QED BY <1>4, <2>1 DEF Chained
<1>6. from \in Nat /\ from + Interval > DoneEnd /\ n \in Nat
  BY <1>2, <1>3, <1>5
<1>7. /\ DoneEnd' = DoneEnd /\ Base' = n /\ grid'.at = DoneEnd /\ Handed' = Handed
  BY <1>1, <1>5 DEF DoneEnd, Base, Busy, BtEnd, Handed
<1>8. Steady'
  BY <1>1 DEF Steady, Ring
<1>9. seen' # None => Base' < seen' + Interval
  <2>1. (seen' = from /\ n - from < Interval) \/ seen' = n
    BY <1>1 DEF BtFeeds
  <2> HIDE DEF from, n
  <2> QED BY <1>3, <1>6, <1>7, <2>1
<1>10. ASSUME bt' = "submit", NEW i \in 1..Len(found')
       PROVE  found'[i].start + Interval + Margin + MaxLen > DoneEnd
  <2>1. PICK k \in 0..BatchMax :
          /\ made + k <= MaxBursts
          /\ \E bs \in [1..k -> Completed(from, n)] : found' = Numbered(bs, g.ring)
    <3>1. \/ bt' = "publish"
          \/ \E k \in 0..BatchMax :
               /\ made + k <= MaxBursts
               /\ \E bs \in [1..k -> Completed(from, n)] : found' = Numbered(bs, g.ring)
      BY <1>1, Zenon DEF BtFeeds
    <3> QED BY <1>10, <3>1
  <2>2. PICK bs \in [1..k -> Completed(from, n)] : found' = Numbered(bs, g.ring)
    BY <2>1
  <2>3. k \in Nat /\ made \in Nat /\ g.ring \in Nat
    <3>1. k \in Nat
      OBVIOUS
    <3>2. made \in Nat
      BY DEF Inv, Holders
    <3> QED BY <1>5, <3>1, <3>2
  <2> HIDE DEF from, n, g
  <2>4. Len(found') = k /\ \A j \in 1..k : found'[j].start = bs[j].start
    <3>1. /\ Len(Numbered(bs, g.ring)) = k
          /\ \A j \in 1..k : Numbered(bs, g.ring)[j].start = bs[j].start
      BY <1>6, <2>1, <2>3, NumberedAreNew
    <3> QED BY <2>2, <3>1
  <2>5. bs[i] \in Completed(from, n)
    BY <2>2, <2>4
  <2>6. bs[i].start + Interval + Margin + MaxLen > DoneEnd
    BY <1>2, <1>6, <2>5, CompletedAreNear DEF Replaying
  <2> QED BY <2>4, <2>6
<1>11. NearBursts'
  <2>1. bt # "idle" /\ bt' # "idle"
    BY <1>1
  <2> QED BY <1>1, <1>7, <1>10, <2>1 DEF NearBursts, Near
<1>12. ASSUME NEW i \in 1..Len(grids')
       PROVE  /\ grids'[i].ring = 1
              /\ grids'[i].at = IF i = 1 THEN n ELSE grids'[i - 1].at + Chunk
  <2>1. i + 1 \in 1..Len(grids) /\ i + 1 # 1 /\ (i + 1) - 1 = i
    BY <1>4
  <2>2. grids[i + 1].ring = 1 /\ grids[i + 1].at = grids[i].at + Chunk
    BY <2>1 DEF Chained
  <2>3. i # 1 => i - 1 \in 1..Len(grids') /\ (i - 1) + 1 = i
    BY <1>4
  <2> QED BY <1>4, <2>2, <2>3
<1>13. Handed' = IF grids' = <<>> THEN Base' ELSE grids'[Len(grids')].at + Chunk
  <2>1. Handed = grids[Len(grids)].at + Chunk
    BY <1>1 DEF Chained
  <2>2. CASE Len(grids') = 0
    <3>1. Len(grids) = 1
      BY <1>4, <2>2
    <3>2. Handed = n
      BY <1>4, <2>1, <3>1
    <3> QED BY <1>4, <1>7, <2>2, <3>2
  <2>3. CASE Len(grids') # 0
    <3>1. Len(grids') \in 1..Len(grids') /\ Len(grids') + 1 = Len(grids)
      BY <1>4, <2>3
    <3> QED BY <1>4, <1>7, <2>1, <2>3, <3>1
  <2> QED BY <2>2, <2>3
<1>14. Chained'
  BY <1>1, <1>7, <1>9, <1>12, <1>13 DEF Chained
<1>15. NoneOverwritten'
  BY <1>1 DEF NoneOverwritten
<1> QED BY <1>8, <1>11, <1>14, <1>15 DEF ReplayOK

LEMMA ReplayBt ==
  ASSUME Inv, Replaying, Steady, Chained, NearBursts, NoneOverwritten, Bt, Replaying'
  PROVE  ReplayOK
<1> USE DEF stream, detector, worker, stage
<1>1. /\ rings[1] \in Nat /\ DoneEnd \in Nat /\ grid.at \in Nat /\ Ring = 1 /\ ~stopped
      /\ BtEnd = grid.at + Chunk
  BY SteadyNumbers DEF Inv, Steady
<1>2. CASE BtTop
  <2>1. bt' = "dead"
    BY <1>2 DEF BtTop, Replaying, Steady
  <2> QED BY <2>1 DEF Replaying
<1>3. CASE BtTake
  BY <1>3, ReplayTake
<1>4. CASE BtSubmit
  <2>1. /\ bt = "submit" /\ bt' = "idle" /\ Submit(found)
        /\ UNCHANGED <<happens, running, gen, rings, rx, rxGen, grids, lead, btGen, grid, seen,
                       done, on, wk, batch, unread, lazy, ready, stopped, stop>>
        /\ queue = <<>> /\ wk \in {"check", "get"}
    BY <1>4 DEF BtSubmit, Replaying, NearBursts
  <2>2. /\ DoneEnd' = DoneEnd /\ Base' = Base /\ Handed' = Handed /\ Busy /\ Busy'
    BY <2>1 DEF DoneEnd, Base, Busy, BtEnd, Handed
  <2>3. Steady' /\ Chained'
    BY <2>1, <2>2 DEF Steady, Chained, Ring
  <2>4. queue' = Append(<<>>, [ring |-> 1, cands |-> found]) /\ fate' = fate
    <3>1. ~(Len(queue) >= QueueMax)
      BY <2>1, ConstantsAreNat
    <3> QED BY <1>1, <2>1, <3>1 DEF Submit
  <2>5. Len(queue') = 1 /\ queue'[1].ring = 1 /\ queue'[1].cands = found
    BY <2>4
  <2>6. NearBursts'
    BY <2>1, <2>2, <2>5 DEF NearBursts, Near
  <2>7. NoneOverwritten'
    BY <2>1, <2>4 DEF NoneOverwritten
  <2> QED BY <2>3, <2>6, <2>7 DEF ReplayOK
<1>5. CASE BtIdle
  <2>1. /\ bt = "idle" /\ bt' = "publish" /\ Idle
        /\ UNCHANGED <<happens, running, gen, rings, rx, rxGen, grids, lead, btGen, grid, seen,
                       found, done, on, wk, batch, unread, lazy, ready, stopped, queue, stop, fate>>
    BY <1>1, <1>5 DEF BtIdle, Replaying
  <2>2. /\ DoneEnd' = DoneEnd /\ Base' = Base /\ Handed' = Handed /\ Busy /\ Busy'
    BY <2>1 DEF DoneEnd, Base, Busy, BtEnd, Handed
  <2>3. Steady' /\ Chained'
    BY <2>1, <2>2 DEF Steady, Chained, Ring
  <2>4. queue = <<>> /\ wk \in {"check", "get"}
    BY <1>1, <2>1 DEF Idle, Inv, Control
  <2>5. NearBursts'
    BY <2>1, <2>2, <2>4 DEF NearBursts, Near
  <2>6. NoneOverwritten'
    BY <2>1 DEF NoneOverwritten
  <2> QED BY <2>3, <2>5, <2>6 DEF ReplayOK
<1>6. CASE BtPublish
  <2>1. /\ bt = "publish" /\ bt' = "get" /\ done' = [gen |-> 1, end |-> BtEnd]
        /\ UNCHANGED <<happens, running, gen, rings, rx, rxGen, grids, lead, btGen, grid, seen,
                       found, on, wk, batch, unread, lazy, ready, stopped, queue, stop, fate>>
    BY <1>6 DEF BtPublish, Steady, Replaying
  <2>2. /\ DoneEnd' = BtEnd /\ Base = BtEnd /\ Base' = BtEnd /\ Handed' = Handed /\ ~Busy'
        /\ BtEnd = DoneEnd + Chunk
    BY <1>1, <2>1 DEF DoneEnd, Base, Busy, Handed, Steady, Chained
  <2>3. Steady'
    BY <2>1 DEF Steady, Ring
  <2>4. rings'[1] <= DoneEnd' + lead'
    <3>1. lead \in Int /\ Chunk \in Nat
      BY SteadyNumbers, ConstantsAreNat DEF Inv
    <3>2. rings[1] <= DoneEnd + lead
      BY DEF Chained
    <3>3. rings[1] <= DoneEnd + Chunk + lead
      BY <1>1, <3>1, <3>2
    <3> QED BY <2>1, <2>2, <3>3
  <2>5. Chained'
    BY <2>1, <2>2, <2>4 DEF Chained
  <2>6. queue = <<>> /\ wk \in {"check", "get"} /\ unread = <<>> /\ lazy = <<>>
    BY <2>1 DEF NearBursts, Inv, Control
  <2>7. NearBursts'
    BY <2>1, <2>6 DEF NearBursts
  <2>8. NoneOverwritten'
    BY <2>1 DEF NoneOverwritten
  <2> QED BY <2>3, <2>5, <2>7, <2>8 DEF ReplayOK
<1> QED BY <1>2, <1>3, <1>4, <1>5, <1>6 DEF Bt

\* Counting as anything else leaves none counted as overwritten.
LEMMA CountedOtherwise ==
  ASSUME fate \in [Ids -> Seq(Verdicts)], NoneOverwritten, NEW S, NEW v \in Verdicts,
         v # "overwritten", fate' = Counted(S, v)
  PROVE  \A b \in Ids : \A i \in 1..Len(fate'[b]) : fate'[b][i] # "overwritten"
<1> SUFFICES ASSUME NEW b \in Ids, NEW i \in 1..Len(fate'[b]) PROVE fate'[b][i] # "overwritten"
  OBVIOUS
<1>1. fate[b] \in Seq(Verdicts) /\ \A j \in 1..Len(fate[b]) : fate[b][j] # "overwritten"
  BY DEF NoneOverwritten
<1>2. fate'[b] = IF b \in S THEN Append(fate[b], v) ELSE fate[b]
  BY DEF Counted
<1>3. /\ Len(Append(fate[b], v)) = Len(fate[b]) + 1 /\ Len(fate[b]) \in Nat
      /\ \A j \in 1..Len(fate[b]) : Append(fate[b], v)[j] = fate[b][j]
      /\ Append(fate[b], v)[Len(fate[b]) + 1] = v
  BY <1>1, AppendProperties, LenProperties
<1> QED BY <1>1, <1>2, <1>3

LEMMA ReplayGet ==
  ASSUME Inv, Replaying, Steady, Chained, NearBursts, NoneOverwritten, WkGet
  PROVE  /\ unread' \in Seq(Bursts) /\ batch'.ring = 1 /\ wk' = "snap" /\ bt = "idle"
         /\ \A i \in 1..Len(unread') : Near(unread'[i])
         /\ \A i \in 1..Len(queue') : queue'[i].ring = 1
              /\ \A k \in 1..Len(queue'[i].cands) : Near(queue'[i].cands[k])
         /\ \A b \in Ids : \A i \in 1..Len(fate'[b]) : fate'[b][i] # "overwritten"
<1>1. /\ wk = "get" /\ queue # <<>> /\ queue' = Tail(queue) /\ bt = "idle" /\ ~stopped
  BY DEF WkGet, NearBursts, Steady
<1>2. /\ Head(queue) \in Batches /\ Head(queue) = queue[1] /\ Len(queue) \in Nat \ {0}
      /\ \A i \in 1..Len(Tail(queue)) : Tail(queue)[i] = queue[i + 1] /\ i + 1 \in 1..Len(queue)
  BY <1>1, TailBatch DEF Inv, Holders
<1>3. 1 \in 1..Len(queue)
  BY <1>2
<1> DEFINE cands == Head(queue).cands
<1>4. /\ batch' = Head(queue) /\ Gate(cands) /\ wk' = "snap"
      /\ cands \in Seq(Bursts) /\ budget.used \in Nat
  <2>1. Head(queue) # StopMark
    BY <1>1, <1>2, <1>3 DEF Inv, Control
  <2> QED BY <1>2, <2>1 DEF WkGet, Batches, Inv, Types
<1>5. batch'.ring = 1 /\ \A k \in 1..Len(cands) : Near(cands[k])
  BY <1>2, <1>3, <1>4 DEF NearBursts
<1>6. \A i \in 1..Len(queue') : queue'[i].ring = 1
              /\ \A k \in 1..Len(queue'[i].cands) : Near(queue'[i].cands[k])
  BY <1>1, <1>2 DEF NearBursts
<1> HIDE DEF cands
<1>7. PICK p \in Picks(cands) :
        /\ unread' = [i \in DOMAIN p |-> cands[p[i]]]
        /\ fate' = Counted(IdsOf(cands) \ {cands[p[i]].id : i \in DOMAIN p}, "gated_out")
  BY <1>4 DEF Gate
<1>8. PICK k \in Nat : p \in [1..k -> 1..Len(cands)]
  BY <1>4, PickFacts
<1>9. \A i \in 1..k : cands[p[i]] \in Bursts /\ Near(cands[p[i]])
  BY <1>4, <1>5, <1>8, ElementOfSeq
<1>10. unread' \in Seq(Bursts) /\ Len(unread') = k /\ \A i \in 1..k : unread'[i] = cands[p[i]]
  BY <1>7, <1>8, <1>9
<1>11. \A i \in 1..Len(unread') : Near(unread'[i])
  BY <1>9, <1>10
<1>12. \A b \in Ids : \A i \in 1..Len(fate'[b]) : fate'[b][i] # "overwritten"
  <2>1. "gated_out" \in Verdicts /\ "gated_out" # "overwritten"
    BY DEF Verdicts
  <2> QED BY <1>7, <2>1, CountedOtherwise DEF Inv, Counts
<1> QED BY <1>1, <1>4, <1>5, <1>6, <1>10, <1>11, <1>12

LEMMA ReplayWk ==
  ASSUME Inv, Replaying, Steady, Chained, NearBursts, NoneOverwritten, Wk
  PROVE  ReplayOK
<1> USE DEF stream, detector, worker, stage
<1>1. /\ UNCHANGED <<happens, running, gen, rings, rx, rxGen, grids, lead, bt, btGen, grid, seen,
                     found, done, on, stopped, thread, stop>>
  BY DEF Wk, WkCheck, WkGet, WkSnap, WkOne, WkDrain
<1>2. /\ DoneEnd' = DoneEnd /\ Steady' /\ Chained'
  <2>1. /\ DoneEnd' = DoneEnd /\ Base' = Base /\ Handed' = Handed /\ (Busy <=> Busy')
    BY <1>1 DEF DoneEnd, Base, Busy, BtEnd, Handed
  <2> QED BY <1>1, <2>1 DEF Steady, Chained, Ring
<1>3. ~stopped /\ fate \in [Ids -> Seq(Verdicts)]
  BY DEF Steady, Inv, Counts
<1>4. CASE WkCheck
  <2>1. wk = "check" /\ wk' = "get" /\ UNCHANGED <<batch, unread, lazy, ready, queue, fate>>
    BY <1>3, <1>4 DEF WkCheck
  <2> QED BY <1>1, <1>2, <2>1 DEF ReplayOK, NearBursts, Near, NoneOverwritten
<1>5. CASE WkGet
  <2>1. /\ UNCHANGED <<lazy, ready>> /\ batch'.ring = 1 /\ wk' = "snap" /\ bt = "idle"
        /\ \A i \in 1..Len(unread') : Near(unread'[i])
        /\ \A i \in 1..Len(queue') : queue'[i].ring = 1
             /\ \A k \in 1..Len(queue'[i].cands) : Near(queue'[i].cands[k])
        /\ \A b \in Ids : \A i \in 1..Len(fate'[b]) : fate'[b][i] # "overwritten"
    <3>1. UNCHANGED <<lazy, ready>>
      BY <1>5 DEF WkGet
    <3> QED BY <1>5, <3>1, ReplayGet
  <2>2. NearBursts'
    BY <1>1, <1>2, <2>1 DEF NearBursts, Near
  <2>3. NoneOverwritten'
    BY <2>1 DEF NoneOverwritten
  <2> QED BY <1>2, <2>2, <2>3 DEF ReplayOK
<1>6. CASE WkSnap
  <2>1. /\ wk = "snap" /\ bt = "idle" /\ batch.ring = 1 /\ wk' \in {"snap", "one"}
        /\ UNCHANGED <<batch, queue, fate>>
        /\ unread \in Seq(Bursts) /\ lazy \in Seq(Bursts) /\ ready \in Seq(Works)
    BY <1>6 DEF WkSnap, NearBursts, Inv, Holders
  <2>2. CASE unread = <<>>
    <3>1. UNCHANGED <<unread, lazy, ready>>
      BY <1>6, <2>2 DEF WkSnap
    <3> QED BY <1>1, <1>2, <2>1, <3>1 DEF ReplayOK, NearBursts, Near, NoneOverwritten
  <2>3. CASE unread # <<>>
    <3> DEFINE b == Head(unread)
    <3>1. /\ b \in Bursts /\ b = unread[1] /\ 1 \in 1..Len(unread)
          /\ \A i \in 1..Len(Tail(unread)) : Tail(unread)[i] = unread[i + 1]
                                            /\ i + 1 \in 1..Len(unread)
      <4>1. /\ b \in Bursts /\ b = unread[1] /\ Len(Tail(unread)) = Len(unread) - 1
            /\ \A i \in 1..Len(Tail(unread)) : Tail(unread)[i] = unread[i + 1]
        BY <2>1, <2>3, HeadTailProperties
      <4>2. Len(unread) \in Nat \ {0}
        BY <2>1, <2>3, LenProperties, EmptySeq
      <4> QED BY <4>1, <4>2
    <3>2. Near(b) /\ \A i \in 1..Len(Tail(unread)) : Near(Tail(unread)[i])
      BY <3>1 DEF NearBursts
    <3>3. Read(1, b) # "overwritten"
      BY <3>1, <3>2, NearIsInRing DEF Inv
    <3>4. /\ unread' = Tail(unread)
          /\ \/ lazy' = Append(lazy, b) /\ UNCHANGED ready
             \/ /\ UNCHANGED lazy
                /\ \E d \in {Read(1, b), "failed"} : ready' = Append(ready, [burst |-> b, data |-> d])
      BY <1>6, <2>1, <2>3 DEF WkSnap
    <3> HIDE DEF b
    <3>5. \A i \in 1..Len(lazy') : Near(lazy'[i])
      <4>1. CASE UNCHANGED lazy
        BY <4>1 DEF NearBursts
      <4>2. CASE lazy' = Append(lazy, b)
        <5>1. /\ Len(lazy') = Len(lazy) + 1 /\ Len(lazy) \in Nat
              /\ \A i \in 1..Len(lazy) : lazy'[i] = lazy[i]
              /\ lazy'[Len(lazy) + 1] = b
          BY <2>1, <3>1, <4>2, AppendProperties, LenProperties
        <5> QED BY <3>2, <5>1 DEF NearBursts
      <4> QED BY <3>4, <4>1, <4>2
    <3>6. \A i \in 1..Len(ready') : ready'[i].data # "overwritten"
      <4>1. CASE UNCHANGED ready
        BY <4>1 DEF NoneOverwritten
      <4>2. ASSUME NEW d \in {Read(1, b), "failed"}, ready' = Append(ready, [burst |-> b, data |-> d])
            PROVE  \A i \in 1..Len(ready') : ready'[i].data # "overwritten"
        <5>1. d # "overwritten"
          BY <3>3
        <5>2. /\ Len(ready') = Len(ready) + 1 /\ Len(ready) \in Nat
              /\ \A i \in 1..Len(ready) : ready'[i] = ready[i]
              /\ ready'[Len(ready) + 1] = [burst |-> b, data |-> d]
          <6>1. [burst |-> b, data |-> d] \in Works
            BY <3>1, <3>4 DEF Works, Read
          <6> QED BY <2>1, <4>2, <6>1, AppendProperties, LenProperties
        <5> QED BY <5>1, <5>2 DEF NoneOverwritten
      <4> QED BY <3>4, <4>1, <4>2
    <3>7. NearBursts'
      BY <1>1, <1>2, <2>1, <3>2, <3>4, <3>5 DEF NearBursts, Near
    <3>8. NoneOverwritten'
      BY <2>1, <3>6 DEF NoneOverwritten
    <3> QED BY <1>2, <3>7, <3>8 DEF ReplayOK
  <2> QED BY <2>2, <2>3
<1>7. CASE WkOne
  <2>1. /\ wk = "one" /\ bt = "idle" /\ batch.ring = 1 /\ UNCHANGED <<unread, queue>>
        /\ lazy \in Seq(Bursts) /\ ready \in Seq(Works)
    BY <1>7 DEF WkOne, NearBursts, Inv, Holders
  <2>2. CASE lazy # <<>>
    <3> DEFINE b == Head(lazy)
    <3>1. /\ b \in Bursts /\ b = lazy[1] /\ Len(lazy) \in Nat \ {0}
          /\ Len(Tail(lazy)) = Len(lazy) - 1
          /\ \A i \in 1..Len(Tail(lazy)) : Tail(lazy)[i] = lazy[i + 1]
      BY <2>1, <2>2, HeadTailProperties, LenProperties, EmptySeq
    <3>2. Near(b) /\ \A i \in 1..Len(Tail(lazy)) : Near(Tail(lazy)[i])
      BY <3>1 DEF NearBursts
    <3>3. Read(1, b) # "overwritten"
      BY <3>1, <3>2, NearIsInRing DEF Inv
    <3>4. /\ lazy' = Tail(lazy) /\ UNCHANGED <<ready, wk, batch>>
          /\ \/ fate' = Counted({b.id}, Verdict(b, Read(1, b)))
             \/ fate' = Counted({b.id}, "error")
      BY <1>7, <2>1, <2>2 DEF WkOne
    <3>5. \A v \in {Verdict(b, Read(1, b)), "error"} : v \in Verdicts \ {"overwritten"}
      <4>1. Read(1, b) \in {"read", "unwritten"}
        BY <3>3 DEF Read
      <4>2. Verdict(b, Read(1, b)) \in {"too_long", "isolated", "unwritten"}
        BY <4>1 DEF Verdict
      <4> QED BY <4>2 DEF Verdicts
    <3> HIDE DEF b
    <3>6. \A c \in Ids : \A i \in 1..Len(fate'[c]) : fate'[c][i] # "overwritten"
      BY <1>3, <3>4, <3>5, CountedOtherwise
    <3>7. NearBursts'
      BY <1>1, <1>2, <2>1, <3>2, <3>4 DEF NearBursts, Near
    <3>8. NoneOverwritten'
      BY <3>4, <3>6 DEF NoneOverwritten
    <3> QED BY <1>2, <3>7, <3>8 DEF ReplayOK
  <2>3. CASE lazy = <<>> /\ ready # <<>>
    <3> DEFINE w == Head(ready)
    <3>1. /\ w \in Works /\ w = ready[1] /\ Len(ready) \in Nat \ {0}
          /\ Len(Tail(ready)) = Len(ready) - 1
          /\ \A i \in 1..Len(Tail(ready)) : Tail(ready)[i] = ready[i + 1]
      BY <2>1, <2>3, HeadTailProperties, LenProperties, EmptySeq
    <3>2. /\ w.data \in {"read", "unwritten", "failed"}
          /\ \A i \in 1..Len(Tail(ready)) : Tail(ready)[i].data # "overwritten"
      <4>1. w.data # "overwritten" /\ \A i \in 1..Len(Tail(ready)) : Tail(ready)[i].data # "overwritten"
        BY <3>1 DEF NoneOverwritten
      <4>2. w.data \in {"read", "overwritten", "unwritten", "failed"}
        BY <3>1 DEF Works
      <4> QED BY <4>1, <4>2
    <3>3. /\ ready' = Tail(ready) /\ UNCHANGED <<lazy, wk, batch>>
          /\ \/ fate' = Counted({w.burst.id}, Verdict(w.burst, w.data))
             \/ fate' = Counted({w.burst.id}, "error")
      BY <1>7, <2>3 DEF WkOne
    <3>4. \A v \in {Verdict(w.burst, w.data), "error"} : v \in Verdicts \ {"overwritten"}
      <4>1. Verdict(w.burst, w.data) \in {"too_long", "isolated", "unwritten", "error"}
        BY <3>2 DEF Verdict
      <4> QED BY <4>1 DEF Verdicts
    <3> HIDE DEF w
    <3>5. \A c \in Ids : \A i \in 1..Len(fate'[c]) : fate'[c][i] # "overwritten"
      BY <1>3, <3>3, <3>4, CountedOtherwise
    <3>6. NearBursts'
      BY <1>1, <1>2, <2>1, <3>3 DEF NearBursts, Near
    <3>7. NoneOverwritten'
      BY <3>2, <3>3, <3>5 DEF NoneOverwritten
    <3> QED BY <1>2, <3>6, <3>7 DEF ReplayOK
  <2>4. CASE lazy = <<>> /\ ready = <<>>
    <3>1. wk' = "check" /\ UNCHANGED <<lazy, ready, fate>>
      BY <1>7, <2>4 DEF WkOne
    <3> QED BY <1>1, <1>2, <2>1, <3>1 DEF ReplayOK, NearBursts, Near, NoneOverwritten
  <2> QED BY <2>2, <2>3, <2>4
<1>8. CASE WkDrain
  BY <1>3, <1>8 DEF WkDrain, Inv, Control
<1> QED BY <1>4, <1>5, <1>6, <1>7, <1>8 DEF Wk

LEMMA ReplayInit == Init => ReplayInv
<1> SUFFICES ASSUME Init, Replaying PROVE Steady /\ Chained /\ NearBursts /\ NoneOverwritten
  BY DEF ReplayInv
<1>1. Chunk \in Nat \ {0} /\ Interval \in Nat \ {0} /\ Capacity \in Nat /\ Reserve \in Nat
  BY ConstantsAreNat
<1>2. Capacity - Reserve >= 2 * Chunk /\ Lossless
  BY DEF Replaying, RingSuffices
<1>3. LeadLimit = Capacity - Reserve
  BY <1>1, <1>2 DEF LeadLimit, LargerOf, Init
<1>4. DoneEnd = 0 /\ Base = 0 /\ Handed = 0 /\ ~Busy /\ Ring = 1 /\ rings[1] = 0
  BY DEF Init, DoneEnd, Base, Busy, Handed, Ring
<1>5. Steady
  BY <1>3, <1>4 DEF Steady, Init
<1>6. Chained
  BY <1>1, <1>2, <1>3, <1>4 DEF Chained, Init, None
<1>7. NearBursts /\ NoneOverwritten
  BY DEF NearBursts, NoneOverwritten, Init
<1> QED BY <1>5, <1>6, <1>7

LEMMA ReplayStep == Inv /\ ReplayInv /\ [Next]_vars => ReplayInv'
<1> SUFFICES ASSUME Inv, ReplayInv, [Next]_vars, Replaying'
             PROVE  Steady' /\ Chained' /\ NearBursts' /\ NoneOverwritten'
  BY DEF ReplayInv
<1> USE DEF stream, detector, worker, stage
<1>1. Replaying /\ Steady /\ Chained /\ NearBursts /\ NoneOverwritten
  BY ReplayingBefore DEF Inv, ReplayInv
<1>2. CASE Rx
  BY <1>1, <1>2, ReplayRx DEF ReplayOK
<1>3. CASE Bt
  BY <1>1, <1>3, ReplayBt DEF ReplayOK
<1>4. CASE Wk
  BY <1>1, <1>4, ReplayWk DEF ReplayOK
<1>5. ASSUME NEW p \in Stoppers, Stop(p) PROVE FALSE
  BY <1>1, <1>5 DEF Stop, StopBegin, StopDrains, StopPuts, StopJoins, Goes, Steady
<1>6. CASE Reconfigure \/ Shutdown
  BY <1>6 DEF Reconfigure, Shutdown, Replaying
<1>7. CASE StopStage
  BY <1>1, <1>7 DEF StopStage, Replaying
<1>8. CASE UNCHANGED vars
  <2>1. DoneEnd' = DoneEnd /\ Base' = Base /\ Handed' = Handed /\ (Busy <=> Busy')
    BY <1>8 DEF vars, DoneEnd, Base, Busy, BtEnd, Handed
  <2> QED BY <1>1, <1>8, <2>1 DEF vars, Steady, Chained, NearBursts, NoneOverwritten, Near, Ring
<1> QED BY <1>2, <1>3, <1>4, <1>5, <1>6, <1>7, <1>8 DEF Next

LEMMA TypesAreOK == Inv => TypeOK
BY DEF Inv, Types, Holders, Counts, TypeOK

\* In a lossless replay the receiver never runs so far ahead that it overwrites a
\* burst the isolation stage has still to read, whatever the lengths of the ring,
\* the queues and the chunks (_compute_lead_limit, _wait_for_burst_lead, wait_idle).
THEOREM NoBurstIsOverwritten == Spec => []ReadAsItWas
<1>1. Init => Inv /\ ReplayInv
  BY InvInit, ReplayInit
<1>2. (Inv /\ ReplayInv) /\ [Next]_vars => (Inv /\ ReplayInv)'
  BY InvStep, ReplayStep
<1>3. Inv /\ ReplayInv => ReadAsItWas
  <2>1. ReplayInv => StillInRing
    BY DEF ReplayInv, Replaying, NoneOverwritten, StillInRing
  <2> QED BY <2>1, TypesAreOK DEF ReadAsItWas
<1> QED BY <1>1, <1>2, <1>3, PTL DEF Spec

=============================================================================
