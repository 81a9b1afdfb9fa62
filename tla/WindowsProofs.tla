---------------------------- MODULE WindowsProofs ---------------------------
(***************************************************************************)
(* The hand-off, the rows, the roll-up and the tiers, for any durations,   *)
(* gap, lag, minute, span, level and queue, any retunes, stops, crashes    *)
(* and failed writes: the stored windows do not overlap, none spans an     *)
(* outage, a minute between the roll-up's marks counts every window that   *)
(* begins in it, and a chart counts no window twice.                       *)
(***************************************************************************)
EXTENDS Windows, FiniteSetTheorems, SequenceTheorems, WellFoundedInduction, TLAPS

-----------------------------------------------------------------------------
(* The inductive invariant of the windows.                                 *)

\* A tuning, or none.
Tunes == Tunings \cup {None}
\* The window's clock.
Clocks == [start : {None} \cup Nat, last : {None} \cup Nat, got : BOOLEAN, stale : BOOLEAN]
\* A pass of the roll-up.
Passes ==
  [pc : {"rest", "fold", "mark", "back", "deep", "deepmark"}, closed : Int, at : Int]
\* A window, queued or stored.
Window == [start : Int, end : Int, tune : Tunes]

\* The types the proofs need.
Types ==
  /\ tuned \in Tunings /\ acc \in [n : Nat, tune : Tunes]
  /\ clock \in Clocks
  /\ ready \in Nat /\ queue \in Seq(Window) /\ rows \in SUBSET Window
  /\ newest \in {None} \cup Nat /\ oldest \in Int
  /\ roll \in Passes

\* The window under way began less than Duration before the last result, and
\* the consumer has waited since then; a window without a result began then.
Current ==
  /\ ~clock.stale /\ ready <= now
  /\ up = "up" => now - ready <= Idle
  /\ clock.start = None => clock.last = None /\ acc.n = 0
  /\ clock.start # None =>
       /\ up = "up" /\ clock.last = ready
       /\ clock.start <= ready /\ ready - clock.start < Duration
       /\ ~clock.got => clock.start = ready

\* What is stored, then what is queued, in its order, then what is open.
InOrder ==
  /\ job # "none" => queue # <<>>
  /\ \A w \in rows : w.start <= w.end /\ w.end <= now /\ w.start >= -Level
                     /\ (clock.start # None => w.end <= clock.start)
  /\ \A i \in DOMAIN queue :
       /\ 0 <= queue[i].start /\ queue[i].start <= queue[i].end /\ queue[i].end <= now
       /\ clock.start # None => queue[i].end <= clock.start
       /\ \A j \in DOMAIN queue : i < j => queue[i].end <= queue[j].start
       /\ \A w \in rows :
            w.end <= queue[i].start \/ (i = 1 /\ job = "tier" /\ w = queue[1])
  /\ \A v, w \in rows : v # w => v.end <= w.start \/ w.end <= v.start

\* Minute m is closed: no window that is not written yet begins in it.
Past(m) ==
  /\ m <= MinuteOf(now)
  /\ clock.start # None => m <= MinuteOf(clock.start)
  /\ \A i \in DOMAIN queue : m <= MinuteOf(queue[i].start)

\* The marks, and the minute a pass folds up to, are past.
MarksArePast ==
  /\ oldest <= newest /\ (newest = None => oldest = None)
  /\ newest # None => Past(newest)
  /\ roll.pc # "rest" => newest # None
  /\ roll.pc \in {"fold", "mark"} => Past(roll.closed) /\ newest = roll.at /\ roll.at < roll.closed
  /\ roll.pc \in {"deep", "deepmark"} => roll.closed < oldest

\* The minutes from lo up to hi count each window that begins in them.
Whole(lo, hi) ==
  \A m \in Minutes : lo <= m /\ m < hi => minutes[m] = Cardinality(InMinute(m))

\* Between the marks, and where a pass has folded, minutes are whole.
FoldsAreWhole ==
  /\ newest # None => Whole(IF oldest = None THEN newest ELSE oldest, newest)
  /\ roll.pc = "mark" => Whole(roll.at, ForwardTo)
  /\ roll.pc \in {"deep", "deepmark"} => Whole(oldest, newest)
  /\ roll.pc = "deepmark" => Whole(BackTo, oldest)

\* The inductive invariant.
WindowsInv == TypeOK /\ Types /\ Current /\ InOrder /\ MarksArePast /\ FoldsAreWhole

USE DEF Clocks, Passes

-----------------------------------------------------------------------------
(* Times, minutes and sequences.                                           *)

\* The invariant, part by part, and the constants.
LEMMA WindowsInvGives ==
  ASSUME WindowsInv
  PROVE  /\ TypeOK /\ Types /\ Current /\ InOrder /\ MarksArePast /\ FoldsAreWhole
         /\ Duration \in Nat \ {0} /\ Idle \in Nat \ {0} /\ QueueMax \in Nat \ {0}
         /\ Lag \in Nat /\ Lag >= Duration + Idle /\ MaxGap \in Nat /\ Level \in Nat \ {0}
         /\ Span \in Nat /\ Minute \in Nat /\ MaxNow \in Nat
PROOF
  BY WindowsAssumption DEF WindowsInv

\* The minute of a later time is not earlier, and begins no later than the time.
LEMMA MinuteGrows ==
  ASSUME NEW a \in Int, NEW b \in Int, a <= b
  PROVE  /\ MinuteOf(a) <= MinuteOf(b) /\ MinuteOf(a) \in Int /\ MinuteOf(b) \in Int
         /\ MinuteOf(a) <= a /\ (0 <= a => 0 <= MinuteOf(a))
PROOF
  <1>1. Minute \in Nat \ {0}
    BY WindowsAssumption
  <1>. QED
    BY <1>1 DEF MinuteOf

\* The minutes of the model are numbers.
LEMMA MinutesAreNumbers ==
  \A m \in Minutes : m \in Int
PROOF
  <1>1. ASSUME NEW t \in 0..MaxNow PROVE MinuteOf(t) \in Int
    <2>1. t \in Int
      OBVIOUS
    <2>. QED
      BY <2>1, MinuteGrows
  <1>. QED
    BY <1>1 DEF Minutes

\* A set of times after -Level has a first one.
LEMMA FirstIs ==
  ASSUME NEW S \in SUBSET Int, S # {}, \A x \in S : x >= -Level
  PROVE  Min(S) \in S
PROOF
  <1>. DEFINE T == {x + Level : x \in S}
  <1>1. Level \in Nat
    BY WindowsAssumption
  <1>2. T \in SUBSET Nat /\ T # {}
    <2>1. \A x \in S : x + Level \in Nat
      BY <1>1
    <2>. QED
      BY <2>1
  <1>3. IsWellFoundedOn(OpToRel(<, Nat), Nat)
    BY NatLessThanWellFounded
  <1>4. PICK c \in T : \A d \in T : <<d, c>> \notin OpToRel(<, Nat)
    <2>. HIDE DEF T
    <2>. QED
      BY <1>2, <1>3, WFMin
  <1>5. ASSUME NEW d \in T PROVE c <= d
    <2>1. d \in Nat /\ c \in Nat
      BY <1>2
    <2>2. <<d, c>> \in Nat \X Nat
      BY <2>1
    <2>3. <<d, c>>[1] = d /\ <<d, c>>[2] = c
      OBVIOUS
    <2>4. d < c => <<d, c>> \in OpToRel(<, Nat)
      BY <2>2, <2>3 DEF OpToRel
    <2>5. <<d, c>> \notin OpToRel(<, Nat)
      BY <1>4, Zenon
    <2>6. ~ (d < c)
      BY <2>4, <2>5, Zenon
    <2>. QED
      BY <2>1, <2>6
  <1>6. PICK x \in S : c = x + Level
    OBVIOUS
  <1>7. ASSUME NEW y \in S PROVE x <= y
    <2>1. c <= y + Level
      BY <1>5
    <2>. QED
      BY <2>1, <1>6, <1>1
  <1>. QED
    BY <1>7 DEF Min

\* The head of the queue is its first window; the tail holds the others.
LEMMA QueueIs ==
  ASSUME WindowsInv, queue # <<>>
  PROVE  /\ Head(queue) = queue[1] /\ 1 \in DOMAIN queue /\ Head(queue) \in Window
         /\ Tail(queue) \in Seq(Window) /\ Len(Tail(queue)) = Len(queue) - 1
         /\ Len(queue) \in Nat /\ DOMAIN queue = 1..Len(queue)
         /\ DOMAIN Tail(queue) = 1..(Len(queue) - 1)
         /\ \A i \in DOMAIN Tail(queue) : i + 1 \in DOMAIN queue /\ Tail(queue)[i] = queue[i + 1]
PROOF
  <1>1. queue \in Seq(Window)
    BY WindowsInvGives DEF Types
  <1>2. Tail(queue) \in Seq(Window) /\ Len(Tail(queue)) = Len(queue) - 1
    BY <1>1, HeadTailProperties
  <1>3. \A i \in 1..Len(Tail(queue)) : Tail(queue)[i] = queue[i + 1]
    BY <1>1, HeadTailProperties
  <1>4. Len(queue) \in Nat /\ Len(queue) # 0 /\ DOMAIN queue = 1..Len(queue)
    BY <1>1
  <1>5. DOMAIN Tail(queue) = 1..Len(Tail(queue))
    BY <1>2
  <1>6. Head(queue) = queue[1] /\ queue[1] \in Window
    BY <1>1, <1>4
  <1>. QED
    BY <1>2, <1>3, <1>4, <1>5, <1>6

\* The times are numbers, and a clock that runs has a start.
LEMMA Numbers ==
  ASSUME WindowsInv
  PROVE  /\ \A i \in DOMAIN queue : queue[i].start \in Int /\ queue[i].end \in Int /\ i \in Nat
         /\ \A w \in rows : w.start \in Int /\ w.end \in Int
         /\ now \in Nat /\ clock.start \in Int /\ (clock.start # None => clock.start \in Nat)
PROOF
  <1>1. queue \in Seq(Window)
    BY WindowsInvGives DEF Types
  <1>2. ASSUME NEW i \in DOMAIN queue PROVE queue[i] \in Window /\ i \in Nat
    BY <1>1
  <1>3. \A i \in DOMAIN queue : queue[i].start \in Int /\ queue[i].end \in Int /\ i \in Nat
    BY <1>2 DEF Window
  <1>4. \A w \in rows : w.start \in Int /\ w.end \in Int
    BY WindowsInvGives DEF Types, Window
  <1>5. now \in Nat
    BY WindowsInvGives DEF TypeOK
  <1>6. clock.start \in {None} \cup Nat
    BY WindowsInvGives DEF Types
  <1>. QED
    BY <1>3, <1>4, <1>5, <1>6 DEF None

\* So are the marks of the roll-up.
LEMMA Places ==
  ASSUME WindowsInv
  PROVE  /\ ready \in Nat /\ newest \in Int /\ oldest \in Int
         /\ roll.closed \in Int /\ roll.at \in Int
PROOF
  BY SMTT(30), WindowsInvGives DEF Types, None

-----------------------------------------------------------------------------
(* The roll-up's minutes and the rows.                                     *)

\* What touches neither rows nor minutes leaves the folds whole.
LEMMA FoldsStay ==
  ASSUME WindowsInv, UNCHANGED <<rows, minutes, newest, oldest, roll>>
  PROVE  FoldsAreWhole'
PROOF
  BY WindowsInvGives DEF FoldsAreWhole, Whole, InMinute, ForwardTo, BackTo

\* A row lands in a minute that no mark and no fold has passed.
LEMMA LandsAhead ==
  ASSUME WindowsInv, queue # <<>>, rows' = rows \cup {Head(queue)},
         UNCHANGED <<minutes, newest, oldest, roll>>
  PROVE  FoldsAreWhole'
PROOF
  <1>. DEFINE at == MinuteOf(Head(queue).start)
  <1>1. at \in Int /\ (newest # None => newest <= at)
        /\ (roll.pc \in {"fold", "mark"} => roll.closed <= at)
    <2>1. Head(queue) = queue[1] /\ 1 \in DOMAIN queue /\ Head(queue).start \in Int
      BY QueueIs, Numbers
    <2>2. at \in Int
      BY <2>1, MinuteGrows
    <2>. QED
      BY <2>1, <2>2, WindowsInvGives DEF MarksArePast, Past
  <1>. HIDE DEF at
  <1>2. ASSUME NEW m \in Int, m < at PROVE InMinute(m)' = InMinute(m)
    <2>1. MinuteOf(Head(queue).start) # m
      BY <1>1, <1>2 DEF at
    <2>. QED
      BY <2>1 DEF InMinute
  <1>3. /\ newest \in Int /\ oldest \in Int /\ oldest <= newest
        /\ roll.closed \in Int /\ roll.at \in Int
        /\ roll.pc # "rest" => newest # None
    BY WindowsInvGives DEF Types, MarksArePast, None
  <1>4. ASSUME NEW lo \in Int, NEW hi \in Int, hi <= at, Whole(lo, hi)
        PROVE \A m \in Minutes : lo <= m /\ m < hi => minutes'[m] = Cardinality(InMinute(m)')
    <2>1. ASSUME NEW m \in Minutes, lo <= m, m < hi PROVE minutes'[m] = Cardinality(InMinute(m)')
      <3>1. m \in Int /\ m < at
        BY <2>1, <1>1, <1>4, MinutesAreNumbers
      <3>2. InMinute(m)' = InMinute(m)
        BY <3>1, <1>2
      <3>3. minutes[m] = Cardinality(InMinute(m))
        BY <2>1, <1>4 DEF Whole
      <3>. QED
        BY <3>2, <3>3
    <2>. QED
      BY <2>1
  <1>5. newest # None => Whole(IF oldest = None THEN newest ELSE oldest, newest)'
    BY <1>1, <1>3, <1>4, WindowsInvGives DEF FoldsAreWhole, Whole
  <1>6. roll.pc = "mark" => Whole(roll.at, ForwardTo)'
    <2>1. roll.pc = "mark" => ForwardTo \in Int /\ ForwardTo <= at
      BY SMTT(30), <1>1, <1>3, WindowsInvGives DEF ForwardTo, Least
    <2>2. ForwardTo' = ForwardTo
      BY DEF ForwardTo
    <2>. QED
      BY <2>1, <2>2, <1>3, <1>4, WindowsInvGives DEF FoldsAreWhole, Whole
  <1>7. roll.pc \in {"deep", "deepmark"} => Whole(oldest, newest)'
    BY <1>1, <1>3, <1>4, WindowsInvGives DEF FoldsAreWhole, Whole
  <1>8. roll.pc = "deepmark" => Whole(BackTo, oldest)'
    <2>1. BackTo \in Int /\ BackTo' = BackTo
      BY <1>3, WindowsInvGives DEF BackTo, Most
    <2>2. roll.pc = "deepmark" => oldest <= at
      BY <1>1, <1>3
    <2>. QED
      BY <2>1, <2>2, <1>3, <1>4, WindowsInvGives DEF FoldsAreWhole, Whole
  <1>. QED
    BY <1>5, <1>6, <1>7, <1>8 DEF FoldsAreWhole

-----------------------------------------------------------------------------
(* The queue.                                                              *)

\* A submitted window is queued last, or dropped.
LEMMA Submits ==
  ASSUME WindowsInv, NEW w \in Window, NEW ws \in {<<>>, <<w>>}, Submit(ws)
  PROVE  \/ queue' = queue
         \/ queue' = Append(queue, w) /\ Len(queue) <= QueueMax
PROOF
  <1>1. queue \in Seq(Window)
    BY WindowsInvGives DEF Types
  <1>2. queue \o <<>> = queue
    BY <1>1
  <1>3. queue \o <<w>> = Append(queue, w)
    BY <1>1
  <1>4. Len(<<w>>) = 1 /\ Len(queue) \in Nat
    BY <1>1
  <1>5. Queued + Len(<<w>>) <= QueueMax => Len(queue) <= QueueMax
    BY <1>4, WindowsInvGives DEF Queued
  <1>. QED
    BY <1>2, <1>3, <1>5 DEF Submit

\* A window that closes is queued after all others, and begins in no closed minute.
LEMMA QueuedInOrder ==
  ASSUME WindowsInv, NEW w \in Window,
         queue' = queue \/ (queue' = Append(queue, w) /\ Len(queue) <= QueueMax),
         UNCHANGED <<now, job, rows>>, clock'.start \in {None, clock.start, now},
         0 <= w.start, w.start <= w.end, w.end <= now,
         clock.start # None => clock.start <= w.start,
         clock.start = None => w.start = now,
         queue' # queue /\ clock'.start # None => w.end <= clock'.start,
         clock.start # None => clock.start <= now
  PROVE  /\ queue' \in Seq(Window) /\ Len(queue') <= QueueMax + 1 /\ InOrder'
         /\ \A m \in Int : Past(m) => Past(m)'
PROOF
  <1>1. queue \in Seq(Window) /\ Len(queue) \in Nat /\ Len(queue) <= QueueMax + 1
    BY WindowsInvGives DEF Types, TypeOK
  <1>a. /\ Append(queue, w) \in Seq(Window) /\ Len(Append(queue, w)) = Len(queue) + 1
        /\ DOMAIN Append(queue, w) = 1..(Len(queue) + 1) /\ DOMAIN queue = 1..Len(queue)
        /\ \A i \in 1..Len(queue) : Append(queue, w)[i] = queue[i]
        /\ Append(queue, w)[Len(queue) + 1] = w
    BY <1>1, AppendProperties
  <1>2. queue' \in Seq(Window) /\ Len(queue') <= QueueMax + 1
    <2>1. CASE queue' = queue
      BY <2>1, <1>1
    <2>2. CASE queue' = Append(queue, w) /\ Len(queue) <= QueueMax
      <3>1. queue' \in Seq(Window) /\ Len(queue') = Len(queue) + 1
        BY <2>2, <1>a, Zenon
      <3>2. QueueMax \in Nat
        BY WindowsInvGives
      <3>. QED
        BY <3>1, <3>2, <2>2, <1>1
    <2>. QED
      BY <2>1, <2>2
  <1>w. w.start \in Int /\ w.end \in Int
    BY DEF Window
  <1>c. clock'.start \in Int /\ (clock'.start # None => clock'.start \in Nat)
    BY Numbers DEF None
  <1>3. InOrder'
    <2>1. job' # "none" => queue' # <<>>
      <3>1. job # "none" => Len(queue) # 0
        BY <1>1, WindowsInvGives DEF InOrder
      <3>. QED
        BY <1>1, <1>a, <3>1, <1>2
    <2>2. ASSUME NEW v \in rows PROVE v.start <= v.end /\ v.end <= now /\ v.start >= -Level
                     /\ (clock'.start # None => v.end <= clock'.start)
      BY Numbers, WindowsInvGives DEF InOrder
    <2>3. ASSUME NEW i \in DOMAIN queue'
          PROVE  /\ 0 <= queue'[i].start /\ queue'[i].start <= queue'[i].end /\ queue'[i].end <= now
                 /\ clock'.start # None => queue'[i].end <= clock'.start
                 /\ \A j \in DOMAIN queue' : i < j => queue'[i].end <= queue'[j].start
                 /\ \A v \in rows :
                      v.end <= queue'[i].start \/ (i = 1 /\ job = "tier" /\ v = queue'[1])
      <3>q. \A j \in DOMAIN queue :
               /\ 0 <= queue[j].start /\ queue[j].start <= queue[j].end /\ queue[j].end <= now
               /\ clock.start # None => queue[j].end <= clock.start
               /\ \A k \in DOMAIN queue : j < k => queue[j].end <= queue[k].start
               /\ \A v \in rows : v.end <= queue[j].start \/ (j = 1 /\ job = "tier" /\ v = queue[1])
        BY WindowsInvGives DEF InOrder
      <3>1. CASE queue' = queue
        BY <3>1, <2>3, <3>q, Numbers
      <3>2. CASE queue' = Append(queue, w) /\ queue' # queue
        <4>d. DOMAIN queue' = 1..(Len(queue) + 1) /\ DOMAIN queue = 1..Len(queue)
          BY <3>2, <1>a, Zenon
        <4>n. Len(queue) \in Nat
          BY <1>1
        <4>c. \A j \in DOMAIN queue' : j \in DOMAIN queue \/ j = Len(queue) + 1
          BY <4>d, <4>n
        <4>1. CASE i = Len(queue) + 1
          <5>1. queue'[i] = w
            BY <3>2, <4>1, <1>a
          <5>2. ASSUME NEW v \in rows PROVE v.end <= w.start
            <6>1. v.end \in Int /\ v.end <= now /\ (clock.start # None => v.end <= clock.start)
              BY Numbers, WindowsInvGives DEF InOrder
            <6>. QED
              BY <6>1, <1>w, Numbers
          <5>3. \A j \in DOMAIN queue' : ~ (i < j)
            BY <4>1, <4>d, <4>n
          <5>. QED
            BY <5>1, <5>2, <5>3, <3>2
        <4>2. CASE i \in DOMAIN queue
          <5>1. queue'[i] = queue[i] /\ (i = 1 => queue'[1] = queue[1])
            BY <3>2, <4>2, <1>a
          <5>2. ASSUME NEW j \in DOMAIN queue', i < j PROVE queue[i].end <= queue'[j].start
            <6>1. CASE j \in DOMAIN queue
              <7>1. queue'[j] = queue[j]
                BY <3>2, <6>1, <1>a
              <7>. QED
                BY <7>1, <6>1, <5>2, <4>2, <3>q
            <6>2. CASE j = Len(queue) + 1
              <7>1. queue'[j] = w
                BY <3>2, <6>2, <1>a
              <7>2. queue[i].end <= w.start
                BY <4>2, <3>q, <1>w, Numbers
              <7>. QED
                BY <7>1, <7>2
            <6>. QED
              BY <6>1, <6>2, <5>2, <4>c
          <5>3. clock'.start # None => queue[i].end <= clock'.start
            BY <4>2, <3>q, Numbers
          <5>. QED
            BY <5>1, <5>2, <5>3, <4>2, <3>q
        <4>. QED
          BY <4>1, <4>2, <2>3, <4>c
      <3>. QED
        BY <3>1, <3>2
    <2>4. \A v, u \in rows : v # u => v.end <= u.start \/ u.end <= v.start
      BY WindowsInvGives DEF InOrder
    <2>. QED
      BY <2>1, <2>2, <2>3, <2>4 DEF InOrder
  <1>4. ASSUME NEW m \in Int, Past(m) PROVE Past(m)'
    <2>1. m <= MinuteOf(now) /\ MinuteOf(now) \in Int
      BY <1>4, Numbers, MinuteGrows DEF Past
    <2>2. clock'.start # None => m <= MinuteOf(clock'.start)
      BY <1>4, <2>1 DEF Past
    <2>3. m <= MinuteOf(w.start)
      <3>1. CASE clock.start = None
        BY <3>1, <2>1
      <3>2. CASE clock.start # None
        <4>1. MinuteOf(clock.start) <= MinuteOf(w.start) /\ MinuteOf(clock.start) \in Int
              /\ MinuteOf(w.start) \in Int
          BY <3>2, <1>w, Numbers, MinuteGrows
        <4>2. m <= MinuteOf(clock.start)
          BY <1>4, <3>2 DEF Past
        <4>. QED
          BY <4>1, <4>2
      <3>. QED
        BY <3>1, <3>2
    <2>4. ASSUME NEW i \in DOMAIN queue' PROVE m <= MinuteOf(queue'[i].start)
      <3>1. CASE queue' = queue
        BY <3>1, <2>4, <1>4 DEF Past
      <3>2. CASE queue' = Append(queue, w) /\ i \in DOMAIN queue
        BY <3>2, <1>a, <1>4 DEF Past
      <3>3. CASE queue' = Append(queue, w) /\ i = Len(queue) + 1
        BY <3>3, <1>a, <2>3
      <3>. QED
        BY <3>1, <3>2, <3>3, <2>4, <1>a, <1>1
    <2>. QED
      BY <2>1, <2>2, <2>4 DEF Past
  <1>. QED
    BY <1>2, <1>3, <1>4

\* The empty queue.
LEMMA NothingQueued ==
  <<>> \in Seq(Window) /\ Len(<<>>) = 0 /\ DOMAIN <<>> = {}
PROOF
  OBVIOUS

\* The row of the head follows every row, and precedes the rest of the queue.
LEMMA RowLands ==
  ASSUME WindowsInv, queue # <<>>, job = "row", rows' = rows \cup {Head(queue)},
         UNCHANGED <<now, clock>>
  PROVE  /\ rows' \in SUBSET Window
         /\ \A w \in rows' : w.start <= w.end /\ w.end <= now /\ w.start >= -Level
                             /\ (clock.start # None => w.end <= clock.start)
         /\ \A v, w \in rows' : v # w => v.end <= w.start \/ w.end <= v.start
         /\ \A i \in DOMAIN queue : \A w \in rows' :
              w.end <= queue[i].start \/ (i = 1 /\ w = queue[1])
PROOF
  <1>. DEFINE h == Head(queue)
  <1>1. h = queue[1] /\ 1 \in DOMAIN queue /\ h \in Window
    BY QueueIs
  <1>. HIDE DEF h
  <1>2. h.start \in Int /\ h.end \in Int /\ Level \in Nat /\ rows' = rows \cup {h}
    BY <1>1, WindowsInvGives DEF Window, h
  <1>3. \A w \in rows : w.end <= h.start
    BY <1>1, WindowsInvGives DEF InOrder
  <1>4. /\ 0 <= h.start /\ h.start <= h.end /\ h.end <= now
        /\ clock.start # None => h.end <= clock.start
        /\ \A j \in DOMAIN queue : 1 < j => h.end <= queue[j].start
    BY <1>1, WindowsInvGives DEF InOrder
  <1>5. rows' \in SUBSET Window
    BY <1>1, <1>2, WindowsInvGives DEF Types
  <1>6. ASSUME NEW w \in rows' PROVE w.start <= w.end /\ w.end <= now /\ w.start >= -Level
                             /\ (clock.start # None => w.end <= clock.start)
    <2>1. CASE w = h
      BY <2>1, <1>2, <1>4
    <2>2. CASE w \in rows
      BY <2>2, WindowsInvGives DEF InOrder
    <2>. QED
      BY <2>1, <2>2, <1>2
  <1>7. ASSUME NEW v \in rows', NEW w \in rows', v # w PROVE v.end <= w.start \/ w.end <= v.start
    BY <1>2, <1>3, <1>7, WindowsInvGives DEF InOrder
  <1>8. ASSUME NEW i \in DOMAIN queue, NEW w \in rows'
        PROVE  w.end <= queue[i].start \/ (i = 1 /\ w = queue[1])
    <2>1. CASE w = h
      <3>1. i = 1 \/ 1 < i
        BY QueueIs
      <3>. QED
        BY <3>1, <2>1, <1>1, <1>4
    <2>2. CASE w \in rows
      BY <2>2, WindowsInvGives DEF InOrder
    <2>. QED
      BY <2>1, <2>2, <1>2
  <1>. QED
    BY <1>5, <1>6, <1>7, <1>8

\* When the head's job is done the rest of the queue is still in order.
LEMMA JobEnds ==
  ASSUME WindowsInv, queue # <<>>, queue' = Tail(queue), job' = "none", UNCHANGED <<now, clock>>,
         \A w \in rows' : w.start <= w.end /\ w.end <= now /\ w.start >= -Level
                          /\ (clock.start # None => w.end <= clock.start),
         \A v, w \in rows' : v # w => v.end <= w.start \/ w.end <= v.start,
         \A i \in DOMAIN queue : \A w \in rows' :
           w.end <= queue[i].start \/ (i = 1 /\ w = queue[1])
  PROVE  /\ queue' \in Seq(Window) /\ Len(queue') <= QueueMax + 1 /\ InOrder'
         /\ \A m : Past(m) => Past(m)'
PROOF
  <1>1. queue' \in Seq(Window) /\ Len(queue') = Len(queue) - 1 /\ Len(queue) \in Nat
    BY QueueIs
  <1>2. Len(queue') <= QueueMax + 1
    BY <1>1, WindowsInvGives DEF TypeOK
  <1>3. ASSUME NEW i \in DOMAIN queue'
        PROVE  i \in Nat /\ i >= 1 /\ i + 1 \in DOMAIN queue /\ queue'[i] = queue[i + 1]
    BY <1>3, QueueIs
  <1>4. ASSUME NEW i \in DOMAIN queue'
        PROVE  /\ 0 <= queue'[i].start /\ queue'[i].start <= queue'[i].end /\ queue'[i].end <= now
               /\ clock.start # None => queue'[i].end <= clock.start
               /\ \A j \in DOMAIN queue' : i < j => queue'[i].end <= queue'[j].start
               /\ \A w \in rows' : w.end <= queue'[i].start
    <2>1. /\ 0 <= queue[i + 1].start /\ queue[i + 1].start <= queue[i + 1].end
          /\ queue[i + 1].end <= now
          /\ clock.start # None => queue[i + 1].end <= clock.start
      BY <1>3, WindowsInvGives DEF InOrder
    <2>2. ASSUME NEW j \in DOMAIN queue', i < j PROVE queue'[i].end <= queue'[j].start
      <3>1. i + 1 < j + 1
        BY <1>3, <2>2
      <3>. QED
        BY <3>1, <1>3, WindowsInvGives DEF InOrder
    <2>3. ASSUME NEW w \in rows' PROVE w.end <= queue'[i].start
      <3>1. i + 1 # 1
        BY <1>3
      <3>. QED
        BY <3>1, <1>3
    <2>. QED
      BY <2>1, <2>2, <2>3, <1>3
  <1>5. InOrder'
    BY <1>4 DEF InOrder
  <1>6. ASSUME NEW m, Past(m) PROVE Past(m)'
    BY <1>3, <1>6 DEF Past
  <1>. QED
    BY <1>1, <1>2, <1>5, <1>6

-----------------------------------------------------------------------------
(* The closed minutes.                                                     *)

\* A minute before a closed one is closed.
LEMMA PastBelow ==
  ASSUME WindowsInv, NEW m \in Int, NEW k \in Int, Past(m), k <= m
  PROVE  Past(k)
PROOF
  <1>1. MinuteOf(now) \in Int /\ (clock.start # None => MinuteOf(clock.start) \in Int)
    BY Numbers, MinuteGrows
  <1>2. \A i \in DOMAIN queue : MinuteOf(queue[i].start) \in Int
    BY Numbers, MinuteGrows
  <1>. QED
    BY <1>1, <1>2 DEF Past

\* The minute a pass folds up to is closed: Lag is as long as a window stays open,
\* and the pass looks at the head of the queue.
LEMMA LastClosedIsPast ==
  ASSUME WindowsInv, now >= Lag
  PROVE  LastClosed \in Nat /\ Past(LastClosed)
PROOF
  <1>. DEFINE last == now - Lag
              at == MinuteOf(last)
  <1>1. last \in Nat /\ last <= now
    BY Numbers, WindowsInvGives
  <1>2. at \in Nat /\ at <= MinuteOf(now) /\ MinuteOf(now) \in Int
    BY <1>1, Numbers, MinuteGrows
  <1>3. clock.start # None => at <= MinuteOf(clock.start)
    <2>1. clock.start # None => last < clock.start
      BY Numbers, Places, WindowsInvGives DEF Current
    <2>. QED
      BY <2>1, <1>1, Numbers, MinuteGrows
  <1>. HIDE DEF at
  <1>4. CASE queue = <<>>
    <2>1. LastClosed = at
      BY <1>4 DEF LastClosed, at
    <2>2. DOMAIN queue = {}
      BY <1>4
    <2>. QED
      BY <2>1, <2>2, <1>2, <1>3 DEF Past
  <1>5. CASE queue # <<>>
    <2>. DEFINE b == MinuteOf(queue[1].start)
    <2>1. Head(queue) = queue[1] /\ 1 \in DOMAIN queue
      BY <1>5, QueueIs
    <2>2. b \in Nat
      <3>1. 0 <= queue[1].start /\ queue[1].start \in Int
        BY <2>1, Numbers, WindowsInvGives DEF InOrder
      <3>2. b \in Int /\ 0 <= b
        BY <3>1, MinuteGrows
      <3>. QED
        BY <3>2
    <2>3. LastClosed = Least(at, b)
      BY <1>5, <2>1 DEF LastClosed, at
    <2>4. ASSUME NEW i \in DOMAIN queue PROVE b <= MinuteOf(queue[i].start)
                                              /\ MinuteOf(queue[i].start) \in Int
      <3>1. i = 1 \/ 1 < i
        BY <1>5, QueueIs
      <3>2. queue[1].start <= queue[i].start
        BY SMTT(30), <3>1, <2>1, Numbers, WindowsInvGives DEF InOrder
      <3>. QED
        BY <3>2, <2>1, Numbers, MinuteGrows
    <2>. HIDE DEF b
    <2>5. LastClosed \in Nat /\ LastClosed <= at /\ LastClosed <= b
      BY <2>2, <2>3, <1>2 DEF Least
    <2>6. clock.start # None => LastClosed <= MinuteOf(clock.start)
      <3>1. clock.start # None => MinuteOf(clock.start) \in Int
        BY Numbers, MinuteGrows
      <3>. QED
        BY <3>1, <2>5, <1>2, <1>3
    <2>. QED
      BY <2>2, <2>4, <2>5, <2>6, <1>2 DEF Past
  <1>. QED
    BY <1>4, <1>5

\* A span of minutes.
LEMMA SpanIs ==
  Span * Minute \in Nat
PROOF
  BY WindowsAssumption

-----------------------------------------------------------------------------
(* The consumer.                                                           *)

\* What a result leaves: a window that began less than Duration ago, and perhaps a
\* closed one that ended no later.
LEMMA ResultGives ==
  ASSUME WindowsInv, NEW t \in Tunings, Result(t)
  PROVE  /\ acc' \in [n : Nat, tune : Tunes]
         /\ clock' \in Clocks
         /\ ready' = now /\ up = "up"
         /\ ~clock'.stale /\ clock'.last = now /\ clock'.start \in {clock.start, now}
         /\ clock'.start # None /\ clock'.start <= now /\ now - clock'.start < Duration
         /\ ~clock'.got => clock'.start = now
         /\ acc'.n > 0 => clock'.got
         /\ \E w \in Window :
              /\ queue' = queue \/ (queue' = Append(queue, w) /\ Len(queue) <= QueueMax)
              /\ 0 <= w.start /\ w.start <= w.end /\ w.end <= now
              /\ clock.start # None => clock.start <= w.start
              /\ clock.start = None => w.start = now
              /\ queue' # queue => w.end <= clock'.start
PROOF
  <1>. DEFINE old == acc.n > 0
              discard == old /\ acc.tune # t /\ "new bins" \in happens
              flush == old /\ ~discard /\ acc.tune # t
              base == IF discard THEN NoClock ELSE IF flush THEN Flushed ELSE clock
              c == Marked(base, now - ready)
              n == IF discard \/ flush THEN 1 ELSE acc.n + 1
              full == now - c.start >= Duration
              kept == IF flush THEN <<Closed(clock.last)>> ELSE <<>>
              made == IF full THEN <<[start |-> c.start, end |-> now, tune |-> t]>> ELSE <<>>
  <1>r. /\ up = "up" /\ now > clock.last /\ Submit(kept \o made)
        /\ acc' = IF full THEN NoAcc ELSE [n |-> n, tune |-> t]
        /\ clock' = IF full THEN [NewClock EXCEPT !.got = FALSE, !.stale = c.stale] ELSE c
        /\ ready' = now
    BY DEF Result
  <1>t. /\ now \in Nat /\ clock \in Clocks /\ ready \in Nat /\ acc \in [n : Nat, tune : Tunes]
        /\ Duration \in Nat \ {0} /\ MaxGap \in Nat /\ t \in Tunes
    BY WindowsInvGives, Numbers DEF Types, Tunes
  <1>k. /\ ~clock.stale /\ ready <= now /\ (acc.n > 0 => clock.start # None)
        /\ clock.start # None => /\ clock.last = ready /\ clock.start <= ready
                                 /\ clock.start \in Nat
                                 /\ ready - clock.start < Duration
                                 /\ (~clock.got => clock.start = ready)
    BY WindowsInvGives DEF Current, TypeOK, Types, None
  <1>b. /\ base = clock \/ base = NoClock
        /\ flush => base = NoClock
        /\ flush => old
    BY DEF Flushed
  <1>d. /\ c = Marked(base, now - ready) /\ n \in {1, acc.n + 1}
        /\ full <=> now - c.start >= Duration
    OBVIOUS
  <1>h. /\ kept = IF flush THEN <<Closed(clock.last)>> ELSE <<>>
        /\ made = IF full THEN <<[start |-> c.start, end |-> now, tune |-> t]>> ELSE <<>>
        /\ old <=> acc.n > 0
    OBVIOUS
  <1>. HIDE DEF made, kept, full, n, c, base, flush, discard, old
  <1>n. /\ NewClock \in Clocks /\ NewClock.start = now /\ NewClock.last = now /\ NewClock.got = TRUE
        /\ NewClock.stale = FALSE
    BY <1>t DEF NewClock
  <1>m. base = NoClock => c = NewClock
    <2>1. NoClock.start = None
      BY DEF NoClock
    <2>. QED
      BY <2>1, <1>d DEF Marked
  <1>j. ASSUME base = clock, c # NewClock
        PROVE  /\ c \in Clocks /\ c.start = clock.start /\ c.last = now /\ c.got = TRUE
               /\ c.stale = FALSE /\ clock.start # None
    <2>1. clock.start # None /\ (clock.got \/ ~(now - ready > MaxGap)) /\ c = Joined(clock)
      BY <1>j, <1>d DEF Marked
    <2>2. ~(~clock.got /\ now - clock.start > MaxGap)
      BY <2>1, <1>k
    <2>3. c.stale = FALSE
      BY <2>1, <2>2, <1>t, <1>k DEF Joined
    <2>. QED
      BY <2>1, <2>3, <1>t DEF Joined
  <1>c. /\ c \in Clocks /\ c.start \in {clock.start, now} /\ c.start # None /\ c.last = now
        /\ c.got = TRUE /\ c.stale = FALSE /\ c.start <= now /\ c.start \in Nat
        /\ clock.start # None => clock.start <= c.start
        /\ clock.start = None => c.start = now
    <2>1. CASE c = NewClock
      BY <2>1, <1>n, <1>k, <1>t DEF None
    <2>2. CASE c # NewClock
      <3>1. base = clock
        BY <2>2, <1>b, <1>m
      <3>2. /\ c \in Clocks /\ c.start = clock.start /\ c.last = now /\ c.got = TRUE
            /\ c.stale = FALSE /\ clock.start # None
        BY <2>2, <3>1, <1>j
      <3>3. clock.start \in Nat /\ clock.start <= now
        BY <3>2, <1>k, <1>t
      <3>. QED
        BY <3>2, <3>3
    <2>. QED
      BY <2>1, <2>2
  <1>f. flush => c.start = now /\ ~full /\ clock.start # None
    BY <1>b, <1>d, <1>h, <1>m, <1>n, <1>k, <1>t
  <1>a. n \in Nat
    BY <1>d, <1>t
  <1>1. acc' \in [n : Nat, tune : Tunes]
    BY <1>r, <1>a, <1>t DEF NoAcc, Tunes
  <1>2. /\ clock' \in Clocks /\ clock'.stale = FALSE /\ clock'.last = now
        /\ clock'.start \in {clock.start, now}
        /\ clock'.start # None /\ clock'.start <= now /\ now - clock'.start < Duration
        /\ ~clock'.got => clock'.start = now
        /\ acc'.n > 0 => clock'.got
        /\ full => clock'.start = now
        /\ ~full => clock'.start = c.start
    <2>1. CASE full
      <3>1. clock' = [NewClock EXCEPT !.got = FALSE, !.stale = c.stale] /\ acc' = NoAcc
        BY <2>1, <1>r
      <3>2. clock' = [start |-> now, last |-> now, got |-> FALSE, stale |-> FALSE]
        BY <3>1, <1>c DEF NewClock
      <3>3. clock' \in Clocks /\ acc'.n = 0
        <4>1. clock' \in Clocks
          BY <3>2, <1>t
        <4>2. acc'.n = 0
          BY <3>1 DEF NoAcc
        <4>. QED
          BY <4>1, <4>2
      <3>4. clock'.stale = FALSE /\ clock'.last = now /\ clock'.start = now /\ clock'.got = FALSE
        BY <3>2
      <3>5. now # None /\ now - now < Duration
        BY <1>t DEF None
      <3>. QED
        BY <2>1, <3>3, <3>4, <3>5, <1>t
    <2>2. CASE ~full
      <3>1. clock' = c /\ now - c.start < Duration
        BY <2>2, <1>r, <1>d, <1>c, <1>t
      <3>. QED
        BY <2>2, <3>1, <1>c
    <2>. QED
      BY <2>1, <2>2
  <1>3. \E w \in Window :
          /\ queue' = queue \/ (queue' = Append(queue, w) /\ Len(queue) <= QueueMax)
          /\ 0 <= w.start /\ w.start <= w.end /\ w.end <= now
          /\ clock.start # None => clock.start <= w.start
          /\ clock.start = None => w.start = now
          /\ queue' # queue => w.end <= clock'.start
    <2>1. CASE flush
      <3>. DEFINE w == Closed(clock.last)
      <3>1. w \in Window /\ w.start = clock.start /\ w.end = ready
        BY <2>1, <1>f, <1>k, <1>t DEF Closed, Window
      <3>2. kept \o made = <<w>>
        BY <2>1, <1>f, <1>h
      <3>. HIDE DEF w
      <3>3. queue' = queue \/ (queue' = Append(queue, w) /\ Len(queue) <= QueueMax)
        <4>1. Submit(<<w>>)
          BY <3>2, <1>r
        <4>. QED
          BY <4>1, <3>1, Submits
      <3>4. w.end <= clock'.start
        BY <2>1, <3>1, <1>2, <1>f, <1>k, <1>t
      <3>. QED
        BY <2>1, <3>1, <3>3, <3>4, <1>f, <1>k, <1>t
    <2>2. CASE ~flush
      <3>. DEFINE w == [start |-> c.start, end |-> now, tune |-> t]
      <3>1. w \in Window /\ w.start = c.start /\ w.end = now
        BY <1>c, <1>t DEF Window
      <3>2. kept \o made = IF full THEN <<w>> ELSE <<>>
        BY <2>2, <1>h
      <3>. HIDE DEF w
      <3>3. queue' = queue \/ (full /\ queue' = Append(queue, w) /\ Len(queue) <= QueueMax)
        <4>1. CASE full
          <5>1. Submit(<<w>>)
            BY <3>2, <4>1, <1>r
          <5>. QED
            BY <4>1, <5>1, <3>1, Submits
        <4>2. CASE ~full
          <5>1. Submit(<<>>)
            BY <3>2, <4>2, <1>r
          <5>2. queue \in Seq(Window)
            BY WindowsInvGives DEF Types
          <5>3. queue \o <<>> = queue
            BY <5>2
          <5>. QED
            BY <5>1, <5>3 DEF Submit
        <4>. QED
          BY <4>1, <4>2
      <3>4. queue' # queue => w.end <= clock'.start
        BY <3>1, <3>3, <1>2, <1>t
      <3>. QED
        BY <3>1, <3>3, <3>4, <1>c, <1>t
    <2>. QED
      BY <2>1, <2>2
  <1>. QED
    BY <1>1, <1>2, <1>3, <1>r

\* A result is averaged; one after a gap, a retune or Duration closes the window.
LEMMA ReceiveKeeps ==
  ASSUME WindowsInv, Receive
  PROVE  WindowsInv'
PROOF
  <1>t. PICK t \in Tunings : tuned' = t /\ Result(t)
    BY DEF Receive
  <1>u. UNCHANGED <<happens, now, up, job, rows, minutes, newest, oldest, roll>>
    BY DEF Receive, rollVars
  <1>r. /\ acc' \in [n : Nat, tune : Tunes]
        /\ clock' \in Clocks
        /\ ready' = now /\ up = "up"
        /\ ~clock'.stale /\ clock'.last = now /\ clock'.start \in {clock.start, now}
        /\ clock'.start # None /\ clock'.start <= now /\ now - clock'.start < Duration
        /\ ~clock'.got => clock'.start = now
        /\ acc'.n > 0 => clock'.got
    BY <1>t, ResultGives
  <1>w. PICK w \in Window :
          /\ queue' = queue \/ (queue' = Append(queue, w) /\ Len(queue) <= QueueMax)
          /\ 0 <= w.start /\ w.start <= w.end /\ w.end <= now
          /\ clock.start # None => clock.start <= w.start
          /\ clock.start = None => w.start = now
          /\ queue' # queue => w.end <= clock'.start
    BY <1>t, ResultGives
  <1>e. /\ queue' \in Seq(Window) /\ Len(queue') <= QueueMax + 1 /\ InOrder'
        /\ \A m \in Int : Past(m) => Past(m)'
    <2>1. clock.start # None => clock.start <= now
      BY SMTT(30), WindowsInvGives, Numbers DEF Current, Types
    <2>2. clock'.start \in {None, clock.start, now}
      BY <1>r
    <2>. QED
      BY <2>1, <2>2, <1>u, <1>w, QueuedInOrder
  <1>y. /\ newest \in {None} \cup Nat /\ oldest \in Int /\ roll.closed \in Int /\ roll.at \in Int
        /\ roll \in Passes
    BY WindowsInvGives DEF Types
  <1>1. TypeOK'
    BY <1>u, <1>r, <1>e, WindowsInvGives DEF TypeOK
  <1>2. Types'
    BY <1>t, <1>u, <1>r, <1>e, Numbers, WindowsInvGives DEF Types
  <1>3. Current'
    BY <1>u, <1>r, WindowsInvGives, Numbers DEF Current
  <1>4. InOrder'
    BY <1>e
  <1>5. MarksArePast'
    BY <1>u, <1>e, <1>y, WindowsInvGives DEF MarksArePast, None
  <1>6. FoldsAreWhole'
    BY FoldsStay DEF Receive, Result, tierVars, rollVars
  <1>. QED
    BY <1>1, <1>2, <1>3, <1>4, <1>5, <1>6 DEF WindowsInv

\* Idle without a result closes the window.
LEMMA GoIdleKeeps ==
  ASSUME WindowsInv, GoIdle
  PROVE  WindowsInv'
PROOF
  <1>u. /\ UNCHANGED <<happens, now, tuned, up, job, rows, minutes, newest, oldest, roll>>
        /\ acc' = NoAcc /\ clock' = NoClock /\ ready' = now
    BY DEF GoIdle, rollVars
  <1>c. NoClock.start = None /\ NoClock.last = None /\ NoClock.stale = FALSE /\ NoAcc.n = 0
    BY DEF NoClock, NoAcc
  <1>e. /\ queue' \in Seq(Window) /\ Len(queue') <= QueueMax + 1 /\ InOrder'
        /\ \A m \in Int : Past(m) => Past(m)'
    <2>k. /\ (acc.n > 0 => clock.start # None) /\ ready <= now /\ now \in Nat /\ ready \in Nat
          /\ clock.start # None => clock.last = ready /\ clock.start <= ready /\ clock.start \in Nat
      <3>1. acc.n > 0 => clock.start # None
        BY WindowsInvGives DEF Current
      <3>2. ready <= now /\ now \in Nat /\ ready \in Nat
        BY WindowsInvGives, Numbers, Places DEF Current
      <3>3. clock.start # None =>
              clock.last = ready /\ clock.start <= ready /\ clock.start \in Nat
        BY WindowsInvGives, Numbers DEF Current
      <3>. QED
        BY <3>1, <3>2, <3>3
    <2>1. CASE acc.n > 0
      <3>. DEFINE w == Closed(clock.last)
      <3>1. w \in Window /\ w.start = clock.start /\ w.end = ready
        BY <2>1, <2>k, WindowsInvGives DEF Closed, Window, Types
      <3>2. Submit(<<w>>)
        BY <2>1 DEF GoIdle
      <3>. HIDE DEF w
      <3>3. queue' = queue \/ (queue' = Append(queue, w) /\ Len(queue) <= QueueMax)
        BY <3>1, <3>2, Submits
      <3>. QED
        BY <3>1, <3>3, <2>1, <2>k, <1>u, <1>c, QueuedInOrder
    <2>2. CASE ~(acc.n > 0)
      <3>1. queue \in Seq(Window)
        BY WindowsInvGives DEF Types
      <3>2. queue' = queue \o <<>>
        BY <2>2 DEF GoIdle, Submit
      <3>3. queue' = queue
        BY <3>1, <3>2
      <3>. QED
        BY <3>1, <3>3, <1>u, <1>c, WindowsInvGives DEF InOrder, Past, TypeOK
    <2>. QED
      BY <2>1, <2>2
  <1>1. TypeOK'
    BY <1>u, <1>c, <1>e, WindowsInvGives DEF TypeOK
  <1>2. Types'
    BY <1>u, <1>e, WindowsInvGives, Numbers DEF Types, NoAcc, NoClock, Tunes
  <1>3. Current'
    BY <1>u, <1>c, WindowsInvGives, Numbers DEF Current
  <1>4. InOrder'
    BY <1>e
  <1>5. MarksArePast'
    BY <1>u, <1>e, Places, WindowsInvGives DEF MarksArePast
  <1>6. FoldsAreWhole'
    BY FoldsStay DEF GoIdle, IdleDue, tierVars, rollVars, boundVars
  <1>. QED
    BY <1>1, <1>2, <1>3, <1>4, <1>5, <1>6 DEF WindowsInv

\* Time passes, no further than a result or Idle.
LEMMA TickKeeps ==
  ASSUME WindowsInv, Tick
  PROVE  WindowsInv'
PROOF
  <1>n. now \in Nat /\ now < MaxNow /\ now' = now + 1
    BY Numbers DEF Tick
  <1>u. /\ UNCHANGED <<happens, tuned, acc, clock, ready, up, rows, queue, job>>
        /\ UNCHANGED <<minutes, newest, oldest, roll>>
    BY DEF Tick, consVars, writeVars, rollVars
  <1>e. \A m \in Int : Past(m) => Past(m)'
    <2>1. MinuteOf(now) <= MinuteOf(now') /\ MinuteOf(now) \in Int /\ MinuteOf(now') \in Int
      BY <1>n, MinuteGrows
    <2>. QED
      BY <2>1, <1>u DEF Past
  <1>1. TypeOK'
    BY WindowsInvGives, <1>n, <1>u, <1>e DEF Tick, IdleDue, consVars, writeVars, tierVars,
       rollVars, boundVars, TypeOK, None
  <1>2. Types'
    BY WindowsInvGives, <1>n, <1>u, <1>e DEF Tick, IdleDue, consVars, writeVars, tierVars,
       rollVars, boundVars, Types, TypeOK, Tunes, None
  <1>3. Current'
    BY <1>n, <1>u, Places, WindowsInvGives DEF Current, Tick, IdleDue
  <1>4. InOrder'
    BY SMTT(30), <1>n, <1>u, Numbers, WindowsInvGives DEF InOrder
  <1>5. MarksArePast'
    BY <1>u, <1>e, Places, WindowsInvGives DEF MarksArePast
  <1>6. FoldsAreWhole'
    BY FoldsStay DEF Tick, IdleDue, consVars, writeVars, tierVars, rollVars, boundVars
  <1>. QED
    BY <1>1, <1>2, <1>3, <1>4, <1>5, <1>6 DEF WindowsInv

-----------------------------------------------------------------------------
(* The writer.                                                             *)

\* The writer takes the head of the queue.
LEMMA WrTakeKeeps ==
  ASSUME WindowsInv, WrTake
  PROVE  WindowsInv'
PROOF
  <1>1. TypeOK'
    BY WindowsInvGives DEF WrTake, consVars, tierVars, rollVars, WriterVars, TypeOK, None
  <1>2. Types'
    BY WindowsInvGives DEF WrTake, consVars, tierVars, rollVars, WriterVars, Types, TypeOK,
       Tunes, None
  <1>3. Current'
    BY WindowsInvGives DEF WrTake, consVars, tierVars, rollVars, WriterVars, Current, TypeOK,
       Types, None
  <1>4. InOrder'
    BY WindowsInvGives DEF WrTake, consVars, tierVars, rollVars, WriterVars, InOrder, TypeOK,
       Types, None
  <1>5. MarksArePast'
    BY WindowsInvGives DEF WrTake, consVars, tierVars, rollVars, WriterVars, MarksArePast, Past,
       Types, None
  <1>6. FoldsAreWhole'
    BY FoldsStay DEF WrTake, consVars, tierVars, rollVars, WriterVars
  <1>. QED
    BY <1>1, <1>2, <1>3, <1>4, <1>5, <1>6 DEF WindowsInv

\* The row is written, or fails.
LEMMA WrRowKeeps ==
  ASSUME WindowsInv, WrRow
  PROVE  WindowsInv'
PROOF
  <1>q. queue # <<>> /\ job = "row"
    BY WindowsInvGives DEF WrRow, InOrder
  <1>u. /\ UNCHANGED <<happens, now, tuned, acc, clock, ready, up, open, tiers, since>>
        /\ UNCHANGED <<minutes, newest, oldest, roll>>
    BY DEF WrRow, WriterVars, consVars, rollVars, tierVars
  <1>r. rows' = rows \/ rows' = rows \cup {Head(queue)}
    BY DEF WrRow, WithRow
  <1>j. \/ job' = "tier" /\ queue' = queue /\ rows' = rows \cup {Head(queue)}
        \/ job' = "none" /\ queue' = Tail(queue)
    BY DEF WrRow, WithRow, JobDone
  <1>o. /\ rows' \in SUBSET Window
        /\ \A w \in rows' : w.start <= w.end /\ w.end <= now /\ w.start >= -Level
                            /\ (clock.start # None => w.end <= clock.start)
        /\ \A v, w \in rows' : v # w => v.end <= w.start \/ w.end <= v.start
        /\ \A i \in DOMAIN queue : \A w \in rows' :
             w.end <= queue[i].start \/ (i = 1 /\ w = queue[1])
    <2>1. CASE rows' = rows
      BY <2>1, WindowsInvGives DEF InOrder, Types
    <2>2. CASE rows' = rows \cup {Head(queue)}
      BY <2>2, <1>q, <1>u, RowLands
    <2>. QED
      BY <2>1, <2>2, <1>r
  <1>e. /\ queue' \in Seq(Window) /\ Len(queue') <= QueueMax + 1 /\ InOrder'
        /\ \A m : Past(m) => Past(m)'
    <2>1. CASE job' = "none" /\ queue' = Tail(queue)
      BY <2>1, <1>q, <1>u, <1>o, JobEnds
    <2>2. CASE job' = "tier" /\ queue' = queue
      <3>1. queue' \in Seq(Window) /\ Len(queue') <= QueueMax + 1
        BY <2>2, WindowsInvGives DEF Types, TypeOK
      <3>2. InOrder'
        BY <2>2, <1>q, <1>u, <1>o, WindowsInvGives DEF InOrder
      <3>3. \A m : Past(m) => Past(m)'
        BY <2>2, <1>u DEF Past
      <3>. QED
        BY <3>1, <3>2, <3>3
    <2>. QED
      BY <2>1, <2>2, <1>j
  <1>1. TypeOK'
    BY <1>u, <1>j, <1>o, <1>e, WindowsInvGives DEF TypeOK
  <1>2. Types'
    BY <1>u, <1>j, <1>o, <1>e, WindowsInvGives DEF Types
  <1>3. Current'
    BY <1>u, <1>j, <1>o, <1>e, WindowsInvGives DEF Current
  <1>4. InOrder'
    BY <1>e
  <1>5. MarksArePast'
    BY <1>u, <1>j, <1>o, <1>e, WindowsInvGives DEF MarksArePast
  <1>6. FoldsAreWhole'
    <2>1. CASE rows' = rows
      BY <2>1, <1>u, FoldsStay
    <2>2. CASE rows' = rows \cup {Head(queue)}
      BY <2>2, <1>q, <1>u, LandsAhead
    <2>. QED
      BY <2>1, <2>2, <1>r
  <1>. QED
    BY <1>1, <1>2, <1>3, <1>4, <1>5, <1>6 DEF WindowsInv

\* The tiers are written, or not, and the job ends.
LEMMA WrTierKeeps ==
  ASSUME WindowsInv, WrTier
  PROVE  WindowsInv'
PROOF
  <1>q. queue # <<>> /\ job = "tier"
    BY WindowsInvGives DEF WrTier, InOrder
  <1>u. /\ UNCHANGED <<happens, now, tuned, acc, clock, ready, up, rows>>
        /\ UNCHANGED <<minutes, newest, oldest, roll>>
    BY DEF WrTier, WriterVars, consVars, rollVars
  <1>j. job' = "none" /\ queue' = Tail(queue)
    BY DEF WrTier, JobDone
  <1>e. /\ queue' \in Seq(Window) /\ Len(queue') <= QueueMax + 1 /\ InOrder'
        /\ \A m : Past(m) => Past(m)'
    <2>1. /\ \A w \in rows' : w.start <= w.end /\ w.end <= now /\ w.start >= -Level
                             /\ (clock.start # None => w.end <= clock.start)
          /\ \A v, w \in rows' : v # w => v.end <= w.start \/ w.end <= v.start
          /\ \A i \in DOMAIN queue : \A w \in rows' :
               w.end <= queue[i].start \/ (i = 1 /\ w = queue[1])
      BY <1>u, WindowsInvGives DEF InOrder
    <2>. QED
      BY <2>1, <1>q, <1>u, <1>j, JobEnds
  <1>1. TypeOK'
    BY <1>u, <1>j, <1>e, WindowsInvGives DEF TypeOK
  <1>2. Types'
    BY <1>u, <1>j, <1>e, WindowsInvGives DEF Types
  <1>3. Current'
    BY <1>u, <1>j, <1>e, WindowsInvGives DEF Current
  <1>4. InOrder'
    BY <1>e
  <1>5. MarksArePast'
    BY <1>u, <1>j, <1>e, WindowsInvGives DEF MarksArePast
  <1>6. FoldsAreWhole'
    BY FoldsStay DEF WrTier, JobDone, Fault, consVars, rollVars, WriterVars
  <1>. QED
    BY <1>1, <1>2, <1>3, <1>4, <1>5, <1>6 DEF WindowsInv

-----------------------------------------------------------------------------
(* The processor's and the process's end.                                  *)

\* The stop closes the window under way.
LEMMA StopKeeps ==
  ASSUME WindowsInv, Stop
  PROVE  WindowsInv'
PROOF
  <1>1. TypeOK'
    BY WindowsInvGives DEF Stop, writeVars, tierVars, rollVars, TypeOK, NoAcc, NoClock, None
  <1>2. Types'
    BY WindowsInvGives DEF Stop, writeVars, tierVars, rollVars, Types, TypeOK, NoAcc, NoClock,
       Tunes, None
  <1>3. Current'
    BY WindowsInvGives DEF Stop, writeVars, tierVars, rollVars, Current, TypeOK, Types, NoAcc,
       NoClock, None
  <1>4. InOrder'
    BY WindowsInvGives DEF Stop, writeVars, tierVars, rollVars, InOrder, TypeOK, Types, NoClock,
       None
  <1>5. MarksArePast'
    BY WindowsInvGives DEF Stop, writeVars, tierVars, rollVars, MarksArePast, Past, Types,
       NoClock, None
  <1>6. FoldsAreWhole'
    BY FoldsStay DEF Stop, writeVars, tierVars, rollVars
  <1>. QED
    BY <1>1, <1>2, <1>3, <1>4, <1>5, <1>6 DEF WindowsInv

\* The queue is drained, or dropped when the drain times out.
LEMMA DrainedKeeps ==
  ASSUME WindowsInv, Drained
  PROVE  WindowsInv'
PROOF
  <1>u. /\ UNCHANGED <<happens, now, tuned, acc, clock, ready>>
        /\ UNCHANGED <<minutes, newest, oldest, roll>>
        /\ queue' = <<>> /\ job' = "none" /\ up = "stopping" /\ up' = "down"
    BY DEF Drained, consVars, rollVars
  <1>r. rows' = rows \/ (queue # <<>> /\ job = "row" /\ rows' = rows \cup {Head(queue)})
    BY DEF Drained, WithRow
  <1>o. /\ rows' \in SUBSET Window
        /\ \A w \in rows' : w.start <= w.end /\ w.end <= now /\ w.start >= -Level
                            /\ (clock.start # None => w.end <= clock.start)
        /\ \A v, w \in rows' : v # w => v.end <= w.start \/ w.end <= v.start
    <2>1. CASE rows' = rows
      BY <2>1, WindowsInvGives DEF InOrder, Types
    <2>2. CASE queue # <<>> /\ job = "row" /\ rows' = rows \cup {Head(queue)}
      BY <2>2, <1>u, RowLands
    <2>. QED
      BY <2>1, <2>2, <1>r
  <1>e. /\ queue' \in Seq(Window) /\ Len(queue') <= QueueMax + 1 /\ InOrder'
        /\ \A m : Past(m) => Past(m)'
    <2>1. queue' \in Seq(Window) /\ Len(queue') = 0 /\ DOMAIN queue' = {}
      BY <1>u, NothingQueued
    <2>2. InOrder'
      BY <2>1, <1>u, <1>o DEF InOrder
    <2>3. \A m : Past(m) => Past(m)'
      BY <2>1, <1>u DEF Past
    <2>. QED
      BY <2>1, <2>2, <2>3, WindowsInvGives
  <1>1. TypeOK'
    BY <1>u, <1>o, <1>e, WindowsInvGives DEF TypeOK
  <1>2. Types'
    BY <1>u, <1>o, <1>e, WindowsInvGives DEF Types
  <1>3. Current'
    BY <1>u, <1>o, <1>e, WindowsInvGives DEF Current
  <1>4. InOrder'
    BY <1>e
  <1>5. MarksArePast'
    BY <1>u, <1>o, <1>e, WindowsInvGives DEF MarksArePast
  <1>6. FoldsAreWhole'
    <2>1. CASE rows' = rows
      BY <2>1, <1>u, FoldsStay
    <2>2. CASE queue # <<>> /\ rows' = rows \cup {Head(queue)}
      BY <2>2, <1>u, LandsAhead
    <2>. QED
      BY <2>1, <2>2, <1>r
  <1>. QED
    BY <1>1, <1>2, <1>3, <1>4, <1>5, <1>6 DEF WindowsInv

\* The pipeline starts anew.
LEMMA StartKeeps ==
  ASSUME WindowsInv, Start
  PROVE  WindowsInv'
PROOF
  <1>1. TypeOK'
    BY WindowsInvGives DEF Start, writeVars, tierVars, rollVars, boundVars, TypeOK, None
  <1>2. Types'
    BY WindowsInvGives DEF Start, writeVars, tierVars, rollVars, boundVars, Types, TypeOK,
       Tunes, None
  <1>3. Current'
    BY SMTT(30), WindowsInvGives DEF Start, writeVars, tierVars, rollVars, boundVars, Current,
       TypeOK,
       Types, None
  <1>4. InOrder'
    BY WindowsInvGives DEF Start, writeVars, tierVars, rollVars, boundVars, InOrder, TypeOK,
       Types, None
  <1>5. MarksArePast'
    BY WindowsInvGives DEF Start, writeVars, tierVars, rollVars, boundVars, MarksArePast, Past,
       Types, None
  <1>6. FoldsAreWhole'
    BY FoldsStay DEF Start, writeVars, tierVars, rollVars, boundVars
  <1>. QED
    BY <1>1, <1>2, <1>3, <1>4, <1>5, <1>6 DEF WindowsInv

\* The process ends in order: the queue is empty.
LEMMA CloseKeeps ==
  ASSUME WindowsInv, Close
  PROVE  WindowsInv'
PROOF
  <1>u. /\ up' = "up" /\ now' = now /\ ready' = now /\ acc' = NoAcc /\ clock' = NoClock
        /\ queue' = <<>> /\ job' = "none" /\ roll' = AtRest
        /\ UNCHANGED <<happens, tuned, rows, minutes, newest, oldest>>
    BY DEF Close, Reborn
  <1>1. TypeOK'
    BY <1>u, WindowsInvGives, NothingQueued DEF TypeOK, NoAcc, NoClock, None
  <1>2. Types'
    BY <1>u, WindowsInvGives, NothingQueued
       DEF Types, TypeOK, Clocks, Passes, NoAcc, NoClock, AtRest, Tunes, None
  <1>3. Current'
    BY <1>u, Numbers, WindowsInvGives DEF Current, NoAcc, NoClock, None
  <1>4. InOrder'
    BY <1>u, WindowsInvGives, NothingQueued DEF InOrder, TypeOK, Types, NoClock, None
  <1>5. MarksArePast'
    BY <1>u, WindowsInvGives, NothingQueued DEF MarksArePast, Past, Types, AtRest, NoClock, None
  <1>6. FoldsAreWhole'
    BY <1>u, WindowsInvGives, NothingQueued
       DEF FoldsAreWhole, Whole, InMinute, ForwardTo, BackTo, Types, AtRest, None
  <1>. QED
    BY <1>1, <1>2, <1>3, <1>4, <1>5, <1>6 DEF WindowsInv

\* A crash loses the queue and the open window; the rows and the minutes stay.
LEMMA CrashKeeps ==
  ASSUME WindowsInv, Crash
  PROVE  WindowsInv'
PROOF
  <1>u. up' = "up" /\ now' = now /\ ready' = now /\ acc' = NoAcc /\ clock' = NoClock
    BY DEF Crash, Reborn
  <1>1. TypeOK'
    BY WindowsInvGives, NothingQueued DEF Crash, Reborn, Fault, TypeOK, NoAcc, NoClock, None
  <1>2. Types'
    BY WindowsInvGives, NothingQueued DEF Crash, Reborn, Fault, Types, TypeOK, NoAcc, NoClock,
       AtRest, Tunes, None
  <1>3. Current'
    BY <1>u, Numbers, WindowsInvGives DEF Current, NoAcc, NoClock, None
  <1>4. InOrder'
    BY WindowsInvGives, NothingQueued DEF Crash, Reborn, Fault, InOrder, TypeOK, Types, NoClock,
       None
  <1>5. MarksArePast'
    BY WindowsInvGives, NothingQueued DEF Crash, Reborn, Fault, MarksArePast, Past, Types,
       AtRest, NoClock, None
  <1>6. FoldsAreWhole'
    BY WindowsInvGives, NothingQueued DEF Crash, Reborn, Fault, FoldsAreWhole, Whole, InMinute,
       ForwardTo, BackTo, Types, AtRest, None
  <1>. QED
    BY <1>1, <1>2, <1>3, <1>4, <1>5, <1>6 DEF WindowsInv

-----------------------------------------------------------------------------
(* The roll-up.                                                            *)

\* A pass begins: the first mark is the last closed minute.
LEMMA RollStartKeeps ==
  ASSUME WindowsInv, RollStart
  PROVE  WindowsInv'
PROOF
  <1>u. UNCHANGED <<happens, now, tuned, up, acc, clock, ready, queue, job, rows, minutes, oldest>>
    BY DEF RollStart, RollRest, consVars, writeVars
  <1>e. \A m : Past(m) => Past(m)'
    BY <1>u DEF Past
  <1>y. /\ newest \in {None} \cup Nat /\ oldest \in Int /\ roll.closed \in Int /\ roll.at \in Int
        /\ roll \in Passes
    BY WindowsInvGives DEF Types
  <1>l. LastClosed \in Nat /\ Past(LastClosed)
    BY LastClosedIsPast DEF RollStart
  <1>n. newest' = IF newest = None THEN LastClosed ELSE newest
    BY DEF RollStart
  <1>m. newest' \in Nat /\ Past(newest')
    BY <1>n, <1>l, <1>y, WindowsInvGives DEF MarksArePast
  <1>r. /\ newest' \in {None} \cup Nat /\ oldest' \in Int
        /\ roll' \in Passes
        /\ roll'.pc \in {"fold", "back"} /\ roll'.closed = LastClosed /\ roll'.at = newest'
        /\ roll'.pc = "fold" => newest' < LastClosed
    BY <1>l, <1>m, <1>u, <1>y DEF RollStart
  <1>1. TypeOK'
    BY <1>u, WindowsInvGives DEF TypeOK
  <1>2. Types'
    BY <1>u, <1>r, WindowsInvGives DEF Types
  <1>3. Current'
    BY <1>u, WindowsInvGives DEF Current
  <1>4. InOrder'
    BY <1>u, WindowsInvGives DEF InOrder
  <1>5. MarksArePast'
    BY <1>u, <1>e, <1>y, <1>l, <1>n, <1>m, <1>r, WindowsInvGives DEF MarksArePast, None
  <1>6. FoldsAreWhole'
    <2>1. CASE newest = None
      <3>1. oldest' = None /\ newest' \in Int
        BY <2>1, <1>u, <1>m, WindowsInvGives DEF MarksArePast
      <3>2. Whole(newest, newest)'
        BY <3>1, MinutesAreNumbers DEF Whole
      <3>. QED
        BY <3>1, <3>2, <1>r DEF FoldsAreWhole
    <2>2. CASE newest # None
      BY <2>2, <1>u, <1>n, <1>r, WindowsInvGives DEF FoldsAreWhole, Whole, InMinute
    <2>. QED
      BY <2>1, <2>2
  <1>. QED
    BY <1>1, <1>2, <1>3, <1>4, <1>5, <1>6 DEF WindowsInv

\* The minutes from the newer mark on are folded.
LEMMA RollForwardKeeps ==
  ASSUME WindowsInv, RollForward
  PROVE  WindowsInv'
PROOF
  <1>u. UNCHANGED <<happens, now, tuned, up, acc, clock, ready, queue, job, rows, newest, oldest>>
    BY DEF RollForward, RollRest, consVars, writeVars
  <1>e. \A m : Past(m) => Past(m)'
    BY <1>u DEF Past
  <1>y. /\ newest \in {None} \cup Nat /\ oldest \in Int /\ roll.closed \in Int /\ roll.at \in Int
        /\ roll \in Passes
    BY WindowsInvGives DEF Types
  <1>i. \A m : InMinute(m)' = InMinute(m)
    BY <1>u DEF InMinute
  <1>s. /\ ForwardTo \in Int /\ ForwardTo <= roll.closed
        /\ roll.at < roll.closed => roll.at <= ForwardTo
    BY <1>y, SpanIs DEF ForwardTo, Least
  <1>r. /\ newest' \in {None} \cup Nat /\ oldest' \in Int /\ roll.pc = "fold"
        /\ roll' \in Passes
        /\ roll'.pc = "mark" /\ roll'.closed = roll.closed /\ roll'.at = roll.at
    BY <1>u, <1>y DEF RollForward
  <1>m. /\ newest = roll.at /\ newest # None /\ newest \in Int /\ oldest <= newest
        /\ roll.at < roll.closed
    BY <1>r, <1>y, WindowsInvGives DEF MarksArePast
  <1>f. \A m \in Minutes : minutes'[m] = IF m \in roll.at..(ForwardTo - 1)
                                         THEN Cardinality(InMinute(m))
                                         ELSE minutes[m]
    BY DEF RollForward, Folded
  <1>1. TypeOK'
    BY <1>u, WindowsInvGives DEF TypeOK
  <1>2. Types'
    BY <1>u, <1>r, WindowsInvGives DEF Types
  <1>3. Current'
    BY <1>u, WindowsInvGives DEF Current
  <1>4. InOrder'
    BY <1>u, WindowsInvGives DEF InOrder
  <1>5. MarksArePast'
    BY <1>u, <1>e, <1>r, <1>m, WindowsInvGives DEF MarksArePast
  <1>6. FoldsAreWhole'
    <2>1. Whole(IF oldest = None THEN newest ELSE oldest, newest)'
      <3>1. ASSUME NEW m \in Minutes, m < newest PROVE minutes'[m] = minutes[m]
        BY <3>1, <1>f, <1>m, MinutesAreNumbers
      <3>. QED
        BY <3>1, <1>u, <1>i, <1>m, WindowsInvGives DEF FoldsAreWhole, Whole
    <2>2. ForwardTo' = ForwardTo
      BY <1>r DEF ForwardTo
    <2>3. Whole(roll.at, ForwardTo)'
      <3>1. ASSUME NEW m \in Minutes, roll.at <= m, m < ForwardTo
            PROVE  minutes'[m] = Cardinality(InMinute(m)')
        BY <3>1, <1>f, <1>i, <1>s, <1>y, MinutesAreNumbers
      <3>. QED
        BY <3>1, <2>2, <1>r DEF Whole
    <2>. QED
      BY <2>1, <2>3, <1>r DEF FoldsAreWhole
  <1>. QED
    BY <1>1, <1>2, <1>3, <1>4, <1>5, <1>6 DEF WindowsInv

\* The newer mark moves over them.
LEMMA RollMarkKeeps ==
  ASSUME WindowsInv, RollMark
  PROVE  WindowsInv'
PROOF
  <1>u. UNCHANGED <<happens, now, tuned, up, acc, clock, ready, queue, job, rows, minutes, oldest>>
    BY DEF RollMark, RollRest, consVars, writeVars
  <1>e. \A m : Past(m) => Past(m)'
    BY <1>u DEF Past
  <1>y. /\ newest \in {None} \cup Nat /\ oldest \in Int /\ roll.closed \in Int /\ roll.at \in Int
        /\ roll \in Passes
    BY WindowsInvGives DEF Types
  <1>i. \A m : InMinute(m)' = InMinute(m)
    BY <1>u DEF InMinute
  <1>s. /\ ForwardTo \in Int /\ ForwardTo <= roll.closed
        /\ roll.at < roll.closed => roll.at <= ForwardTo
    BY <1>y, SpanIs DEF ForwardTo, Least
  <1>r. /\ newest' = ForwardTo /\ oldest' \in Int /\ roll.pc = "mark"
        /\ roll' \in Passes
        /\ roll'.pc \in {"back", "fold"} /\ roll'.closed = roll.closed /\ roll'.at = ForwardTo
        /\ roll'.pc = "fold" => ForwardTo < roll.closed
    BY <1>u, <1>y, <1>s DEF RollMark
  <1>m. /\ newest = roll.at /\ newest \in Nat /\ oldest <= newest /\ roll.at < roll.closed
        /\ newest <= ForwardTo /\ newest # None /\ Past(roll.closed)
    BY <1>r, <1>y, <1>s, WindowsInvGives DEF MarksArePast
  <1>p. Past(ForwardTo) /\ ForwardTo \in Nat
    BY <1>m, <1>s, <1>y, PastBelow
  <1>1. TypeOK'
    BY <1>u, WindowsInvGives DEF TypeOK
  <1>2. Types'
    BY <1>u, <1>r, <1>p, WindowsInvGives DEF Types
  <1>3. Current'
    BY <1>u, WindowsInvGives DEF Current
  <1>4. InOrder'
    BY <1>u, WindowsInvGives DEF InOrder
  <1>5. MarksArePast'
    BY <1>u, <1>e, <1>y, <1>r, <1>m, <1>p, WindowsInvGives DEF MarksArePast, None
  <1>6. FoldsAreWhole'
    <2>1. Whole(IF oldest = None THEN newest ELSE oldest, newest)'
      <3>1. ASSUME NEW m \in Minutes, m < ForwardTo,
                   (IF oldest = None THEN ForwardTo ELSE oldest) <= m
            PROVE  minutes[m] = Cardinality(InMinute(m))
        <4>1. m \in Int /\ oldest # None /\ oldest <= m
          BY <3>1, <1>p, <1>y, MinutesAreNumbers
        <4>2. CASE m < newest
          BY <4>1, <4>2, <1>m, WindowsInvGives DEF FoldsAreWhole, Whole
        <4>3. CASE newest <= m
          BY <3>1, <4>3, <1>m, <1>r, WindowsInvGives DEF FoldsAreWhole, Whole
        <4>. QED
          BY <4>1, <4>2, <4>3, <1>m
      <3>. QED
        BY <3>1, <1>u, <1>r, <1>i DEF Whole
    <2>. QED
      BY <2>1, <1>r DEF FoldsAreWhole
  <1>. QED
    BY <1>1, <1>2, <1>3, <1>4, <1>5, <1>6 DEF WindowsInv

\* The pass turns to the minutes before the older mark.
LEMMA RollBackKeeps ==
  ASSUME WindowsInv, RollBack
  PROVE  WindowsInv'
PROOF
  <1>u. UNCHANGED <<happens, now, tuned, up, acc, clock, ready, queue, job, rows, minutes, newest>>
    BY DEF RollBack, RollRest, consVars, writeVars
  <1>e. \A m : Past(m) => Past(m)'
    BY <1>u DEF Past
  <1>y. /\ newest \in {None} \cup Nat /\ oldest \in Int /\ roll.closed \in Int /\ roll.at \in Int
        /\ roll \in Passes
    BY WindowsInvGives DEF Types
  <1>i. \A m : InMinute(m)' = InMinute(m)
    BY <1>u DEF InMinute
  <1>g. roll.pc = "back" /\ newest # None /\ newest \in Nat /\ oldest <= newest
    BY <1>y, WindowsInvGives DEF RollBack, MarksArePast
  <1>f. rows # {} => MinuteOf(Min({w.start : w \in rows})) \in Int
    <2>. DEFINE S == {w.start : w \in rows}
    <2>1. S \in SUBSET Int /\ \A x \in S : x >= -Level
      BY Numbers, WindowsInvGives DEF InOrder
    <2>2. rows # {} => S # {}
      OBVIOUS
    <2>3. rows # {} => Min(S) \in Int
      <3>. HIDE DEF S
      <3>. QED
        BY <2>1, <2>2, FirstIs
    <2>. QED
      BY <2>3, MinuteGrows
  <1>r. /\ newest' \in {None} \cup Nat /\ oldest' \in Int
        /\ roll' \in Passes
        /\ roll'.pc \in {"rest", "deep"} /\ (roll'.pc = "deep" => roll'.closed < oldest')
        /\ oldest' = oldest \/ (oldest = None /\ oldest' = newest)
        /\ roll'.pc = "deep" => oldest' = IF oldest = None THEN newest ELSE oldest
    <2>1. CASE rows = {}
      BY <2>1, <1>u, <1>y DEF RollBack, AtRest, None
    <2>2. CASE rows # {}
      <3>1. /\ oldest' = IF oldest = None THEN newest ELSE oldest
            /\ roll' = IF oldest' > MinuteOf(Min({w.start : w \in rows}))
                       THEN [pc |-> "deep",
                             closed |-> MinuteOf(Min({w.start : w \in rows})), at |-> None]
                       ELSE AtRest
        BY <2>2 DEF RollBack
      <3>. QED
        BY <3>1, <2>2, <1>f, <1>u, <1>y, <1>g DEF AtRest, None
    <2>. QED
      BY <2>1, <2>2
  <1>1. TypeOK'
    BY <1>u, WindowsInvGives DEF TypeOK
  <1>2. Types'
    BY <1>u, <1>r, WindowsInvGives DEF Types
  <1>3. Current'
    BY <1>u, WindowsInvGives DEF Current
  <1>4. InOrder'
    BY <1>u, WindowsInvGives DEF InOrder
  <1>5. MarksArePast'
    BY <1>u, <1>e, <1>y, <1>g, <1>r, WindowsInvGives DEF MarksArePast, None
  <1>6. FoldsAreWhole'
    <2>1. Whole(IF oldest = None THEN newest ELSE oldest, newest) /\ Whole(newest, newest)
      BY <1>g, MinutesAreNumbers, WindowsInvGives DEF FoldsAreWhole, Whole
    <2>2. ASSUME NEW lo \in Int, Whole(lo, newest)
          PROVE  \A m \in Minutes : lo <= m
          /\ m < newest' => minutes'[m] = Cardinality(InMinute(m)')
      BY <2>2, <1>u, <1>i DEF Whole
    <2>3. Whole(IF oldest = None THEN newest ELSE oldest, newest)'
      BY <2>1, <2>2, <1>u, <1>r, <1>y, <1>g DEF Whole
    <2>4. roll'.pc = "deep" => Whole(oldest, newest)'
      BY <2>1, <2>2, <1>r, <1>y, <1>g DEF Whole
    <2>. QED
      BY <2>3, <2>4, <1>r DEF FoldsAreWhole
  <1>. QED
    BY <1>1, <1>2, <1>3, <1>4, <1>5, <1>6 DEF WindowsInv

\* They are folded.
LEMMA RollDeepKeeps ==
  ASSUME WindowsInv, RollDeep
  PROVE  WindowsInv'
PROOF
  <1>u. UNCHANGED <<happens, now, tuned, up, acc, clock, ready, queue, job, rows, newest, oldest>>
    BY DEF RollDeep, RollRest, consVars, writeVars
  <1>e. \A m : Past(m) => Past(m)'
    BY <1>u DEF Past
  <1>y. /\ newest \in {None} \cup Nat /\ oldest \in Int /\ roll.closed \in Int /\ roll.at \in Int
        /\ roll \in Passes
    BY WindowsInvGives DEF Types
  <1>i. \A m : InMinute(m)' = InMinute(m)
    BY <1>u DEF InMinute
  <1>s. /\ BackTo \in Int /\ roll.closed <= BackTo
        /\ roll.closed < oldest => BackTo <= oldest
    BY <1>y, SpanIs DEF BackTo, Most
  <1>r. /\ newest' \in {None} \cup Nat /\ oldest' \in Int /\ roll.pc = "deep"
        /\ roll' \in Passes
        /\ roll'.pc = "deepmark" /\ roll'.closed = roll.closed /\ roll'.at = roll.at
    BY <1>u, <1>y DEF RollDeep
  <1>m. newest # None /\ newest \in Int /\ oldest <= newest /\ roll.closed < oldest
    BY <1>r, <1>y, WindowsInvGives DEF MarksArePast
  <1>f. \A m \in Minutes : minutes'[m] = IF m \in BackTo..(oldest - 1)
                                         THEN Cardinality(InMinute(m))
                                         ELSE minutes[m]
    BY DEF RollDeep, Folded
  <1>1. TypeOK'
    BY <1>u, WindowsInvGives DEF TypeOK
  <1>2. Types'
    BY <1>u, <1>r, WindowsInvGives DEF Types
  <1>3. Current'
    BY <1>u, WindowsInvGives DEF Current
  <1>4. InOrder'
    BY <1>u, WindowsInvGives DEF InOrder
  <1>5. MarksArePast'
    BY <1>u, <1>e, <1>r, <1>m, WindowsInvGives DEF MarksArePast
  <1>6. FoldsAreWhole'
    <2>1. ASSUME NEW m \in Minutes, oldest <= m PROVE minutes'[m] = minutes[m] /\ m \in Int
      BY <2>1, <1>f, <1>y, <1>s, MinutesAreNumbers
    <2>2. Whole(IF oldest = None THEN newest ELSE oldest, newest)'
      <3>1. ASSUME NEW m \in Minutes, (IF oldest = None THEN newest ELSE oldest) <= m
            PROVE oldest <= m
        BY <3>1, <1>m, <1>y, MinutesAreNumbers
      <3>. QED
        BY <3>1, <2>1, <1>u, <1>i, <1>m, WindowsInvGives DEF FoldsAreWhole, Whole
    <2>3. Whole(oldest, newest)'
      BY <2>1, <1>u, <1>i, <1>r, WindowsInvGives DEF FoldsAreWhole, Whole
    <2>4. BackTo' = BackTo
      BY <1>r, <1>u DEF BackTo
    <2>5. Whole(BackTo, oldest)'
      <3>1. ASSUME NEW m \in Minutes, BackTo <= m, m < oldest
            PROVE  minutes'[m] = Cardinality(InMinute(m)')
        BY <3>1, <1>f, <1>i, <1>s, <1>y, MinutesAreNumbers
      <3>. QED
        BY <3>1, <2>4, <1>u DEF Whole
    <2>. QED
      BY <2>2, <2>3, <2>5, <1>r DEF FoldsAreWhole
  <1>. QED
    BY <1>1, <1>2, <1>3, <1>4, <1>5, <1>6 DEF WindowsInv

\* The older mark moves over them.
LEMMA RollDeepMarkKeeps ==
  ASSUME WindowsInv, RollDeepMark
  PROVE  WindowsInv'
PROOF
  <1>u. UNCHANGED <<happens, now, tuned, up, acc, clock, ready, queue, job, rows, minutes, newest>>
    BY DEF RollDeepMark, RollRest, consVars, writeVars
  <1>e. \A m : Past(m) => Past(m)'
    BY <1>u DEF Past
  <1>y. /\ newest \in {None} \cup Nat /\ oldest \in Int /\ roll.closed \in Int /\ roll.at \in Int
        /\ roll \in Passes
    BY WindowsInvGives DEF Types
  <1>i. \A m : InMinute(m)' = InMinute(m)
    BY <1>u DEF InMinute
  <1>s. /\ BackTo \in Int /\ roll.closed <= BackTo
        /\ roll.closed < oldest => BackTo <= oldest
    BY <1>y, SpanIs DEF BackTo, Most
  <1>r. /\ newest' \in {None} \cup Nat /\ oldest' = BackTo /\ oldest' \in Int
        /\ roll.pc = "deepmark"
        /\ roll' \in Passes
        /\ roll'.pc \in {"rest", "deep"}
        /\ roll'.pc = "deep" => roll.closed < BackTo /\ roll'.closed = roll.closed
    BY <1>u, <1>y, <1>s DEF RollDeepMark, AtRest, None
  <1>m. newest # None /\ newest \in Nat /\ oldest <= newest /\ roll.closed < oldest
        /\ BackTo <= newest
    BY <1>r, <1>y, <1>s, WindowsInvGives DEF MarksArePast
  <1>1. TypeOK'
    BY <1>u, WindowsInvGives DEF TypeOK
  <1>2. Types'
    BY <1>u, <1>r, WindowsInvGives DEF Types
  <1>3. Current'
    BY <1>u, WindowsInvGives DEF Current
  <1>4. InOrder'
    BY <1>u, WindowsInvGives DEF InOrder
  <1>5. MarksArePast'
    BY <1>u, <1>e, <1>y, <1>r, <1>m, WindowsInvGives DEF MarksArePast
  <1>6. FoldsAreWhole'
    <2>1. ASSUME NEW m \in Minutes, BackTo <= m, m < newest
          PROVE  minutes[m] = Cardinality(InMinute(m))
      <3>1. m \in Int
        BY MinutesAreNumbers
      <3>2. CASE m < oldest
        BY <2>1, <3>2, <1>r, WindowsInvGives DEF FoldsAreWhole, Whole
      <3>3. CASE oldest <= m
        BY <2>1, <3>3, <1>r, WindowsInvGives DEF FoldsAreWhole, Whole
      <3>. QED
        BY <3>1, <3>2, <3>3, <1>y
    <2>2. Whole(oldest, newest)'
      BY <2>1, <1>u, <1>i, <1>r DEF Whole
    <2>3. Whole(newest, newest)'
      BY <1>u, <1>m, MinutesAreNumbers DEF Whole
    <2>. QED
      BY <2>2, <2>3, <1>r DEF FoldsAreWhole
  <1>. QED
    BY <1>1, <1>2, <1>3, <1>4, <1>5, <1>6 DEF WindowsInv

\* A pass that fails leaves the marks, which are behind what it folded.
LEMMA RollFailsKeeps ==
  ASSUME WindowsInv, RollFails
  PROVE  WindowsInv'
PROOF
  <1>u. UNCHANGED <<happens, now, tuned, up, acc, clock, ready, queue, job, rows, minutes, newest,
           oldest>>
    BY DEF RollFails, RollRest, consVars, writeVars
  <1>e. \A m : Past(m) => Past(m)'
    BY <1>u DEF Past
  <1>y. /\ newest \in {None} \cup Nat /\ oldest \in Int /\ roll.closed \in Int /\ roll.at \in Int
        /\ roll \in Passes
    BY WindowsInvGives DEF Types
  <1>r. /\ newest' \in {None} \cup Nat /\ oldest' \in Int /\ roll'.pc = "rest"
        /\ roll' \in Passes
    <2>1. roll' = AtRest
      BY DEF RollFails
    <2>2. AtRest \in Passes
          /\ AtRest.pc = "rest"
      BY DEF AtRest, None
    <2>. QED
      BY <2>1, <2>2, <1>u, <1>y
  <1>1. TypeOK'
    BY <1>u, WindowsInvGives DEF TypeOK
  <1>2. Types'
    BY <1>u, <1>r, WindowsInvGives DEF Types
  <1>3. Current'
    BY <1>u, WindowsInvGives DEF Current
  <1>4. InOrder'
    BY <1>u, WindowsInvGives DEF InOrder
  <1>5. MarksArePast'
    BY <1>u, <1>e, <1>r, WindowsInvGives DEF MarksArePast
  <1>6. FoldsAreWhole'
    BY <1>u, <1>r, WindowsInvGives DEF FoldsAreWhole, Whole, InMinute
  <1>. QED
    BY <1>1, <1>2, <1>3, <1>4, <1>5, <1>6 DEF WindowsInv

-----------------------------------------------------------------------------
(* All steps.                                                              *)

\* A step that changes nothing keeps the invariant.
LEMMA WindowsStutter ==
  ASSUME WindowsInv, UNCHANGED vars
  PROVE  WindowsInv'
PROOF
  <1>1. TypeOK' /\ Types' /\ Current'
    BY WindowsInvGives DEF vars, consVars, writeVars, tierVars, rollVars, boundVars, TypeOK,
       Types, Current
  <1>2. InOrder' /\ MarksArePast'
    BY WindowsInvGives DEF vars, consVars, writeVars, tierVars, rollVars, boundVars, InOrder,
       MarksArePast, Past
  <1>3. FoldsAreWhole'
    BY FoldsStay DEF vars, consVars, writeVars, tierVars, rollVars, boundVars
  <1>. QED
    BY <1>1, <1>2, <1>3 DEF WindowsInv

\* The first states satisfy it; a window older than the tiers ends by 0.
LEMMA InitWindows ==
  Init => WindowsInv
PROOF
  <1>. SUFFICES ASSUME Init PROVE WindowsInv
    OBVIOUS
  <1>a. /\ Duration \in Nat \ {0} /\ Level \in Nat \ {0} /\ Idle \in Nat /\ MaxNow \in Nat
        /\ QueueMax \in Nat /\ Tunings # {}
    BY WindowsAssumption
  <1>t. tuned \in Tunings
    BY <1>a DEF Init
  <1>q. queue = <<>> /\ queue \in Seq(Window) /\ Len(queue) = 0 /\ DOMAIN queue = {}
    BY DEF Init
  <1>r. \A w \in rows : w = [start |-> -Level, end |-> Least(0, Duration - Level), tune |-> tuned]
    BY DEF Init
  <1>l. Least(0, Duration - Level) \in Int /\ -Level <= Least(0, Duration - Level)
        /\ Least(0, Duration - Level) <= 0
    BY <1>a DEF Least
  <1>1. TypeOK
    BY <1>a, <1>q DEF Init, TypeOK, NoAcc, NoClock
  <1>2. Types
    <2>1. rows \in SUBSET Window
      BY <1>r, <1>l, <1>t, <1>a DEF Window, Tunes
    <2>. QED
      BY <2>1, <1>t, <1>q DEF Init, Types, NoAcc, NoClock, AtRest, None, Tunes
  <1>3. Current
    BY <1>a DEF Init, Current, NoAcc, NoClock
  <1>4. InOrder
    <2>1. clock.start = None /\ job = "none" /\ now = 0
      BY DEF Init, NoClock
    <2>2. \A w \in rows : w.start = -Level /\ w.end = Least(0, Duration - Level)
      BY <1>r
    <2>3. \A v, w \in rows : v = w
      BY <1>r
    <2>. QED
      BY <1>q, <1>l, <1>a, <2>1, <2>2, <2>3 DEF InOrder
  <1>5. MarksArePast
    BY DEF Init, MarksArePast, AtRest, None
  <1>6. FoldsAreWhole
    BY DEF Init, FoldsAreWhole, AtRest
  <1>. QED
    BY <1>1, <1>2, <1>3, <1>4, <1>5, <1>6 DEF WindowsInv

\* Every step of the consumer, the writer and the roll-up keeps it.
LEMMA StepKeepsWindowsInv ==
  WindowsInv /\ [Next]_vars => WindowsInv'
PROOF
  BY ReceiveKeeps, GoIdleKeeps, TickKeeps, WrTakeKeeps, WrRowKeeps, WrTierKeeps, StopKeeps,
     DrainedKeeps, StartKeeps, CloseKeeps, CrashKeeps, RollStartKeeps, RollForwardKeeps,
           RollMarkKeeps, RollBackKeeps, RollDeepKeeps, RollDeepMarkKeeps, RollFailsKeeps,
           WindowsStutter
     DEF Next

\* The invariant holds in every state.
THEOREM WindowsInvHolds == Spec => []WindowsInv
PROOF
  BY InitWindows, StepKeepsWindowsInv, PTL DEF Spec

\* Windows tile the time they cover (_AvgWindowClock of streaming.py closes one before
\* it opens the next, and _OrderedDbWriter keeps their order), and a minute between the
\* marks of the roll-up counts each window stored in it (rollup.py folds only minutes
\* that no window is still to be written into).
THEOREM WindowsAreWhole == Spec => []WindowsAndMinutesAreWhole
PROOF
  <1>1. WindowsInv => WindowsAndMinutesAreWhole
    <2>. SUFFICES ASSUME WindowsInv PROVE WindowsAndMinutesAreWhole
      OBVIOUS
    <2>1. TypeOK
      BY WindowsInvGives
    <2>2. WindowsTile
      <3>1. ASSUME NEW v \in AllWindows, NEW w \in AllWindows, v # w
            PROVE  v.end <= w.start \/ w.end <= v.start
        <4>1. v \in rows \/ \E i \in DOMAIN queue : v = queue[i]
          BY <3>1 DEF AllWindows
        <4>2. w \in rows \/ \E i \in DOMAIN queue : w = queue[i]
          BY <3>1 DEF AllWindows
        <4>3. CASE v \in rows /\ w \in rows
          BY <4>3, <3>1, WindowsInvGives DEF InOrder
        <4>4. ASSUME NEW i \in DOMAIN queue, NEW x \in rows, queue[i] # x
              PROVE  x.end <= queue[i].start
          BY <4>4, WindowsInvGives DEF InOrder
        <4>5. ASSUME NEW i \in DOMAIN queue, NEW j \in DOMAIN queue, i # j
              PROVE  queue[i].end <= queue[j].start \/ queue[j].end <= queue[i].start
          <5>1. i < j \/ j < i
            BY <4>5, Numbers
          <5>. QED
            BY <5>1, WindowsInvGives DEF InOrder
        <4>. QED
          BY <3>1, <4>1, <4>2, <4>3, <4>4, <4>5
      <3>. QED
        BY <3>1, WindowsInvGives DEF WindowsTile, Current
    <2>3. MinuteIsWhole
      BY WindowsInvGives DEF MinuteIsWhole, FoldsAreWhole, Whole
    <2>. QED
      BY <2>1, <2>2, <2>3 DEF WindowsAndMinutesAreWhole
  <1>. QED
    BY <1>1, WindowsInvHolds, PTL

-----------------------------------------------------------------------------
(* What the chart needs: the inductive invariant of the tiers.             *)

\* The windows of a tuning that begin in a period of the tiers.
PeriodOf(w) == Bucket(w.start)
InPeriod(t, p) == {w \in rows : w.tune = t /\ PeriodOf(w) = p}

\* What the sums S count of a period.
Has(S, t, p) == \E r \in S : r.tune = t /\ r.bucket = p
Amount(S, t, p) ==
  IF Has(S, t, p) THEN (CHOOSE r \in S : r.tune = t /\ r.bucket = p).n ELSE 0

\* The window whose row is stored, and that is added to the tiers next.
IsPending(t, p) == job = "tier" /\ Head(queue).tune = t /\ PeriodOf(Head(queue)) = p
Pending(t, p) == IF IsPending(t, p) THEN 1 ELSE 0
Summed(t, p) == Amount(tiers, t, p) + Amount(open, t, p) + Pending(t, p)

\* No two windows begin at once: the later one is queued later.
StartsDiffer ==
  /\ \A w \in rows : w.start < now /\ (clock.start # None => w.start < clock.start)
  /\ \A i \in DOMAIN queue :
       /\ queue[i].start < now /\ (clock.start # None => queue[i].start < clock.start)
       /\ \A j \in DOMAIN queue : i < j => queue[i].start < queue[j].start
       /\ \A w \in rows : w.start < queue[i].start \/ (i = 1 /\ job = "tier" /\ w = queue[1])
  /\ \A v, w \in rows : v # w => v.start # w.start
  /\ job = "tier" => Head(queue) \in rows
  /\ up = "down" => queue = <<>>

\* A period is summed once, in the period under way and in those that ended.
Sums == [bucket : Int, tune : Tunes, n : Nat]
OnePerPeriod(S) == \A r, s \in S : r.bucket = s.bucket /\ r.tune = s.tune => r = s
SumsInOrder ==
  /\ tiers \in SUBSET Sums /\ open \in SUBSET Sums /\ since \in {None} \cup Nat
  /\ inexact \in BOOLEAN
  /\ IsFiniteSet(tiers) /\ IsFiniteSet(open) /\ IsFiniteSet(rows)
  /\ OnePerPeriod(tiers) /\ OnePerPeriod(open)
  /\ \A r \in tiers \cup open : Bucket(r.bucket) = r.bucket /\ r.bucket <= now
  /\ \A r \in open :
       /\ clock.start # None => r.bucket <= clock.start
       /\ \A i \in DOMAIN queue : r.bucket <= queue[i].start
       /\ \A s \in open : r.bucket = s.bucket
  /\ since # None \/ job = "tier" => "tiers" \in happens
  /\ ~inexact =>
       /\ since = None => ~noted /\ tiers = {} /\ open = {}
       /\ tiers # {} => open # {}
       /\ \A r \in tiers, s \in open : r.bucket + Level <= s.bucket

\* A period whose rows a retried write merged twice.
Twice(t, p) == [bucket |-> p, tune |-> t] \in doubled

\* No window is summed twice where no row was merged twice, and from the coverage's start
\* on none is left out while no write of the tiers broke off.
CountedOnce ==
  /\ \A t \in Tunes, p \in Int : Twice(t, p) \/ Summed(t, p) <= Cardinality(InPeriod(t, p))
  /\ ~inexact /\ since # None =>
       \A t \in Tunes, p \in Int : p >= since => Summed(t, p) = Cardinality(InPeriod(t, p))

\* The inductive invariant of the chart.
ChartInv == StartsDiffer /\ SumsInOrder /\ CountedOnce

-----------------------------------------------------------------------------
(* Periods and sums over sets.                                             *)

\* The times of a period.
LEMMA BucketIs ==
  ASSUME NEW t \in Int
  PROVE  /\ Bucket(t) \in Int /\ Bucket(t) <= t /\ t < Bucket(t) + Level
         /\ Bucket(Bucket(t)) = Bucket(t) /\ (0 <= t => 0 <= Bucket(t))
         /\ \A b \in Int : Bucket(b) = b /\ b <= t => b <= Bucket(t)
         /\ \A b \in Int : Bucket(b) = b /\ t < b => Bucket(t) + Level <= b
         /\ \A b \in Int : Bucket(b) = b /\ b <= t /\ t < b + Level => Bucket(t) = b
PROOF
  <1>1. Level \in Nat \ {0}
    BY WindowsAssumption
  <1>. DEFINE q == t \div Level
  <1>2. q \in Int /\ q * Level <= t /\ t < q * Level + Level
    BY <1>1
  <1>3. \A k \in Int : (k * Level) \div Level = k
    BY <1>1
  <1>4. Bucket(t) = q * Level
    BY DEF Bucket
  <1>5. \A j, k \in Int : j * Level < k * Level + Level => j <= k
    <2>1. ASSUME NEW j \in Int, NEW k \in Int, k < j PROVE k * Level + Level <= j * Level
      <3>1. j - (k + 1) \in Nat
        BY <2>1
      <3>2. (j - (k + 1)) * Level \in Nat
        BY <3>1, <1>1
      <3>. QED
        BY <3>2, <1>1
    <2>. QED
      BY <2>1, <1>1
  <1>6. \A j, k \in Int : j <= k => j * Level <= k * Level
    <2>1. ASSUME NEW j \in Int, NEW k \in Int, j <= k PROVE j * Level <= k * Level
      <3>1. k - j \in Nat
        BY <2>1
      <3>2. (k - j) * Level \in Nat
        BY <3>1, <1>1
      <3>. QED
        BY <3>2, <1>1
    <2>. QED
      BY <2>1
  <1>6a. \A j, k \in Int : j * Level < k * Level => j + 1 <= k
    <2>1. ASSUME NEW j \in Int, NEW k \in Int, j * Level < k * Level PROVE j + 1 <= k
      <3>1. ~ (k <= j)
        BY <2>1, <1>6, <1>1
      <3>. QED
        BY <3>1
    <2>. QED
      BY <2>1
  <1>7. \A b \in Int : Bucket(b) = b => b \div Level \in Int /\ b = (b \div Level) * Level
    BY <1>1 DEF Bucket
  <1>. HIDE DEF q
  <1>8. Bucket(t) \in Int /\ Bucket(t) <= t /\ t < Bucket(t) + Level
    BY <1>1, <1>2, <1>4
  <1>9. Bucket(Bucket(t)) = Bucket(t)
    BY <1>2, <1>3, <1>4 DEF Bucket
  <1>10. 0 <= t => 0 <= Bucket(t)
    <2>1. 0 <= t => 0 <= q
      BY <1>1, <1>2, <1>5
    <2>. QED
      BY <2>1, <1>1, <1>2, <1>4, <1>6
  <1>11. ASSUME NEW b \in Int, Bucket(b) = b, b <= t PROVE b <= Bucket(t)
    <2>1. b \div Level <= q
      BY <1>1, <1>2, <1>5, <1>7, <1>11
    <2>. QED
      BY <2>1, <1>2, <1>4, <1>6, <1>7, <1>11
  <1>12. ASSUME NEW b \in Int, Bucket(b) = b, t < b PROVE Bucket(t) + Level <= b
    <2>1. q * Level < (b \div Level) * Level
      BY <1>1, <1>2, <1>7, <1>12
    <2>2. q + 1 <= b \div Level
      BY <2>1, <1>2, <1>6a, <1>7, <1>12
    <2>3. (q + 1) * Level <= (b \div Level) * Level
      BY <2>2, <1>2, <1>6, <1>7, <1>12
    <2>. QED
      BY <2>3, <1>1, <1>2, <1>4, <1>7, <1>12
  <1>13. ASSUME NEW b \in Int, Bucket(b) = b, b <= t, t < b + Level PROVE Bucket(t) = b
    <2>1. b <= Bucket(t)
      BY <1>11, <1>13
    <2>2. b < Bucket(t) => b + Level <= Bucket(t)
      <3>1. ASSUME b < Bucket(t) PROVE b + Level <= Bucket(t)
        <4>1. (b \div Level) * Level < q * Level
          BY <3>1, <1>4, <1>7, <1>13
        <4>2. b \div Level + 1 <= q
          BY <4>1, <1>2, <1>6a, <1>7, <1>13
        <4>3. (b \div Level + 1) * Level <= q * Level
          BY <4>2, <1>2, <1>6, <1>7, <1>13
        <4>. QED
          BY <4>3, <1>1, <1>4, <1>7, <1>13
      <3>. QED
        BY <3>1
    <2>. QED
      BY <2>1, <2>2, <1>1, <1>8, <1>13
  <1>. QED
    BY <1>8, <1>9, <1>10, <1>11, <1>12, <1>13

\* The first period that begins at a time or later.
LEMMA NextBucketIs ==
  ASSUME NEW t \in Int
  PROVE  /\ NextBucket(t) \in Int /\ t <= NextBucket(t) /\ NextBucket(t) < t + Level
         /\ Bucket(NextBucket(t)) = NextBucket(t)
PROOF
  <1>1. Level \in Nat \ {0} /\ t + Level - 1 \in Int
    BY WindowsAssumption
  <1>. QED
    BY <1>1, BucketIs DEF NextBucket

\* What holds at 0, and at k when it does at k - 1, holds up to m.
LEMMA CountsUp ==
  ASSUME NEW m \in Nat, NEW S, 0 \in S, \A k \in 1..m : k - 1 \in S => k \in S
  PROVE  \A k \in 0..m : k \in S
PROOF
  <1>. DEFINE T == {k \in 0..m : k \notin S}
  <1>1. SUFFICES ASSUME T # {} PROVE FALSE
    OBVIOUS
  <1>2. IsWellFoundedOn(OpToRel(<, Nat), Nat)
    BY NatLessThanWellFounded
  <1>3. PICK c \in T : \A d \in T : <<d, c>> \notin OpToRel(<, Nat)
    <2>1. T \subseteq Nat
      OBVIOUS
    <2>. HIDE DEF T
    <2>. QED
      BY <1>1, <1>2, <2>1, WFMin
  <1>4. c - 1 \in 0..m /\ c - 1 \notin S /\ c \in Nat
    <2>1. c \in 0..m /\ c \notin S
      OBVIOUS
    <2>2. c \in 1..m
      BY <2>1
    <2>3. c - 1 \notin S
      BY <2>1, <2>2
    <2>. QED
      BY <2>2, <2>3
  <1>5. c - 1 \in T /\ <<c - 1, c>> \in Nat \X Nat /\ c - 1 < c
    <2>1. c - 1 \in T
      BY <1>4
    <2>2. c - 1 \in Nat /\ c \in Nat
      BY <1>4
    <2>. QED
      BY <2>1, <2>2
  <1>6. <<c - 1, c>>[1] = c - 1 /\ <<c - 1, c>>[2] = c
    OBVIOUS
  <1>7. <<c - 1, c>> \in OpToRel(<, Nat)
    BY <1>5, <1>6 DEF OpToRel
  <1>. QED
    BY <1>3, <1>5, <1>7, Zenon

\* The set without one of its elements.
LEMMA OneLess ==
  ASSUME NEW s, IsFiniteSet(s), s # {}
  PROVE  /\ (CHOOSE x \in s : TRUE) \in s /\ IsFiniteSet(s \ {CHOOSE x \in s : TRUE})
         /\ Cardinality(s) \in Nat \ {0}
         /\ Cardinality(s \ {CHOOSE x \in s : TRUE}) = Cardinality(s) - 1
PROOF
  <1>. DEFINE c == CHOOSE x \in s : TRUE
  <1>1. c \in s
    OBVIOUS
  <1>. HIDE DEF c
  <1>2. IsFiniteSet(s \ {c}) /\ Cardinality(s \ {c}) = Cardinality(s) - 1
    BY <1>1, FS_RemoveElement
  <1>3. Cardinality(s) \in Nat /\ Cardinality(s) # 0
    BY <1>1, FS_CardinalityType, FS_EmptySet
  <1>. QED
    BY <1>1, <1>2, <1>3 DEF c

\* The sum of what periods count: one of them, and the sum of the others.
Total(S) == FoldSet(LAMBDA r, n : n + r.n, 0, S)
Adding(h, R) ==
  [s \in SUBSET R |-> IF s = {} THEN 0
                      ELSE h[s \ {CHOOSE x \in s : TRUE}] + (CHOOSE x \in s : TRUE).n]

\* It is a function of the sets, defined from smaller ones.
LEMMA TotalIs ==
  ASSUME NEW R, IsFiniteSet(R)
  PROVE  \E f : f = Adding(f, R) /\ Total(R) = f[R]
PROOF
  <1>. DEFINE Good(g, k) == \A s \in SUBSET R : Cardinality(s) <= k => g[s] = Adding(g, R)[s]
              N == Cardinality(R)
              T == {k \in 0..N : \E g : g = [s \in SUBSET R |-> g[s]] /\ Good(g, k)}
  <1>1. N \in Nat /\ \A s \in SUBSET R : IsFiniteSet(s) /\ Cardinality(s) \in 0..N
    BY FS_CardinalityType, FS_Subset
  <1>2. 0 \in T
    <2>. DEFINE g == [s \in SUBSET R |-> 0]
    <2>1. Good(g, 0)
      <3>1. ASSUME NEW s \in SUBSET R, Cardinality(s) <= 0 PROVE s = {}
        BY <3>1, <1>1, FS_EmptySet
      <3>. QED
        BY <3>1 DEF Adding
    <2>2. g = [s \in SUBSET R |-> g[s]]
      OBVIOUS
    <2>. HIDE DEF g, Good
    <2>3. \E h : h = [s \in SUBSET R |-> h[s]] /\ Good(h, 0)
      BY <2>1, <2>2
    <2>. QED
      BY <2>3, <1>1
  <1>3. ASSUME NEW k \in 1..N, k - 1 \in T PROVE k \in T
    <2>1. PICK g : Good(g, k - 1)
      BY <1>3
    <2>. DEFINE h == Adding(g, R)
    <2>2. h = [s \in SUBSET R |-> h[s]]
      BY DEF Adding
    <2>3. ASSUME NEW s \in SUBSET R, Cardinality(s) <= k PROVE h[s] = Adding(h, R)[s]
      <3>1. CASE s = {}
        BY <3>1 DEF Adding
      <3>2. CASE s # {}
        <4>. DEFINE c == CHOOSE x \in s : TRUE
        <4>1. s \ {c} \in SUBSET R /\ Cardinality(s \ {c}) <= k - 1
          BY <1>1, <2>3, <3>2, OneLess
        <4>2. g[s \ {c}] = h[s \ {c}]
          BY <2>1, <4>1
        <4>3. h[s] = g[s \ {c}] + c.n
          BY <3>2 DEF Adding
        <4>4. Adding(h, R)[s] = h[s \ {c}] + c.n
          BY <3>2 DEF Adding
        <4>. QED
          BY <4>2, <4>3, <4>4
      <3>. QED
        BY <3>1, <3>2
    <2>4. Good(h, k)
      BY <2>3
    <2>. HIDE DEF h, Good
    <2>5. \E e : e = [s \in SUBSET R |-> e[s]] /\ Good(e, k)
      BY <2>2, <2>4
    <2>. QED
      BY <2>5, <1>3
  <1>4. N \in T
    <2>. HIDE DEF T
    <2>. QED
      BY <1>1, <1>2, <1>3, CountsUp
  <1>5. PICK g : g = [s \in SUBSET R |-> g[s]] /\ Good(g, N)
    BY <1>4
  <1>6. g = Adding(g, R)
    <2>1. ASSUME NEW s \in SUBSET R PROVE g[s] = Adding(g, R)[s]
      <3>1. Cardinality(s) <= N
        BY <1>1
      <3>. QED
        BY <3>1, <1>5
    <2>2. Adding(g, R) = [s \in SUBSET R |-> Adding(g, R)[s]]
      BY DEF Adding
    <2>3. g = [s \in SUBSET R |-> g[s]]
      BY <1>5
    <2>. HIDE DEF Good
    <2>. QED
      BY <2>1, <2>2, <2>3
  <1>. DEFINE f == CHOOSE h : h = Adding(h, R)
  <1>7. Total(R) = f[R]
    BY DEF Total, FoldSet, MapThenFoldSet, Adding
  <1>8. f = Adding(f, R)
    BY <1>6
  <1>. QED
    BY <1>7, <1>8

\* All that belongs to one of the periods.
AllOf(C, R) == UNION {C[r] : r \in R}

\* Sets apart from each other have as many elements together as they have one by one.
LEMMA TotalCounts ==
  ASSUME NEW R, IsFiniteSet(R), \A r \in R : r.n \in Nat, NEW C, \A r \in R : IsFiniteSet(C[r]),
         \A r, s \in R : r # s => C[r] \cap C[s] = {}
  PROVE  /\ IsFiniteSet(AllOf(C, R)) /\ Total(R) \in Nat
         /\ (\A r \in R : r.n <= Cardinality(C[r])) => Total(R) <= Cardinality(AllOf(C, R))
         /\ (\A r \in R : r.n = Cardinality(C[r])) => Total(R) = Cardinality(AllOf(C, R))
PROOF
  <1>1. PICK f : f = Adding(f, R) /\ Total(R) = f[R]
    BY TotalIs
  <1>. DEFINE U(s) == UNION {C[r] : r \in s}
              Fits(s) == /\ IsFiniteSet(U(s)) /\ f[s] \in Nat
                         /\ (\A r \in R : r.n <= Cardinality(C[r])) => f[s] <= Cardinality(U(s))
                         /\ (\A r \in R : r.n = Cardinality(C[r])) => f[s] = Cardinality(U(s))
              N == Cardinality(R)
              T == {k \in 0..N : \A s \in SUBSET R : Cardinality(s) = k => Fits(s)}
  <1>2. N \in Nat /\ \A s \in SUBSET R : IsFiniteSet(s) /\ Cardinality(s) \in 0..N
    BY FS_CardinalityType, FS_Subset
  <1>3. 0 \in T
    <2>1. ASSUME NEW s \in SUBSET R, Cardinality(s) = 0 PROVE Fits(s)
      <3>1. s = {}
        BY <2>1, <1>2, FS_EmptySet
      <3>2. f[s] = Adding(f, R)[s]
        BY <1>1
      <3>3. f[s] = 0
        BY <3>1, <3>2 DEF Adding
      <3>4. U(s) = {}
        BY <3>1
      <3>. QED
        BY <3>3, <3>4, FS_EmptySet
    <2>. HIDE DEF Fits
    <2>. QED
      BY <2>1, <1>2
  <1>4. ASSUME NEW k \in 1..N, k - 1 \in T PROVE k \in T
    <2>1. ASSUME NEW s \in SUBSET R, Cardinality(s) = k PROVE Fits(s)
      <3>. DEFINE c == CHOOSE x \in s : TRUE
                  z == s \ {c}
      <3>1. s # {}
        BY <2>1, FS_EmptySet
      <3>2. c \in s /\ z \in SUBSET R /\ Cardinality(z) = k - 1
        BY <1>2, <2>1, <3>1, OneLess
      <3>3. Fits(z)
        BY <1>4, <3>2
      <3>4. f[s] = Adding(f, R)[s]
        BY <1>1
      <3>5. f[s] = f[z] + c.n
        BY <3>1, <3>4 DEF Adding
      <3>. HIDE DEF c
      <3>6. U(s) = U(z) \cup C[c]
        BY <3>2
      <3>7. U(z) \cap C[c] = {}
        <4>1. ASSUME NEW x \in U(z), x \in C[c] PROVE FALSE
          <5>1. PICK r \in z : x \in C[r]
            BY <4>1
          <5>2. r # c /\ r \in R /\ c \in R
            BY <5>1, <3>2
          <5>. QED
            BY <4>1, <5>1, <5>2
        <4>. QED
          BY <4>1
      <3>8. IsFiniteSet(C[c]) /\ IsFiniteSet(U(z)) /\ c.n \in Nat /\ c \in R
        BY <3>2, <3>3
      <3>. HIDE DEF z, U
      <3>9. /\ IsFiniteSet(U(s))
            /\ Cardinality(U(s)) = Cardinality(U(z)) + Cardinality(C[c])
        <4>1. IsFiniteSet(U(z) \cup C[c])
              /\ Cardinality(U(z) \cup C[c])
                   = Cardinality(U(z)) + Cardinality(C[c]) - Cardinality(U(z) \cap C[c])
          BY <3>8, FS_Union
        <4>2. Cardinality(U(z)) \in Nat /\ Cardinality(C[c]) \in Nat
          BY <3>8, FS_CardinalityType
        <4>3. Cardinality(U(z) \cap C[c]) = 0
          BY <3>7, FS_EmptySet
        <4>. QED
          BY <3>6, <4>1, <4>2, <4>3
      <3>10. Cardinality(U(z)) \in Nat /\ Cardinality(C[c]) \in Nat
        BY <3>8, FS_CardinalityType
      <3>. QED
        BY <3>3, <3>5, <3>8, <3>9, <3>10
    <2>. HIDE DEF Fits
    <2>. QED
      BY <2>1
  <1>5. N \in T
    <2>. HIDE DEF T
    <2>. QED
      BY <1>2, <1>3, <1>4, CountsUp
  <1>6. Fits(R)
    <2>. HIDE DEF Fits
    <2>. QED
      BY <1>5
  <1>. QED
    BY <1>1, <1>6 DEF AllOf

\* The sum of nothing, and of one number.
LEMMA SumOfOne ==
  /\ SumSet({}) = 0
  /\ \A x \in Int : SumSet({x}) = x
PROOF
  <1>. DEFINE Step(h, R) == [s \in SUBSET R |-> IF s = {} THEN 0
                      ELSE (CHOOSE x \in s : TRUE) + h[s \ {CHOOSE x \in s : TRUE}]]
              f(R) == CHOOSE h : h = Step(h, R)
  <1>1. \A R : SumSet(R) = f(R)[R]
    BY DEF SumSet, FoldSet, MapThenFoldSet
  <1>2. SumSet({}) = 0
    <2>. DEFINE g == [s \in SUBSET {} |-> 0]
    <2>1. g = Step(g, {})
      OBVIOUS
    <2>2. f({}) = Step(f({}), {})
      <3>. HIDE DEF Step, g
      <3>. QED
        BY <2>1
    <2>3. f({})[{}] = 0
      <3>. HIDE DEF f
      <3>. QED
        BY <2>2
    <2>. QED
      BY <1>1, <2>3
  <1>3. ASSUME NEW x \in Int PROVE SumSet({x}) = x
    <2>. DEFINE g == [s \in SUBSET {x} |-> IF s = {} THEN 0 ELSE x]
    <2>1. \A s \in SUBSET {x} : s # {} => (CHOOSE y \in s : TRUE) = x /\ s = {x}
      OBVIOUS
    <2>2. g = Step(g, {x})
      <3>1. \A s \in SUBSET {x} : g[s] = Step(g, {x})[s]
        BY <2>1
      <3>2. Step(g, {x}) = [s \in SUBSET {x} |-> Step(g, {x})[s]]
        OBVIOUS
      <3>3. g = [s \in SUBSET {x} |-> g[s]]
        OBVIOUS
      <3>. HIDE DEF g, Step
      <3>. QED
        BY <3>1, <3>2, <3>3
    <2>3. f({x}) = Step(f({x}), {x})
      <3>. HIDE DEF Step, g
      <3>. QED
        BY <2>2
    <2>4. f({x})[{}] = 0 /\ f({x})[{x}] = x + f({x})[{}]
      <3>. DEFINE h == f({x})
      <3>. HIDE DEF f
      <3>1. h[{}] = Step(h, {x})[{}] /\ h[{x}] = Step(h, {x})[{x}]
        BY <2>3
      <3>2. Step(h, {x})[{}] = 0 /\ Step(h, {x})[{x}] = x + h[{}]
        <4>1. {x} \ {x} = {} /\ {x} # {} /\ (CHOOSE y \in {x} : TRUE) = x
          OBVIOUS
        <4>. HIDE DEF h
        <4>. QED
          BY <4>1
      <3>. QED
        BY <3>1, <3>2
    <2>5. SumSet({x}) = f({x})[{x}]
      BY <1>1
    <2>. HIDE DEF f
    <2>. QED
      BY <2>4, <2>5
  <1>. QED
    BY <1>2, <1>3

\* The image of a finite set is finite.
LEMMA ImageIs ==
  ASSUME NEW S, IsFiniteSet(S), NEW f
  PROVE  IsFiniteSet({f[x] : x \in S})
PROOF
  <1>. DEFINE g == [x \in S |-> f[x]]
              T == {f[x] : x \in S}
  <1>1. g \in Surjection(S, T)
    <2>1. g \in [S -> T] /\ \A y \in T : \E x \in S : g[x] = y
      OBVIOUS
    <2>. QED
      BY <2>1 DEF Surjection
  <1>. QED
    BY <1>1, FS_Surjection

-----------------------------------------------------------------------------
(* What sums count of a period.                                            *)

\* The amount of a period is that of its one record.
LEMMA AmountIs ==
  ASSUME NEW S \in SUBSET Sums, OnePerPeriod(S), NEW t, NEW p
  PROVE  /\ Amount(S, t, p) \in Nat
         /\ \A r \in S : r.tune = t /\ r.bucket = p => Amount(S, t, p) = r.n
         /\ ~Has(S, t, p) => Amount(S, t, p) = 0
PROOF
  <1>1. ASSUME NEW r \in S, r.tune = t, r.bucket = p PROVE Amount(S, t, p) = r.n
    <2>. DEFINE c == CHOOSE x \in S : x.tune = t /\ x.bucket = p
    <2>1. c \in S /\ c.tune = t /\ c.bucket = p
      BY <1>1
    <2>. HIDE DEF c
    <2>2. c = r
      BY <1>1, <2>1 DEF OnePerPeriod
    <2>3. Has(S, t, p)
      BY <1>1 DEF Has
    <2>4. Amount(S, t, p) = c.n
      BY <2>3 DEF Amount, c
    <2>. QED
      BY <2>2, <2>4
  <1>2. ~Has(S, t, p) => Amount(S, t, p) = 0
    BY DEF Amount
  <1>3. \A r \in S : r.n \in Nat
    BY DEF Sums
  <1>4. Has(S, t, p) => \E r \in S : r.tune = t /\ r.bucket = p
    BY DEF Has
  <1>. QED
    BY <1>1, <1>2, <1>3, <1>4

\* Sums are merged: a period of rs holds what it gets, the others what they had.
LEMMA MergedIs ==
  ASSUME tiers \in SUBSET Sums, IsFiniteSet(tiers), OnePerPeriod(tiers),
         NEW rs \in SUBSET Sums, IsFiniteSet(rs), OnePerPeriod(rs), NEW sum \in [rs -> Nat]
  PROVE  /\ Merged(rs, sum) \in SUBSET Sums /\ IsFiniteSet(Merged(rs, sum))
         /\ OnePerPeriod(Merged(rs, sum))
         /\ \A r \in rs : Amount(Merged(rs, sum), r.tune, r.bucket) = sum[r]
         /\ \A t, p : ~Has(rs, t, p) => Amount(Merged(rs, sum), t, p) = Amount(tiers, t, p)
         /\ \A r \in Merged(rs, sum) : \E o \in tiers \cup rs : o.bucket = r.bucket
         /\ rs = {} => Merged(rs, sum) = tiers
PROOF
  <1>. DEFINE with(r) == [r EXCEPT !.n = sum[r]]
              kept == {o \in tiers : \A r \in rs : ~SamePeriod(o, r)}
              held == {x \in rs : sum[x] # 0}
              new == {with(r) : r \in held}
  <1>1. Merged(rs, sum) = kept \cup new
    BY DEF Merged
  <1>2. held \subseteq rs /\ IsFiniteSet(held) /\ IsFiniteSet(kept) /\ kept \subseteq tiers
    <2>1. held \subseteq rs /\ kept \subseteq tiers
      OBVIOUS
    <2>. HIDE DEF held, kept
    <2>. QED
      BY <2>1, FS_Subset
  <1>3. ASSUME NEW r \in rs
        PROVE  /\ with(r) \in Sums /\ with(r).bucket = r.bucket /\ with(r).tune = r.tune
               /\ with(r).n = sum[r] /\ sum[r] \in Nat
    BY DEF Sums
  <1>. HIDE DEF with
  <1>4. kept \cup new \in SUBSET Sums
    BY <1>3
  <1>5. IsFiniteSet(kept \cup new)
    <2>2. IsFiniteSet(new)
      <3>. DEFINE f == [r \in held |-> with(r)]
      <3>1. IsFiniteSet({f[r] : r \in held})
        <4>. HIDE DEF f, held
        <4>. QED
          BY <1>2, ImageIs
      <3>2. new = {f[r] : r \in held}
        OBVIOUS
      <3>. QED
        BY <3>1, <3>2
    <2>. HIDE DEF kept, new
    <2>. QED
      BY <1>2, <2>2, FS_Union
  <1>6. OnePerPeriod(kept \cup new)
    <2>1. ASSUME NEW r \in kept, NEW s \in kept, r.bucket = s.bucket, r.tune = s.tune PROVE r = s
      BY <2>1 DEF OnePerPeriod
    <2>2. ASSUME NEW r \in kept, NEW s \in new PROVE ~(r.bucket = s.bucket /\ r.tune = s.tune)
      <3>1. PICK x \in rs : s = with(x)
        BY <2>2
      <3>2. ~SamePeriod(r, x)
        BY <2>2
      <3>. QED
        BY <3>1, <3>2, <1>3 DEF SamePeriod
    <2>3. ASSUME NEW r \in new, NEW s \in new, r.bucket = s.bucket, r.tune = s.tune PROVE r = s
      <3>1. PICK x \in rs : r = with(x)
        BY <2>3
      <3>2. PICK y \in rs : s = with(y)
        BY <2>3
      <3>3. x = y
        BY <3>1, <3>2, <2>3, <1>3 DEF OnePerPeriod
      <3>. QED
        BY <3>1, <3>2, <3>3
    <2>. HIDE DEF kept, new
    <2>4. ASSUME NEW r \in kept \cup new, NEW s \in kept \cup new,
                 r.bucket = s.bucket, r.tune = s.tune
          PROVE  r = s
      BY <2>1, <2>2, <2>3, <2>4
    <2>. QED
      BY <2>4 DEF OnePerPeriod
  <1>7. ASSUME NEW r \in rs PROVE Amount(kept \cup new, r.tune, r.bucket) = sum[r]
    <2>1. CASE sum[r] # 0
      <3>1. with(r) \in kept \cup new
        BY <2>1
      <3>. HIDE DEF kept, new
      <3>. QED
        BY <3>1, <1>3, <1>4, <1>6, AmountIs
    <2>2. CASE sum[r] = 0
      <3>1. ~Has(kept \cup new, r.tune, r.bucket)
        <4>1. ASSUME NEW o \in kept \cup new, o.tune = r.tune, o.bucket = r.bucket PROVE FALSE
          <5>1. CASE o \in kept
            BY <5>1, <4>1 DEF SamePeriod
          <5>2. CASE o \in new
            <6>1. PICK x \in held : o = with(x)
              BY <5>2
            <6>2. x = r
              BY <6>1, <4>1, <1>2, <1>3 DEF OnePerPeriod
            <6>. QED
              BY <6>1, <6>2, <2>2
          <5>. QED
            BY <4>1, <5>1, <5>2
        <4>. QED
          BY <4>1 DEF Has
      <3>. HIDE DEF kept, new
      <3>. QED
        BY <3>1, <2>2 DEF Amount
    <2>. QED
      BY <2>1, <2>2
  <1>8. ASSUME NEW t, NEW p, ~Has(rs, t, p)
        PROVE  Amount(kept \cup new, t, p) = Amount(tiers, t, p)
    <2>1. CASE Has(tiers, t, p)
      <3>1. PICK o \in tiers : o.tune = t /\ o.bucket = p
        BY <2>1 DEF Has
      <3>2. o \in kept
        BY <1>8, <3>1 DEF Has, SamePeriod
      <3>3. Amount(kept \cup new, t, p) = o.n
        <4>. HIDE DEF kept, new
        <4>. QED
          BY <3>1, <3>2, <1>4, <1>6, AmountIs
      <3>. QED
        BY <3>1, <3>3, AmountIs
    <2>2. CASE ~Has(tiers, t, p)
      <3>1. ~Has(kept \cup new, t, p)
        <4>1. ASSUME NEW o \in kept \cup new, o.tune = t, o.bucket = p PROVE FALSE
          <5>1. CASE o \in kept
            BY <5>1, <4>1, <2>2 DEF Has
          <5>2. CASE o \in new
            <6>1. PICK r \in rs : o = with(r)
              BY <5>2
            <6>. QED
              BY <6>1, <4>1, <1>8, <1>3 DEF Has
          <5>. QED
            BY <4>1, <5>1, <5>2
        <4>. QED
          BY <4>1 DEF Has
      <3>. HIDE DEF kept, new
      <3>. QED
        BY <3>1, <2>2 DEF Amount
    <2>. QED
      BY <2>1, <2>2
  <1>9. ASSUME NEW r \in kept \cup new PROVE \E o \in tiers \cup rs : o.bucket = r.bucket
    <2>1. CASE r \in kept
      BY <2>1
    <2>2. CASE r \in new
      <3>1. PICK x \in rs : r = with(x)
        BY <2>2
      <3>. QED
        BY <3>1, <1>3
    <2>. QED
      BY <2>1, <2>2
  <1>10. rs = {} => kept \cup new = tiers
    OBVIOUS
  <1>. HIDE DEF kept, new
  <1>. QED
    BY <1>1, <1>4, <1>5, <1>6, <1>7, <1>8, <1>9, <1>10

\* What a period's row counted before.
LEMMA BeforeIs ==
  ASSUME tiers \in SUBSET Sums, OnePerPeriod(tiers), NEW r
  PROVE  Before(r) = Amount(tiers, r.tune, r.bucket) /\ Before(r) \in Nat
PROOF
  <1>. DEFINE ns == {o.n : o \in {x \in tiers : SamePeriod(x, r)}}
  <1>1. CASE Has(tiers, r.tune, r.bucket)
    <2>1. PICK o \in tiers : o.tune = r.tune /\ o.bucket = r.bucket
      BY <1>1 DEF Has
    <2>2. \A x \in tiers : SamePeriod(x, r) <=> x = o
      BY <2>1 DEF SamePeriod, OnePerPeriod
    <2>3. ns = {o.n} /\ o.n \in Nat
      BY <2>1, <2>2 DEF Sums
    <2>4. SumSet({o.n}) = o.n
      BY <2>3, SumOfOne
    <2>5. Before(r) = o.n
      BY <2>3, <2>4 DEF Before
    <2>. QED
      BY <2>1, <2>3, <2>5, AmountIs
  <1>2. CASE ~Has(tiers, r.tune, r.bucket)
    <2>1. ns = {}
      BY <1>2 DEF Has, SamePeriod
    <2>2. Before(r) = 0
      BY <2>1, SumOfOne DEF Before
    <2>3. Amount(tiers, r.tune, r.bucket) = 0
      BY <1>2, AmountIs
    <2>. QED
      BY <2>2, <2>3
  <1>. QED
    BY <1>1, <1>2

\* Sums are stored: what a period had is added to what it gets.
LEMMA StoredIs ==
  ASSUME tiers \in SUBSET Sums, IsFiniteSet(tiers), OnePerPeriod(tiers),
         NEW rs \in SUBSET Sums, IsFiniteSet(rs), OnePerPeriod(rs)
  PROVE  /\ Stored(rs) \in SUBSET Sums /\ IsFiniteSet(Stored(rs)) /\ OnePerPeriod(Stored(rs))
         /\ \A t, p : Amount(Stored(rs), t, p) = Amount(tiers, t, p) + Amount(rs, t, p)
         /\ \A r \in Stored(rs) : \E o \in tiers \cup rs : o.bucket = r.bucket
         /\ rs = {} => Stored(rs) = tiers
PROOF
  <1>. DEFINE sum == [r \in rs |-> Before(r) + r.n]
  <1>1. Stored(rs) = Merged(rs, sum)
    BY DEF Stored
  <1>2. \A r \in rs : r.n \in Nat
    BY DEF Sums
  <1>3. sum \in [rs -> Nat] /\ \A r \in rs : sum[r] = Amount(tiers, r.tune, r.bucket) + r.n
    BY <1>2, BeforeIs
  <1>. HIDE DEF sum
  <1>4. /\ Merged(rs, sum) \in SUBSET Sums /\ IsFiniteSet(Merged(rs, sum))
        /\ OnePerPeriod(Merged(rs, sum))
        /\ \A r \in rs : Amount(Merged(rs, sum), r.tune, r.bucket) = sum[r]
        /\ \A t, p : ~Has(rs, t, p) => Amount(Merged(rs, sum), t, p) = Amount(tiers, t, p)
        /\ \A r \in Merged(rs, sum) : \E o \in tiers \cup rs : o.bucket = r.bucket
        /\ rs = {} => Merged(rs, sum) = tiers
    BY <1>3, MergedIs
  <1>5. ASSUME NEW t, NEW p
        PROVE  Amount(Stored(rs), t, p) = Amount(tiers, t, p) + Amount(rs, t, p)
    <2>1. CASE Has(rs, t, p)
      <3>1. PICK r \in rs : r.tune = t /\ r.bucket = p
        BY <2>1 DEF Has
      <3>2. Amount(rs, t, p) = r.n
        BY <3>1, AmountIs
      <3>. QED
        BY <3>1, <3>2, <1>1, <1>3, <1>4
    <2>2. CASE ~Has(rs, t, p)
      <3>1. Amount(rs, t, p) = 0 /\ Amount(tiers, t, p) \in Nat
        BY <2>2, AmountIs
      <3>. QED
        BY <3>1, <2>2, <1>1, <1>4
    <2>. QED
      BY <2>1, <2>2
  <1>. QED
    BY <1>1, <1>4, <1>5

\* A store that is cut off leaves no more than that, where it merged no row twice.
LEMMA CutIs ==
  ASSUME tiers \in SUBSET Sums, IsFiniteSet(tiers), OnePerPeriod(tiers),
         NEW rs \in SUBSET Sums, IsFiniteSet(rs), OnePerPeriod(rs), StoreCut(rs)
  PROVE  /\ tiers' \in SUBSET Sums /\ IsFiniteSet(tiers') /\ OnePerPeriod(tiers')
         /\ doubled \subseteq doubled'
         /\ \A t, p : \/ [bucket |-> p, tune |-> t] \in doubled'
                      \/ Amount(tiers', t, p) <= Amount(tiers, t, p) + Amount(rs, t, p)
         /\ \A r \in tiers' : \E o \in tiers \cup rs : o.bucket = r.bucket
PROOF
  <1>1. PICK cut \in [rs -> Cuts] :
          /\ tiers' = Merged(rs, [r \in rs |-> cut[r][1] * Before(r) + cut[r][2] * r.n])
          /\ doubled' = doubled \cup Periods({r \in rs : cut[r][2] = 2})
    BY DEF StoreCut
  <1>. DEFINE sum == [r \in rs |-> cut[r][1] * Before(r) + cut[r][2] * r.n]
  <1>2. ASSUME NEW r \in rs
        PROVE  /\ sum[r] \in Nat /\ r.n \in Nat /\ Before(r) \in Nat
               /\ cut[r][2] = 2 \/ sum[r] <= Before(r) + r.n
    <2>1. r.n \in Nat /\ Before(r) \in Nat
      BY BeforeIs DEF Sums
    <2>2. cut[r] \in Cuts
      OBVIOUS
    <2>3. /\ cut[r][1] = 0 \/ cut[r][1] = 1 \/ cut[r][1] = 2
          /\ cut[r][2] = 0 \/ cut[r][2] = 1 \/ cut[r][2] = 2
          /\ cut[r][2] = 2 \/ cut[r][1] # 2
      <3>. DEFINE c == cut[r]
      <3>1. c = <<2, 2>> \/ \E i \in 0..1, j \in 0..2 : c = <<i, j>>
        BY <2>2 DEF Cuts
      <3>. HIDE DEF c
      <3>2. /\ c[1] = 0 \/ c[1] = 1 \/ c[1] = 2
            /\ c[2] = 0 \/ c[2] = 1 \/ c[2] = 2
            /\ c[2] = 2 \/ c[1] # 2
        BY <3>1
      <3>. QED
        BY <3>2 DEF c
    <2>4. sum[r] = cut[r][1] * Before(r) + cut[r][2] * r.n
      OBVIOUS
    <2>. DEFINE x == cut[r][1]
                y == cut[r][2]
                m == Before(r)
    <2>5. x * m + y * r.n \in Nat /\ (y = 2 \/ x * m + y * r.n <= m + r.n)
      <3>1. /\ x = 0 \/ x = 1 \/ x = 2
            /\ y = 0 \/ y = 1 \/ y = 2
            /\ y = 2 \/ x # 2
            /\ m \in Nat /\ r.n \in Nat
        BY <2>1, <2>3
      <3>. HIDE DEF x, y, m
      <3>2. x * m = IF x = 0 THEN 0 ELSE IF x = 1 THEN m ELSE m + m
        BY <3>1
      <3>3. y * r.n = IF y = 0 THEN 0 ELSE IF y = 1 THEN r.n ELSE r.n + r.n
        BY <3>1
      <3>. QED
        BY <3>1, <3>2, <3>3
    <2>. HIDE DEF sum
    <2>. QED
      BY <2>1, <2>4, <2>5
  <1>3. tiers' = Merged(rs, sum)
    BY <1>1
  <1>4. sum \in [rs -> Nat]
    <2>1. sum = [r \in rs |-> sum[r]]
      OBVIOUS
    <2>. HIDE DEF sum
    <2>. QED
      BY <2>1, <1>2
  <1>. HIDE DEF sum
  <1>5. /\ Merged(rs, sum) \in SUBSET Sums /\ IsFiniteSet(Merged(rs, sum))
        /\ OnePerPeriod(Merged(rs, sum))
        /\ \A r \in rs : Amount(Merged(rs, sum), r.tune, r.bucket) = sum[r]
        /\ \A t, p : ~Has(rs, t, p) => Amount(Merged(rs, sum), t, p) = Amount(tiers, t, p)
        /\ \A r \in Merged(rs, sum) : \E o \in tiers \cup rs : o.bucket = r.bucket
    BY <1>4, MergedIs
  <1>6. ASSUME NEW t, NEW p
        PROVE  \/ [bucket |-> p, tune |-> t] \in doubled'
               \/ Amount(tiers', t, p) <= Amount(tiers, t, p) + Amount(rs, t, p)
    <2>1. CASE Has(rs, t, p)
      <3>1. PICK r \in rs : r.tune = t /\ r.bucket = p
        BY <2>1 DEF Has
      <3>2. Amount(rs, t, p) = r.n /\ Before(r) = Amount(tiers, t, p)
        BY <3>1, AmountIs, BeforeIs
      <3>3. Amount(tiers', t, p) = sum[r]
        BY <3>1, <1>3, <1>5
      <3>4. cut[r][2] = 2 => [bucket |-> p, tune |-> t] \in doubled'
        BY <3>1, <1>1 DEF Periods
      <3>. QED
        BY <3>2, <3>3, <3>4, <1>2
    <2>2. CASE ~Has(rs, t, p)
      <3>1. Amount(rs, t, p) = 0 /\ Amount(tiers, t, p) \in Nat
        BY <2>2, AmountIs
      <3>2. Amount(tiers', t, p) = Amount(tiers, t, p)
        BY <2>2, <1>3, <1>5
      <3>. QED
        BY <3>1, <3>2
    <2>. QED
      BY <2>1, <2>2
  <1>. QED
    BY <1>1, <1>3, <1>5, <1>6

\* A window is added to its period, once the periods that ended by its start are closed.
LEMMA AddedIs ==
  ASSUME open \in SUBSET Sums, IsFiniteSet(open), OnePerPeriod(open), NEW w \in Window,
         \A r \in open : Bucket(r.bucket) = r.bucket /\ r.bucket <= w.start
  PROVE  /\ Added(w) \in SUBSET Sums /\ IsFiniteSet(Added(w)) /\ OnePerPeriod(Added(w))
         /\ Ended(w.start) \in SUBSET Sums /\ IsFiniteSet(Ended(w.start))
         /\ OnePerPeriod(Ended(w.start))
         /\ \A r \in Added(w) : r.bucket = PeriodOf(w)
         /\ Added(w) # {}
         /\ \A r \in Ended(w.start) : r \in open /\ r.bucket + Level <= PeriodOf(w)
         /\ \A t, p : Amount(Added(w), t, p) + Amount(Ended(w.start), t, p)
                        = Amount(open, t, p) + (IF t = w.tune /\ p = PeriodOf(w) THEN 1 ELSE 0)
PROOF
  <1>. DEFINE e == Ended(w.start)
              left == open \ e
              mine == {r \in left : r.tune = w.tune}
              b == PeriodOf(w)
              more(r) == IF r.tune = w.tune /\ w.start >= r.bucket
                         THEN [r EXCEPT !.n = @ + 1] ELSE r
              one == [bucket |-> b, tune |-> w.tune, n |-> 1]
  <1>1. w.start \in Int /\ w.tune \in Tunes /\ b \in Int /\ Level \in Nat \ {0}
    BY BucketIs, WindowsAssumption DEF Window, PeriodOf
  <1>2. b <= w.start /\ w.start < b + Level /\ Bucket(b) = b
    BY <1>1, BucketIs DEF PeriodOf
  <1>3. \A r \in open : r.bucket \in Int /\ r.tune \in Tunes /\ r.n \in Nat
    BY DEF Sums
  <1>4. ASSUME NEW r \in left PROVE r.bucket = b /\ r \in open
    <2>1. r \in open /\ ~(r.bucket + Level <= w.start)
      BY DEF Ended
    <2>2. r.bucket <= w.start /\ w.start < r.bucket + Level
      BY <2>1, <1>1, <1>3
    <2>. QED
      BY <2>1, <2>2, <1>1, <1>3, BucketIs DEF PeriodOf
  <1>5. ASSUME NEW r \in e PROVE r \in open /\ r.bucket + Level <= b
    <2>1. r \in open /\ r.bucket + Level <= w.start
      BY DEF Ended
    <2>2. r.bucket <= b
      BY <2>1, <1>1, <1>3, BucketIs DEF PeriodOf
    <2>3. r.bucket # b
      BY <2>1, <1>1, <1>2, <1>3
    <2>4. r.bucket < b
      BY <2>1, <2>2, <2>3, <1>1, <1>3
    <2>. QED
      BY <2>1, <2>4, <1>1, <1>2, <1>3, BucketIs
  <1>6. e \in SUBSET Sums /\ IsFiniteSet(e) /\ OnePerPeriod(e) /\ left \in SUBSET Sums
        /\ IsFiniteSet(left) /\ OnePerPeriod(left)
    <2>1. e \subseteq open /\ left \subseteq open
      BY <1>5
    <2>. HIDE DEF e, left
    <2>. QED
      BY <2>1, FS_Subset DEF OnePerPeriod
  <1>7. Added(w) = IF mine = {} THEN left \cup {one} ELSE {more(r) : r \in left}
    BY DEF Added, PeriodOf
  <1>. HIDE DEF e
  <1>8. ASSUME NEW r \in left
        PROVE  /\ more(r) \in Sums /\ more(r).bucket = b /\ more(r).tune = r.tune
               /\ more(r).n = r.n + (IF r.tune = w.tune THEN 1 ELSE 0)
    <2>1. r.bucket = b /\ r \in Sums /\ w.start >= r.bucket
      BY <1>2, <1>4, <1>1
    <2>. QED
      BY <2>1 DEF Sums
  <1>9. one \in Sums /\ one.bucket = b /\ one.tune = w.tune /\ one.n = 1
    BY <1>1 DEF Sums
  <1>. HIDE DEF more, one
  <1>. DEFINE a == Added(w)
  <1>10. /\ a \in SUBSET Sums /\ IsFiniteSet(a) /\ OnePerPeriod(a) /\ a # {}
         /\ \A r \in a : r.bucket = b
    <2>1. CASE mine = {}
      <3>1. a = left \cup {one}
        BY <2>1, <1>7
      <3>2. \A r \in left : r.tune # w.tune
        BY <2>1
      <3>3. IsFiniteSet(left \cup {one})
        BY <1>6, FS_AddElement
      <3>4. OnePerPeriod(left \cup {one})
        BY <3>2, <1>6, <1>9 DEF OnePerPeriod
      <3>. HIDE DEF a
      <3>. QED
        BY <3>1, <3>3, <3>4, <1>4, <1>6, <1>9
    <2>2. CASE mine # {}
      <3>1. a = {more(r) : r \in left} /\ left # {}
        BY <2>2, <1>7
      <3>2. IsFiniteSet({more(r) : r \in left})
        <4>. DEFINE f == [r \in left |-> more(r)]
        <4>1. IsFiniteSet({f[r] : r \in left})
          <5>. HIDE DEF f, left
          <5>. QED
            BY <1>6, ImageIs
        <4>2. {more(r) : r \in left} = {f[r] : r \in left}
          OBVIOUS
        <4>. QED
          BY <4>1, <4>2
      <3>3. ASSUME NEW r \in left, NEW s \in left, more(r).tune = more(s).tune PROVE r = s
        BY <3>3, <1>4, <1>6, <1>8 DEF OnePerPeriod
      <3>4. OnePerPeriod({more(r) : r \in left})
        BY <3>3 DEF OnePerPeriod
      <3>. HIDE DEF a
      <3>. QED
        BY <3>1, <3>2, <3>4, <1>8
    <2>. QED
      BY <2>1, <2>2
  <1>11. ASSUME NEW t, NEW p
         PROVE  Amount(a, t, p) = Amount(left, t, p) + (IF t = w.tune /\ p = b THEN 1 ELSE 0)
    <2>a. Amount(left, t, p) \in Nat
      BY <1>6, AmountIs
    <2>1. CASE mine = {}
      <3>1. a = left \cup {one} /\ \A r \in left : r.tune # w.tune
        BY <2>1, <1>7
      <3>. HIDE DEF a
      <3>2. CASE t = w.tune /\ p = b
        <4>1. Amount(a, t, p) = 1
          <5>1. one \in a
            BY <3>1
          <5>. QED
            BY <5>1, <3>2, <1>9, <1>10, AmountIs
        <4>2. Amount(left, t, p) = 0
          <5>1. ~Has(left, t, p)
            BY <3>1, <3>2 DEF Has
          <5>. QED
            BY <5>1, <1>6, AmountIs
        <4>. QED
          BY <3>2, <4>1, <4>2
      <3>3. CASE ~(t = w.tune /\ p = b) /\ Has(left, t, p)
        <4>1. PICK r \in left : r.tune = t /\ r.bucket = p
          BY <3>3 DEF Has
        <4>2. r \in a
          BY <3>1
        <4>. QED
          BY <4>1, <4>2, <3>3, <1>6, <1>10, AmountIs, <2>a
      <3>4. CASE ~(t = w.tune /\ p = b) /\ ~Has(left, t, p)
        <4>1. ~Has(a, t, p)
          BY <3>1, <3>4, <1>9 DEF Has
        <4>. QED
          BY <4>1, <3>4, <1>6, <1>10, AmountIs
      <3>. QED
        BY <3>2, <3>3, <3>4
    <2>2. CASE mine # {}
      <3>1. a = {more(r) : r \in left}
        BY <2>2, <1>7
      <3>2. PICK m \in left : m.tune = w.tune
        BY <2>2
      <3>. HIDE DEF a
      <3>3. CASE Has(left, t, p)
        <4>1. PICK r \in left : r.tune = t /\ r.bucket = p
          BY <3>3 DEF Has
        <4>2. more(r) \in a /\ p = b
          BY <3>1, <4>1, <1>4
        <4>3. Amount(a, t, p) = more(r).n
          BY <4>1, <4>2, <1>8, <1>10, AmountIs
        <4>4. Amount(left, t, p) = r.n
          BY <4>1, <1>6, AmountIs
        <4>. QED
          BY <4>1, <4>2, <4>3, <4>4, <1>8
      <3>4. CASE ~Has(left, t, p)
        <4>1. ~(t = w.tune /\ p = b)
          BY <3>2, <3>4, <1>4 DEF Has
        <4>2. ~Has(a, t, p)
          <5>1. ASSUME NEW o \in a, o.tune = t, o.bucket = p PROVE FALSE
            <6>1. PICK r \in left : o = more(r)
              BY <5>1, <3>1
            <6>. QED
              BY <6>1, <5>1, <3>4, <1>4, <1>8 DEF Has
          <5>. QED
            BY <5>1 DEF Has
        <4>. QED
          BY <4>1, <4>2, <3>4, <1>6, <1>10, AmountIs
      <3>. QED
        BY <3>3, <3>4
    <2>. QED
      BY <2>1, <2>2
  <1>12. ASSUME NEW t, NEW p
         PROVE  Amount(left, t, p) + Amount(e, t, p) = Amount(open, t, p)
    <2>a. Amount(left, t, p) \in Nat /\ Amount(e, t, p) \in Nat /\ Amount(open, t, p) \in Nat
      BY <1>6, AmountIs
    <2>1. CASE Has(left, t, p)
      <3>1. PICK r \in left : r.tune = t /\ r.bucket = p
        BY <2>1 DEF Has
      <3>2. ~Has(e, t, p)
        <4>1. ASSUME NEW s \in e, s.tune = t, s.bucket = p PROVE FALSE
          <5>1. s = r
            BY <4>1, <3>1, <1>5 DEF OnePerPeriod
          <5>. QED
            BY <5>1, <3>1
        <4>. QED
          BY <4>1 DEF Has
      <3>3. Amount(open, t, p) = r.n /\ Amount(left, t, p) = r.n /\ Amount(e, t, p) = 0
        BY <3>1, <3>2, <1>6, AmountIs
      <3>. QED
        BY <3>3, <2>a
    <2>2. CASE ~Has(left, t, p) /\ Has(e, t, p)
      <3>1. PICK r \in e : r.tune = t /\ r.bucket = p
        BY <2>2 DEF Has
      <3>2. Amount(open, t, p) = r.n /\ Amount(e, t, p) = r.n /\ Amount(left, t, p) = 0
        BY <2>2, <3>1, <1>5, <1>6, AmountIs
      <3>. QED
        BY <3>2, <2>a
    <2>3. CASE ~Has(left, t, p) /\ ~Has(e, t, p)
      <3>1. ~Has(open, t, p)
        BY <2>3 DEF Has
      <3>. QED
        BY <3>1, <2>3, <1>6, AmountIs
    <2>. QED
      BY <2>1, <2>2, <2>3
  <1>13. \A t, p : Amount(a, t, p) + Amount(e, t, p)
                     = Amount(open, t, p) + (IF t = w.tune /\ p = b THEN 1 ELSE 0)
    <2>1. ASSUME NEW t, NEW p
          PROVE  Amount(a, t, p) + Amount(e, t, p)
                   = Amount(open, t, p) + (IF t = w.tune /\ p = b THEN 1 ELSE 0)
      <3>1. Amount(left, t, p) \in Nat /\ Amount(e, t, p) \in Nat /\ Amount(open, t, p) \in Nat
        BY <1>6, AmountIs
      <3>. HIDE DEF left, a, b
      <3>. QED
        BY <3>1, <1>11, <1>12
    <2>. QED
      BY <2>1
  <1>. HIDE DEF a, b
  <1>. QED
    BY <1>5, <1>6, <1>10, <1>13 DEF a, b, e

-----------------------------------------------------------------------------
(* The chart's invariant, step by step.                                    *)

\* The invariant, part by part.
LEMMA ChartGives ==
  ASSUME ChartInv
  PROVE  StartsDiffer /\ SumsInOrder /\ CountedOnce
PROOF
  BY DEF ChartInv

\* What a period has, and what is summed of it, are numbers.
LEMMA PeriodIs ==
  ASSUME ChartInv, NEW t, NEW p
  PROVE  /\ IsFiniteSet(InPeriod(t, p)) /\ Cardinality(InPeriod(t, p)) \in Nat
         /\ Amount(tiers, t, p) \in Nat /\ Amount(open, t, p) \in Nat /\ Pending(t, p) \in {0, 1}
PROOF
  <1>1. IsFiniteSet(rows) /\ tiers \in SUBSET Sums /\ open \in SUBSET Sums
        /\ OnePerPeriod(tiers) /\ OnePerPeriod(open)
    BY ChartGives DEF SumsInOrder
  <1>2. InPeriod(t, p) \subseteq rows
    BY DEF InPeriod
  <1>. QED
    BY <1>1, <1>2, FS_Subset, FS_CardinalityType, AmountIs DEF Pending

\* A step that changes neither rows nor sums counts what was counted.
LEMMA SumsStay ==
  ASSUME ChartInv, UNCHANGED <<job, rows, tiers, open, since, doubled, inexact>>,
         job = "tier" => Head(queue') = Head(queue)
  PROVE  CountedOnce'
PROOF
  <1>1. \A t, p : /\ Summed(t, p)' = Summed(t, p) /\ InPeriod(t, p)' = InPeriod(t, p)
                  /\ Twice(t, p)' = Twice(t, p)
    BY DEF Summed, Pending, IsPending, Amount, Has, InPeriod, PeriodOf, Bucket, Twice
  <1>. QED
    BY <1>1, ChartGives DEF CountedOnce

\* The step of the consumer: the window it closes is later than all before.
LEMMA ChartQueued ==
  ASSUME WindowsInv, ChartInv,
         UNCHANGED <<happens, now, job, rows, tiers, open, since, noted, doubled, inexact>>,
         up' # "down",
         \/ queue' = queue /\ clock'.start \in {None, clock.start, now}
         \/ /\ clock'.start \in {None, now} /\ clock.start # None /\ clock.start < now
            /\ \E w \in Window : queue' = Append(queue, w) /\ w.start = clock.start
  PROVE  ChartInv'
PROOF
  <1>1. StartsDiffer /\ SumsInOrder /\ CountedOnce
    BY ChartGives
  <1>2. /\ \A i \in DOMAIN queue : queue[i].start \in Int /\ i \in Nat
        /\ \A w \in rows : w.start \in Int
        /\ now \in Nat /\ clock.start \in Int
    BY Numbers
  <1>3. queue \in Seq(Window) /\ (job # "none" => queue # <<>>)
    BY WindowsInvGives DEF Types, InOrder
  <1>4. CASE queue' = queue /\ clock'.start \in {None, clock.start, now}
    <2>1. StartsDiffer'
      BY <1>1, <1>2, <1>4 DEF StartsDiffer
    <2>2. SumsInOrder'
      BY <1>1, <1>2, <1>4 DEF SumsInOrder
    <2>3. CountedOnce'
      BY <1>4, SumsStay
    <2>. QED
      BY <2>1, <2>2, <2>3 DEF ChartInv
  <1>5. ASSUME NEW w \in Window, queue' = Append(queue, w), w.start = clock.start,
               clock'.start \in {None, now}, clock.start # None, clock.start < now
        PROVE  ChartInv'
    <2>1. /\ DOMAIN queue = 1..Len(queue) /\ Len(queue) \in Nat
          /\ DOMAIN queue' = 1..(Len(queue) + 1)
          /\ \A i \in DOMAIN queue : queue'[i] = queue[i] /\ i \in DOMAIN queue'
          /\ queue'[Len(queue) + 1] = w
          /\ \A i \in DOMAIN queue' : i \in DOMAIN queue \/ i = Len(queue) + 1
      BY <1>3, <1>5
    <2>2. job = "tier" => Head(queue') = Head(queue) /\ queue # <<>>
      BY <1>3, <1>5
    <2>3. StartsDiffer'
      <3>1. \A i \in DOMAIN queue' :
              /\ queue'[i].start < now /\ (clock'.start # None => queue'[i].start < clock'.start)
              /\ \A x \in rows :
                   x.start < queue'[i].start \/ (i = 1 /\ job = "tier" /\ x = queue'[1])
        <4>1. ASSUME NEW i \in DOMAIN queue
              PROVE  /\ queue[i].start < now
                     /\ \A x \in rows :
                          x.start < queue[i].start \/ (i = 1 /\ job = "tier" /\ x = queue'[1])
          BY <1>1, <2>1 DEF StartsDiffer
        <4>2. \A x \in rows : x.start < clock.start
          BY <1>1, <1>5 DEF StartsDiffer
        <4>. QED
          BY <4>1, <4>2, <2>1, <1>5
      <3>2. \A i, j \in DOMAIN queue' : i < j => queue'[i].start < queue'[j].start
        <4>1. ASSUME NEW i \in DOMAIN queue', NEW j \in DOMAIN queue', i < j
              PROVE  queue'[i].start < queue'[j].start
          <5>1. i \in DOMAIN queue /\ queue'[i] = queue[i]
            BY <4>1, <2>1
          <5>2. CASE j \in DOMAIN queue
            BY <4>1, <5>1, <5>2, <2>1, <1>1 DEF StartsDiffer
          <5>3. CASE j = Len(queue) + 1
            BY <4>1, <5>1, <5>3, <2>1, <1>1, <1>5 DEF StartsDiffer
          <5>. QED
            BY <5>2, <5>3, <2>1
        <4>. QED
          BY <4>1
      <3>3. \A x \in rows : x.start < now /\ (clock'.start # None => x.start < clock'.start)
        BY <1>1, <1>5 DEF StartsDiffer
      <3>4. \A v, x \in rows : v # x => v.start # x.start
        BY <1>1 DEF StartsDiffer
      <3>5. job = "tier" => Head(queue') \in rows
        BY <1>1, <2>2 DEF StartsDiffer
      <3>. QED
        BY <3>1, <3>2, <3>3, <3>4, <3>5 DEF StartsDiffer
    <2>4. SumsInOrder'
      <3>1. ASSUME NEW r \in open
            PROVE  /\ clock'.start # None => r.bucket <= clock'.start
                   /\ \A i \in DOMAIN queue' : r.bucket <= queue'[i].start
        <4>1. r.bucket <= clock.start /\ r.bucket <= now
              /\ \A i \in DOMAIN queue : r.bucket <= queue[i].start
          BY <1>1, <1>5 DEF SumsInOrder
        <4>. QED
          BY <4>1, <2>1, <1>5
      <3>. QED
        BY <1>1, <3>1 DEF SumsInOrder
    <2>5. CountedOnce'
      BY <2>2, SumsStay
    <2>. QED
      BY <2>3, <2>4, <2>5 DEF ChartInv
  <1>. QED
    BY <1>4, <1>5

\* A result closes at most the window it joins.
LEMMA ResultCloses ==
  ASSUME WindowsInv, NEW t \in Tunings, Result(t)
  PROVE  \/ queue' = queue /\ clock'.start \in {None, clock.start, now}
         \/ /\ clock'.start \in {None, now} /\ clock.start # None /\ clock.start < now
            /\ \E w \in Window : queue' = Append(queue, w) /\ w.start = clock.start
PROOF
  <1>. DEFINE old == acc.n > 0
              discard == old /\ acc.tune # t /\ "new bins" \in happens
              flush == old /\ ~discard /\ acc.tune # t
              base == IF discard THEN NoClock ELSE IF flush THEN Flushed ELSE clock
              c == Marked(base, now - ready)
              full == now - c.start >= Duration
              kept == IF flush THEN <<Closed(clock.last)>> ELSE <<>>
              made == IF full THEN <<[start |-> c.start, end |-> now, tune |-> t]>> ELSE <<>>
  <1>r. /\ now > clock.last /\ Submit(kept \o made)
        /\ clock' = IF full THEN [NewClock EXCEPT !.got = FALSE, !.stale = c.stale] ELSE c
    BY DEF Result
  <1>t. /\ now \in Nat /\ clock \in Clocks /\ ready \in Nat /\ acc \in [n : Nat, tune : Tunes]
        /\ Duration \in Nat \ {0} /\ t \in Tunes /\ queue \in Seq(Window)
    BY WindowsInvGives, Numbers DEF Types, Tunes
  <1>k. /\ acc.n > 0 => clock.start # None
        /\ clock.start # None => /\ clock.last = ready /\ clock.start <= ready
                                 /\ clock.start \in Nat
    <2>1. acc.n > 0 => clock.start # None
      BY WindowsInvGives DEF TypeOK
    <2>2. clock.start # None => clock.last = ready /\ clock.start <= ready
      BY WindowsInvGives DEF Current
    <2>. QED
      BY <2>1, <2>2, Numbers
  <1>b. /\ base = clock \/ base = NoClock
        /\ flush => base = NoClock
        /\ flush => old
        /\ discard => base = NoClock /\ old
    BY DEF Flushed
  <1>d. /\ c = Marked(base, now - ready)
        /\ full <=> now - c.start >= Duration
        /\ ~flush /\ ~discard => base = clock
    OBVIOUS
  <1>h. /\ kept = IF flush THEN <<Closed(clock.last)>> ELSE <<>>
        /\ made = IF full THEN <<[start |-> c.start, end |-> now, tune |-> t]>> ELSE <<>>
        /\ old <=> acc.n > 0
    OBVIOUS
  <1>. HIDE DEF made, kept, full, c, base, flush, discard, old
  <1>n. NewClock.start = now
        /\ [NewClock EXCEPT !.got = FALSE, !.stale = c.stale].start = now
    BY DEF NewClock
  <1>m. base = NoClock => c = NewClock
    <2>1. NoClock.start = None
      BY DEF NoClock
    <2>. QED
      BY <2>1, <1>d DEF Marked
  <1>j. ASSUME base = clock, c # NewClock
        PROVE  c.start = clock.start /\ clock.start # None
    <2>1. clock.start # None /\ c = Joined(clock)
      BY <1>j, <1>d DEF Marked
    <2>. QED
      BY <2>1, <1>t DEF Joined
  <1>e. /\ full => clock'.start = now
        /\ ~full => clock'.start = c.start
    BY <1>r, <1>n
  <1>f. c = NewClock => ~full /\ clock'.start = now
    BY <1>d, <1>e, <1>n, <1>t
  <1>1. CASE flush
    <2>. DEFINE w == Closed(clock.last)
    <2>1. clock.start # None /\ c = NewClock
      BY <1>1, <1>b, <1>h, <1>k, <1>m
    <2>2. w \in Window /\ w.start = clock.start
      BY <2>1, <1>k, <1>t DEF Closed, Window
    <2>3. kept \o made = <<w>> /\ clock'.start = now
      BY <1>1, <2>1, <1>f, <1>h
    <2>4. clock.start < now
      BY <2>1, <1>r, <1>k, <1>t
    <2>. HIDE DEF w
    <2>5. queue' = queue \/ queue' = Append(queue, w)
      <3>1. Submit(<<w>>)
        BY <2>3, <1>r
      <3>. QED
        BY <3>1, <2>2, Submits
    <2>. QED
      BY <2>1, <2>2, <2>3, <2>4, <2>5
  <1>2. CASE ~flush /\ full
    <2>. DEFINE w == [start |-> c.start, end |-> now, tune |-> t]
    <2>1. c # NewClock /\ base = clock
      BY <1>2, <1>f, <1>b, <1>m
    <2>2. c.start = clock.start /\ clock.start # None
      BY <2>1, <1>j
    <2>3. w \in Window /\ w.start = clock.start
      BY <2>2, <1>k, <1>t DEF Window
    <2>4. kept \o made = <<w>> /\ clock'.start = now
      BY <1>2, <1>e, <1>h
    <2>5. clock.start < now
      BY <1>2, <2>2, <1>d, <1>k, <1>t
    <2>. HIDE DEF w
    <2>6. queue' = queue \/ queue' = Append(queue, w)
      <3>1. Submit(<<w>>)
        BY <2>4, <1>r
      <3>. QED
        BY <3>1, <2>3, Submits
    <2>. QED
      BY <2>2, <2>3, <2>4, <2>5, <2>6
  <1>3. CASE ~flush /\ ~full
    <2>1. Submit(<<>>)
      BY <1>3, <1>h, <1>r
    <2>2. queue' = queue
      BY <2>1, <1>t DEF Submit
    <2>3. c.start \in {clock.start, now}
      BY <1>j, <1>n, <1>b, <1>m
    <2>. QED
      BY <1>3, <2>2, <2>3, <1>e
  <1>. QED
    BY <1>1, <1>2, <1>3

\* A step of another part, the passing of time, or the writer taking a window.
LEMMA ChartStays ==
  ASSUME WindowsInv, ChartInv,
         UNCHANGED <<happens, clock, queue, rows, tiers, open, since, noted, doubled, inexact>>,
         now' \in Int, now <= now', up' = "down" => up = "down",
         job' = job \/ (job = "none" /\ job' = "row")
  PROVE  ChartInv'
PROOF
  <1>1. StartsDiffer /\ SumsInOrder /\ CountedOnce
    BY ChartGives
  <1>2. /\ \A i \in DOMAIN queue : queue[i].start \in Int
        /\ \A w \in rows : w.start \in Int
        /\ now \in Nat /\ clock.start \in Int
    BY Numbers
  <1>3. job' = "tier" <=> job = "tier"
    OBVIOUS
  <1>4. StartsDiffer'
    <2>1. \A w \in rows : w.start < now' /\ (clock.start # None => w.start < clock.start)
      BY <1>1, <1>2 DEF StartsDiffer
    <2>2. \A i \in DOMAIN queue :
            /\ queue[i].start < now' /\ (clock.start # None => queue[i].start < clock.start)
            /\ \A j \in DOMAIN queue : i < j => queue[i].start < queue[j].start
            /\ \A w \in rows :
                 w.start < queue[i].start \/ (i = 1 /\ job' = "tier" /\ w = queue[1])
      BY <1>1, <1>2, <1>3 DEF StartsDiffer
    <2>3. /\ \A v, w \in rows : v # w => v.start # w.start
          /\ job' = "tier" => Head(queue) \in rows
          /\ up' = "down" => queue = <<>>
      BY <1>1, <1>3 DEF StartsDiffer
    <2>. QED
      BY <2>1, <2>2, <2>3 DEF StartsDiffer
  <1>5. SumsInOrder'
    <2>1. \A r \in tiers \cup open : r.bucket <= now'
      <3>1. ASSUME NEW r \in tiers \cup open PROVE r.bucket <= now'
        <4>1. r \in Sums /\ r.bucket <= now
          BY <1>1 DEF SumsInOrder
        <4>2. r.bucket \in Int
          BY <4>1 DEF Sums
        <4>. QED
          BY <4>1, <4>2, <1>2
      <3>. QED
        BY <3>1
    <2>. QED
      BY <1>1, <1>3, <2>1 DEF SumsInOrder
  <1>6. CountedOnce'
    <2>1. \A t, p : /\ Summed(t, p)' = Summed(t, p) /\ InPeriod(t, p)' = InPeriod(t, p)
                    /\ Twice(t, p)' = Twice(t, p)
      BY <1>3 DEF Summed, Pending, IsPending, Amount, Has, InPeriod, PeriodOf, Bucket, Twice
    <2>. QED
      BY <1>1, <2>1 DEF CountedOnce
  <1>. QED
    BY <1>4, <1>5, <1>6 DEF ChartInv

\* A result.
LEMMA ReceiveKeepsChart ==
  ASSUME WindowsInv, ChartInv, Receive
  PROVE  ChartInv'
PROOF
  <1>1. PICK t \in Tunings :
          /\ Result(t)
          /\ UNCHANGED <<happens, now, up, job, rows, tierVars, rollVars, faults, stops, inexact>>
    BY DEF Receive
  <1>2. up = "up"
    BY <1>1 DEF Result
  <1>3. UNCHANGED <<happens, now, job, rows, tiers, open, since, noted, doubled, inexact>>
        /\ up' # "down"
    BY <1>1, <1>2 DEF tierVars
  <1>. QED
    BY <1>1, <1>3, ResultCloses, ChartQueued

\* No result for a while.
LEMMA GoIdleKeepsChart ==
  ASSUME WindowsInv, ChartInv, GoIdle
  PROVE  ChartInv'
PROOF
  <1>1. /\ UNCHANGED <<happens, now, job, rows, tiers, open, since, noted, doubled, inexact>>
        /\ up' # "down"
        /\ clock' = NoClock /\ now - ready >= Idle
    BY DEF GoIdle, IdleDue, tierVars
  <1>2. clock'.start = None
    BY <1>1 DEF NoClock
  <1>3. CASE acc.n > 0
    <2>. DEFINE w == Closed(clock.last)
    <2>1. clock.start # None
      BY <1>3, WindowsInvGives DEF TypeOK
    <2>2. clock.start < now
      <3>1. clock.start <= ready /\ Idle \in Nat \ {0}
        BY <2>1, WindowsInvGives DEF Current
      <3>. QED
        BY <1>1, <3>1, Numbers, Places
    <2>3. w \in Window /\ w.start = clock.start
      <3>a. clock \in Clocks /\ acc \in [n : Nat, tune : Tunes]
        BY WindowsInvGives DEF Types
      <3>1. clock.last \in Int /\ acc.tune \in Tunes /\ clock.start \in Int
        BY <3>a DEF Clocks, None
      <3>. QED
        BY <3>1 DEF Closed, Window
    <2>4. Submit(<<w>>)
      BY <1>3 DEF GoIdle
    <2>. HIDE DEF w
    <2>5. queue' = queue \/ queue' = Append(queue, w)
      BY <2>3, <2>4, Submits
    <2>. QED
      BY <1>1, <1>2, <2>1, <2>2, <2>3, <2>5, ChartQueued
  <1>4. CASE ~(acc.n > 0)
    <2>1. queue \in Seq(Window) /\ queue' = queue \o <<>>
      BY <1>4, WindowsInvGives DEF GoIdle, Submit, Types
    <2>2. queue' = queue
      BY <2>1
    <2>. QED
      BY <1>1, <1>2, <2>2, ChartQueued
  <1>. QED
    BY <1>3, <1>4

\* The pipeline stops.
LEMMA StopKeepsChart ==
  ASSUME WindowsInv, ChartInv, Stop
  PROVE  ChartInv'
PROOF
  <1>1. /\ UNCHANGED <<happens, now, job, rows, tiers, open, since, noted, doubled, inexact>>
        /\ up' # "down"
        /\ queue' = queue /\ clock' = NoClock
    BY DEF Stop, tierVars, writeVars
  <1>2. clock'.start = None
    BY <1>1 DEF NoClock
  <1>. QED
    BY <1>1, <1>2, ChartQueued

\* Time passes, the pipeline starts, the writer takes a window, the roll-up works.
LEMMA OtherStepsKeepChart ==
  ASSUME WindowsInv, ChartInv,
         Tick \/ Start \/ WrTake \/ Rollup \/ RollFails \/ UNCHANGED vars
  PROVE  ChartInv'
PROOF
  <1>1. now \in Nat
    BY Numbers
  <1>2. CASE Tick
    BY <1>1, <1>2, ChartStays DEF Tick, consVars, writeVars, tierVars
  <1>3. CASE Start
    BY <1>1, <1>3, ChartStays DEF Start, writeVars, tierVars
  <1>4. CASE WrTake
    BY <1>1, <1>4, ChartStays DEF WrTake, WriterVars, consVars, tierVars
  <1>5. CASE Rollup \/ RollFails
    <2>1. UNCHANGED RollRest
      BY <1>5 DEF Rollup, RollStart, RollForward, RollMark, RollBack, RollDeep, RollDeepMark,
                  RollFails
    <2>. QED
      BY <2>1, <1>1, ChartStays DEF RollRest, consVars, writeVars, tierVars
  <1>6. CASE UNCHANGED vars
    BY <1>1, <1>6, ChartStays DEF vars, consVars, writeVars, tierVars
  <1>. QED
    BY <1>2, <1>3, <1>4, <1>5, <1>6

\* The head of the queue begins after all rows but itself, and before the rest.
LEMMA HeadIsNext ==
  ASSUME WindowsInv, ChartInv, queue # <<>>
  PROVE  /\ Head(queue) \in Window /\ Head(queue).start \in Nat /\ Head(queue).start < now
         /\ Head(queue).tune \in Tunes
         /\ clock.start # None => Head(queue).start < clock.start
         /\ \A x \in rows : x.start < Head(queue).start \/ (job = "tier" /\ x = Head(queue))
         /\ \A i \in DOMAIN Tail(queue) : Head(queue).start < Tail(queue)[i].start
PROOF
  <1>1. Head(queue) = queue[1] /\ 1 \in DOMAIN queue /\ Head(queue) \in Window
    BY QueueIs
  <1>2. StartsDiffer
    BY ChartGives
  <1>3. Head(queue).start \in Int /\ 0 <= queue[1].start
    BY <1>1, Numbers, WindowsInvGives DEF InOrder
  <1>4. ASSUME NEW i \in DOMAIN Tail(queue) PROVE Head(queue).start < Tail(queue)[i].start
    <2>1. i + 1 \in DOMAIN queue /\ Tail(queue)[i] = queue[i + 1] /\ i \in Nat /\ 1 < i + 1
      BY QueueIs
    <2>. QED
      BY <2>1, <1>1, <1>2 DEF StartsDiffer
  <1>5. Head(queue).tune \in Tunes
    BY <1>1 DEF Window
  <1>. QED
    BY <1>1, <1>2, <1>3, <1>4, <1>5 DEF StartsDiffer

\* The job ends; its window is stored, or not.
LEMMA JobEndsInOrder ==
  ASSUME WindowsInv, ChartInv, queue # <<>>, queue' = Tail(queue), job' = "none",
         UNCHANGED <<now, clock, up>>, rows' = rows \/ rows' = rows \cup {Head(queue)}
  PROVE  StartsDiffer'
PROOF
  <1>. DEFINE h == Head(queue)
  <1>1. StartsDiffer /\ up # "down"
    BY ChartGives DEF StartsDiffer
  <1>2. /\ h.start \in Nat /\ h.start < now /\ (clock.start # None => h.start < clock.start)
        /\ \A x \in rows : x.start < h.start \/ x = h
        /\ \A i \in DOMAIN Tail(queue) : h.start < Tail(queue)[i].start
    BY HeadIsNext
  <1>. HIDE DEF h
  <1>3. \A x \in rows' : x \in rows \/ x = h
    BY DEF h
  <1>4. \A x \in rows : x.start \in Int
    BY Numbers
  <1>5. ASSUME NEW i \in DOMAIN Tail(queue)
        PROVE  /\ i + 1 \in DOMAIN queue /\ Tail(queue)[i] = queue[i + 1] /\ i \in Nat
               /\ Tail(queue)[i].start \in Int
    BY QueueIs, Numbers
  <1>6. ASSUME NEW i \in DOMAIN Tail(queue)
        PROVE  /\ Tail(queue)[i].start < now
               /\ clock.start # None => Tail(queue)[i].start < clock.start
               /\ \A j \in DOMAIN Tail(queue) : i < j => Tail(queue)[i].start < Tail(queue)[j].start
               /\ \A w \in rows' : w.start < Tail(queue)[i].start
    <2>1. ASSUME NEW j \in DOMAIN Tail(queue), i < j
          PROVE  Tail(queue)[i].start < Tail(queue)[j].start
      BY <2>1, <1>1, <1>5 DEF StartsDiffer
    <2>2. ASSUME NEW w \in rows' PROVE w.start < Tail(queue)[i].start
      BY <2>2, <1>2, <1>3, <1>4, <1>5
    <2>. QED
      BY <2>1, <2>2, <1>1, <1>5 DEF StartsDiffer
  <1>7. \A w \in rows' : w.start < now /\ (clock.start # None => w.start < clock.start)
    BY <1>1, <1>2, <1>3 DEF StartsDiffer
  <1>8. \A v, w \in rows' : v # w => v.start # w.start
    <2>1. ASSUME NEW v \in rows', NEW w \in rows', v # w PROVE v.start # w.start
      BY <2>1, <1>1, <1>2, <1>3, <1>4 DEF StartsDiffer
    <2>. QED
      BY <2>1
  <1>. QED
    BY <1>1, <1>6, <1>7, <1>8 DEF StartsDiffer

\* A period gains at most the window whose row is stored.
LEMMA RowCounts ==
  ASSUME WindowsInv, ChartInv, queue # <<>>, job # "tier", rows' = rows \cup {Head(queue)},
         NEW t, NEW p
  PROVE  /\ IsFiniteSet(rows')
         /\ Cardinality(InPeriod(t, p)')
              = Cardinality(InPeriod(t, p))
                  + (IF Head(queue).tune = t /\ PeriodOf(Head(queue)) = p THEN 1 ELSE 0)
PROOF
  <1>. DEFINE h == Head(queue)
  <1>1. h \notin rows
    BY HeadIsNext
  <1>2. IsFiniteSet(InPeriod(t, p)) /\ Cardinality(InPeriod(t, p)) \in Nat
    BY PeriodIs
  <1>3. IsFiniteSet(rows')
    BY ChartGives, FS_AddElement DEF SumsInOrder
  <1>4. CASE h.tune = t /\ PeriodOf(h) = p
    <2>1. InPeriod(t, p)' = InPeriod(t, p) \cup {h}
      BY <1>4 DEF InPeriod, PeriodOf, Bucket
    <2>2. h \notin InPeriod(t, p)
      BY <1>1 DEF InPeriod
    <2>3. Cardinality(InPeriod(t, p) \cup {h}) = Cardinality(InPeriod(t, p)) + 1
      BY <2>2, <1>2, FS_AddElement
    <2>. QED
      BY <2>1, <2>3, <1>3, <1>4
  <1>5. CASE ~(h.tune = t /\ PeriodOf(h) = p)
    <2>1. InPeriod(t, p)' = InPeriod(t, p)
      BY <1>5 DEF InPeriod, PeriodOf, Bucket
    <2>. QED
      BY <2>1, <1>2, <1>3, <1>5
  <1>. QED
    BY <1>4, <1>5

\* The open period begins no later than what is still queued.
LEMMA TailSums ==
  ASSUME WindowsInv, ChartInv, queue # <<>>
  PROVE  \A r \in open : \A i \in DOMAIN Tail(queue) : r.bucket <= Tail(queue)[i].start
PROOF
  <1>1. ASSUME NEW r \in open, NEW i \in DOMAIN Tail(queue)
        PROVE  r.bucket <= Tail(queue)[i].start
    <2>1. i + 1 \in DOMAIN queue /\ Tail(queue)[i] = queue[i + 1]
      BY QueueIs
    <2>. QED
      BY <2>1, ChartGives DEF SumsInOrder
  <1>. QED
    BY <1>1

\* The row is written, or fails.
LEMMA WrRowKeepsChart ==
  ASSUME WindowsInv, ChartInv, WrRow
  PROVE  ChartInv'
PROOF
  <1>q. queue # <<>> /\ job = "row"
    BY WindowsInvGives DEF WrRow, InOrder
  <1>u. UNCHANGED <<happens, now, clock, up, open, tiers, since, noted, doubled>>
    BY DEF WrRow, WriterVars, consVars, tierVars
  <1>i. StartsDiffer /\ SumsInOrder /\ CountedOnce
    BY ChartGives
  <1>j. \/ /\ "tiers" \in happens /\ job' = "tier" /\ queue' = queue
           /\ rows' = rows \cup {Head(queue)} /\ inexact' = inexact
        \/ /\ job' = "none" /\ queue' = Tail(queue) /\ rows' = rows \cup {Head(queue)}
           /\ inexact' = TRUE \/ ("tiers" \notin happens /\ inexact' = inexact)
        \/ job' = "none" /\ queue' = Tail(queue) /\ rows' = rows /\ inexact' = inexact
    <2>1. inexact \in BOOLEAN
      BY <1>i DEF SumsInOrder
    <2>. QED
      BY <2>1 DEF WrRow, WithRow, JobDone
  <1>a. \A t, p : /\ Amount(tiers, t, p)' = Amount(tiers, t, p)
                  /\ Amount(open, t, p)' = Amount(open, t, p)
                  /\ Twice(t, p)' = Twice(t, p)
    BY <1>u DEF Amount, Has, Twice
  <1>b. \A t, p : Pending(t, p) = 0
    BY <1>q DEF Pending, IsPending
  <1>1. CASE /\ "tiers" \in happens /\ job' = "tier" /\ queue' = queue
             /\ rows' = rows \cup {Head(queue)} /\ inexact' = inexact
    <2>1. StartsDiffer'
      <3>1. /\ Head(queue) = queue[1] /\ 1 \in DOMAIN queue
            /\ \A i \in DOMAIN queue : i \in Nat /\ (i = 1 \/ 1 < i)
        BY <1>q, QueueIs, Numbers
      <3>2. \A x \in rows : x.start < queue[1].start
        BY <3>1, <1>q, HeadIsNext
      <3>3. /\ \A x \in rows : x.start \in Int
            /\ \A i \in DOMAIN queue : queue[i].start \in Int
        BY Numbers
      <3>4. \A i \in DOMAIN queue : \A x \in rows' :
               x.start < queue[i].start \/ (i = 1 /\ x = queue[1])
        <4>1. ASSUME NEW i \in DOMAIN queue, NEW x \in rows
              PROVE  x.start < queue[i].start
          BY <1>i, <1>q DEF StartsDiffer
        <4>2. ASSUME NEW i \in DOMAIN queue
              PROVE  queue[1].start < queue[i].start \/ i = 1
          BY <3>1, <1>i DEF StartsDiffer
        <4>. QED
          BY <4>1, <4>2, <3>1, <1>1
      <3>5. \A x \in rows' : x.start < now /\ (clock.start # None => x.start < clock.start)
        BY <3>1, <1>1, <1>i DEF StartsDiffer
      <3>6. \A v, x \in rows' : v # x => v.start # x.start
        <4>1. ASSUME NEW v \in rows', NEW x \in rows', v # x PROVE v.start # x.start
          BY <4>1, <3>1, <3>2, <3>3, <1>1, <1>i DEF StartsDiffer
        <4>. QED
          BY <4>1
      <3>7. Head(queue) \in rows' /\ up # "down"
        BY <1>1, <1>q, <1>i DEF StartsDiffer
      <3>. QED
        BY <3>4, <3>5, <3>6, <3>7, <1>1, <1>u, <1>i DEF StartsDiffer
    <2>2. SumsInOrder'
      <3>1. IsFiniteSet(rows')
        BY <1>1, <1>q, RowCounts
      <3>. QED
        BY <3>1, <1>1, <1>u, <1>i DEF SumsInOrder
    <2>3. \A t, p : Pending(t, p)'
                      = IF Head(queue).tune = t /\ PeriodOf(Head(queue)) = p THEN 1 ELSE 0
      BY <1>1 DEF Pending, IsPending, PeriodOf, Bucket
    <2>4. ASSUME NEW t, NEW p
          PROVE  \E d \in {0, 1} :
                   /\ Summed(t, p)' = Summed(t, p) + d /\ Summed(t, p) \in Nat
                   /\ Cardinality(InPeriod(t, p)') = Cardinality(InPeriod(t, p)) + d
                   /\ Cardinality(InPeriod(t, p)) \in Nat
      <3>1. Cardinality(InPeriod(t, p)')
              = Cardinality(InPeriod(t, p))
                  + (IF Head(queue).tune = t /\ PeriodOf(Head(queue)) = p THEN 1 ELSE 0)
        BY <1>1, <1>q, RowCounts
      <3>2. Amount(tiers, t, p) \in Nat /\ Amount(open, t, p) \in Nat
            /\ Cardinality(InPeriod(t, p)) \in Nat
        BY PeriodIs
      <3>3. Summed(t, p) = Amount(tiers, t, p) + Amount(open, t, p) + 0
            /\ Summed(t, p)' = Amount(tiers, t, p) + Amount(open, t, p) + Pending(t, p)'
        BY <1>a, <1>b DEF Summed
      <3>. QED
        BY <3>1, <3>2, <3>3, <2>3
    <2>5. CountedOnce'
      <3>1. ASSUME NEW t \in Tunes, NEW p \in Int
            PROVE  /\ Twice(t, p)' \/ Summed(t, p)' <= Cardinality(InPeriod(t, p)')
                   /\ Summed(t, p) = Cardinality(InPeriod(t, p)) =>
                        Summed(t, p)' = Cardinality(InPeriod(t, p)')
        <4>1. Twice(t, p)' \/ Summed(t, p) <= Cardinality(InPeriod(t, p))
          BY <1>a, <1>i DEF CountedOnce
        <4>. QED
          BY <4>1, <2>4
      <3>. QED
        BY <3>1, <1>1, <1>i, <1>u DEF CountedOnce
    <2>. QED
      BY <2>1, <2>2, <2>5 DEF ChartInv
  <1>2. CASE /\ job' = "none" /\ queue' = Tail(queue) /\ rows' = rows \cup {Head(queue)}
             /\ inexact' = TRUE \/ ("tiers" \notin happens /\ inexact' = inexact)
    <2>1. StartsDiffer'
      BY <1>2, <1>q, <1>u, JobEndsInOrder
    <2>2. ~inexact' => ~inexact /\ since = None
      BY <1>2, <1>i DEF SumsInOrder
    <2>3. SumsInOrder'
      <3>1. IsFiniteSet(rows')
        BY <1>2, <1>q, RowCounts
      <3>2. inexact' \in BOOLEAN
        BY <1>2, <1>i DEF SumsInOrder
      <3>. QED
        BY <3>1, <3>2, <2>2, <1>2, <1>q, <1>u, <1>i, TailSums DEF SumsInOrder
    <2>4. CountedOnce'
      <3>1. ASSUME NEW t \in Tunes, NEW p \in Int
            PROVE  Twice(t, p)' \/ Summed(t, p)' <= Cardinality(InPeriod(t, p)')
        <4>1. Pending(t, p)' = 0
          BY <1>2 DEF Pending, IsPending
        <4>2. Summed(t, p)' = Summed(t, p)
          BY <4>1, <1>a, <1>b DEF Summed
        <4>3. Twice(t, p)' \/ Summed(t, p) <= Cardinality(InPeriod(t, p))
          BY <1>a, <1>i DEF CountedOnce
        <4>4. /\ Cardinality(InPeriod(t, p)) \in Nat /\ Summed(t, p) \in Nat
              /\ Cardinality(InPeriod(t, p)')
                   = Cardinality(InPeriod(t, p))
                       + (IF Head(queue).tune = t /\ PeriodOf(Head(queue)) = p THEN 1 ELSE 0)
          BY <1>2, <1>q, RowCounts, PeriodIs DEF Summed
        <4>. QED
          BY <4>2, <4>3, <4>4
      <3>. QED
        BY <3>1, <2>2, <1>u DEF CountedOnce
    <2>. QED
      BY <2>1, <2>3, <2>4 DEF ChartInv
  <1>3. CASE job' = "none" /\ queue' = Tail(queue) /\ rows' = rows /\ inexact' = inexact
    <2>1. StartsDiffer'
      BY <1>3, <1>q, <1>u, JobEndsInOrder
    <2>2. SumsInOrder'
      BY <1>3, <1>q, <1>u, <1>i, TailSums DEF SumsInOrder
    <2>3. CountedOnce'
      <3>1. \A t, p : Pending(t, p)' = 0 /\ InPeriod(t, p)' = InPeriod(t, p)
        BY <1>3 DEF Pending, IsPending, InPeriod, PeriodOf, Bucket
      <3>2. \A t, p : Summed(t, p)' = Summed(t, p) /\ Twice(t, p)' = Twice(t, p)
        BY <3>1, <1>a, <1>b DEF Summed
      <3>. QED
        BY <3>1, <3>2, <1>3, <1>u, <1>i DEF CountedOnce
    <2>. QED
      BY <2>1, <2>2, <2>3 DEF ChartInv
  <1>. QED
    BY <1>1, <1>2, <1>3, <1>j

\* The tiers' part of a job: what each period is summed after it, done or broken off.
LEMMA TierChanges ==
  ASSUME WindowsInv, ChartInv, queue # <<>>, job = "tier",
         TierAdds(Head(queue)) \/ TierBreaks(Head(queue)),
         UNCHANGED <<happens, now, rows>>, job' = "none"
  PROVE  LET h == Head(queue)
             b == PeriodOf(Head(queue))
             e == Ended(Head(queue).start)
         IN /\ tiers' \in SUBSET Sums /\ IsFiniteSet(tiers') /\ OnePerPeriod(tiers')
            /\ open' \in SUBSET Sums /\ IsFiniteSet(open') /\ OnePerPeriod(open')
            /\ since' \in {None} \cup Nat /\ since' \in {since, Coverage(h)}
            /\ open' = open \/ \A r \in open' : r.bucket = b
            /\ \A r \in tiers' \cup open' : Bucket(r.bucket) = r.bucket /\ r.bucket <= now
            /\ \A r \in open : r.bucket <= h.start /\ r.bucket \in Int
            /\ \A t \in Tunes, p \in Int :
                 Twice(t, p)' \/ Summed(t, p)' <= Cardinality(InPeriod(t, p)')
            /\ TierAdds(h) =>
                 /\ since' = Coverage(h) /\ open' # {} /\ \A r \in open' : r.bucket = b
                 /\ \A r \in tiers' : \/ \E o \in tiers : o.bucket = r.bucket
                                      \/ r.bucket + Level <= b
                 /\ \A t, p : /\ Summed(t, p)' = Summed(t, p)
                              /\ InPeriod(t, p)' = InPeriod(t, p)
PROOF
  <1>. DEFINE h == Head(queue)
              e == Ended(h.start)
              b == PeriodOf(h)
  <1>i. StartsDiffer /\ SumsInOrder /\ CountedOnce
    BY ChartGives
  <1>h. /\ h \in Window /\ h.start \in Nat /\ h.start < now /\ h.tune \in Tunes
    BY HeadIsNext
  <1>b. /\ b \in Int /\ b <= h.start /\ h.start < b + Level /\ Bucket(b) = b
        /\ Level \in Nat \ {0}
    <2>1. h.start \in Int /\ b = Bucket(h.start)
      BY <1>h DEF PeriodOf
    <2>. HIDE DEF b, h
    <2>2. b \in Int /\ b <= h.start /\ h.start < b + Level /\ Bucket(b) = b
      BY <2>1, BucketIs
    <2>. QED
      BY <2>1, <2>2, WindowsAssumption
  <1>y. /\ open \in SUBSET Sums /\ IsFiniteSet(open) /\ OnePerPeriod(open)
        /\ tiers \in SUBSET Sums /\ IsFiniteSet(tiers) /\ OnePerPeriod(tiers)
        /\ \A r \in open \cup tiers : Bucket(r.bucket) = r.bucket /\ r.bucket <= now
        /\ \A r \in open : r.bucket <= h.start
    <2>1. h = queue[1] /\ 1 \in DOMAIN queue
      BY QueueIs
    <2>2. \A r \in open : r.bucket <= queue[1].start
      BY <2>1, <1>i DEF SumsInOrder
    <2>. HIDE DEF h
    <2>3. /\ open \in SUBSET Sums /\ IsFiniteSet(open) /\ OnePerPeriod(open)
          /\ tiers \in SUBSET Sums /\ IsFiniteSet(tiers) /\ OnePerPeriod(tiers)
          /\ \A r \in open \cup tiers : Bucket(r.bucket) = r.bucket /\ r.bucket <= now
      BY <1>i DEF SumsInOrder
    <2>. QED
      BY <2>1, <2>2, <2>3
  <1>a. /\ Added(h) \in SUBSET Sums /\ IsFiniteSet(Added(h)) /\ OnePerPeriod(Added(h))
        /\ e \in SUBSET Sums /\ IsFiniteSet(e) /\ OnePerPeriod(e)
        /\ \A r \in Added(h) : r.bucket = b
        /\ Added(h) # {}
        /\ \A r \in e : r \in open /\ r.bucket + Level <= b
        /\ \A t, p : Amount(Added(h), t, p) + Amount(e, t, p)
                       = Amount(open, t, p) + (IF t = h.tune /\ p = b THEN 1 ELSE 0)
    BY <1>h, <1>y, AddedIs
  <1>s. /\ Stored(e) \in SUBSET Sums /\ IsFiniteSet(Stored(e)) /\ OnePerPeriod(Stored(e))
        /\ \A t, p : Amount(Stored(e), t, p) = Amount(tiers, t, p) + Amount(e, t, p)
        /\ \A r \in Stored(e) : \E o \in tiers \cup e : o.bucket = r.bucket
    BY <1>a, <1>y, StoredIs
  <1>c. StoreCut(e) =>
          /\ tiers' \in SUBSET Sums /\ IsFiniteSet(tiers') /\ OnePerPeriod(tiers')
          /\ doubled \subseteq doubled'
          /\ \A t, p : \/ [bucket |-> p, tune |-> t] \in doubled'
                       \/ Amount(tiers', t, p) <= Amount(tiers, t, p) + Amount(e, t, p)
          /\ \A r \in tiers' : \E o \in tiers \cup e : o.bucket = r.bucket
    BY <1>a, <1>y, CutIs
  <1>n. NextBucket(h.start) \in Nat
    BY <1>h, NextBucketIs
  <1>p. \A t, p : Pending(t, p) = IF t = h.tune /\ p = b THEN 1 ELSE 0
    BY DEF Pending, IsPending
  <1>f. since \in {None} \cup Nat /\ now \in Nat
    BY <1>i, Numbers DEF SumsInOrder
  <1>j. \/ /\ TierAdds(h) /\ open' = Added(h) /\ tiers' = Stored(e) /\ doubled' = doubled
           /\ since' = Coverage(h)
        \/ ~TierAdds(h) /\ open' = Added(h) /\ StoreCut(e) /\ since' = Coverage(h)
        \/ /\ ~TierAdds(h) /\ open' = open /\ tiers' = tiers /\ doubled' = doubled
           /\ since' \in {since, Coverage(h)}
    <2>1. ASSUME TierAdds(h)
          PROVE  /\ open' = Added(h) /\ tiers' = Stored(e) /\ doubled' = doubled
                 /\ since' = Coverage(h)
      BY <2>1 DEF TierAdds
    <2>2. ASSUME TierBreaks(h)
          PROVE  \/ open' = Added(h) /\ StoreCut(e) /\ since' = Coverage(h)
                 \/ /\ open' = open /\ tiers' = tiers /\ doubled' = doubled
                    /\ since' \in {since, Coverage(h)}
      BY <2>2 DEF TierBreaks
    <2>. QED
      BY <2>1, <2>2
  <1>v. Coverage(h) \in {None} \cup Nat
    BY <1>n, <1>f DEF Coverage
  <1>. HIDE DEF h, e, b
  <1>g. \A r \in open \cup tiers : r.bucket \in Int
    BY <1>y DEF Sums
  <1>1. /\ tiers' \in SUBSET Sums /\ IsFiniteSet(tiers') /\ OnePerPeriod(tiers')
        /\ open' \in SUBSET Sums /\ IsFiniteSet(open') /\ OnePerPeriod(open')
        /\ doubled \subseteq doubled'
    BY <1>j, <1>a, <1>c, <1>s, <1>y
  <1>2. /\ since' \in {None} \cup Nat /\ since' \in {since, Coverage(h)}
    BY <1>j, <1>v, <1>f
  <1>3. open' = open \/ \A r \in open' : r.bucket = b
    BY <1>j, <1>a
  <1>4. \A r \in tiers' : \E o \in tiers \cup e : o.bucket = r.bucket
    BY <1>j, <1>s, <1>c
  <1>5. \A r \in tiers' \cup open' : Bucket(r.bucket) = r.bucket /\ r.bucket <= now
    <2>1. ASSUME NEW r \in open' PROVE Bucket(r.bucket) = r.bucket /\ r.bucket <= now
      <3>1. b <= now /\ Bucket(b) = b
        BY <1>b, <1>h, <1>f
      <3>. QED
        BY <3>1, <1>3, <1>y
    <2>2. ASSUME NEW r \in tiers' PROVE Bucket(r.bucket) = r.bucket /\ r.bucket <= now
      <3>1. PICK o \in tiers \cup open : o.bucket = r.bucket
        BY <1>4, <1>a
      <3>. QED
        BY <3>1, <1>y
    <2>. QED
      BY <2>1, <2>2
  <1>6. \A t, p : InPeriod(t, p)' = InPeriod(t, p) /\ Pending(t, p)' = 0
    BY DEF InPeriod, PeriodOf, Bucket, Pending, IsPending
  <1>7. ASSUME NEW t, NEW p
        PROVE  /\ Summed(t, p)' \in Nat /\ Summed(t, p) \in Nat
               /\ Twice(t, p)' \/ Summed(t, p)' <= Summed(t, p)
               /\ TierAdds(h) => Summed(t, p)' = Summed(t, p)
    <2>1. /\ Amount(tiers, t, p) \in Nat /\ Amount(open, t, p) \in Nat
          /\ Amount(e, t, p) \in Nat /\ Amount(Added(h), t, p) \in Nat
          /\ Amount(tiers', t, p) \in Nat /\ Amount(open', t, p) \in Nat
      BY <1>y, <1>a, <1>1, AmountIs
    <2>2. Summed(t, p)' = Amount(tiers', t, p) + Amount(open', t, p)
      <3>1. Summed(t, p)' = Amount(tiers', t, p) + Amount(open', t, p) + Pending(t, p)'
        BY DEF Summed, Amount, Has
      <3>2. Pending(t, p)' = 0
        BY <1>6
      <3>. QED
        BY <3>1, <3>2, <2>1
    <2>3. Summed(t, p) = Amount(tiers, t, p) + Amount(open, t, p)
                           + (IF t = h.tune /\ p = b THEN 1 ELSE 0)
      BY <1>p DEF Summed
    <2>4. Amount(Added(h), t, p) + Amount(e, t, p)
            = Amount(open, t, p) + (IF t = h.tune /\ p = b THEN 1 ELSE 0)
      BY <1>a
    <2>5. CASE TierAdds(h) /\ open' = Added(h) /\ tiers' = Stored(e)
      <3>1. Amount(tiers', t, p) = Amount(tiers, t, p) + Amount(e, t, p)
        BY <2>5, <1>s
      <3>. QED
        BY <3>1, <2>1, <2>2, <2>3, <2>4, <2>5
    <2>6. CASE ~TierAdds(h) /\ open' = Added(h) /\ StoreCut(e)
      <3>1. Twice(t, p)' \/ Amount(tiers', t, p) <= Amount(tiers, t, p) + Amount(e, t, p)
        BY <2>6, <1>c DEF Twice
      <3>. QED
        BY <3>1, <2>1, <2>2, <2>3, <2>4, <2>6
    <2>7. CASE ~TierAdds(h) /\ open' = open /\ tiers' = tiers
      BY <2>1, <2>2, <2>3, <2>7
    <2>. QED
      BY <2>5, <2>6, <2>7, <1>j
  <1>8. ASSUME NEW t \in Tunes, NEW p \in Int
        PROVE  Twice(t, p)' \/ Summed(t, p)' <= Cardinality(InPeriod(t, p)')
    <2>1. Twice(t, p) \/ Summed(t, p) <= Cardinality(InPeriod(t, p))
      BY <1>i DEF CountedOnce
    <2>2. Twice(t, p) => Twice(t, p)'
      BY <1>1 DEF Twice
    <2>3. Cardinality(InPeriod(t, p)) \in Nat
      BY PeriodIs
    <2>. QED
      BY <2>1, <2>2, <2>3, <1>6, <1>7
  <1>9. ASSUME TierAdds(h)
        PROVE  /\ since' = Coverage(h) /\ open' # {} /\ \A r \in open' : r.bucket = b
               /\ \A r \in tiers' : \/ \E o \in tiers : o.bucket = r.bucket
                                    \/ r.bucket + Level <= b
    <2>1. open' = Added(h) /\ since' = Coverage(h)
      BY <1>9, <1>j
    <2>2. ASSUME NEW r \in tiers'
          PROVE  (\E o \in tiers : o.bucket = r.bucket) \/ r.bucket + Level <= b
      <3>1. PICK o \in tiers \cup e : o.bucket = r.bucket
        BY <1>4
      <3>. QED
        BY <3>1, <1>a
    <2>. QED
      BY <2>1, <2>2, <1>a
  <1>. QED
    BY <1>1, <1>2, <1>3, <1>5, <1>6, <1>7, <1>8, <1>9, <1>g, <1>y DEF h, b, e

\* The window goes to the tiers.
LEMMA WrTierKeepsChart ==
  ASSUME WindowsInv, ChartInv, WrTier
  PROVE  ChartInv'
PROOF
  <1>. DEFINE h == Head(queue)
              b == PeriodOf(h)
  <1>q. queue # <<>> /\ job = "tier"
    BY WindowsInvGives DEF WrTier, InOrder
  <1>u. /\ UNCHANGED <<happens, now, clock, up, rows>>
        /\ job' = "none" /\ queue' = Tail(queue)
        /\ \/ TierAdds(h) /\ inexact' = inexact
           \/ TierBreaks(h) /\ inexact' = TRUE
    BY DEF WrTier, JobDone, WriterVars, consVars
  <1>i. StartsDiffer /\ SumsInOrder /\ CountedOnce
    BY ChartGives
  <1>h. /\ h \in Window /\ h.start \in Nat /\ h.start < now /\ h.tune \in Tunes
        /\ clock.start # None => h.start < clock.start
        /\ \A x \in rows : x.start < h.start \/ x = h
        /\ \A i \in DOMAIN Tail(queue) : h.start < Tail(queue)[i].start
    BY <1>q, HeadIsNext
  <1>b. /\ b \in Int /\ b <= h.start /\ h.start < b + Level /\ Bucket(b) = b
        /\ Level \in Nat \ {0}
    <2>1. h.start \in Int /\ b = Bucket(h.start)
      BY <1>h DEF PeriodOf
    <2>. HIDE DEF b, h
    <2>2. b \in Int /\ b <= h.start /\ h.start < b + Level /\ Bucket(b) = b
      BY <2>1, BucketIs
    <2>. QED
      BY <2>1, <2>2, WindowsAssumption
  <1>t. /\ tiers' \in SUBSET Sums /\ IsFiniteSet(tiers') /\ OnePerPeriod(tiers')
        /\ open' \in SUBSET Sums /\ IsFiniteSet(open') /\ OnePerPeriod(open')
        /\ since' \in {None} \cup Nat /\ since' \in {since, Coverage(h)}
        /\ open' = open \/ \A r \in open' : r.bucket = b
        /\ \A r \in tiers' \cup open' : Bucket(r.bucket) = r.bucket /\ r.bucket <= now
        /\ \A r \in open : r.bucket <= h.start /\ r.bucket \in Int
        /\ \A t \in Tunes, p \in Int :
             Twice(t, p)' \/ Summed(t, p)' <= Cardinality(InPeriod(t, p)')
        /\ TierAdds(h) =>
             /\ since' = Coverage(h) /\ open' # {} /\ \A r \in open' : r.bucket = b
             /\ \A r \in tiers' : \/ \E o \in tiers : o.bucket = r.bucket
                                  \/ r.bucket + Level <= b
             /\ \A t, p : Summed(t, p)' = Summed(t, p) /\ InPeriod(t, p)' = InPeriod(t, p)
    BY <1>q, <1>u, TierChanges
  <1>n. /\ NextBucket(h.start) \in Nat /\ h.start <= NextBucket(h.start)
        /\ Bucket(NextBucket(h.start)) = NextBucket(h.start)
    BY <1>h, NextBucketIs
  <1>f. since \in {None} \cup Nat /\ inexact \in BOOLEAN /\ now \in Nat /\ clock.start \in Int
        /\ (~inexact /\ since = None => ~noted /\ tiers = {} /\ open = {})
    BY <1>i, Numbers DEF SumsInOrder
  <1>p. \A t, p : Pending(t, p) = IF t = h.tune /\ p = b THEN 1 ELSE 0
    BY <1>q DEF Pending, IsPending
  <1>w. ASSUME ~inexact'
        PROVE  TierAdds(h) /\ ~inexact /\ since' # None
               /\ since' = IF since = None THEN NextBucket(h.start) ELSE since
    <2>1. TierAdds(h) /\ ~inexact
      BY <1>w, <1>u
    <2>2. since' = IF since = None THEN NextBucket(h.start) ELSE since
      BY <2>1, <1>t, <1>f DEF Coverage
    <2>. QED
      BY <2>1, <2>2, <1>n DEF None
  <1>. HIDE DEF h, b
  <1>g. \A r \in tiers : r.bucket \in Int
    BY <1>i DEF SumsInOrder, Sums
  <1>1. StartsDiffer'
    BY <1>q, <1>u, JobEndsInOrder
  <1>2. SumsInOrder'
    <2>1. \A r \in open' :
            /\ clock.start # None => r.bucket <= clock.start
            /\ \A i \in DOMAIN Tail(queue) : r.bucket <= Tail(queue)[i].start
            /\ \A s \in open' : r.bucket = s.bucket
      <3>1. CASE open' = open
        <4>1. \A r \in open : \A i \in DOMAIN Tail(queue) : r.bucket <= Tail(queue)[i].start
          BY <1>q, TailSums
        <4>. QED
          BY <4>1, <3>1, <1>i DEF SumsInOrder
      <3>2. CASE \A r \in open' : r.bucket = b
        <4>1. clock.start # None => b <= clock.start
          BY <1>b, <1>h, <1>f
        <4>2. ASSUME NEW i \in DOMAIN Tail(queue) PROVE b <= Tail(queue)[i].start
          <5>1. Tail(queue)[i].start \in Int
            BY <1>q, QueueIs, Numbers
          <5>. QED
            BY <5>1, <1>b, <1>h
        <4>. QED
          BY <4>1, <4>2, <3>2
      <3>. QED
        BY <3>1, <3>2, <1>t
    <2>2. "tiers" \in happens
      BY <1>q, <1>i DEF SumsInOrder
    <2>3. ASSUME ~inexact'
          PROVE  /\ since' # None /\ (tiers' # {} => open' # {})
                 /\ \A r \in tiers', s \in open' : r.bucket + Level <= s.bucket
      <3>1. TierAdds(h) /\ ~inexact /\ since' # None
        BY <2>3, <1>w
      <3>2. open' # {} /\ \A s \in open' : s.bucket = b
        BY <3>1, <1>t
      <3>3. ASSUME NEW o \in tiers PROVE o.bucket + Level <= b
        <4>1. PICK s \in open : o.bucket + Level <= s.bucket
          <5>1. open # {}
            BY <3>1, <3>3, <1>i DEF SumsInOrder
          <5>. QED
            BY <5>1, <3>1, <3>3, <1>i DEF SumsInOrder
        <4>2. s.bucket <= b /\ s.bucket \in Int
          <5>1. s.bucket \in Int /\ Bucket(s.bucket) = s.bucket /\ s.bucket <= h.start
            BY <1>t, <1>i DEF SumsInOrder
          <5>. QED
            BY <5>1, <1>h, BucketIs DEF b, PeriodOf
        <4>. QED
          BY <4>1, <4>2, <1>b, <1>g
      <3>4. ASSUME NEW r \in tiers' PROVE r.bucket + Level <= b
        BY <3>1, <3>3, <1>t
      <3>. QED
        BY <3>1, <3>2, <3>4
    <2>4. inexact' \in BOOLEAN /\ IsFiniteSet(rows')
      BY <1>u, <1>f, <1>i DEF SumsInOrder
    <2>. QED
      BY <2>1, <2>2, <2>3, <2>4, <1>u, <1>t DEF SumsInOrder
  <1>3. CountedOnce'
    <2>1. ASSUME ~inexact', NEW t \in Tunes, NEW p \in Int, p >= since'
          PROVE  Summed(t, p)' = Cardinality(InPeriod(t, p)')
      <3>1. TierAdds(h) /\ ~inexact
            /\ since' = IF since = None THEN NextBucket(h.start) ELSE since
        BY <2>1, <1>w
      <3>2. Summed(t, p)' = Summed(t, p) /\ InPeriod(t, p)' = InPeriod(t, p)
        BY <3>1, <1>t
      <3>3. CASE since # None
        BY <3>1, <3>2, <3>3, <2>1, <1>i DEF CountedOnce
      <3>4. CASE since = None
        <4>1. tiers = {} /\ open = {} /\ since' = NextBucket(h.start)
          BY <3>1, <3>4, <1>f
        <4>2. Amount(tiers, t, p) = 0 /\ Amount(open, t, p) = 0
          BY <4>1 DEF Amount, Has
        <4>3. Summed(t, p) = IF t = h.tune /\ p = b THEN 1 ELSE 0
          BY <4>2, <1>p DEF Summed
        <4>4. ASSUME NEW x \in InPeriod(t, p) PROVE x = h
          <5>1. x \in rows /\ x.start \in Int /\ PeriodOf(x) = p
            BY Numbers DEF InPeriod
          <5>2. p <= x.start
            BY <5>1, BucketIs DEF PeriodOf
          <5>3. ~(x.start < h.start)
            BY <5>1, <5>2, <4>1, <2>1, <1>h, <1>n
          <5>. QED
            BY <5>1, <5>3, <1>h
        <4>5. h \in rows
          BY <1>q, <1>i DEF StartsDiffer, h
        <4>6. InPeriod(t, p) = IF t = h.tune /\ p = b THEN {h} ELSE {}
          <5>1. h \in InPeriod(t, p) <=> (t = h.tune /\ p = b)
            BY <4>5 DEF InPeriod, b
          <5>. QED
            BY <5>1, <4>4
        <4>7. Cardinality(InPeriod(t, p)) = IF t = h.tune /\ p = b THEN 1 ELSE 0
          BY <4>6, FS_Singleton, FS_EmptySet
        <4>. QED
          BY <4>3, <4>7, <3>2
      <3>. QED
        BY <3>3, <3>4
    <2>. QED
      BY <2>1, <1>t DEF CountedOnce
  <1>. QED
    BY <1>1, <1>2, <1>3 DEF ChartInv

\* The queue is written, or what is left of it discarded.
LEMMA DrainedKeepsChart ==
  ASSUME WindowsInv, ChartInv, Drained
  PROVE  ChartInv'
PROOF
  <1>u. /\ UNCHANGED <<happens, now, clock>>
        /\ queue' = <<>> /\ job' = "none" /\ up = "stopping"
    BY DEF Drained, consVars
  <1>d. \/ /\ UNCHANGED <<tiers, open, since, noted, doubled>>
           /\ \/ queue = <<>> /\ rows' = rows /\ inexact' = inexact
              \/ /\ queue # <<>> /\ inexact' = TRUE
                 /\ rows' = rows \/ (job = "row" /\ rows' = rows \cup {Head(queue)})
        \/ /\ queue # <<>> /\ job = "tier" /\ TierBreaks(Head(queue)) /\ rows' = rows
           /\ inexact' = TRUE
    BY DEF Drained, tierVars, WithRow
  <1>i. StartsDiffer /\ SumsInOrder /\ CountedOnce
    BY ChartGives
  <1>c. clock.start = None /\ DOMAIN queue' = {}
    BY <1>u, WindowsInvGives DEF Current
  <1>x. SUFFICES ASSUME UNCHANGED <<tiers, open, since, noted, doubled>>,
                        \/ queue = <<>> /\ rows' = rows /\ inexact' = inexact
                        \/ /\ queue # <<>> /\ inexact' = TRUE
                           /\ rows' = rows \/ (job = "row" /\ rows' = rows \cup {Head(queue)})
                 PROVE  ChartInv'
    <2>1. ASSUME queue # <<>>, job = "tier", TierBreaks(Head(queue)), rows' = rows,
                 inexact' = TRUE
          PROVE  ChartInv'
      <3>1. /\ tiers' \in SUBSET Sums /\ IsFiniteSet(tiers') /\ OnePerPeriod(tiers')
            /\ open' \in SUBSET Sums /\ IsFiniteSet(open') /\ OnePerPeriod(open')
            /\ since' \in {None} \cup Nat
            /\ open' = open \/ \A r \in open' : r.bucket = PeriodOf(Head(queue))
            /\ \A r \in tiers' \cup open' : Bucket(r.bucket) = r.bucket /\ r.bucket <= now
            /\ \A t \in Tunes, p \in Int :
                 Twice(t, p)' \/ Summed(t, p)' <= Cardinality(InPeriod(t, p)')
        BY <2>1, <1>u, TierChanges
      <3>2. StartsDiffer'
        BY <2>1, <1>u, <1>c, <1>i DEF StartsDiffer
      <3>3. \A r, s \in open' : r.bucket = s.bucket
        BY <3>1, <1>i DEF SumsInOrder
      <3>4. IsFiniteSet(rows) /\ "tiers" \in happens
        BY <2>1, <1>i DEF SumsInOrder
      <3>5. SumsInOrder'
        BY <3>1, <3>3, <3>4, <2>1, <1>u, <1>c DEF SumsInOrder
      <3>6. CountedOnce'
        BY <3>1, <2>1 DEF CountedOnce
      <3>. QED
        BY <3>2, <3>5, <3>6 DEF ChartInv
    <2>. QED
      BY <2>1, <1>d
  <1>a. \A t, p : /\ Pending(t, p)' = 0 /\ Amount(tiers, t, p)' = Amount(tiers, t, p)
                  /\ Amount(open, t, p)' = Amount(open, t, p) /\ Twice(t, p)' = Twice(t, p)
    BY <1>u, <1>x DEF Pending, IsPending, Amount, Has, Twice
  <1>s. ASSUME NEW t, NEW p
        PROVE  /\ Summed(t, p)' <= Summed(t, p) /\ Summed(t, p)' \in Nat /\ Summed(t, p) \in Nat
               /\ job # "tier" => Summed(t, p)' = Summed(t, p)
    <2>1. /\ Amount(tiers, t, p) \in Nat /\ Amount(open, t, p) \in Nat /\ Pending(t, p) \in {0, 1}
          /\ job # "tier" => Pending(t, p) = 0
      BY PeriodIs DEF Pending, IsPending
    <2>. QED
      BY <2>1, <1>a DEF Summed
  <1>1. CASE rows' = rows
    <2>1. StartsDiffer'
      BY <1>1, <1>u, <1>x, <1>c, <1>i DEF StartsDiffer
    <2>2. SumsInOrder'
      BY <1>1, <1>u, <1>x, <1>c, <1>i DEF SumsInOrder
    <2>3. CountedOnce'
      <3>1. \A t, p : InPeriod(t, p)' = InPeriod(t, p)
        BY <1>1 DEF InPeriod, PeriodOf, Bucket
      <3>2. ASSUME NEW t \in Tunes, NEW p \in Int
            PROVE  Twice(t, p)' \/ Summed(t, p)' <= Cardinality(InPeriod(t, p)')
        <4>1. /\ Twice(t, p)' \/ Summed(t, p) <= Cardinality(InPeriod(t, p))
              /\ Cardinality(InPeriod(t, p)) \in Nat
          BY <1>a, <1>i, PeriodIs DEF CountedOnce
        <4>2. Summed(t, p)' <= Summed(t, p) /\ Summed(t, p)' \in Nat /\ Summed(t, p) \in Nat
          BY <1>s
        <4>. QED
          BY <4>1, <4>2, <3>1
      <3>3. ~inexact' => ~inexact /\ job # "tier"
        BY <1>u, <1>x, WindowsInvGives DEF InOrder
      <3>. QED
        BY <3>1, <3>2, <3>3, <1>s, <1>u, <1>x, <1>i DEF CountedOnce
    <2>. QED
      BY <2>1, <2>2, <2>3 DEF ChartInv
  <1>2. CASE queue # <<>> /\ job = "row" /\ rows' = rows \cup {Head(queue)}
    <2>h. /\ Head(queue).start \in Nat /\ Head(queue).start < now
          /\ \A x \in rows : x.start < Head(queue).start /\ x.start \in Int
      BY <1>2, HeadIsNext, Numbers
    <2>1. StartsDiffer'
      <3>1. \A x \in rows' : x.start < now
        BY <2>h, <1>2, <1>i DEF StartsDiffer
      <3>2. \A v, x \in rows' : v # x => v.start # x.start
        <4>1. ASSUME NEW v \in rows', NEW x \in rows', v # x PROVE v.start # x.start
          BY <4>1, <2>h, <1>2, <1>i DEF StartsDiffer
        <4>. QED
          BY <4>1
      <3>. QED
        BY <3>1, <3>2, <1>u, <1>x, <1>c DEF StartsDiffer
    <2>2. SumsInOrder'
      <3>1. IsFiniteSet(rows')
        BY <1>2, RowCounts
      <3>2. inexact' = TRUE
        BY <1>2, <1>x
      <3>. QED
        BY <3>1, <3>2, <1>2, <1>u, <1>x, <1>c, <1>i DEF SumsInOrder
    <2>3. CountedOnce'
      <3>1. ASSUME NEW t \in Tunes, NEW p \in Int
            PROVE  Twice(t, p)' \/ Summed(t, p)' <= Cardinality(InPeriod(t, p)')
        <4>1. /\ Twice(t, p)' \/ Summed(t, p) <= Cardinality(InPeriod(t, p))
              /\ Cardinality(InPeriod(t, p)) \in Nat
          BY <1>a, <1>i, PeriodIs DEF CountedOnce
        <4>2. Summed(t, p)' <= Summed(t, p) /\ Summed(t, p)' \in Nat /\ Summed(t, p) \in Nat
          BY <1>s
        <4>3. /\ Cardinality(InPeriod(t, p)') \in Nat
              /\ Cardinality(InPeriod(t, p)) <= Cardinality(InPeriod(t, p)')
          BY <4>1, <1>2, RowCounts
        <4>. QED
          BY <4>1, <4>2, <4>3
      <3>2. inexact' = TRUE
        BY <1>2, <1>x
      <3>. QED
        BY <3>1, <3>2 DEF CountedOnce
    <2>. QED
      BY <2>1, <2>2, <2>3 DEF ChartInv
  <1>. QED
    BY <1>1, <1>2, <1>x

\* A new process: its queue is empty, its clock at rest, the rows are the same.
LEMMA RebornInOrder ==
  ASSUME WindowsInv, ChartInv, Reborn, UNCHANGED <<now, rows>>
  PROVE  /\ StartsDiffer' /\ clock'.start = None /\ DOMAIN queue' = {}
         /\ open' = {} /\ job' = "none" /\ noted' = FALSE
         /\ \A t, p : /\ Pending(t, p)' = 0 /\ Amount(open, t, p)' = 0
                      /\ InPeriod(t, p)' = InPeriod(t, p)
PROOF
  <1>1. /\ clock'.start = None /\ queue' = <<>> /\ DOMAIN queue' = {} /\ job' = "none"
        /\ up' = "up" /\ open' = {} /\ noted' = FALSE
    BY DEF Reborn, NoClock
  <1>2. \A t, p : Pending(t, p)' = 0 /\ Amount(open, t, p)' = 0 /\ InPeriod(t, p)' = InPeriod(t, p)
    BY <1>1 DEF Pending, IsPending, Amount, Has, InPeriod, PeriodOf, Bucket
  <1>3. StartsDiffer'
    BY <1>1, ChartGives DEF StartsDiffer
  <1>. QED
    BY <1>1, <1>2, <1>3

\* The process ends in order, and stores the open periods.
LEMMA CloseKeepsChart ==
  ASSUME WindowsInv, ChartInv, Close
  PROVE  ChartInv'
PROOF
  <1>u. /\ UNCHANGED <<happens, now, rows, since>> /\ Reborn /\ up = "down"
        /\ inexact' = (inexact \/ open # {})
        /\ \/ tiers' = Stored(open) /\ doubled' = doubled
           \/ open # {} /\ StoreCut(open)
    BY DEF Close
  <1>i. StartsDiffer /\ SumsInOrder /\ CountedOnce
    BY ChartGives
  <1>r. /\ StartsDiffer' /\ clock'.start = None /\ DOMAIN queue' = {}
        /\ open' = {} /\ job' = "none" /\ noted' = FALSE
        /\ \A t, p : /\ Pending(t, p)' = 0 /\ Amount(open, t, p)' = 0
                     /\ InPeriod(t, p)' = InPeriod(t, p)
    BY <1>u, RebornInOrder
  <1>y. /\ open \in SUBSET Sums /\ IsFiniteSet(open) /\ OnePerPeriod(open)
        /\ tiers \in SUBSET Sums /\ IsFiniteSet(tiers) /\ OnePerPeriod(tiers)
    BY <1>i DEF SumsInOrder
  <1>s. /\ tiers' \in SUBSET Sums /\ IsFiniteSet(tiers') /\ OnePerPeriod(tiers')
        /\ doubled \subseteq doubled'
        /\ \A t, p : \/ [bucket |-> p, tune |-> t] \in doubled'
                     \/ Amount(tiers', t, p) <= Amount(tiers, t, p) + Amount(open, t, p)
        /\ \A r \in tiers' : \E o \in tiers \cup open : o.bucket = r.bucket
        /\ open = {} => tiers' = tiers
    <2>1. ASSUME tiers' = Stored(open), doubled' = doubled
          PROVE  /\ tiers' \in SUBSET Sums /\ IsFiniteSet(tiers') /\ OnePerPeriod(tiers')
                 /\ \A t, p : Amount(tiers', t, p) = Amount(tiers, t, p) + Amount(open, t, p)
                 /\ \A r \in tiers' : \E o \in tiers \cup open : o.bucket = r.bucket
                 /\ open = {} => tiers' = tiers
      BY <2>1, <1>y, StoredIs
    <2>2. ASSUME NEW t, NEW p
          PROVE  Amount(tiers, t, p) \in Nat /\ Amount(open, t, p) \in Nat
      BY <1>y, AmountIs
    <2>3. ASSUME open # {}, StoreCut(open)
          PROVE  /\ tiers' \in SUBSET Sums /\ IsFiniteSet(tiers') /\ OnePerPeriod(tiers')
                 /\ doubled \subseteq doubled'
                 /\ \A t, p : \/ [bucket |-> p, tune |-> t] \in doubled'
                              \/ Amount(tiers', t, p) <= Amount(tiers, t, p) + Amount(open, t, p)
                 /\ \A r \in tiers' : \E o \in tiers \cup open : o.bucket = r.bucket
      BY <2>3, <1>y, CutIs
    <2>. QED
      BY <2>1, <2>2, <2>3, <1>u
  <1>j. job # "tier"
    <2>1. queue = <<>>
      BY <1>u, <1>i DEF StartsDiffer
    <2>. QED
      BY <2>1, WindowsInvGives DEF InOrder
  <1>e. ~inexact' => /\ ~inexact /\ open = {} /\ tiers = {} /\ tiers' = {} /\ doubled' = doubled
    <2>1. ASSUME ~inexact' PROVE ~inexact /\ open = {}
      BY <2>1, <1>u
    <2>. QED
      BY <2>1, <1>s, <1>u, <1>i DEF SumsInOrder
  <1>1. SumsInOrder'
    <2>1. inexact' \in BOOLEAN
      BY <1>u, <1>i DEF SumsInOrder
    <2>2. \A r \in tiers' : Bucket(r.bucket) = r.bucket /\ r.bucket <= now
      <3>1. ASSUME NEW r \in tiers' PROVE Bucket(r.bucket) = r.bucket /\ r.bucket <= now
        <4>1. PICK o \in tiers \cup open : o.bucket = r.bucket
          BY <1>s
        <4>2. Bucket(o.bucket) = o.bucket /\ o.bucket <= now
          BY <1>i DEF SumsInOrder
        <4>. QED
          BY <4>1, <4>2
      <3>. QED
        BY <3>1
    <2>3. ~inexact' => tiers' = {}
      BY <1>e
    <2>4. IsFiniteSet({}) /\ OnePerPeriod({}) /\ {} \in SUBSET Sums
      BY FS_EmptySet DEF OnePerPeriod
    <2>5. /\ tiers' \in SUBSET Sums /\ IsFiniteSet(tiers') /\ OnePerPeriod(tiers')
          /\ open' = {} /\ rows' = rows /\ since' = since /\ happens' = happens /\ now' = now
          /\ job' # "tier" /\ noted' = FALSE
      BY <1>s, <1>r, <1>u
    <2>6. /\ IsFiniteSet(rows) /\ since \in {None} \cup Nat
          /\ since # None => "tiers" \in happens
      BY <1>i DEF SumsInOrder
    <2>. QED
      BY <2>1, <2>2, <2>3, <2>4, <2>5, <2>6 DEF SumsInOrder
  <1>2. CountedOnce'
    <2>1. ASSUME NEW t, NEW p
          PROVE  /\ Summed(t, p)' = Amount(tiers', t, p) /\ Summed(t, p)' \in Nat
                 /\ Summed(t, p) = Amount(tiers, t, p) + Amount(open, t, p)
                 /\ Amount(tiers, t, p) \in Nat /\ Amount(open, t, p) \in Nat
      <3>1. Amount(tiers', t, p) \in Nat /\ Amount(tiers, t, p) \in Nat
            /\ Amount(open, t, p) \in Nat
        BY <1>s, <1>y, AmountIs
      <3>2. Summed(t, p)' = Amount(tiers', t, p) + Amount(open, t, p)' + Pending(t, p)'
        BY DEF Summed, Amount, Has
      <3>3. Summed(t, p) = Amount(tiers, t, p) + Amount(open, t, p) + 0
        BY <1>j DEF Summed, Pending, IsPending
      <3>. QED
        BY <3>1, <3>2, <3>3, <1>r
    <2>2. ASSUME NEW t \in Tunes, NEW p \in Int
          PROVE  Twice(t, p)' \/ Summed(t, p)' <= Cardinality(InPeriod(t, p)')
      <3>1. Twice(t, p)' \/ Amount(tiers', t, p) <= Amount(tiers, t, p) + Amount(open, t, p)
        BY <1>s DEF Twice
      <3>2. Twice(t, p)' \/ Summed(t, p) <= Cardinality(InPeriod(t, p))
        BY <1>s, <1>i DEF CountedOnce, Twice
      <3>3. Cardinality(InPeriod(t, p)) \in Nat /\ InPeriod(t, p)' = InPeriod(t, p)
        BY <1>r, PeriodIs
      <3>. QED
        BY <3>1, <3>2, <3>3, <2>1
    <2>3. ASSUME ~inexact', NEW t \in Tunes, NEW p \in Int
          PROVE  Summed(t, p)' = Summed(t, p)
      <3>1. tiers' = tiers /\ open = {}
        BY <2>3, <1>e
      <3>2. Amount(open, t, p) = 0 /\ Amount(tiers', t, p) = Amount(tiers, t, p)
        BY <3>1 DEF Amount, Has
      <3>. QED
        BY <3>2, <2>1
    <2>4. ASSUME ~inexact', since' # None, NEW t \in Tunes, NEW p \in Int, p >= since'
          PROVE  Summed(t, p)' = Cardinality(InPeriod(t, p)')
      <3>1. Summed(t, p) = Cardinality(InPeriod(t, p))
        BY <2>4, <1>e, <1>u, <1>i DEF CountedOnce
      <3>2. Summed(t, p)' = Summed(t, p)
        BY <2>3, <2>4
      <3>3. InPeriod(t, p)' = InPeriod(t, p)
        BY <1>r
      <3>. QED
        BY <3>1, <3>2, <3>3
    <2>. QED
      BY <2>2, <2>4 DEF CountedOnce
  <1>. QED
    BY <1>1, <1>2, <1>r DEF ChartInv

\* A crash loses what is open.
LEMMA CrashKeepsChart ==
  ASSUME WindowsInv, ChartInv, Crash
  PROVE  ChartInv'
PROOF
  <1>u. /\ UNCHANGED <<happens, now, rows, tiers, since, doubled>> /\ Reborn
        /\ inexact' = TRUE
    BY DEF Crash
  <1>i. StartsDiffer /\ SumsInOrder /\ CountedOnce
    BY ChartGives
  <1>r. /\ StartsDiffer' /\ clock'.start = None /\ DOMAIN queue' = {}
        /\ open' = {} /\ job' = "none"
        /\ \A t, p : /\ Pending(t, p)' = 0 /\ Amount(open, t, p)' = 0
                     /\ InPeriod(t, p)' = InPeriod(t, p)
    BY <1>u, RebornInOrder
  <1>1. SumsInOrder'
    <2>1. IsFiniteSet({}) /\ OnePerPeriod({}) /\ {} \in SUBSET Sums
      BY FS_EmptySet DEF OnePerPeriod
    <2>. QED
      BY <2>1, <1>u, <1>r, <1>i DEF SumsInOrder
  <1>2. CountedOnce'
    <2>1. ASSUME NEW t \in Tunes, NEW p \in Int
          PROVE  Twice(t, p)' \/ Summed(t, p)' <= Cardinality(InPeriod(t, p)')
      <3>1. Summed(t, p)' = Amount(tiers, t, p) + 0 + 0
        <4>1. Summed(t, p)' = Amount(tiers, t, p)' + Amount(open, t, p)' + Pending(t, p)'
          BY DEF Summed
        <4>2. Amount(tiers, t, p)' = Amount(tiers, t, p)
          BY <1>u DEF Amount, Has
        <4>. QED
          BY <4>1, <4>2, <1>r
      <3>2. Twice(t, p)' \/ Summed(t, p) <= Cardinality(InPeriod(t, p))
        BY <1>u, <1>i DEF CountedOnce, Twice
      <3>3. Amount(tiers, t, p) \in Nat /\ Amount(open, t, p) \in Nat /\ Pending(t, p) \in {0, 1}
            /\ Cardinality(InPeriod(t, p)) \in Nat
        BY PeriodIs
      <3>. QED
        BY <3>1, <3>2, <3>3, <1>r DEF Summed
    <2>. QED
      BY <2>1, <1>u DEF CountedOnce
  <1>. QED
    BY <1>1, <1>2, <1>r DEF ChartInv

\* The first states satisfy it.
LEMMA InitChart ==
  Init => ChartInv
PROOF
  <1>. SUFFICES ASSUME Init PROVE ChartInv
    OBVIOUS
  <1>1. /\ clock.start = None /\ queue = <<>> /\ DOMAIN queue = {} /\ job = "none" /\ now = 0
        /\ up = "up" /\ open = {} /\ tiers = {} /\ since = None /\ inexact = FALSE
        /\ noted = FALSE
    BY DEF Init, NoClock
  <1>2. /\ \A w \in rows : w.start = -Level
        /\ \A v, w \in rows : v = w
        /\ IsFiniteSet(rows)
    <2>. DEFINE o == [start |-> -Level, end |-> Least(0, Duration - Level), tune |-> tuned]
    <2>1. rows = {} \/ rows = {o}
      BY DEF Init
    <2>2. o.start = -Level
      OBVIOUS
    <2>. HIDE DEF o
    <2>3. IsFiniteSet(rows)
      BY <2>1, FS_EmptySet, FS_Singleton
    <2>. QED
      BY <2>1, <2>2, <2>3
  <1>3. StartsDiffer
    BY <1>1, <1>2, WindowsAssumption DEF StartsDiffer
  <1>4. SumsInOrder
    <2>1. IsFiniteSet({}) /\ OnePerPeriod({}) /\ {} \in SUBSET Sums
      BY FS_EmptySet DEF OnePerPeriod
    <2>. QED
      BY <2>1, <1>1, <1>2 DEF SumsInOrder
  <1>5. CountedOnce
    <2>1. ASSUME NEW t \in Tunes, NEW p \in Int
          PROVE  Summed(t, p) <= Cardinality(InPeriod(t, p))
      <3>1. Summed(t, p) = 0
        BY <1>1 DEF Summed, Amount, Has, Pending, IsPending
      <3>2. InPeriod(t, p) \subseteq rows
        BY DEF InPeriod
      <3>3. Cardinality(InPeriod(t, p)) \in Nat
        BY <3>2, <1>2, FS_Subset, FS_CardinalityType
      <3>. QED
        BY <3>1, <3>3
    <2>. QED
      BY <2>1, <1>1 DEF CountedOnce
  <1>. QED
    BY <1>3, <1>4, <1>5 DEF ChartInv

\* Every step keeps it.
LEMMA StepKeepsChart ==
  WindowsInv /\ ChartInv /\ [Next]_vars => ChartInv'
PROOF
  BY ReceiveKeepsChart, GoIdleKeepsChart, StopKeepsChart, OtherStepsKeepChart, WrRowKeepsChart,
     WrTierKeepsChart, DrainedKeepsChart, CloseKeepsChart, CrashKeepsChart
     DEF Next, Rollup

\* No window begins when another does, and the tiers sum each one at most once (psd_tiers.py's
\* accumulator and its store, fed by the ordered writer), but where a retried store merged a
\* row twice; each exactly once while no write of the tiers broke off.
THEOREM ChartInvHolds == Spec => []ChartInv
PROOF
  BY InitChart, StepKeepsChart, WindowsInvHolds, PTL DEF Spec

-----------------------------------------------------------------------------
(* The chart's buckets.                                                    *)

\* A time before an end is in an earlier part than the end's last.
LEMMA PartsEnd ==
  ASSUME NEW a \in Int, NEW c \in Int, NEW n \in Nat \ {0}, a < c
  PROVE  /\ a \div n \in Int /\ CeilDiv(c, n) \in Int /\ a \div n <= CeilDiv(c, n) - 1
PROOF
  <1>. DEFINE k == a \div n
              m == (-c) \div n
  <1>1. k \in Int /\ k * n <= a
    OBVIOUS
  <1>2. m \in Int /\ m * n <= -c
    OBVIOUS
  <1>3. CeilDiv(c, n) = -m
    BY DEF CeilDiv
  <1>. HIDE DEF k, m
  <1>4. k * n < (-m) * n
    <2>1. (-m) * n = -(m * n) /\ m * n \in Int /\ k * n \in Int
      BY <1>1, <1>2
    <2>. QED
      BY <2>1, <1>1, <1>2
  <1>5. k < -m
    <2>1. ASSUME ~(k < -m) PROVE FALSE
      <3>1. k + m \in Nat
        BY <2>1, <1>1, <1>2
      <3>2. (k + m) * n \in Nat
        BY <3>1
      <3>3. (k + m) * n = k * n + m * n /\ (-m) * n = -(m * n)
            /\ k * n \in Int /\ m * n \in Int
        BY <1>1, <1>2
      <3>. QED
        BY <3>2, <3>3, <1>4
    <2>. QED
      BY <2>1
  <1>. QED
    BY <1>1, <1>2, <1>3, <1>5 DEF k

\* A later time is in the same part, or a later one.
LEMMA PartsGrow ==
  ASSUME NEW a \in Int, NEW c \in Int, NEW n \in Nat \ {0}, a <= c
  PROVE  a \div n <= c \div n /\ a \div n \in Int /\ c \div n \in Int
PROOF
  <1>. DEFINE k == a \div n
              m == c \div n
  <1>1. k \in Int /\ k * n <= a
    OBVIOUS
  <1>2. m \in Int /\ c < m * n + n
    OBVIOUS
  <1>. HIDE DEF k, m
  <1>3. k <= m
    <2>1. ASSUME ~(k <= m) PROVE FALSE
      <3>1. k - (m + 1) \in Nat
        BY <2>1, <1>1, <1>2
      <3>2. (k - (m + 1)) * n \in Nat
        BY <3>1
      <3>3. (k - (m + 1)) * n = k * n - m * n - n /\ k * n \in Int /\ m * n \in Int
        BY <1>1, <1>2
      <3>. QED
        BY <3>2, <3>3, <1>1, <1>2
    <2>. QED
      BY <2>1
  <1>. QED
    BY <1>1, <1>2, <1>3 DEF k, m

\* A time between a request's ends has its own bucket in the grid.
LEMMA GridHolds ==
  ASSUME NEW s \in Int, NEW u \in Int, NEW num \in Nat \ {0}, NEW den \in Nat \ {0},
         NEW q, q.s = s, q.u = u, NEW b, b.num = num, b.den = den,
         NEW t \in Int, s <= t, t < u
  PROVE  /\ Numbered(b, t) \in Grid(q, b)
         /\ Index(Grid(q, b), b, t) = Numbered(b, t)
PROOF
  <1>1. s * den \in Int /\ t * den \in Int /\ u * den \in Int
    OBVIOUS
  <1>2. s * den <= t * den
    <2>1. t - s \in Nat
      OBVIOUS
    <2>2. (t - s) * den \in Nat
      BY <2>1
    <2>3. (t - s) * den = t * den - s * den
      OBVIOUS
    <2>. QED
      BY <2>2, <2>3, <1>1
  <1>3. t * den < u * den
    <2>1. u - t \in Nat \ {0}
      OBVIOUS
    <2>2. (u - t) * den \in Nat \ {0}
      BY <2>1
    <2>3. (u - t) * den = u * den - t * den
      OBVIOUS
    <2>. QED
      BY <2>2, <2>3, <1>1
  <1>4. Numbered(b, s) = (s * den) \div num /\ Numbered(b, t) = (t * den) \div num
    BY DEF Numbered
  <1>5. Numbered(b, s) <= Numbered(b, t) /\ Numbered(b, s) \in Int /\ Numbered(b, t) \in Int
    <2>1. /\ (s * den) \div num <= (t * den) \div num
          /\ (s * den) \div num \in Int /\ (t * den) \div num \in Int
      BY <1>1, <1>2, PartsGrow
    <2>. QED
      BY <2>1, <1>4
  <1>. DEFINE last == CeilDiv(u * den, num) - 1
  <1>6. last \in Int /\ Numbered(b, t) <= last
    <2>1. CeilDiv(u * den, num) \in Int /\ (t * den) \div num <= CeilDiv(u * den, num) - 1
      BY <1>1, <1>3, PartsEnd
    <2>. QED
      BY <2>1, <1>4
  <1>7. Grid(q, b) = Numbered(b, s)..Most(Numbered(b, s), last)
    BY DEF Grid
  <1>. HIDE DEF last
  <1>8. Numbered(b, t) \in Grid(q, b)
    BY <1>5, <1>6, <1>7 DEF Most
  <1>. QED
    BY <1>8 DEF Index

\* A bucket of whole periods holds all of a period or none.
LEMMA PeriodsFit ==
  ASSUME NEW k \in Nat \ {0}, NEW b, b.num = k * Level, b.den = 1, NEW t \in Int
  PROVE  Numbered(b, Bucket(t)) = Numbered(b, t)
PROOF
  <1>1. Level \in Nat \ {0}
    BY WindowsAssumption
  <1>. DEFINE n == k * Level
              p == Bucket(t)
              m == t \div n
  <1>2. n \in Nat \ {0}
    <2>1. \A x, y \in Nat \ {0} : x * y \in Nat \ {0}
      OBVIOUS
    <2>. QED
      BY <2>1, <1>1
  <1>3. p \in Int /\ p <= t
    BY BucketIs
  <1>. HIDE DEF n
  <1>4. m \in Int /\ m * n <= t /\ t < m * n + n
    BY <1>2
  <1>5. m * n <= p
    <2>1. m * n = (m * k) * Level /\ m * k \in Int
      BY <1>1, <1>4 DEF n
    <2>2. ((m * k) * Level) \div Level = m * k
      <3>1. \A j \in Int : (j * Level) \div Level = j
        BY <1>1
      <3>. QED
        BY <3>1, <2>1
    <2>3. Bucket(m * n) = m * n /\ m * n \in Int
      BY <2>1, <2>2, <1>1 DEF Bucket
    <2>. QED
      BY <2>3, <1>4, BucketIs
  <1>. HIDE DEF m
  <1>6. p \div n = m
    <2>1. p < m * n + n
      BY <1>2, <1>3, <1>4
    <2>2. \A x \in Int : m * n <= x /\ x < m * n + n => x \div n = m
      BY <1>2, <1>4
    <2>. QED
      BY <2>1, <2>2, <1>3, <1>5
  <1>7. Numbered(b, p) = (p * 1) \div n /\ Numbered(b, t) = (t * 1) \div n
    BY DEF Numbered, n
  <1>. QED
    BY <1>3, <1>6, <1>7 DEF m

\* A tier's bucket is of whole periods.
LEMMA TierBucketIs ==
  ASSUME NEW span \in Nat \ {0}, NEW limit \in Nat \ {0}, NEW forced \in Nat,
         TierBucket(span, limit, forced) # 0
  PROVE  \E k \in Nat \ {0} : TierBucket(span, limit, forced) = k * Level
PROOF
  <1>1. Level \in Nat \ {0}
    BY WindowsAssumption
  <1>2. CASE forced # 0
    <2>1. TierBucket(span, limit, forced) = forced /\ forced % Level = 0
      BY <1>2 DEF TierBucket
    <2>. DEFINE k == forced \div Level
    <2>2. k \in Int /\ forced = k * Level + 0
      BY <2>1, <1>1
    <2>. HIDE DEF k
    <2>3. k \in Nat \ {0}
      <3>1. ASSUME k <= 0 PROVE FALSE
        <4>1. (-k) * Level \in Nat
          BY <2>2, <3>1, <1>1
        <4>2. (-k) * Level = -(k * Level)
          BY <2>2, <1>1
        <4>3. k * Level = forced
          BY <2>2, <1>1
        <4>4. -forced \in Nat
          BY <4>1, <4>2, <4>3
        <4>. QED
          BY <4>4, <1>2
      <3>2. k \in Int
        BY <2>2
      <3>. QED
        BY <3>1, <3>2
    <2>4. TierBucket(span, limit, forced) = k * Level
      BY <2>1, <2>2, <1>1
    <2>. QED
      BY <2>3, <2>4, Zenon
  <1>3. CASE forced = 0
    <2>. DEFINE k == CeilDiv(span, limit * Level)
    <2>1. TierBucket(span, limit, forced) = Level * k
      BY <1>3 DEF TierBucket
    <2>2. limit * Level \in Nat \ {0}
      <3>1. \A x, y \in Nat \ {0} : x * y \in Nat \ {0}
        OBVIOUS
      <3>. QED
        BY <3>1, <1>1
    <2>3. k \in Int /\ 0 \div (limit * Level) <= k - 1
      BY <2>2, PartsEnd
    <2>4. 0 \div (limit * Level) = 0
      BY <2>2
    <2>5. k \in Nat \ {0}
      BY <2>3, <2>4
    <2>. HIDE DEF k
    <2>6. TierBucket(span, limit, forced) = k * Level
      BY <2>1, <2>5, <1>1
    <2>. QED
      BY <2>5, <2>6, Zenon
  <1>. QED
    BY <1>2, <1>3

\* The sums of no period.
LEMMA TotalOfNone ==
  Total({}) = 0
PROOF
  <1>1. IsFiniteSet({})
    BY FS_EmptySet
  <1>2. PICK f : f = Adding(f, {}) /\ Total({}) = f[{}]
    BY <1>1, TotalIs
  <1>3. f[{}] = Adding(f, {})[{}]
    BY <1>2
  <1>. QED
    BY <1>2, <1>3 DEF Adding

\* A set of times up to now has a last one.
LEMMA LastIs ==
  ASSUME NEW S \in SUBSET Int, S # {}, \E n \in Int : \A x \in S : x <= n
  PROVE  /\ Max(S) \in S
         /\ \A x \in S : x <= Max(S)
PROOF
  <1>0. PICK n \in Int : \A x \in S : x <= n
    OBVIOUS
  <1>. DEFINE T == {n - x : x \in S}
  <1>1. T \in SUBSET Nat /\ T # {}
    <2>1. \A x \in S : n - x \in Nat
      BY <1>0
    <2>. QED
      BY <2>1
  <1>2. IsWellFoundedOn(OpToRel(<, Nat), Nat)
    BY NatLessThanWellFounded
  <1>3. PICK c \in T : \A d \in T : <<d, c>> \notin OpToRel(<, Nat)
    <2>. HIDE DEF T
    <2>. QED
      BY <1>1, <1>2, WFMin
  <1>4. ASSUME NEW d \in T PROVE c <= d
    <2>1. d \in Nat /\ c \in Nat
      BY <1>1
    <2>2. <<d, c>> \in Nat \X Nat
      BY <2>1
    <2>3. <<d, c>>[1] = d /\ <<d, c>>[2] = c
      OBVIOUS
    <2>4. d < c => <<d, c>> \in OpToRel(<, Nat)
      BY <2>2, <2>3 DEF OpToRel
    <2>5. <<d, c>> \notin OpToRel(<, Nat)
      BY <1>3, Zenon
    <2>6. ~ (d < c)
      BY <2>4, <2>5, Zenon
    <2>. QED
      BY <2>1, <2>6
  <1>5. PICK x \in S : c = n - x
    OBVIOUS
  <1>6. ASSUME NEW y \in S PROVE x >= y
    <2>1. c <= n - y
      BY <1>4
    <2>. QED
      BY <2>1, <1>5
  <1>7. \E z \in S : \A y \in S : z >= y
    BY <1>6
  <1>8. Max(S) \in S /\ \A y \in S : Max(S) >= y
    BY <1>7 DEF Max
  <1>. QED
    BY <1>8

\* A request: some tunings, from a time to a later one, and the bucket it is drawn in.
Asks(q, b) ==
  /\ q.ts \in SUBSET Tunings /\ q.s \in Int /\ q.u \in Int /\ q.s < q.u
  /\ b.num \in Nat \ {0} /\ b.den \in Nat \ {0}

\* Its windows, and those of one bucket.
Asked(q) == In(q.ts, q.s, q.u)
OfBucket(ws, b, i) == {w \in ws : Numbered(b, w.start) = i}
\* The periods of one bucket.
Within(rs, b, i) == {r \in rs : Numbered(b, r.bucket) = i}

\* A stored window of the request is between its ends, in a bucket of the grid.
LEMMA AskedIs ==
  ASSUME WindowsInv, ChartInv, NEW q, NEW b, Asks(q, b)
  PROVE  /\ Asked(q) \in SUBSET rows /\ IsFiniteSet(Asked(q))
         /\ \A w \in rows : /\ w.start \in Int
                            /\ w \in Asked(q) <=> /\ w.tune \in q.ts
                                                  /\ q.s <= w.start /\ w.start < q.u
         /\ \A t \in Int : q.s <= t /\ t < q.u =>
              /\ Numbered(b, t) \in Grid(q, b)
              /\ Index(Grid(q, b), b, t) = Numbered(b, t)
PROOF
  <1>1. /\ q.s \in Int /\ q.u \in Int /\ b.num \in Nat \ {0} /\ b.den \in Nat \ {0}
    BY DEF Asks
  <1>2. \A w \in rows : w.start \in Int
    BY Numbers
  <1>3. Asked(q) \in SUBSET rows
    BY DEF Asked, In
  <1>4. IsFiniteSet(Asked(q))
    BY <1>3, ChartGives, FS_Subset DEF SumsInOrder
  <1>5. \A w \in rows : w \in Asked(q) <=> w.tune \in q.ts /\ q.s <= w.start /\ w.start < q.u
    BY <1>1, <1>2 DEF Asked, In
  <1>6. ASSUME NEW t \in Int, q.s <= t, t < q.u
        PROVE  Numbered(b, t) \in Grid(q, b) /\ Index(Grid(q, b), b, t) = Numbered(b, t)
    BY <1>1, <1>6, GridHolds
  <1>. QED
    BY <1>2, <1>3, <1>4, <1>5, <1>6

\* What a bucket weighs is the sum of its periods.
LEMMA WeighedIs ==
  ASSUME NEW g, NEW b, NEW rs, NEW i \in g
  PROVE  Weighed(g, b, rs)[i] = Total({r \in rs : Index(g, b, r.bucket) = i})
PROOF
  BY DEF Weighed, Total, FoldSet, MapThenFoldSet

\* Windows and periods between the request's ends are counted in their buckets.
LEMMA FoldsIs ==
  ASSUME WindowsInv, ChartInv, NEW q, NEW b, Asks(q, b), NEW ws \in SUBSET Asked(q),
         NEW rs, \A r \in rs : r.bucket \in Int /\ q.s <= r.bucket /\ r.bucket < q.u
  PROVE  /\ DOMAIN Folds(q, b, ws, rs) = Grid(q, b)
         /\ \A i \in Grid(q, b) :
              Folds(q, b, ws, rs)[i]
                = Cardinality(OfBucket(ws, b, i)) + Total(Within(rs, b, i))
PROOF
  <1>. DEFINE g == Grid(q, b)
  <1>1. Folds(q, b, ws, rs) = [i \in g |-> Counted(g, b, ws)[i] + Weighed(g, b, rs)[i]]
    BY DEF Folds
  <1>2. ASSUME NEW i \in g PROVE Counted(g, b, ws)[i] = Cardinality(OfBucket(ws, b, i))
    <2>1. \A w \in ws : Index(g, b, w.start) = Numbered(b, w.start)
      BY AskedIs
    <2>2. {w \in ws : Index(g, b, w.start) = i} = OfBucket(ws, b, i)
      BY <2>1 DEF OfBucket
    <2>3. Counted(g, b, ws)[i] = Cardinality({w \in ws : Index(g, b, w.start) = i})
      BY DEF Counted
    <2>. QED
      BY <2>2, <2>3
  <1>3. ASSUME NEW i \in g
        PROVE  Weighed(g, b, rs)[i] = Total(Within(rs, b, i))
    <2>1. \A r \in rs : Index(g, b, r.bucket) = Numbered(b, r.bucket)
      BY AskedIs
    <2>2. {r \in rs : Index(g, b, r.bucket) = i} = Within(rs, b, i)
      BY <2>1 DEF Within
    <2>3. Weighed(g, b, rs)[i] = Total({r \in rs : Index(g, b, r.bucket) = i})
      BY WeighedIs
    <2>. QED
      BY <2>2, <2>3
  <1>. HIDE DEF g
  <1>. QED
    BY <1>1, <1>2, <1>3 DEF g

\* Windows alone are all counted.
LEMMA RawIs ==
  ASSUME WindowsInv, ChartInv, NEW q, NEW b, Asks(q, b)
  PROVE  /\ DOMAIN Folds(q, b, Asked(q), {}) = Grid(q, b)
         /\ \A i \in Grid(q, b) :
              Folds(q, b, Asked(q), {})[i] = Cardinality(OfBucket(Asked(q), b, i))
PROOF
  <1>1. /\ DOMAIN Folds(q, b, Asked(q), {}) = Grid(q, b)
        /\ \A i \in Grid(q, b) :
              Folds(q, b, Asked(q), {})[i]
                = Cardinality(OfBucket(Asked(q), b, i))
                    + Total(Within({}, b, i))
    <2>. DEFINE ws == Asked(q)
                rs == {}
    <2>1. ws \in SUBSET Asked(q)
          /\ \A r \in rs : r.bucket \in Int /\ q.s <= r.bucket /\ r.bucket < q.u
      OBVIOUS
    <2>. HIDE DEF ws, rs
    <2>2. /\ DOMAIN Folds(q, b, ws, rs) = Grid(q, b)
          /\ \A i \in Grid(q, b) :
               Folds(q, b, ws, rs)[i]
                 = Cardinality(OfBucket(ws, b, i)) + Total(Within(rs, b, i))
      BY <2>1, FoldsIs
    <2>. QED
      BY <2>2 DEF ws, rs
  <1>2. \A i : Within({}, b, i) = {}
    BY DEF Within
  <1>3. \A i : Cardinality(OfBucket(Asked(q), b, i)) \in Nat
    <2>1. ASSUME NEW i PROVE Cardinality(OfBucket(Asked(q), b, i)) \in Nat
      <3>1. OfBucket(Asked(q), b, i) \subseteq Asked(q) /\ IsFiniteSet(Asked(q))
        BY AskedIs DEF OfBucket
      <3>. QED
        BY <3>1, FS_Subset, FS_CardinalityType
    <2>. QED
      BY <2>1
  <1>. QED
    BY <1>1, <1>2, <1>3, TotalOfNone

\* A few windows are drawn one by one: no two of them begin at once.
LEMMA OneByOne ==
  ASSUME WindowsInv, ChartInv, NEW ws \in SUBSET rows
  PROVE  Cardinality({w.start : w \in ws}) = Cardinality(ws)
PROOF
  <1>. DEFINE f == [w \in ws |-> w.start]
              ts == {w.start : w \in ws}
  <1>1. IsFiniteSet(ws)
    BY ChartGives, FS_Subset DEF SumsInOrder
  <1>2. \A v, w \in ws : v.start = w.start => v = w
    BY ChartGives DEF StartsDiffer
  <1>3. f \in Bijection(ws, ts)
    BY <1>2 DEF Bijection, Injection, Surjection, IsInjective
  <1>4. ExistsBijection(ws, ts)
    BY <1>3 DEF ExistsBijection
  <1>. QED
    BY <1>1, <1>4, FS_Bijection

\* What _fold_tiered reads for a request: where stored periods may begin, those used, and
\* from where raw windows are read again.
From(q) == NextBucket(q.s)
To(q) == Most(From(q), Bucket(q.u))
Used(q) == {r \in tiers : r.tune \in q.ts /\ r.bucket \in From(q)..(To(q) - 1)}
Rest(q) == CoverEnd(Used(q), From(q), To(q))

\* The periods used end by Rest, and Rest is the end of one of them, or nothing is used.
LEMMA UsedIs ==
  ASSUME WindowsInv, ChartInv, NEW q, NEW b, Asks(q, b)
  PROVE  /\ From(q) \in Int /\ q.s <= From(q) /\ Bucket(From(q)) = From(q)
         /\ To(q) \in Int /\ From(q) <= To(q)
         /\ Rest(q) \in Int /\ From(q) <= Rest(q) /\ Rest(q) <= To(q)
         /\ (From(q) < To(q) => To(q) <= q.u)
         /\ \A r \in Used(q) : /\ r \in tiers /\ r \in Sums /\ r.tune \in q.ts /\ r.bucket \in Int
                               /\ From(q) <= r.bucket /\ r.bucket + Level <= Rest(q)
                               /\ Bucket(r.bucket) = r.bucket /\ r.bucket < q.u
         /\ IsFiniteSet(Used(q))
         /\ Rest(q) = From(q) \/ \E m \in Used(q) : Rest(q) <= m.bucket + Level
PROOF
  <1>. DEFINE lo == From(q)
              hi == To(q)
              used == Used(q)
              z == Rest(q)
              e == Bucket(q.u)
  <1>1. Level \in Nat \ {0} /\ q.s \in Int /\ q.u \in Int /\ now \in Nat
    BY WindowsAssumption, Numbers DEF Asks
  <1>2. lo \in Int /\ q.s <= lo /\ Bucket(lo) = lo
    BY <1>1, NextBucketIs DEF From
  <1>3. e \in Int /\ e <= q.u /\ Bucket(e) = e
    BY <1>1, BucketIs
  <1>4. hi = Most(lo, e)
    BY DEF To
  <1>5. z = CoverEnd(used, lo, hi)
    BY DEF Rest
  <1>6. used = {r \in tiers : r.tune \in q.ts /\ r.bucket \in lo..(hi - 1)}
    BY DEF Used
  <1>7. /\ tiers \in SUBSET Sums /\ IsFiniteSet(tiers)
        /\ \A r \in tiers : Bucket(r.bucket) = r.bucket /\ r.bucket <= now /\ r.bucket \in Int
    BY ChartGives DEF SumsInOrder, Sums
  <1>. HIDE DEF lo, hi, used, z, e
  <1>8. hi \in Int /\ lo <= hi /\ (lo < hi => hi = e)
    BY <1>2, <1>3, <1>4 DEF Most
  <1>9. ASSUME NEW r \in used
        PROVE  /\ r \in tiers /\ r \in Sums /\ r.tune \in q.ts /\ r.bucket \in Int
               /\ lo <= r.bucket /\ r.bucket + Level <= hi /\ hi = e /\ r.bucket <= now
               /\ Bucket(r.bucket) = r.bucket /\ r.bucket < q.u
    <2>1. /\ r \in tiers /\ r \in Sums /\ r.tune \in q.ts /\ r.bucket \in Int
          /\ lo <= r.bucket /\ r.bucket < hi /\ Bucket(r.bucket) = r.bucket /\ r.bucket <= now
      BY <1>2, <1>6, <1>7, <1>8
    <2>2. hi = e
      BY <2>1, <1>2, <1>8
    <2>3. Bucket(r.bucket) + Level <= e
      BY <2>1, <2>2, <1>3, BucketIs
    <2>. QED
      BY <2>1, <2>2, <2>3, <1>1, <1>3
  <1>10. IsFiniteSet(used)
    BY <1>6, <1>7, FS_Subset
  <1>11. CASE used = {}
    <2>1. z = lo
      BY <1>5, <1>11 DEF CoverEnd
    <2>. QED
      BY <2>1, <1>2, <1>3, <1>8, <1>10, <1>11 DEF lo, hi, z, used
  <1>12. CASE used # {}
    <2>. DEFINE S == {r.bucket : r \in used}
                m == Max(S)
    <2>1. S \in SUBSET Int /\ S # {} /\ \E n \in Int : \A x \in S : x <= n
      <3>1. \A x \in S : x <= now
        BY <1>9
      <3>2. S \in SUBSET Int /\ S # {} /\ now \in Int
        BY <1>1, <1>9, <1>12
      <3>. HIDE DEF S
      <3>. QED
        BY <3>1, <3>2
    <2>2. m \in S /\ \A x \in S : x <= m
      <3>. HIDE DEF S
      <3>. QED
        BY <2>1, LastIs
    <2>3. z = Least(hi, m + Level)
      BY <1>5, <1>12 DEF CoverEnd
    <2>4. PICK r \in used : r.bucket = m
      BY <2>2
    <2>5. \A x \in used : x.bucket <= m
      BY <2>2
    <2>. HIDE DEF m, S
    <2>6. m \in Int /\ lo <= m /\ m + Level <= hi
      BY <2>4, <1>9
    <2>7. z = m + Level
      BY <2>3, <2>6, <1>1, <1>8 DEF Least
    <2>8. \A x \in used : x.bucket + Level <= z
      BY <2>5, <2>6, <2>7, <1>1, <1>9
    <2>9. z \in Int /\ lo <= z /\ z <= hi /\ z <= r.bucket + Level
      BY <2>4, <2>6, <2>7, <1>1, <1>2
    <2>. QED
      BY <2>4, <2>8, <2>9, <1>2, <1>3, <1>8, <1>9, <1>10 DEF lo, hi, z, used
  <1>. QED
    BY <1>11, <1>12

\* The windows read raw are those that begin before the periods, or after the last used.
LEMMA TieredIs ==
  ASSUME WindowsInv, ChartInv, NEW q, NEW b, Asks(q, b)
  PROVE  \E ws \in SUBSET Asked(q) :
           /\ FoldTiered(q, b) = Folds(q, b, ws, Used(q))
           /\ \A w \in Asked(q) : w \in ws <=> w.start < From(q) \/ Rest(q) <= w.start
PROOF
  <1>. DEFINE lo == From(q)
              z == Rest(q)
              after == Most(z, Most(lo, q.s))
              ws == In(q.ts, q.s, Least(lo, q.u)) \cup In(q.ts, after, q.u)
  <1>1. lo \in Int /\ q.s <= lo /\ z \in Int /\ lo <= z /\ q.s \in Int /\ q.u \in Int
    BY UsedIs DEF Asks
  <1>2. FoldTiered(q, b) = Folds(q, b, ws, Used(q))
    BY DEF FoldTiered, From, To, Used, Rest
  <1>. HIDE DEF lo, z
  <1>3. after = z
    BY <1>1 DEF Most
  <1>4. \A w \in rows : w.start \in Int
    BY Numbers
  <1>5. \A w : w \in ws <=> /\ w \in rows /\ w.tune \in q.ts
                            /\ \/ q.s <= w.start /\ w.start < Least(lo, q.u)
                               \/ z <= w.start /\ w.start < q.u
    <2>1. Least(lo, q.u) \in Int
      BY <1>1 DEF Least
    <2>. HIDE DEF after
    <2>. QED
      BY <2>1, <1>1, <1>3, <1>4 DEF In
  <1>. HIDE DEF ws
  <1>6. \A w \in rows : w \in Asked(q) <=> w.tune \in q.ts /\ q.s <= w.start /\ w.start < q.u
    BY AskedIs
  <1>7. ws \in SUBSET Asked(q)
    <2>1. ASSUME NEW w \in ws PROVE w \in Asked(q)
      <3>1. /\ w \in rows /\ w.tune \in q.ts /\ w.start \in Int
            /\ \/ q.s <= w.start /\ w.start < Least(lo, q.u)
               \/ z <= w.start /\ w.start < q.u
        BY <2>1, <1>4, <1>5
      <3>2. q.s <= w.start /\ w.start < q.u
        BY <3>1, <1>1 DEF Least
      <3>. QED
        BY <3>1, <3>2, <1>6
    <2>. QED
      BY <2>1
  <1>8. ASSUME NEW w \in Asked(q) PROVE w \in ws <=> w.start < lo \/ z <= w.start
    <2>1. w \in rows /\ w.start \in Int
      BY AskedIs, <1>4
    <2>2. w.tune \in q.ts /\ q.s <= w.start /\ w.start < q.u
      BY <2>1, <1>6
    <2>. QED
      BY <2>1, <2>2, <1>1, <1>5 DEF Least
  <1>. QED
    BY <1>2, <1>7, <1>8 DEF lo, z

\* What a period counts, no more than the windows that begin in it; and exactly those,
\* when it began with the coverage or later and no sum was lost.
LEMMA PeriodCounts ==
  ASSUME WindowsInv, ChartInv, NEW r \in tiers, r.tune \in Tunes
  PROVE  /\ r.n \in Nat
         /\ Twice(r.tune, r.bucket) \/ r.n <= Cardinality(InPeriod(r.tune, r.bucket))
         /\ ~inexact /\ since # None /\ since <= r.bucket =>
              r.n = Cardinality(InPeriod(r.tune, r.bucket))
PROOF
  <1>. DEFINE t == r.tune
              p == r.bucket
  <1>1. /\ tiers \in SUBSET Sums /\ open \in SUBSET Sums /\ OnePerPeriod(tiers)
        /\ OnePerPeriod(open) /\ Level \in Nat \ {0}
    BY ChartGives, WindowsAssumption DEF SumsInOrder
  <1>2. r.n \in Nat /\ p \in Int
    BY <1>1 DEF Sums
  <1>3. Amount(tiers, t, p) = r.n
    BY <1>1, AmountIs
  <1>4. /\ Amount(open, t, p) \in Nat /\ Pending(t, p) \in {0, 1}
        /\ Cardinality(InPeriod(t, p)) \in Nat
    BY PeriodIs
  <1>. HIDE DEF t, p
  <1>5. Summed(t, p) = r.n + Amount(open, t, p) + Pending(t, p)
    BY <1>3 DEF Summed
  <1>6. Twice(t, p) \/ Summed(t, p) <= Cardinality(InPeriod(t, p))
    BY <1>2, ChartGives DEF CountedOnce, t
  <1>7. ASSUME ~inexact, since # None, since <= p PROVE r.n = Cardinality(InPeriod(t, p))
    <2>1. Summed(t, p) = Cardinality(InPeriod(t, p))
      <3>1. since \in Int
        BY ChartGives DEF SumsInOrder, None
      <3>. QED
        BY <3>1, <1>2, <1>7, ChartGives DEF CountedOnce, t
    <2>2. open # {} /\ \A s \in open : p + Level <= s.bucket
      BY <1>7, ChartGives DEF SumsInOrder, p
    <2>3. \A s \in open : s.bucket \in Int
      BY <1>1 DEF Sums
    <2>4. ~Has(open, t, p)
      BY <2>2, <2>3, <1>1, <1>2 DEF Has
    <2>5. Amount(open, t, p) = 0
      BY <2>4 DEF Amount
    <2>6. Pending(t, p) = 0
      <3>1. ASSUME job = "tier" PROVE PeriodOf(Head(queue)) # p
        <4>1. queue # <<>>
          BY <3>1, WindowsInvGives DEF InOrder
        <4>2. Head(queue) = queue[1] /\ 1 \in DOMAIN queue /\ Head(queue).start \in Int
          BY <4>1, QueueIs, Numbers
        <4>3. PICK s \in open : p + Level <= s.bucket /\ s.bucket \in Int
          BY <2>2, <2>3
        <4>4. s.bucket <= Head(queue).start
          BY <4>2, ChartGives DEF SumsInOrder
        <4>5. Head(queue).start < PeriodOf(Head(queue)) + Level /\ PeriodOf(Head(queue)) \in Int
          BY <4>2, BucketIs DEF PeriodOf
        <4>. QED
          BY <4>2, <4>3, <4>4, <4>5, <1>1, <1>2
      <3>. QED
        BY <3>1 DEF Pending, IsPending
    <2>. QED
      BY <2>1, <2>5, <2>6, <1>2, <1>5
  <1>. QED
    BY <1>2, <1>4, <1>5, <1>6, <1>7 DEF t, p

\* A window that began since the coverage did, and before the end of a stored period,
\* has its own period stored.
LEMMA StoredBefore ==
  ASSUME WindowsInv, ChartInv, ~inexact, since # None, NEW w \in rows, w.tune \in Tunes,
         since <= PeriodOf(w), NEW m \in tiers, w.start < m.bucket + Level
  PROVE  \E r \in tiers : r.tune = w.tune /\ r.bucket = PeriodOf(w)
PROOF
  <1>. DEFINE t == w.tune
              p == PeriodOf(w)
  <1>1. /\ tiers \in SUBSET Sums /\ open \in SUBSET Sums /\ OnePerPeriod(tiers)
        /\ OnePerPeriod(open) /\ Level \in Nat \ {0}
    BY ChartGives, WindowsAssumption DEF SumsInOrder
  <1>2. w.start \in Int /\ p \in Int /\ p <= w.start /\ since \in Int
    <2>1. w.start \in Int
      BY Numbers
    <2>2. since \in Int
      BY ChartGives DEF SumsInOrder, None
    <2>. QED
      BY <2>1, <2>2, BucketIs DEF PeriodOf
  <1>3. m.bucket \in Int /\ \A s \in open : s.bucket \in Int
    BY <1>1 DEF Sums
  <1>4. open # {} /\ \A s \in open : m.bucket + Level <= s.bucket
    BY ChartGives DEF SumsInOrder
  <1>5. w \in InPeriod(t, p)
    BY DEF InPeriod
  <1>6. /\ IsFiniteSet(InPeriod(t, p)) /\ Cardinality(InPeriod(t, p)) \in Nat
        /\ Amount(tiers, t, p) \in Nat
    BY PeriodIs
  <1>. HIDE DEF t, p
  <1>7. Cardinality(InPeriod(t, p)) # 0
    BY <1>5, <1>6, FS_EmptySet
  <1>8. Summed(t, p) = Cardinality(InPeriod(t, p))
    BY <1>2, ChartGives DEF CountedOnce, t, p
  <1>9. Amount(open, t, p) = 0
    <2>1. ~Has(open, t, p)
      BY <1>1, <1>2, <1>3, <1>4 DEF Has
    <2>. QED
      BY <2>1 DEF Amount
  <1>10. Pending(t, p) = 0
    <2>1. ASSUME job = "tier" PROVE PeriodOf(Head(queue)) # p
      <3>1. queue # <<>>
        BY <2>1, WindowsInvGives DEF InOrder
      <3>2. Head(queue) = queue[1] /\ 1 \in DOMAIN queue /\ Head(queue).start \in Int
        BY <3>1, QueueIs, Numbers
      <3>3. PICK s \in open : m.bucket + Level <= s.bucket /\ s.bucket \in Int
        BY <1>3, <1>4
      <3>4. s.bucket <= Head(queue).start /\ Bucket(s.bucket) = s.bucket
        BY <3>2, ChartGives DEF SumsInOrder
      <3>5. s.bucket <= PeriodOf(Head(queue)) /\ PeriodOf(Head(queue)) \in Int
        BY <3>2, <3>3, <3>4, BucketIs DEF PeriodOf
      <3>. QED
        BY <3>3, <3>5, <1>1, <1>2, <1>3
    <2>. QED
      BY <2>1 DEF Pending, IsPending
  <1>11. Amount(tiers, t, p) # 0
    BY <1>6, <1>7, <1>8, <1>9, <1>10 DEF Summed
  <1>12. Has(tiers, t, p)
    BY <1>11 DEF Amount
  <1>. QED
    BY <1>12 DEF Has, t, p

\* Sets apart from each other, within another.
LEMMA TwoParts ==
  ASSUME NEW A, NEW B, NEW C, IsFiniteSet(C), A \subseteq C, B \subseteq C, A \cap B = {}
  PROVE  /\ IsFiniteSet(A) /\ IsFiniteSet(B)
         /\ Cardinality(A) \in Nat /\ Cardinality(B) \in Nat /\ Cardinality(C) \in Nat
         /\ Cardinality(A) + Cardinality(B) <= Cardinality(C)
         /\ C \subseteq A \cup B => Cardinality(A) + Cardinality(B) = Cardinality(C)
PROOF
  <1>1. IsFiniteSet(A) /\ IsFiniteSet(B)
    BY FS_Subset
  <1>2. Cardinality(A) \in Nat /\ Cardinality(B) \in Nat /\ Cardinality(C) \in Nat
    BY <1>1, FS_CardinalityType
  <1>3. Cardinality(A \cup B) = Cardinality(A) + Cardinality(B) - Cardinality(A \cap B)
    BY <1>1, FS_Union
  <1>4. Cardinality(A \cap B) = 0
    <2>1. Cardinality({}) = 0
      BY FS_EmptySet
    <2>. QED
      BY <2>1
  <1>5. Cardinality(A \cup B) <= Cardinality(C)
    <2>1. A \cup B \subseteq C
      OBVIOUS
    <2>. QED
      BY <2>1, FS_Subset
  <1>6. C \subseteq A \cup B => Cardinality(A \cup B) = Cardinality(C)
    <2>1. C \subseteq A \cup B => A \cup B = C
      OBVIOUS
    <2>. QED
      BY <2>1
  <1>. QED
    BY <1>1, <1>2, <1>3, <1>4, <1>5, <1>6

\* A period merged twice is in the bucket.
Doubled(q, b, i) == \E d \in doubled : d.tune \in q.ts /\ Numbered(b, d.bucket) = i

\* With tiers, too, a bucket counts its windows at most once, unless one of its periods was
\* merged twice; and each of them, while no write of the tiers broke off.
LEMMA TieredCounts ==
  ASSUME WindowsInv, ChartInv, NEW q, NEW b, Asks(q, b), since # None, since <= q.s,
         NEW k \in Nat \ {0}, b.num = k * Level, b.den = 1
  PROVE  /\ DOMAIN FoldTiered(q, b) = Grid(q, b)
         /\ \A i \in Grid(q, b) :
              /\ ~Doubled(q, b, i) =>
                   FoldTiered(q, b)[i] <= Cardinality(OfBucket(Asked(q), b, i))
              /\ ~inexact => FoldTiered(q, b)[i] = Cardinality(OfBucket(Asked(q), b, i))
PROOF
  <1>a. /\ From(q) \in Int /\ q.s <= From(q) /\ Bucket(From(q)) = From(q)
        /\ Rest(q) \in Int /\ From(q) <= Rest(q) /\ Rest(q) <= To(q) /\ To(q) \in Int
        /\ (From(q) < To(q) => To(q) <= q.u)
        /\ \A r \in Used(q) : /\ r \in tiers /\ r \in Sums /\ r.tune \in q.ts /\ r.bucket \in Int
                              /\ From(q) <= r.bucket /\ r.bucket + Level <= Rest(q)
                              /\ Bucket(r.bucket) = r.bucket /\ r.bucket < q.u
        /\ IsFiniteSet(Used(q))
        /\ Rest(q) = From(q) \/ \E m \in Used(q) : Rest(q) <= m.bucket + Level
    BY UsedIs
  <1>b. PICK ws \in SUBSET Asked(q) :
          /\ FoldTiered(q, b) = Folds(q, b, ws, Used(q))
          /\ \A w \in Asked(q) : w \in ws <=> w.start < From(q) \/ Rest(q) <= w.start
    BY TieredIs
  <1>c. /\ Level \in Nat \ {0} /\ since \in Int /\ q.s \in Int /\ q.u \in Int
        /\ \A t \in q.ts : t \in Tunes
    BY ChartGives, WindowsAssumption DEF SumsInOrder, None, Asks, Tunes
  <1>d. /\ Asked(q) \in SUBSET rows /\ IsFiniteSet(Asked(q))
        /\ \A w \in rows : /\ w.start \in Int
                           /\ w \in Asked(q) <=> /\ w.tune \in q.ts
                                                 /\ q.s <= w.start /\ w.start < q.u
    BY AskedIs
  <1>e. \A r \in Used(q) : r.bucket \in Int /\ q.s <= r.bucket /\ r.bucket < q.u
    BY <1>a, <1>c
  <1>f. /\ DOMAIN FoldTiered(q, b) = Grid(q, b)
        /\ \A i \in Grid(q, b) :
             FoldTiered(q, b)[i]
               = Cardinality(OfBucket(ws, b, i)) + Total(Within(Used(q), b, i))
    <2>1. /\ DOMAIN Folds(q, b, ws, Used(q)) = Grid(q, b)
          /\ \A i \in Grid(q, b) :
               Folds(q, b, ws, Used(q))[i]
                 = Cardinality(OfBucket(ws, b, i))
                     + Total(Within(Used(q), b, i))
      BY <1>e, FoldsIs
    <2>. QED
      BY <2>1, <1>b
  <1>g. ASSUME NEW t \in Int PROVE Numbered(b, Bucket(t)) = Numbered(b, t)
    BY PeriodsFit
  <1>h. ASSUME NEW r \in Used(q), NEW w \in InPeriod(r.tune, r.bucket)
        PROVE  /\ w \in Asked(q) /\ w \notin ws /\ Numbered(b, w.start) = Numbered(b, r.bucket)
    <2>1. w \in rows /\ w.tune = r.tune /\ Bucket(w.start) = r.bucket /\ w.start \in Int
      BY <1>d DEF InPeriod, PeriodOf
    <2>2. r.bucket <= w.start /\ w.start < r.bucket + Level
      BY <2>1, BucketIs
    <2>3. From(q) <= w.start /\ w.start < Rest(q) /\ r.tune \in q.ts /\ r.bucket \in Int
      BY <2>1, <2>2, <1>a, <1>c
    <2>4. q.s <= w.start /\ w.start < q.u
      BY <2>1, <2>3, <1>a, <1>c
    <2>5. w \in Asked(q)
      BY <2>1, <2>3, <2>4, <1>d
    <2>. QED
      BY <2>1, <2>3, <2>5, <1>a, <1>b, <1>g
  <1>i. ASSUME NEW i \in Grid(q, b)
        PROVE  /\ ~Doubled(q, b, i) =>
                    FoldTiered(q, b)[i] <= Cardinality(OfBucket(Asked(q), b, i))
               /\ ~inexact => FoldTiered(q, b)[i] = Cardinality(OfBucket(Asked(q), b, i))
    <2>. DEFINE R == Within(Used(q), b, i)
                C == [r \in R |-> InPeriod(r.tune, r.bucket)]
                U == AllOf(C, R)
                raw == OfBucket(ws, b, i)
                all == OfBucket(Asked(q), b, i)
    <2>1. IsFiniteSet(R) /\ \A r \in R : r \in Used(q) /\ r \in tiers /\ r.tune \in Tunes
      <3>1. R \subseteq Used(q)
        BY DEF Within
      <3>2. IsFiniteSet(R)
        <4>. HIDE DEF R
        <4>. QED
          BY <3>1, <1>a, FS_Subset
      <3>. QED
        BY <3>1, <3>2, <1>a, <1>c
    <2>2. \A r \in R : C[r] = InPeriod(r.tune, r.bucket) /\ IsFiniteSet(C[r])
      BY PeriodIs
    <2>3. \A r \in R : r.n \in Nat /\ (~Doubled(q, b, i) => r.n <= Cardinality(C[r]))
      <3>1. ASSUME NEW r \in R
            PROVE  r.n \in Nat /\ (~Doubled(q, b, i) => r.n <= Cardinality(C[r]))
        <4>1. r \in Used(q) /\ r.tune \in q.ts /\ Numbered(b, r.bucket) = i
          BY <1>a DEF Within
        <4>2. Twice(r.tune, r.bucket) => Doubled(q, b, i)
          <5>. DEFINE d == [bucket |-> r.bucket, tune |-> r.tune]
          <5>1. d.tune = r.tune /\ d.bucket = r.bucket
            OBVIOUS
          <5>. HIDE DEF d
          <5>2. d \in doubled => Doubled(q, b, i)
            BY <4>1, <5>1 DEF Doubled
          <5>. QED
            BY <5>2 DEF Twice, d
        <4>3. /\ r.n \in Nat
              /\ Twice(r.tune, r.bucket) \/ r.n <= Cardinality(InPeriod(r.tune, r.bucket))
          BY <2>1, PeriodCounts
        <4>. QED
          BY <4>2, <4>3, <2>2
      <3>. QED
        BY <3>1
    <2>4. ASSUME ~inexact PROVE \A r \in R : r.n = Cardinality(C[r])
      <3>1. ASSUME NEW r \in R PROVE r.n = Cardinality(C[r])
        <4>1. since <= r.bucket
          BY <2>1, <1>c, <1>e
        <4>2. r.n = Cardinality(InPeriod(r.tune, r.bucket))
          BY <4>1, <2>1, <2>4, PeriodCounts
        <4>. QED
          BY <4>2, <2>2
      <3>. QED
        BY <3>1
    <2>5. \A r, s \in R : r # s => C[r] \cap C[s] = {}
      <3>1. ASSUME NEW r \in R, NEW s \in R, NEW w \in C[r], w \in C[s] PROVE r = s
        <4>1. r.tune = s.tune /\ r.bucket = s.bucket
          BY <3>1, <2>2 DEF InPeriod
        <4>. QED
          BY <4>1, <2>1, ChartGives DEF SumsInOrder, OnePerPeriod
      <3>. QED
        BY <3>1
    <2>6. ASSUME NEW x \in U PROVE x \in all /\ x \notin raw
      <3>1. PICK r \in R : x \in C[r]
        BY DEF AllOf
      <3>2. x \in InPeriod(r.tune, r.bucket) /\ Numbered(b, r.bucket) = i /\ r \in Used(q)
        BY <3>1, <2>2 DEF Within
      <3>. QED
        BY <3>2, <1>h DEF OfBucket
    <2>7. raw \subseteq all
      BY <1>b DEF OfBucket
    <2>8. IsFiniteSet(all)
      <3>1. all \subseteq Asked(q)
        BY DEF OfBucket
      <3>. QED
        BY <3>1, <1>d, FS_Subset
    <2>9. ASSUME ~inexact PROVE all \subseteq raw \cup U
      <3>1. ASSUME NEW w \in all, w \notin raw PROVE w \in U
        <4>1. w \in Asked(q) /\ Numbered(b, w.start) = i /\ w \notin ws /\ w \in rows
              /\ w.start \in Int /\ w.tune \in q.ts
          BY <3>1, <1>d DEF OfBucket
        <4>2. From(q) <= w.start /\ w.start < Rest(q)
          BY <4>1, <1>a, <1>b
        <4>3. PICK m \in Used(q) : Rest(q) <= m.bucket + Level
          BY <4>1, <4>2, <1>a
        <4>4. m \in tiers /\ w.start < m.bucket + Level
          <5>1. m \in tiers /\ m.bucket \in Int
            BY <1>a
          <5>. QED
            BY <5>1, <4>1, <4>2, <4>3, <1>a, <1>c
        <4>5. /\ PeriodOf(w) \in Int /\ From(q) <= PeriodOf(w) /\ PeriodOf(w) <= w.start
          BY <4>1, <4>2, <1>a, BucketIs DEF PeriodOf
        <4>6. since <= PeriodOf(w)
          BY <4>5, <1>a, <1>c
        <4>7. PICK r \in tiers : r.tune = w.tune /\ r.bucket = PeriodOf(w)
          BY <2>9, <4>1, <4>4, <4>6, <1>c, StoredBefore
        <4>8. PeriodOf(w) < To(q)
          BY <4>1, <4>2, <4>5, <1>a
        <4>9. r \in Used(q)
          BY <4>1, <4>5, <4>7, <4>8, <1>a DEF Used
        <4>10. w \in InPeriod(r.tune, r.bucket)
          BY <4>1, <4>7 DEF InPeriod
        <4>11. r \in R
          BY <4>1, <4>9, <4>10, <1>h DEF Within
        <4>. QED
          BY <4>10, <4>11, <2>2 DEF AllOf
      <3>. QED
        BY <3>1
    <2>. HIDE DEF R, C, raw, all
    <2>10. /\ IsFiniteSet(U) /\ Total(R) \in Nat
           /\ (\A r \in R : r.n <= Cardinality(C[r])) => Total(R) <= Cardinality(U)
           /\ (\A r \in R : r.n = Cardinality(C[r])) => Total(R) = Cardinality(U)
      <3>1. IsFiniteSet(R) /\ (\A r \in R : r.n \in Nat) /\ (\A r \in R : IsFiniteSet(C[r]))
        BY <2>1, <2>2, <2>3
      <3>. QED
        BY <3>1, <2>5, TotalCounts
    <2>. HIDE DEF U
    <2>11. /\ Cardinality(raw) \in Nat /\ Cardinality(U) \in Nat /\ Cardinality(all) \in Nat
           /\ Cardinality(raw) + Cardinality(U) <= Cardinality(all)
           /\ all \subseteq raw \cup U => Cardinality(raw) + Cardinality(U) = Cardinality(all)
      <3>1. U \subseteq all /\ raw \cap U = {}
        BY <2>6
      <3>. QED
        BY <3>1, <2>7, <2>8, TwoParts
    <2>12. FoldTiered(q, b)[i] = Cardinality(raw) + Total(R)
      BY <1>f DEF raw, R
    <2>13. ~Doubled(q, b, i) => FoldTiered(q, b)[i] <= Cardinality(all)
      BY <2>3, <2>10, <2>11, <2>12
    <2>14. ~inexact => FoldTiered(q, b)[i] = Cardinality(all)
      BY <2>4, <2>9, <2>10, <2>11, <2>12
    <2>. QED
      BY <2>13, <2>14 DEF all
  <1>. QED
    BY <1>f, <1>i

\* A request the Dashboard makes, and the bucket it is answered in.
LEMMA RequestIs ==
  ASSUME WindowsInv, ChartInv, since # None, NEW q \in Requests
  PROVE  /\ Asks(q, DisplayBucket(q))
         /\ Covering(q) # 0 =>
              /\ since <= q.s
              /\ \E k \in Nat \ {0} : DisplayBucket(q).num = k * Level
              /\ DisplayBucket(q).den = 1
PROOF
  <1>1. /\ Limits \subseteq Nat \ {0} /\ Buckets \subseteq Nat /\ Level \in Nat \ {0}
    BY WindowsAssumption
  <1>. DEFINE S == {0} \cup {w.start : w \in rows}
  <1>2. Min(S) \in Int
    <2>1. S \in SUBSET Int /\ S # {} /\ \A x \in S : x >= -Level
      BY <1>1, Numbers, WindowsInvGives DEF InOrder
    <2>. HIDE DEF S
    <2>. QED
      BY <2>1, FirstIs
  <1>3. now \in Int /\ since \in Int
    BY Numbers, ChartGives DEF SumsInOrder, None
  <1>4. /\ q.ts \in SUBSET Tunings /\ q.s \in Min(S)..now /\ q.u \in {now - 1, now + 1}
        /\ q.limit \in Limits /\ q.forced \in Buckets /\ q.s < q.u
    BY DEF Requests
  <1>. HIDE DEF S
  <1>5. /\ q.ts \in SUBSET Tunings /\ q.s \in Int /\ q.u \in Int /\ q.s < q.u
        /\ q.limit \in Nat \ {0} /\ q.forced \in Nat /\ q.u - q.s \in Nat \ {0}
    <2>. DEFINE m == Min(S)
    <2>1. m \in Int /\ q.s \in m..now
      BY <1>2, <1>4
    <2>. HIDE DEF m
    <2>2. q.s \in Int
      BY <2>1, <1>3
    <2>3. q.u \in Int /\ q.limit \in Nat \ {0} /\ q.forced \in Nat
      <3>1. now - 1 \in Int /\ now + 1 \in Int
        BY <1>3
      <3>. QED
        BY <3>1, <1>1, <1>4
    <2>4. q.u - q.s \in Nat \ {0}
      BY <2>2, <2>3, <1>4
    <2>. QED
      BY <2>2, <2>3, <2>4, <1>4
  <1>6. CASE Covering(q) # 0
    <2>1. Covering(q) = TierBucket(q.u - q.s, q.limit, q.forced) /\ since <= q.s
      BY <1>6, <1>3, <1>5 DEF Covering
    <2>2. DisplayBucket(q) = [num |-> Covering(q), den |-> 1]
      BY <1>6 DEF DisplayBucket
    <2>3. PICK k \in Nat \ {0} : Covering(q) = k * Level
      BY <1>5, <1>6, <2>1, TierBucketIs
    <2>4. k * Level \in Nat \ {0}
      BY <1>1
    <2>5. DisplayBucket(q).num = k * Level /\ DisplayBucket(q).den = 1
      BY <2>2, <2>3
    <2>6. Asks(q, DisplayBucket(q))
      BY <1>5, <2>4, <2>5 DEF Asks
    <2>. QED
      BY <2>1, <2>5, <2>6, Zenon
  <1>7. CASE Covering(q) = 0 /\ q.forced # 0
    <2>1. DisplayBucket(q) = [num |-> q.forced, den |-> 1]
      BY <1>7 DEF DisplayBucket
    <2>. QED
      BY <2>1, <1>5, <1>7 DEF Asks
  <1>8. CASE Covering(q) = 0 /\ q.forced = 0
    <2>1. DisplayBucket(q) = [num |-> q.u - q.s, den |-> q.limit]
      BY <1>8 DEF DisplayBucket
    <2>. QED
      BY <2>1, <1>5, <1>8 DEF Asks
  <1>. QED
    BY <1>6, <1>7, <1>8

\* The three ways to answer.
LEMMA AnswerIs ==
  ASSUME WindowsInv, ChartInv, since # None, NEW q \in Requests
  PROVE  LET b == DisplayBucket(q)
         IN IF AsRaw(q) THEN Cardinality(DOMAIN Answer(q)) = Cardinality(Asked(q))
            ELSE /\ DOMAIN Answer(q) = Grid(q, b)
                 /\ \A i \in Grid(q, b) :
                      /\ ~Doubled(q, b, i) =>
                           Answer(q)[i] <= Cardinality(OfBucket(Asked(q), b, i))
                      /\ ~inexact => Answer(q)[i] = Cardinality(OfBucket(Asked(q), b, i))
PROOF
  <1>. DEFINE b == DisplayBucket(q)
              c(i) == Cardinality(OfBucket(Asked(q), b, i))
  <1>1. Asks(q, b)
    BY RequestIs
  <1>2. Asked(q) \in SUBSET rows /\ IsFiniteSet(Asked(q))
    BY <1>1, AskedIs
  <1>3. CASE AsRaw(q)
    <2>1. DOMAIN Answer(q) = {w.start : w \in Asked(q)}
      BY <1>3 DEF Answer, Asked
    <2>2. Cardinality({w.start : w \in Asked(q)}) = Cardinality(Asked(q))
      BY <1>2, OneByOne
    <2>. QED
      BY <1>3, <2>1, <2>2
  <1>4. CASE ~AsRaw(q) /\ Covering(q) # 0
    <2>1. Answer(q) = FoldTiered(q, b)
      BY <1>4 DEF Answer
    <2>2. since <= q.s /\ b.den = 1
      BY <1>4, RequestIs
    <2>3. PICK k \in Nat \ {0} : b.num = k * Level
      BY <1>4, RequestIs
    <2>. HIDE DEF b
    <2>4. /\ DOMAIN FoldTiered(q, b) = Grid(q, b)
          /\ \A i \in Grid(q, b) : /\ ~Doubled(q, b, i) => FoldTiered(q, b)[i] <= c(i)
                                   /\ ~inexact => FoldTiered(q, b)[i] = c(i)
      BY <1>1, <2>2, <2>3, TieredCounts
    <2>. QED
      BY <1>4, <2>1, <2>4 DEF b
  <1>5. CASE ~AsRaw(q) /\ Covering(q) = 0
    <2>1. Answer(q) = Folds(q, b, Asked(q), {})
      BY <1>5 DEF Answer, Asked
    <2>. HIDE DEF b
    <2>2. /\ DOMAIN Folds(q, b, Asked(q), {}) = Grid(q, b)
          /\ \A i \in Grid(q, b) : Folds(q, b, Asked(q), {})[i] = c(i)
      BY <1>1, RawIs
    <2>3. ASSUME NEW i \in Grid(q, b)
          PROVE  Answer(q)[i] <= c(i) /\ (~inexact => Answer(q)[i] = c(i))
      <3>1. c(i) \in Nat
        <4>1. OfBucket(Asked(q), b, i) \subseteq Asked(q)
          BY DEF OfBucket
        <4>. QED
          BY <4>1, <1>2, FS_Subset, FS_CardinalityType
      <3>2. Answer(q)[i] = c(i)
        BY <2>1, <2>2
      <3>. HIDE DEF c
      <3>. QED
        BY <3>1, <3>2
    <2>. QED
      BY <1>5, <2>1, <2>2, <2>3 DEF b
  <1>. QED
    BY <1>3, <1>4, <1>5

\* What a chart shows follows from the invariant of the tiers.
LEMMA ChartInvSuffices ==
  ASSUME WindowsInv, ChartInv
  PROVE  ChartIsWhole
PROOF
  <1>1. ASSUME since # None, NEW q \in Requests
        PROVE  LET a == Answer(q)
                   stored == In(q.ts, q.s, q.u)
                   counts(i) ==
                     Cardinality({w \in stored : Numbered(DisplayBucket(q), w.start) = i})
               IN IF AsRaw(q) THEN Cardinality(DOMAIN a) = Cardinality(stored)
                  ELSE /\ \A i \in DOMAIN a :
                            \/ a[i] <= counts(i)
                            \/ \E d \in doubled :
                                 d.tune \in q.ts /\ Numbered(DisplayBucket(q), d.bucket) = i
                       /\ ~inexact =>
                            \A i \in DOMAIN a
                                       \cup {Numbered(DisplayBucket(q), w.start) : w \in stored} :
                              i \in DOMAIN a /\ a[i] = counts(i)
    <2>. DEFINE a == Answer(q)
                b == DisplayBucket(q)
                counts(i) == Cardinality({w \in Asked(q) : Numbered(b, w.start) = i})
    <2>1. Asked(q) = In(q.ts, q.s, q.u)
      BY DEF Asked
    <2>2. \A i : counts(i) = Cardinality(OfBucket(Asked(q), b, i))
      BY DEF OfBucket
    <2>3. IF AsRaw(q) THEN Cardinality(DOMAIN a) = Cardinality(Asked(q))
          ELSE /\ DOMAIN a = Grid(q, b)
               /\ \A i \in Grid(q, b) :
                    /\ ~Doubled(q, b, i) => a[i] <= Cardinality(OfBucket(Asked(q), b, i))
                    /\ ~inexact => a[i] = Cardinality(OfBucket(Asked(q), b, i))
      BY <1>1, AnswerIs
    <2>4. ASSUME NEW w \in Asked(q) PROVE Numbered(b, w.start) \in Grid(q, b)
      <3>1. Asks(q, b)
        BY <1>1, RequestIs
      <3>2. w \in rows /\ w.start \in Int /\ q.s <= w.start /\ w.start < q.u
        BY <3>1, AskedIs
      <3>. QED
        BY <3>1, <3>2, AskedIs
    <2>. HIDE DEF a, b, counts
    <2>5. IF AsRaw(q) THEN Cardinality(DOMAIN a) = Cardinality(Asked(q))
          ELSE /\ \A i \in DOMAIN a :
                    \/ a[i] <= counts(i)
                    \/ \E d \in doubled : d.tune \in q.ts /\ Numbered(b, d.bucket) = i
               /\ ~inexact =>
                    \A i \in DOMAIN a \cup {Numbered(b, w.start) : w \in Asked(q)} :
                      i \in DOMAIN a /\ a[i] = counts(i)
      <3>1. \A i : \/ ~Doubled(q, b, i)
                   \/ \E d \in doubled : d.tune \in q.ts /\ Numbered(b, d.bucket) = i
        BY DEF Doubled
      <3>. QED
        BY <3>1, <2>2, <2>3, <2>4
    <2>. QED
      BY <2>1, <2>5 DEF a, b, counts
  <1>. QED
    BY <1>1 DEF ChartIsWhole

\* A chart of the Dashboard (query_avg_waterfall and query_avg_stats) counts each stored
\* window in the bucket its start is in, for any range, tunings, number of rows and bucket,
\* whatever part of it comes from the tiers (psd_tiers.py, avg_fold.py): exactly once while no
\* write of the tiers broke off, and at most once then in every bucket into which no period
\* falls whose rows a retried store merged twice.
THEOREM ChartsAreWhole == Spec => []ChartIsWhole
PROOF
  BY ChartInvSuffices, WindowsInvHolds, ChartInvHolds, PTL

=============================================================================
