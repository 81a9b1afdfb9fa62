--------------------------- MODULE RecordsProofs ----------------------------
(***************************************************************************)
(* What becomes of what is recorded: the bursts on their way to the        *)
(* archive and to a verdict (Delivery), and the loops that keep the        *)
(* figures, the detection hours and the history (Upkeep).                  *)
(*                                                                         *)
(* Delivery, for any number of bursts, any powers and queues of any size:  *)
(* the archive's index is the archive, attribution is settled only when    *)
(* nothing is on its way, an attributed burst's row says so, and a full    *)
(* queue drops the weakest. The inductive invariant follows a burst by who *)
(* has it: not submitted yet, waiting for the stage, in its hands,         *)
(* scheduled, queued, at the decoders, given a verdict, the verdict on its *)
(* row or to be retried.                                                   *)
(*                                                                         *)
(* Upkeep, for any span, keep and sizes of a pass: no figure recorded is   *)
(* lost, an hour marked done holds its detections' counts, and nothing     *)
(* behind the prune mark still has a blob. The inductive invariant says of *)
(* the figures that what is stored, in hand and taken adds up to what is   *)
(* owed, of the hours that a pass counts one no detection can land in any  *)
(* more, and of the windows that the marks lie behind the clock in the     *)
(* order of their starts.                                                  *)
(***************************************************************************)
EXTENDS Delivery, Upkeep, FiniteSetTheorems, WellFoundedInduction, TLAPS

-----------------------------------------------------------------------------
(* Delivery: the inductive invariant.                                      *)

\* What a burst is counted as by the stage, and what attribution made of it.
Counted == {"", "queue_full", "left out", "isolated", "crashed"}
Labelled == {"decoded", "not_decoded"}
Verdicts == {"", "decoded", "not_decoded", "failed", "skipped", "dropped"}

\* The types, stage by stage.
FeedTypes ==
  /\ happens \in Scenarios /\ power \in [Ids -> Powers]
  /\ running \in BOOLEAN /\ crashed \in BOOLEAN
  /\ bt \in {"feed", "wait", "rows", "off"} /\ sent \in 0..MaxBursts
  /\ batch \in SUBSET Ids

StageTypes ==
  /\ todo \in Seq(Ids) /\ cur \in Ids \cup {None}
  /\ st \in {"get", "write", "meta", "track", "hand", "count"}
  /\ counted \in [Ids -> Counted] /\ handErr \in SUBSET Ids

FileTypes ==
  /\ data \in SUBSET Ids /\ meta \in SUBSET Ids /\ stuck \in SUBSET Ids
  /\ index \in [Ids -> 0..2]
  /\ ev \in {"idle", "cap", "space", "data", "meta"} /\ evFrom \in {"cap", "space"}
  /\ victim \in Ids \cup {None}
  /\ ev \in {"data", "meta"} <=> victim # None

WorkTypes ==
  /\ calls \in Seq(Ids) /\ items \in SUBSET Ids /\ Cardinality(items) <= QueueMax
  /\ wk \in {"get", "decode", "db", "label", "close", "off"}
  /\ item \in Ids \cup {None} /\ (wk \in {"decode", "db", "label"} => item # None)
  /\ outcome \in [Ids -> Verdicts]

RowTypes ==
  /\ rowq \in Seq(SUBSET Ids) /\ rows \in [Ids -> Verdicts \cup {"none", "plain"}]
  /\ retries \in SUBSET Ids /\ missed \in SUBSET Ids

DeliveryTypes == FeedTypes /\ StageTypes /\ FileTypes /\ WorkTypes /\ RowTypes

\* The stage takes the bursts in the order they were submitted in.
InOrder ==
  /\ \A i, j \in DOMAIN todo : i < j => todo[i] < todo[j]
  /\ \A i \in DOMAIN todo : cur < todo[i] /\ todo[i] <= sent
  /\ cur <= sent /\ (st = "get" <=> cur = None)

\* Bursts that nothing has been done with: not submitted yet, or waiting for
\* the stage.
Waiting == {todo[i] : i \in DOMAIN todo}
Fresh(b) == b > sent \/ b \in Waiting

\* A burst nothing has been done with has no file and no entry in the index.
FreshHasNoFiles ==
  \A b \in Ids : Fresh(b) \/ (b = cur /\ st = "write") =>
    b \notin data /\ index[b] = NoEntry /\ b # victim

\* A claimed burst is not in the index, and a failed unlink is remembered; the
\* burst being saved is not in the index until its files are there.
FilesInHand ==
  /\ victim # None => index[victim] = NoEntry
  /\ ev = "meta" => victim \notin data \/ victim \in stuck
  /\ st \in {"write", "meta", "track"} => cur # victim /\ index[cur] = NoEntry
  /\ st \in {"meta", "track"} => cur \in data

FilesInv == FreshHasNoFiles /\ FilesInHand /\ ArchiveIsIndexed

\* The stage is done with a burst exactly when it has counted it.
CountsAreKept ==
  /\ \A b \in Ids : Fresh(b) \/ (b = cur /\ st # "get") => counted[b] = ""
  /\ ~crashed => \A b \in Ids :
       /\ counted[b] # "crashed"
       /\ counted[b] = "" => Fresh(b) \/ b = cur

\* Handed to the attribution worker, and counted as that or about to be.
Handed(b) ==
  b \notin handErr /\ (counted[b] = "isolated" \/ (b = cur /\ st = "count"))

\* On their way to a verdict: scheduled, queued, or at the decoders.
AtDecoders == IF wk = "decode" THEN {item} ELSE {}
OnTheWay(b) == b \in items \cup AtDecoders \/ \E i \in DOMAIN calls : calls[i] = b

\* Bursts the stage has yet to hand over.
Ahead(b) == Fresh(b) \/ (b = cur /\ st \notin {"get", "count"})

\* A burst is on its way once, and has no verdict yet; a verdict is about a
\* burst that was handed over.
OnTheirWay ==
  /\ \A i, j \in DOMAIN calls : calls[i] = calls[j] => i = j
  /\ \A i \in DOMAIN calls : calls[i] \notin items \cup AtDecoders
  /\ wk = "decode" => item \notin items
  /\ \A b \in Ids : OnTheWay(b) => Handed(b) /\ outcome[b] = ""
  /\ \A b \in Ids : Ahead(b) => outcome[b] = "" /\ b \notin handErr
  /\ ~crashed => \A b \in Ids : outcome[b] # "" => Handed(b)

\* Bursts whose rows have not been inserted have no row, and are inserted once.
RowsToCome ==
  /\ \A b \in Ids : b > sent => rows[b] = "none"
  /\ \A b \in batch : b <= sent /\ rows[b] = "none" /\ \A i \in DOMAIN rowq : b \notin rowq[i]
  /\ \A i \in DOMAIN rowq : \A b \in rowq[i] : b <= sent /\ rows[b] = "none"

\* An attributed burst's outcome is on its row, or still to be tried or given up.
OutcomeIsFollowed ==
  \A b \in Ids : outcome[b] \in Labelled =>
    \/ rows[b] = outcome[b] \/ b \in retries \/ b \in missed
    \/ item = b /\ wk \in {"db", "close", "off"}

\* All of it: what every reachable state of the delivery satisfies.
DeliveryInv ==
  /\ DeliveryTypes /\ InOrder /\ FilesInv /\ CountsAreKept /\ OnTheirWay
  /\ RowsToCome /\ OutcomeIsFollowed

-----------------------------------------------------------------------------
(* Facts about the data.                                                   *)

\* A sequence that is not empty is its head and its tail.
LEMMA HeadAndTail ==
  ASSUME NEW S, NEW s \in Seq(S), s # <<>>
  PROVE  /\ Len(s) \in Nat \ {0} /\ DOMAIN s = 1..Len(s)
         /\ Head(s) \in S /\ Head(s) = s[1] /\ 1 \in DOMAIN s
         /\ Tail(s) \in Seq(S) /\ DOMAIN Tail(s) = 1..(Len(s) - 1)
         /\ \A i \in DOMAIN Tail(s) : i + 1 \in DOMAIN s /\ Tail(s)[i] = s[i + 1]
PROOF
  <1>1. Len(s) \in Nat \ {0} /\ DOMAIN s = 1..Len(s)
    OBVIOUS
  <1>2. Head(s) \in S /\ Head(s) = s[1] /\ 1 \in DOMAIN s
    BY <1>1
  <1>3. /\ Tail(s) \in Seq(S) /\ DOMAIN Tail(s) = 1..(Len(s) - 1)
        /\ \A i \in 1..(Len(s) - 1) : Tail(s)[i] = s[i + 1]
    BY <1>1
  <1>. QED
    BY <1>1, <1>2, <1>3

\* What an appended element does to a sequence.
LEMMA Appended ==
  ASSUME NEW S, NEW s \in Seq(S), NEW x \in S
  PROVE  /\ Append(s, x) \in Seq(S) /\ Len(s) \in Nat
         /\ DOMAIN s = 1..Len(s) /\ DOMAIN Append(s, x) = 1..(Len(s) + 1)
         /\ \A i \in 1..(Len(s) + 1) : Append(s, x)[i] = IF i = Len(s) + 1 THEN x ELSE s[i]
PROOF
  OBVIOUS

\* A finite set that is not empty has an element whose value is the least.
LEMMA LeastValue ==
  ASSUME NEW S, IsFiniteSet(S), S # {}, NEW f, \A x \in S : f[x] \in Int
  PROVE  \E x \in S : \A y \in S : f[x] <= f[y]
PROOF
  <1>. DEFINE Below(x) == {y \in S : f[y] < f[x]}
              T == {Cardinality(Below(x)) : x \in S}
  <1>1. \A x \in S : IsFiniteSet(Below(x)) /\ Cardinality(Below(x)) \in Nat
    <2>1. \A x \in S : Below(x) \subseteq S
      OBVIOUS
    <2>. QED
      BY <2>1, FS_Subset, FS_CardinalityType
  <1>2. T \in SUBSET Nat /\ T # {}
    BY <1>1
  <1>3. IsWellFoundedOn(OpToRel(<, Nat), Nat)
    BY NatLessThanWellFounded
  <1>4. PICK c \in T : \A d \in T : <<d, c>> \notin OpToRel(<, Nat)
    <2>. HIDE DEF T
    <2>. QED
      BY <1>2, <1>3, WFMin
  <1>5. PICK x \in S : c = Cardinality(Below(x))
    OBVIOUS
  <1>6. SUFFICES ASSUME NEW y \in S, f[y] < f[x]
                 PROVE  FALSE
    BY <1>5
  <1>7. Below(y) \subseteq Below(x) /\ y \in Below(x) /\ y \notin Below(y)
    BY <1>6
  <1>8. Cardinality(Below(y)) < Cardinality(Below(x))
    <2>1. Below(y) # Below(x)
      BY <1>7
    <2>2. IsFiniteSet(Below(x)) /\ Cardinality(Below(x)) \in Nat /\ Cardinality(Below(y)) \in Nat
      BY <1>1
    <2>. HIDE DEF Below
    <2>3. Cardinality(Below(y)) <= Cardinality(Below(x))
          /\ (Cardinality(Below(y)) = Cardinality(Below(x)) => Below(y) = Below(x))
      BY <1>7, <2>2, FS_Subset
    <2>. QED
      BY <2>1, <2>2, <2>3
  <1>9. <<Cardinality(Below(y)), c>> \in OpToRel(<, Nat)
    <2>. DEFINE d == Cardinality(Below(y))
    <2>1. d \in Nat /\ c \in Nat /\ d < c
      BY <1>1, <1>5, <1>8
    <2>. HIDE DEF d
    <2>2. <<d, c>> \in Nat \X Nat /\ <<d, c>>[1] = d /\ <<d, c>>[2] = c
      BY <2>1
    <2>. QED
      BY <2>1, <2>2 DEF OpToRel, d
  <1>. QED
    BY <1>4, <1>9

\* Every set of bursts is finite.
LEMMA BurstsAreFinite ==
  ASSUME NEW S \in SUBSET Ids
  PROVE  IsFiniteSet(S)
PROOF
  <1>1. MaxBursts \in Nat
    BY DeliveryAssumption
  <1>2. IsFiniteSet(Ids)
    BY <1>1, FS_Interval DEF Ids
  <1>. QED
    BY <1>2, FS_Subset

\* The oldest of the indexed bursts is one of them.
LEMMA OldestIsIndexed ==
  ASSUME NEW S \in SUBSET Ids, S # {}
  PROVE  Min(S) \in S
PROOF
  <1>. DEFINE f == [b \in Ids |-> b]
  <1>1. IsFiniteSet(S) /\ \A b \in S : f[b] \in Int
    BY BurstsAreFinite DEF Ids
  <1>2. PICK b \in S : \A c \in S : f[b] <= f[c]
    <2>. HIDE DEF f
    <2>. QED
      BY <1>1, LeastValue
  <1>3. \A c \in S : b <= c
    BY <1>2
  <1>. QED
    BY <1>3 DEF Min

\* A burst has none, one or two files on disk.
LEMMA FilesOnDisk ==
  ASSUME NEW b
  PROVE  /\ OnDisk(b) \in 0..2
         /\ b \in data => OnDisk(b) # 0
PROOF
  <1>1. \A S : {b} \cap S = {} \/ {b} \cap S = {b}
    OBVIOUS
  <1>2. Cardinality({b}) = 1 /\ Cardinality({}) = 0
    BY FS_Singleton, FS_EmptySet
  <1>3. \A S : Cardinality({b} \cap S) \in 0..1 /\ (b \in S => Cardinality({b} \cap S) = 1)
    BY <1>1, <1>2
  <1>. HIDE DEF OnDisk
  <1>4. \E m, n \in 0..1 : OnDisk(b) = m + n /\ (b \in data => m = 1)
    BY <1>3 DEF OnDisk
  <1>. QED
    BY <1>4

\* A function changed at one place.
LEMMA Changed ==
  ASSUME NEW S, NEW T, NEW f \in [S -> T], NEW x, NEW y \in T
  PROVE  [f EXCEPT ![x] = y] \in [S -> T]
PROOF
  OBVIOUS

-----------------------------------------------------------------------------
(* Delivery: the types and the order of the bursts.                        *)

\* What the parts of the invariant say, for the steps to cite.
LEMMA DeliveryGives ==
  ASSUME DeliveryInv
  PROVE  /\ FeedTypes /\ StageTypes /\ FileTypes /\ WorkTypes /\ RowTypes
         /\ InOrder /\ FreshHasNoFiles /\ FilesInHand /\ ArchiveIsIndexed
         /\ CountsAreKept /\ OnTheirWay /\ RowsToCome /\ OutcomeIsFollowed
PROOF
  BY DEF DeliveryInv, DeliveryTypes, FilesInv

\* The bursts of a new batch: numbers that were not sent before.
LEMMA NewBatch ==
  ASSUME DeliveryInv, BtSubmit
  PROVE  \E n \in Nat \ {0} :
           /\ sent \in Nat /\ sent + n <= MaxBursts /\ sent' = sent + n
           /\ batch' = (sent + 1)..(sent + n) /\ batch' \subseteq Ids
           /\ \/ /\ todo' \in Seq(Ids) /\ UNCHANGED counted
                 /\ DOMAIN todo = 1..Len(todo) /\ Len(todo) \in Nat
                 /\ DOMAIN todo' = 1..(Len(todo) + n)
                 /\ \A i \in 1..(Len(todo) + n) :
                      todo'[i] = IF i <= Len(todo) THEN todo[i] ELSE sent + i - Len(todo)
              \/ /\ counted' = [b \in Ids |-> IF b \in batch' THEN "queue_full" ELSE counted[b]]
                 /\ UNCHANGED todo
PROOF
  <1>1. MaxBursts \in Nat /\ BatchMax \in Nat /\ sent \in Nat /\ todo \in Seq(Ids)
    BY DeliveryGives, DeliveryAssumption DEF FeedTypes, StageTypes
  <1>2. PICK n \in 1..BatchMax :
          /\ sent + n <= MaxBursts
          /\ sent' = sent + n /\ batch' = (sent + 1)..(sent + n)
          /\ \/ todo' = todo \o [i \in 1..n |-> sent + i] /\ UNCHANGED counted
             \/ /\ counted' = [b \in Ids |-> IF b \in (sent + 1)..(sent + n) THEN "queue_full"
                                             ELSE counted[b]]
                /\ UNCHANGED todo
    BY DEF BtSubmit
  <1>3. n \in Nat \ {0}
    BY <1>1
  <1>4. batch' \subseteq Ids
    BY <1>1, <1>2 DEF Ids
  <1>. DEFINE new == [i \in 1..n |-> sent + i]
  <1>5. new \in Seq(Ids) /\ Len(new) = n /\ \A i \in 1..n : new[i] = sent + i
    BY <1>1, <1>2, <1>3 DEF Ids
  <1>. HIDE DEF new
  <1>6. /\ todo \o new \in Seq(Ids) /\ Len(todo) \in Nat /\ DOMAIN todo = 1..Len(todo)
        /\ DOMAIN (todo \o new) = 1..(Len(todo) + n)
        /\ \A i \in 1..(Len(todo) + n) :
             (todo \o new)[i] = IF i <= Len(todo) THEN todo[i] ELSE new[i - Len(todo)]
    BY <1>1, <1>3, <1>5
  <1>7. \A i \in 1..(Len(todo) + n) :
          (todo \o new)[i] = IF i <= Len(todo) THEN todo[i] ELSE sent + i - Len(todo)
    <2>1. \A i \in 1..(Len(todo) + n) : i <= Len(todo) \/ i - Len(todo) \in 1..n
      BY <1>3, <1>6
    <2>2. \A i \in 1..(Len(todo) + n) : sent + (i - Len(todo)) = sent + i - Len(todo)
      BY <1>1, <1>3, <1>6
    <2>. QED
      BY <1>5, <1>6, <2>1, <2>2
  <1>8. \/ todo' = todo \o new /\ UNCHANGED counted
        \/ /\ counted' = [b \in Ids |-> IF b \in batch' THEN "queue_full" ELSE counted[b]]
           /\ UNCHANGED todo
    BY <1>2 DEF new
  <1>. QED
    BY <1>1, <1>2, <1>3, <1>4, <1>6, <1>7, <1>8

\* The feed's types are kept by every step.
LEMMA FeedTypesKept ==
  ASSUME DeliveryInv, DeliveryNext
  PROVE  FeedTypes'
PROOF
  <1>. USE DeliveryGives DEF FeedTypes
  <1>1. CASE BtSubmit
    <2>1. batch' \in SUBSET Ids /\ sent' \in 0..MaxBursts
      BY <1>1, NewBatch, DeliveryAssumption
    <2>. QED
      BY <1>1, <2>1 DEF BtSubmit, world
  <1>2. CASE BtHandsRows
    BY <1>2 DEF BtHandsRows, world
  <1>3. CASE St
    BY <1>3 DEF St, StGet, StWrite, StMeta, StTrack, StHand, StCount, world, feedVars
  <1>4. CASE Ev
    BY <1>4 DEF Ev, EvBegins, EvEvicts, EvGoesOn, EvUnlinks, world, feedVars
  <1>5. CASE Loop
    BY <1>5 DEF Loop, LoopPuts, WkGet, WkDecode, WkDb, WkLabel, RetryRuns, LoopDrains, LastDrain,
       world, feedVars
  <1>6. CASE Ends
    BY <1>6 DEF Ends, Stop, WkCancelled, WkCloses, CrashRestart, world, feedVars
  <1>. QED
    BY <1>1, <1>2, <1>3, <1>4, <1>5, <1>6 DEF DeliveryNext, Bt

\* The steps that are not the stage's, and leave its variables alone.
LEMMA StageStays ==
  ASSUME BtHandsRows \/ Ev \/ Loop \/ Stop \/ WkCancelled \/ WkCloses
  PROVE  UNCHANGED <<stageVars, sent>>
PROOF
  <1>1. CASE BtHandsRows
    BY <1>1 DEF BtHandsRows, stageVars
  <1>2. CASE Ev
    BY <1>2 DEF Ev, EvBegins, EvEvicts, EvGoesOn, EvUnlinks, stageVars, feedVars
  <1>3. CASE Loop
    BY <1>3 DEF Loop, LoopPuts, WkGet, WkDecode, WkDb, WkLabel, RetryRuns, LoopDrains, LastDrain,
       stageVars, feedVars
  <1>4. CASE Stop \/ WkCancelled \/ WkCloses
    BY <1>4 DEF Stop, WkCancelled, WkCloses, stageVars, feedVars
  <1>. QED
    BY <1>1, <1>2, <1>3, <1>4

\* The stage's types are kept, and the stage stays in order.
LEMMA StageTypesKept ==
  ASSUME DeliveryInv, DeliveryNext
  PROVE  StageTypes' /\ InOrder'
PROOF
  <1>g. StageTypes /\ InOrder
    BY DeliveryGives
  <1>. USE <1>g DEF StageTypes, InOrder
  <1>m. MaxBursts \in Nat /\ sent \in Nat /\ (\A b \in Ids \cup {None} : b \in Nat) /\ cur \in Nat
    BY DeliveryGives, DeliveryAssumption DEF FeedTypes, Ids, None
  <1>t. \A i \in DOMAIN todo : todo[i] \in Nat /\ i \in Nat /\ todo[i] \in Ids
    BY <1>m
  <1>1. CASE BtSubmit
    <2>1. UNCHANGED <<cur, st, handErr>>
      BY <1>1 DEF BtSubmit
    <2>2. PICK n \in Nat \ {0} :
           /\ sent' = sent + n
           /\ \/ /\ todo' \in Seq(Ids) /\ UNCHANGED counted
                 /\ DOMAIN todo = 1..Len(todo) /\ Len(todo) \in Nat
                 /\ DOMAIN todo' = 1..(Len(todo) + n)
                 /\ \A i \in 1..(Len(todo) + n) :
                      todo'[i] = IF i <= Len(todo) THEN todo[i] ELSE sent + i - Len(todo)
              \/ /\ counted' = [b \in Ids |-> IF b \in batch' THEN "queue_full" ELSE counted[b]]
                 /\ UNCHANGED todo
      BY <1>1, NewBatch
    <2>3. counted' \in [Ids -> Counted] /\ todo' \in Seq(Ids)
      BY <2>2 DEF Counted
    <2>4. cur <= sent' /\ cur' = cur
      <3>1. \A a, b, c \in Nat : a <= b => a <= b + c
        OBVIOUS
      <3>. QED
        BY <1>m, <2>1, <2>2, <3>1
    <2>5. CASE UNCHANGED todo
      BY <1>m, <1>t, <2>1, <2>2, <2>3, <2>4, <2>5
    <2>6. CASE /\ DOMAIN todo = 1..Len(todo) /\ Len(todo) \in Nat
               /\ DOMAIN todo' = 1..(Len(todo) + n)
               /\ \A i \in 1..(Len(todo) + n) :
                    todo'[i] = IF i <= Len(todo) THEN todo[i] ELSE sent + i - Len(todo)
      <3>1. ASSUME NEW i \in DOMAIN todo', NEW j \in DOMAIN todo', i < j
            PROVE  todo'[i] < todo'[j]
        <4>1. CASE j <= Len(todo)
          BY <2>6, <3>1, <4>1
        <4>2. CASE i <= Len(todo) /\ j > Len(todo)
          BY <1>m, <1>t, <2>6, <3>1, <4>2
        <4>3. CASE i > Len(todo)
          BY <1>m, <2>6, <3>1, <4>3
        <4>. QED
          BY <2>6, <4>1, <4>2, <4>3
      <3>2. ASSUME NEW i \in DOMAIN todo'
            PROVE  cur' < todo'[i] /\ todo'[i] <= sent'
        <4>1. CASE i <= Len(todo)
          BY <1>m, <1>t, <2>1, <2>2, <2>6, <3>2, <4>1
        <4>2. CASE i > Len(todo)
          <5>1. i \in 1..(Len(todo) + n) /\ todo'[i] = sent + i - Len(todo)
            BY <2>6, <3>2, <4>2
          <5>2. \A l, k, x, c \in Nat : k > l /\ k <= l + n /\ c <= x => c < x + k - l
                  /\ x + k - l <= x + n
            OBVIOUS
          <5>3. i \in Nat /\ Len(todo) \in Nat /\ i > Len(todo) /\ i <= Len(todo) + n /\ cur <= sent
            BY <2>6, <3>2, <4>2, <5>1
          <5>. QED
            BY <1>m, <2>1, <2>2, <5>1, <5>2, <5>3
        <4>. QED
          BY <2>6, <4>1, <4>2
      <3>. QED
        BY <2>1, <2>3, <2>4, <3>1, <3>2
    <2>. QED
      BY <2>2, <2>5, <2>6
  <1>2. CASE StGet
    <2>1. /\ Head(todo) \in Ids /\ Head(todo) = todo[1] /\ 1 \in DOMAIN todo
          /\ Tail(todo) \in Seq(Ids) /\ DOMAIN Tail(todo) = 1..(Len(todo) - 1)
          /\ Len(todo) \in Nat \ {0} /\ DOMAIN todo = 1..Len(todo)
          /\ \A i \in DOMAIN Tail(todo) : i + 1 \in DOMAIN todo /\ Tail(todo)[i] = todo[i + 1]
      <3>1. todo \in Seq(Ids) /\ todo # <<>>
        BY <1>2 DEF StGet
      <3>. QED
        BY <3>1, HeadAndTail
    <2>2. /\ todo' = Tail(todo) /\ st = "get" /\ UNCHANGED <<handErr, sent>>
          /\ \/ /\ cur' = Head(todo) /\ UNCHANGED counted
                /\ st' = IF "archive" \in happens THEN "write" ELSE "hand"
             \/ /\ counted' = [counted EXCEPT ![Head(todo)] = "left out"]
                /\ UNCHANGED <<st, cur>>
      BY <1>2 DEF StGet, feedVars
    <2>3. counted' \in [Ids -> Counted]
      BY <2>2 DEF Counted
    <2>4. ASSUME NEW i \in DOMAIN Tail(todo)
          PROVE  todo[1] < Tail(todo)[i] /\ cur < Tail(todo)[i] /\ Tail(todo)[i] <= sent
                 /\ i \in Nat
      <3>1. i + 1 \in DOMAIN todo /\ Tail(todo)[i] = todo[i + 1] /\ i \in Nat \ {0} /\ 1 < i + 1
        BY <2>1
      <3>. QED
        BY <2>1, <3>1
    <2>5. \A i, j \in DOMAIN Tail(todo) : i < j => Tail(todo)[i] < Tail(todo)[j]
      <3>1. \A i, j \in DOMAIN Tail(todo) : i < j => i + 1 < j + 1
        BY <2>4
      <3>. QED
        BY <2>1, <3>1
    <2>6. todo[1] <= sent /\ todo[1] # None
      BY <2>1 DEF Ids, None
    <2>. QED
      BY <2>1, <2>2, <2>3, <2>4, <2>5, <2>6
  <1>3. CASE StWrite
    BY <1>3 DEF StWrite, feedVars
  <1>4. CASE StMeta
    BY <1>4 DEF StMeta, feedVars
  <1>5. CASE StTrack
    BY <1>5 DEF StTrack, feedVars
  <1>6. CASE StHand
    BY <1>6 DEF StHand, feedVars, None
  <1>7. CASE StCount
    <2>1. cur' = None /\ st' = "get" /\ UNCHANGED <<todo, handErr, sent>>
      BY <1>7 DEF StCount, feedVars
    <2>2. counted' \in [Ids -> Counted]
      BY <1>7 DEF StCount, Counted
    <2>3. \A i \in DOMAIN todo : None < todo[i]
      BY <1>t DEF Ids, None
    <2>. QED
      BY <1>m, <2>1, <2>2, <2>3 DEF None
  <1>8. CASE CrashRestart
    <2>1. /\ todo' = <<>> /\ cur' = None /\ st' = "get" /\ UNCHANGED <<handErr, sent>>
          /\ counted' = [b \in Ids |-> IF b <= sent /\ counted[b] = "" THEN "crashed"
               ELSE counted[b]]
      BY <1>8 DEF CrashRestart
    <2>2. counted' \in [Ids -> Counted]
      BY <2>1 DEF Counted
    <2>3. todo' \in Seq(Ids) /\ DOMAIN todo' = {} /\ cur' <= sent'
      <3>1. <<>> \in Seq(Ids) /\ DOMAIN <<>> = {}
        OBVIOUS
      <3>2. 0 <= sent
        BY <1>m
      <3>. QED
        BY <2>1, <3>1, <3>2 DEF None
    <2>. QED
      BY <2>1, <2>2, <2>3
  <1>9. CASE BtHandsRows \/ Ev \/ Loop \/ Stop \/ WkCancelled \/ WkCloses
    <2>1. UNCHANGED <<stageVars, sent>>
      BY <1>9, StageStays
    <2>. QED
      BY <2>1 DEF stageVars
  <1>. QED
    BY <1>1, <1>2, <1>3, <1>4, <1>5, <1>6, <1>7, <1>8, <1>9 DEF DeliveryNext, Bt, St, Ends

\* The archive's types are kept.
LEMMA FileTypesKept ==
  ASSUME DeliveryInv, DeliveryNext
  PROVE  FileTypes'
PROOF
  <1>g. FileTypes
    BY DeliveryGives
  <1>. USE <1>g DEF FileTypes
  <1>1. CASE Bt
    BY <1>1 DEF Bt, BtSubmit, BtHandsRows, fileVars, evVars
  <1>2. CASE StGet \/ StHand \/ StCount
    BY <1>2 DEF StGet, StHand, StCount, fileVars, evVars
  <1>3. CASE StWrite
    <2>1. cur \in Ids
      BY <1>3, DeliveryGives DEF StWrite, StageTypes, InOrder
    <2>. QED
      BY <1>3, <2>1 DEF StWrite, evVars
  <1>4. CASE StMeta
    <2>1. cur \in Ids
      BY <1>4, DeliveryGives DEF StMeta, StageTypes, InOrder
    <2>. QED
      BY <1>4, <2>1 DEF StMeta, evVars
  <1>5. CASE StTrack
    <2>1. index' = [index EXCEPT ![cur] = IF cur \in data THEN OnDisk(cur) ELSE 0]
          /\ UNCHANGED <<data, meta, stuck, evVars>>
      BY <1>5 DEF StTrack, Track, NoEntry
    <2>2. OnDisk(cur) \in 0..2
      BY FilesOnDisk
    <2>3. index' \in [Ids -> 0..2]
      <3>1. (IF cur \in data THEN OnDisk(cur) ELSE 0) \in 0..2
        BY <2>2
      <3>. QED
        BY <2>1, <3>1, Changed
    <2>. QED
      BY <2>1, <2>3 DEF evVars
  <1>6. CASE EvBegins
    BY <1>6 DEF EvBegins, fileVars
  <1>7. CASE EvEvicts
    <2>1. Indexed \in SUBSET Ids /\ Indexed # {}
      BY <1>7 DEF EvEvicts, Indexed
    <2>2. OldestBurst \in Ids
      BY <2>1, OldestIsIndexed DEF OldestBurst
    <2>3. \A b \in Ids : b # None
      BY DEF Ids, None
    <2>4. /\ victim' = OldestBurst /\ index' = [index EXCEPT ![OldestBurst] = 0]
          /\ ev' = "data" /\ evFrom' = ev /\ ev \in {"cap", "space"}
          /\ UNCHANGED <<data, meta, stuck>>
      BY <1>7 DEF EvEvicts, Claim, NoEntry
    <2>5. index' \in [Ids -> 0..2]
      <3>1. 0 \in 0..2
        OBVIOUS
      <3>. QED
        BY <2>4, <3>1, Changed
    <2>. QED
      BY <2>2, <2>3, <2>4, <2>5
  <1>8. CASE EvGoesOn
    BY <1>8 DEF EvGoesOn, fileVars
  <1>9. CASE EvUnlinks
    BY <1>9 DEF EvUnlinks, None
  <1>10. CASE Loop
    BY <1>10 DEF Loop, LoopPuts, WkGet, WkDecode, WkDb, WkLabel, RetryRuns, LoopDrains, LastDrain,
       fileVars, evVars
  <1>11. CASE Stop \/ WkCancelled \/ WkCloses
    BY <1>11 DEF Stop, WkCancelled, WkCloses, fileVars, evVars
  <1>12. CASE CrashRestart
    <2>1. /\ index' = [b \in Ids |-> IF b \in data THEN OnDisk(b) ELSE 0]
          /\ ev' = "idle" /\ evFrom' = "cap" /\ victim' = None /\ stuck' = {}
          /\ UNCHANGED <<data, meta>>
      BY <1>12 DEF CrashRestart, NoEntry
    <2>2. \A b \in Ids : OnDisk(b) \in 0..2
      BY FilesOnDisk
    <2>3. index' \in [Ids -> 0..2]
      BY <2>1, <2>2
    <2>. QED
      BY <2>1, <2>3
  <1>. QED
    BY <1>1, <1>2, <1>3, <1>4, <1>5, <1>6, <1>7, <1>8, <1>9, <1>10, <1>11, <1>12
       DEF DeliveryNext, St, Ev, Ends

\* The steps of the work on the queue and on the rows, and the ones that leave
\* them alone.
LEMMA WorkStays ==
  ASSUME Bt \/ (St /\ ~StHand) \/ Ev \/ RetryRuns \/ LoopDrains \/ LastDrain \/ Stop
  PROVE  UNCHANGED workVars
PROOF
  <1>1. CASE Bt
    BY <1>1 DEF Bt, BtSubmit, BtHandsRows
  <1>2. CASE St /\ ~StHand
    BY <1>2 DEF St, StGet, StWrite, StMeta, StTrack, StCount
  <1>3. CASE Ev
    BY <1>3 DEF Ev, EvBegins, EvEvicts, EvGoesOn, EvUnlinks
  <1>4. CASE RetryRuns \/ LoopDrains \/ LastDrain \/ Stop
    BY <1>4 DEF RetryRuns, LoopDrains, LastDrain, Stop
  <1>. QED
    BY <1>1, <1>2, <1>3, <1>4

\* The weakest burst of a queue that is not empty is in it, and no stronger than
\* any other in it.
LEMMA WeakestIs ==
  ASSUME DeliveryInv, items # {}
  PROVE  Weakest \in items /\ \A c \in items : power[Weakest] <= power[c]
PROOF
  <1>1. items \in SUBSET Ids /\ \A b \in items : power[b] \in Int
    BY DeliveryGives, DeliveryAssumption DEF WorkTypes, FeedTypes
  <1>2. IsFiniteSet(items)
    BY <1>1, BurstsAreFinite
  <1>3. \E b \in items : \A c \in items : power[b] <= power[c]
    BY <1>1, <1>2, LeastValue
  <1>. QED
    BY <1>3 DEF Weakest

\* What put_nowait does with a burst that is not in the queue: either it is in
\* and all others stay, or one of the weakest of all goes.
LEMMA PutIs ==
  ASSUME DeliveryInv, NEW b \in Ids, b \notin items, Put(b)
  PROVE  /\ items' \in SUBSET Ids /\ Cardinality(items') <= QueueMax
         /\ \/ items' = items \cup {b} /\ UNCHANGED outcome
            \/ \E c \in items \cup {b} :
                 /\ items' = (items \cup {b}) \ {c}
                 /\ outcome' = [outcome EXCEPT ![c] = "dropped"]
                 /\ \A d \in items' : power[c] <= power[d]
PROOF
  <1>1. /\ items \in SUBSET Ids /\ Cardinality(items) <= QueueMax /\ QueueMax \in Nat \ {0}
        /\ \A c \in Ids : power[c] \in Int
    BY DeliveryGives, DeliveryAssumption DEF WorkTypes, FeedTypes
  <1>2. IsFiniteSet(items) /\ Cardinality(items) \in Nat
    BY <1>1, BurstsAreFinite, FS_CardinalityType
  <1>3. IsFiniteSet(items \cup {b}) /\ Cardinality(items \cup {b}) = Cardinality(items) + 1
    BY <1>2, FS_AddElement
  <1>4. CASE Cardinality(items) < QueueMax
    <2>1. items' = items \cup {b} /\ UNCHANGED outcome
      BY <1>4 DEF Put
    <2>2. Cardinality(items') <= QueueMax
      BY <1>1, <1>2, <1>3, <1>4, <2>1
    <2>. QED
      BY <1>1, <2>1, <2>2
  <1>5. CASE ~(Cardinality(items) < QueueMax)
    <2>1. items # {}
      BY <1>1, <1>5, FS_EmptySet
    <2>2. Weakest \in items /\ \A c \in items : power[Weakest] <= power[c]
      BY <2>1, WeakestIs
    <2>3. CASE power[b] <= power[Weakest]
      <3>1. items' = items /\ outcome' = [outcome EXCEPT ![b] = "dropped"]
        BY <1>5, <2>3 DEF Put
      <3>2. items' = (items \cup {b}) \ {b}
        BY <3>1
      <3>3. \A d \in items' : power[b] <= power[d]
        BY <1>1, <2>2, <2>3, <3>1
      <3>. QED
        BY <1>1, <3>1, <3>2, <3>3
    <2>4. CASE ~(power[b] <= power[Weakest])
      <3>1. /\ items' = (items \ {Weakest}) \cup {b}
            /\ outcome' = [outcome EXCEPT ![Weakest] = "dropped"]
        BY <1>5, <2>4 DEF Put
      <3>2. items' = (items \cup {b}) \ {Weakest}
        BY <2>2, <3>1
      <3>3. \A d \in items' : power[Weakest] <= power[d]
        BY <1>1, <2>2, <2>4, <3>1
      <3>4. Cardinality(items') <= QueueMax
        <4>1. Cardinality(items') = Cardinality(items)
          <5>1. Weakest \in items \cup {b}
            BY <2>2
          <5>2. Cardinality((items \cup {b}) \ {Weakest}) = Cardinality(items \cup {b}) - 1
            BY <1>3, <5>1, FS_RemoveElement
          <5>. QED
            BY <1>2, <1>3, <3>2, <5>2
        <4>. QED
          BY <1>1, <4>1
      <3>. QED
        BY <1>1, <2>2, <3>1, <3>2, <3>3, <3>4
    <2>. QED
      BY <2>3, <2>4
  <1>. QED
    BY <1>4, <1>5

\* The call at the head of the loop is about a burst that is not queued.
LEMMA HeadCall ==
  ASSUME DeliveryInv, calls # <<>>
  PROVE  /\ Head(calls) \in Ids /\ Head(calls) \notin items \cup AtDecoders
         /\ OnTheWay(Head(calls))
         /\ Tail(calls) \in Seq(Ids) /\ DOMAIN Tail(calls) = 1..(Len(calls) - 1)
         /\ Len(calls) \in Nat \ {0} /\ DOMAIN calls = 1..Len(calls)
         /\ \A i \in DOMAIN Tail(calls) :
              i + 1 \in DOMAIN calls /\ Tail(calls)[i] = calls[i + 1]
                /\ Tail(calls)[i] # Head(calls)
PROOF
  <1>1. calls \in Seq(Ids) /\ OnTheirWay
    BY DeliveryGives DEF WorkTypes
  <1>2. /\ Len(calls) \in Nat \ {0} /\ DOMAIN calls = 1..Len(calls)
        /\ Head(calls) \in Ids /\ Head(calls) = calls[1] /\ 1 \in DOMAIN calls
        /\ Tail(calls) \in Seq(Ids) /\ DOMAIN Tail(calls) = 1..(Len(calls) - 1)
        /\ \A i \in DOMAIN Tail(calls) : i + 1 \in DOMAIN calls /\ Tail(calls)[i] = calls[i + 1]
    BY <1>1, HeadAndTail
  <1>3. Head(calls) \notin items \cup AtDecoders
    <2>1. \A i \in DOMAIN calls : calls[i] \notin items \cup AtDecoders
      BY <1>1 DEF OnTheirWay
    <2>. QED
      BY <1>2, <2>1
  <1>4. OnTheWay(Head(calls))
    BY <1>2 DEF OnTheWay
  <1>5. ASSUME NEW i \in DOMAIN Tail(calls) PROVE Tail(calls)[i] # Head(calls)
    <2>1. i \in Nat /\ i >= 1 /\ i + 1 # 1
      BY <1>2
    <2>2. calls[i + 1] = calls[1] => i + 1 = 1
      BY <1>1, <1>2 DEF OnTheirWay
    <2>. QED
      BY <1>2, <2>1, <2>2
  <1>. QED
    BY <1>2, <1>3, <1>4, <1>5

\* The worker's types are kept: its queue never holds more than it may.
LEMMA WorkTypesKept ==
  ASSUME DeliveryInv, DeliveryNext
  PROVE  WorkTypes'
PROOF
  <1>g. WorkTypes
    BY DeliveryGives
  <1>. USE <1>g DEF WorkTypes
  <1>1. CASE StHand
    <2>1. calls' = Append(calls, cur) \/ calls' = calls
      BY <1>1 DEF StHand
    <2>2. cur \in Ids
      BY <1>1, DeliveryGives DEF StHand, StageTypes, InOrder
    <2>3. calls' \in Seq(Ids)
      BY <2>1, <2>2, Appended
    <2>. QED
      BY <1>1, <2>3 DEF StHand
  <1>2. CASE LoopPuts
    <2>1. Put(Head(calls)) /\ calls' = Tail(calls) /\ UNCHANGED <<wk, item>> /\ calls # <<>>
      BY <1>2 DEF LoopPuts
    <2>2. Head(calls) \in Ids /\ Head(calls) \notin items /\ Tail(calls) \in Seq(Ids)
      BY <2>1, HeadCall
    <2>3. items' \in SUBSET Ids /\ Cardinality(items') <= QueueMax
          /\ (UNCHANGED outcome \/ \E c : outcome' = [outcome EXCEPT ![c] = "dropped"])
      BY <2>1, <2>2, PutIs
    <2>4. outcome' \in [Ids -> Verdicts]
      BY <2>3, Changed DEF Verdicts
    <2>. QED
      BY <2>1, <2>2, <2>3, <2>4
  <1>3. CASE WkGet
    <2>1. /\ item' \in items /\ items' = items \ {item'} /\ wk' = "decode"
          /\ UNCHANGED <<calls, outcome>>
      BY <1>3 DEF WkGet
    <2>2. IsFiniteSet(items) /\ Cardinality(items) \in Nat
      BY BurstsAreFinite, FS_CardinalityType
    <2>3. Cardinality(items') <= Cardinality(items) /\ Cardinality(items') \in Nat
            /\ QueueMax \in Nat
      BY <2>1, <2>2, FS_Subset, FS_CardinalityType, DeliveryAssumption
    <2>4. item' # None
      BY <2>1 DEF Ids, None
    <2>5. Cardinality(items') <= QueueMax
      BY <2>2, <2>3
    <2>. QED
      BY <2>1, <2>4, <2>5
  <1>4. CASE WkDecode
    <2>1. PICK o \in Outcomes :
            /\ outcome' = [outcome EXCEPT ![item] = o]
            /\ wk' = IF o \in {"decoded", "not_decoded"} THEN "db" ELSE "get"
      BY <1>4 DEF WkDecode
    <2>2. outcome' \in [Ids -> Verdicts]
      BY <2>1, Changed DEF Outcomes, Verdicts
    <2>. QED
      BY <1>4, <2>1, <2>2 DEF WkDecode
  <1>5. CASE WkDb
    BY <1>5 DEF WkDb
  <1>6. CASE WkLabel
    BY <1>6 DEF WkLabel
  <1>7. CASE WkCancelled
    BY <1>7 DEF WkCancelled
  <1>8. CASE WkCloses
    BY <1>8 DEF WkCloses
  <1>9. CASE CrashRestart
    <2>1. /\ calls' = <<>> /\ items' = {} /\ wk' = "get" /\ item' = None
          /\ UNCHANGED outcome
      BY <1>9 DEF CrashRestart
    <2>2. Cardinality(items') <= QueueMax
      BY <2>1, FS_EmptySet, DeliveryAssumption
    <2>. QED
      BY <2>1, <2>2
  <1>10. CASE Bt \/ (St /\ ~StHand) \/ Ev \/ RetryRuns \/ LoopDrains \/ LastDrain \/ Stop
    <2>1. UNCHANGED workVars
      BY <1>10, WorkStays
    <2>. QED
      BY <2>1 DEF workVars
  <1>. QED
    BY <1>1, <1>2, <1>3, <1>4, <1>5, <1>6, <1>7, <1>8, <1>9, <1>10 DEF DeliveryNext, Loop, Ends

\* The steps that neither insert rows nor write on them.
LEMMA RowsStay ==
  ASSUME BtSubmit \/ St \/ Ev \/ LoopPuts \/ WkGet \/ WkDecode \/ WkLabel \/ Stop \/ WkCancelled
  PROVE  UNCHANGED rowVars
PROOF
  <1>1. CASE BtSubmit
    BY <1>1 DEF BtSubmit
  <1>2. CASE St
    BY <1>2 DEF St, StGet, StWrite, StMeta, StTrack, StHand, StCount
  <1>3. CASE Ev
    BY <1>3 DEF Ev, EvBegins, EvEvicts, EvGoesOn, EvUnlinks
  <1>4. CASE LoopPuts \/ WkGet \/ WkDecode \/ WkLabel \/ Stop \/ WkCancelled
    BY <1>4 DEF LoopPuts, WkGet, WkDecode, WkLabel, Stop, WkCancelled
  <1>. QED
    BY <1>1, <1>2, <1>3, <1>4

\* What an insert does: the bursts handed over have rows, or it failed.
LEMMA DrainIs ==
  ASSUME NEW ok \in BOOLEAN, Drains(ok)
  PROVE  /\ rowq' = <<>>
         /\ \/ UNCHANGED rows
            \/ rows' = [b \in Ids |-> IF \E i \in 1..Len(rowq) : b \in rowq[i]
                                      THEN "plain" ELSE rows[b]]
PROOF
  <1>. DEFINE bs == UNION {rowq[i] : i \in 1..Len(rowq)}
  <1>1. \A b : b \in bs <=> \E i \in 1..Len(rowq) : b \in rowq[i]
    OBVIOUS
  <1>2. /\ rowq' = <<>>
        /\ rows' = IF ok THEN [b \in Ids |-> IF b \in bs THEN "plain" ELSE rows[b]] ELSE rows
    BY DEF Drains
  <1>. HIDE DEF bs
  <1>3. ok => rows' = [b \in Ids |-> IF \E i \in 1..Len(rowq) : b \in rowq[i]
                                     THEN "plain" ELSE rows[b]]
    BY <1>1, <1>2
  <1>. QED
    BY <1>2, <1>3

\* The types of the rows and of the retries are kept.
LEMMA RowTypesKept ==
  ASSUME DeliveryInv, DeliveryNext
  PROVE  RowTypes'
PROOF
  <1>g. RowTypes
    BY DeliveryGives
  <1>. USE <1>g DEF RowTypes
  <1>o. \A b \in Ids : outcome[b] \in Verdicts
    BY DeliveryGives DEF WorkTypes
  <1>1. CASE BtHandsRows
    <2>1. rowq' = Append(rowq, batch) /\ UNCHANGED <<rows, retries, missed>>
      BY <1>1 DEF BtHandsRows
    <2>2. batch \in SUBSET Ids
      BY DeliveryGives DEF FeedTypes
    <2>3. rowq' \in Seq(SUBSET Ids)
      BY <2>1, <2>2, Appended
    <2>. QED
      BY <2>1, <2>3
  <1>2. CASE WkDb
    <2>1. item \in Ids
      BY <1>2, DeliveryGives DEF WkDb, WorkTypes
    <2>2. UNCHANGED rows \/ rows' = [rows EXCEPT ![item] = outcome[item]]
      BY <1>2 DEF WkDb, LabelRaises, Labels
    <2>3. rows' \in [Ids -> Verdicts \cup {"none", "plain"}]
      BY <1>o, <2>1, <2>2, Changed
    <2>4. retries' \in SUBSET Ids /\ missed' \in SUBSET Ids
      BY <1>2, <2>1 DEF WkDb, LabelRaises
    <2>. QED
      BY <1>2, <2>3, <2>4 DEF WkDb
  <1>3. CASE RetryRuns
    <2>1. PICK b \in retries :
            /\ Labels(b) \/ UNCHANGED rows
            /\ retries' = retries \ {b} /\ UNCHANGED rowq
            /\ missed' = missed \cup {b} \/ missed' = missed
      BY <1>3 DEF RetryRuns, LabelRaises
    <2>2. UNCHANGED rows \/ rows' = [rows EXCEPT ![b] = outcome[b]]
      BY <2>1 DEF Labels
    <2>3. rows' \in [Ids -> Verdicts \cup {"none", "plain"}]
      BY <1>o, <2>1, <2>2, Changed
    <2>. QED
      BY <2>1, <2>3
  <1>4. CASE LoopDrains \/ LastDrain
    <2>1. PICK ok \in BOOLEAN : Drains(ok)
      BY <1>4 DEF LoopDrains, LastDrain
    <2>2. rows' \in [Ids -> Verdicts \cup {"none", "plain"}]
      <3>1. CASE UNCHANGED rows
        BY <3>1
      <3>2. CASE ~UNCHANGED rows
        BY <2>1, <3>2, DrainIs
      <3>. QED
        BY <3>1, <3>2
    <2>3. rowq' = <<>> /\ UNCHANGED <<retries, missed>>
      BY <1>4, <2>1, DrainIs DEF LoopDrains, LastDrain
    <2>. QED
      BY <2>2, <2>3
  <1>5. CASE WkCloses
    <2>1. PICK late \in SUBSET retries, raised \in SUBSET retries :
            /\ rows' = [b \in Ids |-> IF b \in retries \ late /\ rows[b] # "none"
                                      THEN outcome[b] ELSE rows[b]]
            /\ missed' = missed \cup raised
                           \cup {b \in retries : b \in late \/ rows[b] = "none"}
      BY <1>5 DEF WkCloses
    <2>2. rows' \in [Ids -> Verdicts \cup {"none", "plain"}]
      BY <1>o, <2>1
    <2>3. missed' \in SUBSET Ids
      BY <2>1
    <2>. QED
      BY <1>5, <2>2, <2>3 DEF WkCloses
  <1>6. CASE CrashRestart
    <2>1. /\ rowq' = <<>> /\ retries' = {} /\ UNCHANGED rows
          /\ missed' = missed \cup {b \in 1..sent : outcome[b] # "" /\ rows[b] # outcome[b]}
      BY <1>6 DEF CrashRestart
    <2>2. 1..sent \subseteq Ids
      BY DeliveryGives, DeliveryAssumption DEF FeedTypes, Ids
    <2>3. missed' \in SUBSET Ids
      BY <2>1, <2>2
    <2>4. rowq' \in Seq(SUBSET Ids)
      <3>1. <<>> \in Seq(SUBSET Ids)
        OBVIOUS
      <3>. QED
        BY <2>1, <3>1
    <2>. QED
      BY <2>1, <2>3, <2>4
  <1>7. CASE \/ BtSubmit \/ St \/ Ev \/ LoopPuts \/ WkGet \/ WkDecode \/ WkLabel \/ Stop
             \/ WkCancelled
    <2>1. UNCHANGED rowVars
      BY <1>7, RowsStay
    <2>. QED
      BY <2>1 DEF rowVars
  <1>. QED
    BY <1>1, <1>2, <1>3, <1>4, <1>5, <1>6, <1>7 DEF DeliveryNext, Bt, Loop, Ends

-----------------------------------------------------------------------------
(* Delivery: the files and their index.                                    *)

\* The bursts that are still untouched after a step of the feed or the stage
\* were so before it; the one the stage begins was waiting.
LEMMA FreshAfterwards ==
  ASSUME DeliveryInv, DeliveryNext
  PROVE  /\ \A b \in Ids : Fresh(b)' => Fresh(b)
         /\ StGet => Fresh(Head(todo)) /\ Head(todo) \in Ids
                     /\ \A b \in Ids : Fresh(b)' => b # Head(todo)
PROOF
  <1>m. /\ MaxBursts \in Nat /\ sent \in Nat /\ (\A b \in Ids : b \in Nat) /\ cur \in Nat
        /\ todo \in Seq(Ids)
    BY DeliveryGives, DeliveryAssumption DEF FeedTypes, StageTypes, Ids, None
  <1>1. CASE BtSubmit
    <2>1. PICK n \in Nat \ {0} :
           /\ sent' = sent + n
           /\ \/ /\ DOMAIN todo = 1..Len(todo) /\ Len(todo) \in Nat
                 /\ DOMAIN todo' = 1..(Len(todo) + n)
                 /\ \A i \in 1..(Len(todo) + n) :
                      todo'[i] = IF i <= Len(todo) THEN todo[i] ELSE sent + i - Len(todo)
              \/ UNCHANGED todo
      BY <1>1, NewBatch
    <2>2. ASSUME NEW b \in Ids, Fresh(b)' PROVE Fresh(b)
      <3>1. CASE b > sent'
        BY <1>m, <2>1, <3>1 DEF Fresh
      <3>2. CASE \E i \in DOMAIN todo' : todo'[i] = b
        <4>1. PICK i \in DOMAIN todo' : todo'[i] = b
          BY <3>2
        <4>2. CASE UNCHANGED todo
          BY <4>1, <4>2 DEF Fresh, Waiting
        <4>3. CASE /\ DOMAIN todo = 1..Len(todo) /\ Len(todo) \in Nat
                   /\ DOMAIN todo' = 1..(Len(todo) + n)
                   /\ todo'[i] = IF i <= Len(todo) THEN todo[i] ELSE sent + i - Len(todo)
          <5>1. CASE i <= Len(todo)
            BY <4>1, <4>3, <5>1 DEF Fresh, Waiting
          <5>2. CASE i > Len(todo)
            BY <1>m, <4>1, <4>3, <5>2 DEF Fresh
          <5>. QED
            BY <4>1, <4>3, <5>1, <5>2
        <4>. QED
          BY <2>1, <4>1, <4>2, <4>3
      <3>. QED
        BY <2>2, <3>1, <3>2 DEF Fresh, Waiting
    <2>3. ~StGet
      <3>1. sent' # sent
        BY <1>m, <2>1
      <3>. QED
        BY <3>1 DEF StGet, feedVars
    <2>. QED
      BY <2>2, <2>3
  <1>2. CASE StGet
    <2>1. /\ Head(todo) \in Ids /\ Head(todo) = todo[1] /\ 1 \in DOMAIN todo
          /\ DOMAIN Tail(todo) = 1..(Len(todo) - 1)
          /\ Len(todo) \in Nat \ {0} /\ DOMAIN todo = 1..Len(todo)
          /\ \A i \in DOMAIN Tail(todo) : i + 1 \in DOMAIN todo /\ Tail(todo)[i] = todo[i + 1]
      <3>1. todo # <<>>
        BY <1>2 DEF StGet
      <3>. QED
        BY <1>m, <3>1, HeadAndTail
    <2>2. todo' = Tail(todo) /\ sent' = sent
      BY <1>2 DEF StGet, feedVars
    <2>3. \A b \in Ids : Fresh(b)' => Fresh(b)
      BY <2>1, <2>2 DEF Fresh, Waiting
    <2>4. Fresh(Head(todo))
      BY <2>1 DEF Fresh, Waiting
    <2>5. \A b \in Ids : Fresh(b)' => b # Head(todo)
      <3>1. InOrder
        BY DeliveryGives
      <3>2. todo[1] <= sent
        BY <2>1, <3>1 DEF InOrder
      <3>3. ASSUME NEW i \in DOMAIN Tail(todo) PROVE Tail(todo)[i] # todo[1]
        <4>1. i + 1 \in DOMAIN todo /\ 1 < i + 1
          BY <2>1
        <4>2. todo[1] < todo[i + 1] /\ todo[i + 1] \in Nat /\ todo[1] \in Nat
          BY <1>m, <2>1, <3>1, <4>1 DEF InOrder
        <4>. QED
          BY <2>1, <4>2
      <3>. QED
        BY <1>m, <2>1, <2>2, <3>2, <3>3 DEF Fresh, Waiting
    <2>. QED
      BY <2>1, <2>3, <2>4, <2>5
  <1>3. CASE StWrite \/ StMeta \/ StTrack \/ StHand \/ StCount
    <2>1. UNCHANGED <<sent, todo>> /\ ~StGet
      <3>1. UNCHANGED <<sent, todo>>
        BY <1>3 DEF StWrite, StMeta, StTrack, StHand, StCount, feedVars
      <3>2. st # "get"
        BY <1>3 DEF StWrite, StMeta, StTrack, StHand, StCount
      <3>. QED
        BY <3>1, <3>2 DEF StGet
    <2>. QED
      BY <2>1 DEF Fresh, Waiting
  <1>4. CASE BtHandsRows \/ Ev \/ Loop \/ Stop \/ WkCancelled \/ WkCloses
    <2>1. UNCHANGED <<stageVars, sent>>
      BY <1>4, StageStays
    <2>2. ~StGet
      <3>1. ASSUME StGet PROVE FALSE
        <4>1. todo' = Tail(todo) /\ todo # <<>> /\ todo' = todo
          BY <2>1, <3>1 DEF StGet, stageVars
        <4>2. /\ Len(todo) \in Nat \ {0} /\ DOMAIN todo = 1..Len(todo)
              /\ DOMAIN Tail(todo) = 1..(Len(todo) - 1)
          BY <1>m, <4>1, HeadAndTail
        <4>. QED
          BY <4>1, <4>2
      <3>. QED
        BY <3>1
    <2>. QED
      BY <2>1, <2>2 DEF stageVars, Fresh, Waiting
  <1>5. CASE CrashRestart
    <2>1. todo' = <<>> /\ sent' = sent
      BY <1>5 DEF CrashRestart
    <2>2. \A b \in Ids : Fresh(b)' => Fresh(b)
      BY <2>1 DEF Fresh, Waiting
    <2>3. StGet => crashed' = crashed
      BY DEF StGet, world
    <2>4. crashed' # crashed
      BY <1>5, DeliveryGives DEF CrashRestart, FeedTypes
    <2>. QED
      BY <2>2, <2>3, <2>4
  <1>. QED
    BY <1>1, <1>2, <1>3, <1>4, <1>5 DEF DeliveryNext, Bt, St, Ends

\* Which files a burst has on disk depends on nothing but them.
LEMMA SameFiles ==
  ASSUME NEW b, b \in data' <=> b \in data, b \in meta' <=> b \in meta
  PROVE  OnDisk(b)' = OnDisk(b)
PROOF
  <1>1. {b} \cap data' = {b} \cap data /\ {b} \cap meta' = {b} \cap meta
    OBVIOUS
  <1>. QED
    BY <1>1 DEF OnDisk

\* The index is the archive after a step that leaves the index alone and touches
\* only the files of one burst that is not indexed.
LEMMA IndexIsLeft ==
  ASSUME DeliveryInv, NEW c, index' = index, c \notin Ids \/ index[c] = NoEntry,
         \A b \in Ids \ {c} : (b \in data' <=> b \in data) /\ (b \in meta' <=> b \in meta)
  PROVE  \A b \in Indexed' : b \in data' /\ index'[b] = OnDisk(b)'
PROOF
  <1>1. SUFFICES ASSUME NEW b \in Ids, index'[b] # NoEntry
                 PROVE  b \in data' /\ index'[b] = OnDisk(b)'
    BY DEF Indexed
  <1>2. b # c /\ b \in Indexed
    BY <1>1 DEF Indexed
  <1>3. b \in data /\ index[b] = OnDisk(b)
    BY <1>2, DeliveryGives DEF ArchiveIsIndexed
  <1>4. OnDisk(b)' = OnDisk(b)
    BY <1>2, SameFiles
  <1>. QED
    BY <1>2, <1>3, <1>4

\* The archive stays indexed: whoever writes, claims or unlinks a file.
LEMMA FilesInvKept ==
  ASSUME DeliveryInv, DeliveryNext
  PROVE  FilesInv'
PROOF
  <1>g. /\ InOrder /\ FreshHasNoFiles /\ FilesInHand /\ ArchiveIsIndexed
        /\ data \in SUBSET Ids /\ index \in [Ids -> 0..2] /\ cur \in Ids \cup {None}
        /\ victim \in Ids \cup {None} /\ (ev \in {"data", "meta"} <=> victim # None)
    BY DeliveryGives DEF StageTypes, FileTypes
  <1>n. \A b \in Ids : b # None
    BY DEF Ids, None
  <1>f. \A b \in Ids : Fresh(b)' => Fresh(b)
    BY FreshAfterwards
  <1>i. \A b \in Ids : b \in Indexed <=> index[b] # NoEntry
    BY DEF Indexed
  <1>1. CASE BtSubmit
    <2>1. UNCHANGED <<st, cur, data, meta, index, stuck, ev, evFrom, victim>>
      BY <1>1 DEF BtSubmit, fileVars, evVars
    <2>2. FreshHasNoFiles'
      BY <1>g, <1>f, <2>1 DEF FreshHasNoFiles
    <2>3. ArchiveIsIndexed'
      BY <1>g, <2>1 DEF ArchiveIsIndexed, Indexed, OnDisk
    <2>. QED
      BY <1>g, <2>1, <2>2, <2>3 DEF FilesInHand, FilesInv
  <1>2. CASE StGet
    <2>1. UNCHANGED <<data, meta, index, stuck, ev, evFrom, victim>> /\ st = "get"
          /\ (UNCHANGED <<st, cur>> \/ (cur' = Head(todo) /\ st' \in {"write", "hand"}))
      BY <1>2 DEF StGet, fileVars, evVars
    <2>2. Fresh(Head(todo)) /\ Head(todo) \in Ids
      BY <1>2, FreshAfterwards
    <2>3. Head(todo) \notin data /\ index[Head(todo)] = NoEntry /\ Head(todo) # victim
      BY <1>g, <2>2 DEF FreshHasNoFiles
    <2>4. FreshHasNoFiles'
      BY <1>g, <1>f, <2>1, <2>3 DEF FreshHasNoFiles
    <2>5. FilesInHand'
      BY <1>g, <2>1, <2>3 DEF FilesInHand
    <2>6. ArchiveIsIndexed'
      BY <1>g, <2>1 DEF ArchiveIsIndexed, Indexed, OnDisk
    <2>. QED
      BY <2>4, <2>5, <2>6 DEF FilesInv
  <1>3. CASE StWrite
    <2>1. /\ st = "write" /\ data' = data \cup {cur}
          /\ \/ st' = "meta" /\ UNCHANGED stuck
             \/ st' = "hand" /\ stuck' = stuck \cup {cur}
          /\ UNCHANGED <<cur, meta, index, ev, evFrom, victim>>
      BY <1>3 DEF StWrite, evVars
    <2>2. cur \in Ids /\ cur # victim /\ index[cur] = NoEntry
      BY <1>g, <2>1 DEF InOrder, FilesInHand
    <2>3. ~Fresh(cur)
      <3>1. cur \in Nat /\ sent \in Nat /\ \A i \in DOMAIN todo : todo[i] \in Nat
        BY <1>g, DeliveryGives, DeliveryAssumption DEF FeedTypes, StageTypes, Ids, None
      <3>2. cur <= sent /\ \A i \in DOMAIN todo : cur < todo[i]
        BY <1>g DEF InOrder
      <3>. QED
        BY <3>1, <3>2 DEF Fresh, Waiting
    <2>4. FreshHasNoFiles'
      BY <1>g, <1>f, <2>1, <2>3 DEF FreshHasNoFiles
    <2>5. FilesInHand'
      BY <1>g, <2>1, <2>2 DEF FilesInHand
    <2>6. \A b \in Indexed' : b \in data' /\ index'[b] = OnDisk(b)'
      BY <2>1, <2>2, IndexIsLeft
    <2>7. \A b \in data' : b \in Indexed' \/ b \in stuck' \/ b = victim'
            \/ (b = cur' /\ st' \in {"meta", "track"})
      BY <1>g, <2>1 DEF ArchiveIsIndexed, Indexed
    <2>. QED
      BY <2>4, <2>5, <2>6, <2>7 DEF FilesInv, ArchiveIsIndexed
  <1>4. CASE StMeta
    <2>1. /\ st = "meta" /\ data' = data /\ (meta' = meta \/ meta' = meta \cup {cur})
          /\ \/ st' = "track" /\ UNCHANGED stuck
             \/ st' = "hand" /\ stuck' = stuck \cup {cur}
          /\ UNCHANGED <<cur, index, ev, evFrom, victim>>
      BY <1>4 DEF StMeta, evVars
    <2>2. cur \in Ids /\ cur # victim /\ index[cur] = NoEntry
      BY <1>g, <2>1 DEF InOrder, FilesInHand
    <2>4. FreshHasNoFiles'
      BY <1>g, <1>f, <2>1 DEF FreshHasNoFiles
    <2>5. FilesInHand'
      BY <1>g, <2>1, <2>2 DEF FilesInHand
    <2>6. \A b \in Indexed' : b \in data' /\ index'[b] = OnDisk(b)'
      BY <2>1, <2>2, IndexIsLeft
    <2>7. \A b \in data' : b \in Indexed' \/ b \in stuck' \/ b = victim'
            \/ (b = cur' /\ st' \in {"meta", "track"})
      BY <1>g, <2>1 DEF ArchiveIsIndexed, Indexed
    <2>. QED
      BY <2>4, <2>5, <2>6, <2>7 DEF FilesInv, ArchiveIsIndexed
  <1>5. CASE StTrack
    <2>1. /\ st = "track" /\ st' = "hand" /\ UNCHANGED <<cur, data, meta, stuck, ev, evFrom,
               victim>>
          /\ index' = [index EXCEPT ![cur] = IF cur \in data THEN OnDisk(cur) ELSE NoEntry]
      BY <1>5 DEF StTrack, Track, evVars
    <2>2. cur \in data /\ cur \in Ids /\ cur # victim
      BY <1>g, <2>1 DEF FilesInHand, InOrder
    <2>3. index'[cur] = OnDisk(cur) /\ index'[cur] # NoEntry
          /\ \A b \in Ids \ {cur} : index'[b] = index[b]
      BY <1>g, <2>1, <2>2, FilesOnDisk DEF NoEntry
    <2>4. FreshHasNoFiles'
      BY <1>g, <1>f, <2>1, <2>2, <2>3 DEF FreshHasNoFiles
    <2>5. FilesInHand'
      BY <1>g, <2>1, <2>2, <2>3 DEF FilesInHand
    <2>6. \A b : OnDisk(b)' = OnDisk(b)
      BY <2>1 DEF OnDisk
    <2>7. ArchiveIsIndexed'
      BY <1>g, <2>1, <2>2, <2>3, <2>6 DEF ArchiveIsIndexed, Indexed
    <2>. QED
      BY <2>4, <2>5, <2>7 DEF FilesInv
  <1>6. CASE StHand \/ StCount
    <2>1. /\ st \in {"hand", "count"} /\ st' \in {"count", "get"}
          /\ UNCHANGED <<data, meta, index, stuck, ev, evFrom, victim>>
      BY <1>6 DEF StHand, StCount, fileVars, evVars
    <2>2. FreshHasNoFiles'
      BY <1>g, <1>f, <2>1 DEF FreshHasNoFiles
    <2>3. ArchiveIsIndexed'
      BY <1>g, <2>1 DEF ArchiveIsIndexed, Indexed, OnDisk
    <2>. QED
      BY <1>g, <2>1, <2>2, <2>3 DEF FilesInHand, FilesInv
  <1>7. CASE EvBegins \/ EvGoesOn
    <2>1. /\ ev \in {"idle", "cap", "space"} /\ ev' \in {"idle", "cap", "space"}
          /\ UNCHANGED <<st, cur, data, meta, index, stuck, victim>>
      BY <1>7 DEF EvBegins, EvGoesOn, stageVars, fileVars
    <2>2. FreshHasNoFiles'
      BY <1>g, <1>f, <2>1 DEF FreshHasNoFiles
    <2>3. ArchiveIsIndexed'
      BY <1>g, <2>1 DEF ArchiveIsIndexed, Indexed, OnDisk
    <2>. QED
      BY <1>g, <2>1, <2>2, <2>3 DEF FilesInHand, FilesInv
  <1>8. CASE EvEvicts
    <2>1. /\ victim' = OldestBurst /\ index' = [index EXCEPT ![OldestBurst] = NoEntry]
          /\ ev \in {"cap", "space"} /\ ev' = "data" /\ UNCHANGED <<st, cur, data, meta, stuck>>
          /\ Indexed # {}
      BY <1>8 DEF EvEvicts, Claim, stageVars
    <2>2. OldestBurst \in Indexed
      BY <2>1, OldestIsIndexed DEF Indexed, OldestBurst
    <2>3. OldestBurst \in Ids /\ index[OldestBurst] # NoEntry /\ index'[OldestBurst] = NoEntry
          /\ \A b \in Ids \ {OldestBurst} : index'[b] = index[b]
      BY <1>g, <1>i, <2>1, <2>2 DEF Indexed
    <2>4. FreshHasNoFiles'
      BY <1>g, <1>f, <2>1, <2>3 DEF FreshHasNoFiles
    <2>5. FilesInHand'
      BY <1>g, <2>1, <2>3 DEF FilesInHand, InOrder
    <2>6. \A b : OnDisk(b)' = OnDisk(b)
      BY <2>1 DEF OnDisk
    <2>7. victim = None
      BY <1>g, <2>1
    <2>8. ArchiveIsIndexed'
      BY <1>g, <1>n, <2>1, <2>3, <2>6, <2>7 DEF ArchiveIsIndexed, Indexed
    <2>. QED
      BY <2>4, <2>5, <2>8 DEF FilesInv
  <1>9. CASE EvUnlinks
    <2>1. /\ UNCHANGED <<st, cur, index>> /\ ev \in {"data", "meta"}
          /\ \/ /\ ev = "data" /\ ev' = "meta" /\ UNCHANGED <<meta, victim>>
                /\ \/ data' = data \ {victim} /\ UNCHANGED stuck
                   \/ stuck' = stuck \cup {victim} /\ UNCHANGED data
             \/ /\ ev = "meta" /\ ev' \in {"cap", "space"} /\ victim' = None /\ UNCHANGED data
                /\ \/ meta' = meta \ {victim} /\ UNCHANGED stuck
                   \/ stuck' = stuck \cup {victim} /\ UNCHANGED meta
      BY <1>9, DeliveryGives DEF EvUnlinks, stageVars, FileTypes
    <2>2. victim \in Ids /\ index[victim] = NoEntry
      BY <1>g, <2>1 DEF FilesInHand
    <2>3. FreshHasNoFiles'
      BY <1>g, <1>f, <1>n, <2>1 DEF FreshHasNoFiles
    <2>4. FilesInHand'
      <3>1. victim' # None => index'[victim'] = NoEntry
        BY <2>1, <2>2
      <3>2. ev' = "meta" => victim' \notin data' \/ victim' \in stuck'
        BY <2>1
      <3>3. st' \in {"write", "meta", "track"} => cur' # victim' /\ index'[cur'] = NoEntry
        BY <1>g, <1>n, <2>1 DEF FilesInHand, InOrder
      <3>4. st' \in {"meta", "track"} => cur' \in data'
        BY <1>g, <2>1 DEF FilesInHand
      <3>. QED
        BY <3>1, <3>2, <3>3, <3>4 DEF FilesInHand
    <2>5. \A b \in Indexed' : b \in data' /\ index'[b] = OnDisk(b)'
      BY <2>1, <2>2, IndexIsLeft
    <2>6. \A b \in data' : b \in Indexed' \/ b \in stuck' \/ b = victim'
            \/ (b = cur' /\ st' \in {"meta", "track"})
      BY <1>g, <2>1 DEF ArchiveIsIndexed, Indexed, FilesInHand
    <2>. QED
      BY <2>3, <2>4, <2>5, <2>6 DEF FilesInv, ArchiveIsIndexed
  <1>10. CASE BtHandsRows \/ Loop \/ Stop \/ WkCancelled \/ WkCloses
    <2>1. UNCHANGED <<fileVars, evVars>>
      <3>1. CASE BtHandsRows
        BY <3>1 DEF BtHandsRows
      <3>2. CASE Loop
        BY <3>2 DEF Loop, LoopPuts, WkGet, WkDecode, WkDb, WkLabel, RetryRuns, LoopDrains,
           LastDrain
      <3>3. CASE Stop \/ WkCancelled \/ WkCloses
        BY <3>3 DEF Stop, WkCancelled, WkCloses
      <3>. QED
        BY <1>10, <3>1, <3>2, <3>3
    <2>2. UNCHANGED <<stageVars, sent>>
      BY <1>10, StageStays
    <2>3. UNCHANGED <<st, cur, data, meta, index, stuck, ev, victim>>
      BY <2>1, <2>2 DEF stageVars, fileVars, evVars
    <2>4. FreshHasNoFiles'
      BY <1>g, <1>f, <2>3 DEF FreshHasNoFiles
    <2>5. ArchiveIsIndexed'
      BY <1>g, <2>3 DEF ArchiveIsIndexed, Indexed, OnDisk
    <2>. QED
      BY <1>g, <2>3, <2>4, <2>5 DEF FilesInHand, FilesInv
  <1>11. CASE CrashRestart
    <2>1. /\ st' = "get" /\ cur' = None /\ ev' = "idle" /\ victim' = None
          /\ index' = [b \in Ids |-> IF b \in data THEN OnDisk(b) ELSE NoEntry]
          /\ UNCHANGED <<data, meta>>
      BY <1>11 DEF CrashRestart
    <2>2. \A b \in Ids : OnDisk(b)' = OnDisk(b) /\ (b \in data => OnDisk(b) # NoEntry)
      BY <2>1, SameFiles, FilesOnDisk DEF NoEntry
    <2>3. FreshHasNoFiles'
      BY <1>g, <1>f, <1>n, <2>1 DEF FreshHasNoFiles
    <2>4. ArchiveIsIndexed'
      BY <1>g, <2>1, <2>2 DEF ArchiveIsIndexed, Indexed
    <2>. QED
      BY <2>1, <2>3, <2>4 DEF FilesInHand, FilesInv
  <1>. QED
    BY <1>1, <1>2, <1>3, <1>4, <1>5, <1>6, <1>7, <1>8, <1>9, <1>10, <1>11
       DEF DeliveryNext, Bt, St, Ev, Ends

-----------------------------------------------------------------------------
(* Delivery: the counts, the way to a verdict, and the rows.               *)

\* The burst the stage is at is none of those it has yet to begin.
LEMMA CurIsBegun ==
  ASSUME DeliveryInv
  PROVE  cur \in Ids => ~Fresh(cur)
PROOF
  <1>1. /\ cur \in Ids \cup {None} /\ sent \in Nat /\ (\A b \in Ids : b \in Nat)
        /\ (\A i \in DOMAIN todo : todo[i] \in Ids)
    BY DeliveryGives, DeliveryAssumption DEF FeedTypes, StageTypes, Ids
  <1>2. cur <= sent /\ \A i \in DOMAIN todo : cur < todo[i]
    BY DeliveryGives DEF InOrder
  <1>. QED
    BY <1>1, <1>2 DEF Fresh, Waiting

\* The counts stay the stage's: a step leaves them, counts one burst nothing
\* had been counted as, counts those of a batch the queue has no room for, or
\* loses the process.
LEMMA CountsAreKeptKept ==
  ASSUME DeliveryInv, DeliveryNext
  PROVE  CountsAreKept'
PROOF
  <1>g. /\ CountsAreKept /\ InOrder /\ counted \in [Ids -> Counted] /\ cur \in Ids \cup {None}
        /\ crashed \in BOOLEAN
        /\ sent \in Nat /\ \A b \in Ids : b \in Nat
    BY DeliveryGives, DeliveryAssumption DEF StageTypes, FeedTypes, Ids
  <1>n. \A b \in Ids : b # None
    BY DEF Ids, None
  <1>f. \A b \in Ids : Fresh(b)' => Fresh(b)
    BY FreshAfterwards
  <1>1. CASE BtSubmit
    <2>1. UNCHANGED <<cur, st, crashed>>
      BY <1>1 DEF BtSubmit, world
    <2>2. PICK n \in Nat \ {0} :
           /\ sent' = sent + n
           /\ batch' = (sent + 1)..(sent + n)
           /\ \/ /\ UNCHANGED counted
                 /\ DOMAIN todo = 1..Len(todo) /\ Len(todo) \in Nat
                 /\ DOMAIN todo' = 1..(Len(todo) + n)
                 /\ \A i \in 1..(Len(todo) + n) :
                      todo'[i] = IF i <= Len(todo) THEN todo[i] ELSE sent + i - Len(todo)
              \/ /\ counted' = [b \in Ids |-> IF b \in batch' THEN "queue_full" ELSE counted[b]]
                 /\ UNCHANGED todo
      BY <1>1, NewBatch
    <2>3. CASE /\ counted' = [b \in Ids |-> IF b \in batch' THEN "queue_full" ELSE counted[b]]
               /\ UNCHANGED todo
      <3>1. \A b \in Ids : Fresh(b)' \/ (b = cur /\ st # "get") => b \notin batch'
        <4>1. \A b \in Ids : b \in Waiting => b <= sent
          BY <1>g DEF InOrder, Waiting
        <4>2. cur <= sent
          BY <1>g DEF InOrder
        <4>3. Waiting' = Waiting
          BY <2>3 DEF Waiting
        <4>4. \A b \in Ids : b > sent' \/ b <= sent => b \notin batch'
          BY <1>g, <2>2
        <4>. QED
          BY <4>1, <4>2, <4>3, <4>4 DEF Fresh
      <3>2. \A b \in Ids : counted[b] = "" /\ Fresh(b) /\ b \notin batch' => Fresh(b)'
        <4>1. \A b \in Ids : b > sent => b > sent' \/ b \in batch'
          BY <1>g, <2>2
        <4>. QED
          BY <2>3, <4>1 DEF Fresh, Waiting
      <3>. QED
        BY <1>g, <1>f, <2>1, <2>3, <3>1, <3>2 DEF CountsAreKept
    <2>4. CASE /\ UNCHANGED counted
               /\ DOMAIN todo = 1..Len(todo) /\ Len(todo) \in Nat
               /\ DOMAIN todo' = 1..(Len(todo) + n)
               /\ \A i \in 1..(Len(todo) + n) :
                    todo'[i] = IF i <= Len(todo) THEN todo[i] ELSE sent + i - Len(todo)
      <3>1. ASSUME NEW b \in Ids, Fresh(b) PROVE Fresh(b)'
        <4>1. CASE b > sent /\ b <= sent + n
          <5>. DEFINE i == Len(todo) + (b - sent)
          <5>1. i \in 1..(Len(todo) + n) /\ i > Len(todo) /\ sent + i - Len(todo) = b
            BY <1>g, <2>2, <2>4, <4>1
          <5>2. i \in DOMAIN todo' /\ todo'[i] = b
            <6>. HIDE DEF i
            <6>. QED
              BY <1>g, <2>4, <5>1
          <5>. QED
            BY <5>2 DEF Fresh, Waiting
        <4>2. CASE b > sent + n
          BY <2>2, <4>2 DEF Fresh
        <4>3. CASE b \in Waiting
          <5>1. PICK i \in DOMAIN todo : todo[i] = b
            BY <4>3 DEF Waiting
          <5>2. i \in DOMAIN todo' /\ i <= Len(todo)
            BY <2>2, <2>4, <5>1
          <5>3. todo'[i] = b
            BY <2>4, <5>1, <5>2
          <5>. QED
            BY <5>2, <5>3 DEF Fresh, Waiting
        <4>. QED
          BY <1>g, <2>2, <3>1, <4>1, <4>2, <4>3 DEF Fresh
      <3>. QED
        BY <1>g, <1>f, <2>1, <2>4, <3>1 DEF CountsAreKept
    <2>. QED
      BY <2>2, <2>3, <2>4
  <1>2. CASE StGet
    <2>1. /\ st = "get" /\ UNCHANGED <<crashed, sent>> /\ todo' = Tail(todo) /\ todo # <<>>
          /\ \/ cur' = Head(todo) /\ UNCHANGED counted
             \/ counted' = [counted EXCEPT ![Head(todo)] = "left out"] /\ UNCHANGED <<st, cur>>
      BY <1>2 DEF StGet, world, feedVars
    <2>2. Fresh(Head(todo)) /\ Head(todo) \in Ids /\ \A b \in Ids : Fresh(b)' => b # Head(todo)
      BY <1>2, FreshAfterwards
    <2>3. \A b \in Ids : Fresh(b) /\ b # Head(todo) => Fresh(b)'
      <3>0. todo \in Seq(Ids) /\ todo # <<>>
        BY <2>1, DeliveryGives DEF StageTypes
      <3>1. /\ Head(todo) = todo[1] /\ Len(todo) \in Nat \ {0} /\ DOMAIN todo = 1..Len(todo)
            /\ DOMAIN Tail(todo) = 1..(Len(todo) - 1)
            /\ \A i \in DOMAIN Tail(todo) : Tail(todo)[i] = todo[i + 1]
        BY <3>0, HeadAndTail
      <3>2. ASSUME NEW i \in DOMAIN todo, todo[i] # Head(todo)
            PROVE  \E j \in DOMAIN Tail(todo) : Tail(todo)[j] = todo[i]
        <4>1. i \in 1..Len(todo) /\ i # 1
          BY <3>1, <3>2
        <4>2. i - 1 \in DOMAIN Tail(todo) /\ (i - 1) + 1 = i
          BY <3>1, <4>1
        <4>. QED
          BY <3>1, <4>2
      <3>. QED
        BY <2>1, <3>2 DEF Fresh, Waiting
    <2>4. cur = None
      BY <1>g, <2>1 DEF InOrder
    <2>5. counted[Head(todo)] = ""
      BY <1>g, <2>2 DEF CountsAreKept
    <2>. QED
      BY <1>g, <1>f, <1>n, <2>1, <2>2, <2>3, <2>4, <2>5 DEF CountsAreKept
  <1>3. CASE StWrite \/ StMeta \/ StTrack \/ StHand
    <2>1. UNCHANGED <<sent, todo, cur, counted, crashed>> /\ st # "get" /\ st' # "get"
      BY <1>3 DEF StWrite, StMeta, StTrack, StHand, feedVars, world
    <2>. QED
      BY <1>g, <2>1 DEF CountsAreKept, Fresh, Waiting
  <1>4. CASE StCount
    <2>1. /\ UNCHANGED <<sent, todo, crashed>> /\ st = "count" /\ st' = "get" /\ cur' = None
          /\ counted' = [counted EXCEPT ![cur] = "isolated"]
      BY <1>4 DEF StCount, feedVars, world
    <2>2. cur \in Ids /\ ~Fresh(cur)
      BY <1>g, <2>1, CurIsBegun DEF InOrder
    <2>3. \A b : Fresh(b)' <=> Fresh(b)
      BY <2>1 DEF Fresh, Waiting
    <2>. QED
      BY <1>g, <2>1, <2>2, <2>3 DEF CountsAreKept
  <1>5. CASE BtHandsRows \/ Ev \/ Loop \/ Stop \/ WkCancelled \/ WkCloses
    <2>1. UNCHANGED <<stageVars, sent>>
      BY <1>5, StageStays
    <2>2. UNCHANGED crashed
      <3>1. CASE BtHandsRows
        BY <3>1 DEF BtHandsRows, world
      <3>2. CASE Ev
        BY <3>2 DEF Ev, EvBegins, EvEvicts, EvGoesOn, EvUnlinks, world
      <3>3. CASE Loop
        BY <3>3 DEF Loop, LoopPuts, WkGet, WkDecode, WkDb, WkLabel, RetryRuns, LoopDrains,
           LastDrain, world
      <3>4. CASE Stop \/ WkCancelled \/ WkCloses
        BY <3>4 DEF Stop, WkCancelled, WkCloses, world
      <3>. QED
        BY <1>5, <3>1, <3>2, <3>3, <3>4
    <2>. QED
      BY <1>g, <2>1, <2>2 DEF stageVars, CountsAreKept, Fresh, Waiting
  <1>6. CASE CrashRestart
    <2>1. /\ crashed' = TRUE /\ st' = "get" /\ cur' = None /\ sent' = sent /\ todo' = <<>>
          /\ counted' = [b \in Ids |-> IF b <= sent /\ counted[b] = "" THEN "crashed"
               ELSE counted[b]]
      BY <1>6 DEF CrashRestart
    <2>2. \A b \in Ids : Fresh(b)' => b > sent
      <3>1. Waiting' = {}
        <4>1. DOMAIN <<>> = {}
          OBVIOUS
        <4>. QED
          BY <2>1, <4>1 DEF Waiting
      <3>. QED
        BY <2>1, <3>1 DEF Fresh
    <2>3. \A b \in Ids : b > sent => counted'[b] = counted[b] /\ counted[b] = ""
      <3>1. \A b \in Ids : Fresh(b) => counted[b] = ""
        BY <1>g DEF CountsAreKept
      <3>2. \A b \in Ids : b > sent => Fresh(b) /\ ~(b <= sent)
        <4>1. \A b \in Ids : b > sent => ~(b <= sent)
          BY <1>g
        <4>. QED
          BY <4>1 DEF Fresh
      <3>. QED
        BY <2>1, <3>1, <3>2
    <2>. QED
      BY <1>n, <2>1, <2>2, <2>3 DEF CountsAreKept
  <1>. QED
    BY <1>1, <1>2, <1>3, <1>4, <1>5, <1>6 DEF DeliveryNext, Bt, St, Ends

\* A burst the stage has not handed over has no verdict and is not on its way.
LEMMA NotHandedYet ==
  ASSUME DeliveryInv, NEW b \in Ids, Ahead(b)
  PROVE  ~Handed(b) /\ ~OnTheWay(b)
PROOF
  <1>1. CountsAreKept /\ OnTheirWay
    BY DeliveryGives
  <1>2. counted[b] = ""
    BY <1>1 DEF CountsAreKept, Ahead
  <1>3. ~(b = cur /\ st = "count")
    BY CurIsBegun DEF Ahead
  <1>4. ~Handed(b)
    BY <1>2, <1>3 DEF Handed
  <1>. QED
    BY <1>1, <1>4 DEF OnTheirWay

\* No burst gets back to where it has yet to be handed over.
LEMMA AheadAfterwards ==
  ASSUME DeliveryInv, DeliveryNext
  PROVE  \A b \in Ids : Ahead(b)' => Ahead(b) /\ (b \in handErr' => b \in handErr)
PROOF
  <1>f. \A b \in Ids : Fresh(b)' => Fresh(b)
    BY FreshAfterwards
  <1>c. cur \in Ids => ~Fresh(cur)
    BY CurIsBegun
  <1>1. CASE BtSubmit
    BY <1>1, <1>f DEF BtSubmit, Ahead
  <1>2. CASE StGet
    BY <1>2, <1>f, FreshAfterwards DEF StGet, Ahead
  <1>3. CASE StWrite \/ StMeta \/ StTrack
    BY <1>3, <1>f DEF StWrite, StMeta, StTrack, Ahead
  <1>4. CASE StHand
    BY <1>4, <1>f, <1>c DEF StHand, Ahead
  <1>5. CASE StCount
    BY <1>5, <1>f DEF StCount, Ahead
  <1>6. CASE BtHandsRows \/ Ev \/ Loop \/ Stop \/ WkCancelled \/ WkCloses
    BY <1>6, <1>f, StageStays DEF stageVars, Ahead
  <1>7. CASE CrashRestart
    BY <1>7, <1>f DEF CrashRestart, Ahead
  <1>. QED
    BY <1>1, <1>2, <1>3, <1>4, <1>5, <1>6, <1>7 DEF DeliveryNext, Bt, St, Ends

\* A step that leaves the worker's side alone keeps the bursts on their way, when
\* it undoes no hand-over of a burst that is on its way or has its verdict.
LEMMA WayIsKept ==
  ASSUME DeliveryInv, DeliveryNext, UNCHANGED workVars, UNCHANGED crashed,
         \A b \in Ids : Handed(b) => Handed(b)'
  PROVE  OnTheirWay'
PROOF
  <1>1. /\ OnTheirWay
        /\ \A b \in Ids : Ahead(b)' => Ahead(b) /\ (b \in handErr' => b \in handErr)
    BY DeliveryGives, AheadAfterwards
  <1>2. UNCHANGED <<calls, items, wk, item, outcome>>
    BY DEF workVars
  <1>3. AtDecoders' = AtDecoders
    BY <1>2 DEF AtDecoders
  <1>4. \A b : OnTheWay(b)' <=> OnTheWay(b)
    BY <1>2, <1>3 DEF OnTheWay
  <1>. QED
    BY <1>1, <1>2, <1>3, <1>4 DEF OnTheirWay

\* A step that leaves the hand-overs alone: those on their way afterwards were so
\* before, and new verdicts are about some of them that no longer are.
LEMMA WayGoesOn ==
  ASSUME DeliveryInv, DeliveryNext, UNCHANGED stageVars, UNCHANGED sent, UNCHANGED crashed,
         \A b \in Ids : OnTheWay(b)' => OnTheWay(b) /\ outcome'[b] = outcome[b],
         \A b \in Ids : outcome'[b] # outcome[b] => OnTheWay(b),
         \A i, j \in DOMAIN calls' : calls'[i] = calls'[j] => i = j,
         \A i \in DOMAIN calls' : calls'[i] \notin items' \cup AtDecoders',
         wk' = "decode" => item' \notin items'
  PROVE  OnTheirWay'
PROOF
  <1>1. /\ OnTheirWay
        /\ \A b \in Ids : Ahead(b)' => Ahead(b) /\ (b \in handErr' => b \in handErr)
    BY DeliveryGives, AheadAfterwards
  <1>2. \A b \in Ids : Handed(b)' <=> Handed(b)
    BY DEF stageVars, Handed
  <1>3. \A b \in Ids : Ahead(b) => ~OnTheWay(b)
    BY NotHandedYet
  <1>4. \A b \in Ids : OnTheWay(b)' => Handed(b)' /\ outcome'[b] = ""
    BY <1>1, <1>2 DEF OnTheirWay
  <1>5. \A b \in Ids : Ahead(b)' => outcome'[b] = "" /\ b \notin handErr'
    BY <1>1, <1>3 DEF OnTheirWay
  <1>6. ~crashed' => \A b \in Ids : outcome'[b] # "" => Handed(b)'
    BY <1>1, <1>2 DEF OnTheirWay
  <1>. QED
    BY <1>4, <1>5, <1>6 DEF OnTheirWay

\* A burst stays on its way once, and gets one verdict.
LEMMA OnTheirWayKept ==
  ASSUME DeliveryInv, DeliveryNext
  PROVE  OnTheirWay'
PROOF
  <1>g. /\ OnTheirWay /\ CountsAreKept /\ InOrder /\ counted \in [Ids -> Counted]
        /\ cur \in Ids \cup {None} /\ calls \in Seq(Ids) /\ outcome \in [Ids -> Verdicts]
        /\ item \in Ids \cup {None} /\ items \in SUBSET Ids
    BY DeliveryGives DEF StageTypes, WorkTypes
  <1>n. \A b \in Ids : b # None
    BY DEF Ids, None
  <1>1. CASE LoopPuts
    <2>1. /\ calls # <<>> /\ Put(Head(calls)) /\ calls' = Tail(calls)
          /\ UNCHANGED <<stageVars, sent, crashed, wk, item>>
      BY <1>1 DEF LoopPuts, feedVars, world
    <2>2. /\ Head(calls) \in Ids /\ Head(calls) \notin items \cup AtDecoders
               /\ OnTheWay(Head(calls))
          /\ \A i \in DOMAIN Tail(calls) :
               i + 1 \in DOMAIN calls /\ Tail(calls)[i] = calls[i + 1]
                 /\ Tail(calls)[i] # Head(calls)
          /\ DOMAIN Tail(calls) = 1..(Len(calls) - 1) /\ Len(calls) \in Nat \ {0}
      BY <2>1, HeadCall
    <2>3. AtDecoders' = AtDecoders
      BY <2>1 DEF AtDecoders
    <2>4. \A i, j \in DOMAIN calls' : calls'[i] = calls'[j] => i = j
      <3>1. ASSUME NEW i \in DOMAIN Tail(calls), NEW j \in DOMAIN Tail(calls),
                   Tail(calls)[i] = Tail(calls)[j]
            PROVE  i = j
        <4>1. i + 1 = j + 1
          BY <1>g, <2>2, <3>1 DEF OnTheirWay
        <4>. QED
          BY <2>2, <4>1
      <3>. QED
        BY <2>1, <3>1
    <2>5. \A i \in DOMAIN calls' : \E k \in DOMAIN calls :
            calls'[i] = calls[k] /\ calls'[i] # Head(calls)
      BY <2>1, <2>2
    <2>6. \A i \in DOMAIN calls : calls[i] \notin items \cup AtDecoders
      BY <1>g DEF OnTheirWay
    <2>7. CASE items' = items \cup {Head(calls)} /\ UNCHANGED outcome
      <3>1. \A i \in DOMAIN calls' : calls'[i] \notin items' \cup AtDecoders'
        BY <2>3, <2>5, <2>6, <2>7
      <3>2. \A b \in Ids : OnTheWay(b)' => OnTheWay(b)
        BY <2>2, <2>3, <2>5, <2>7 DEF OnTheWay
      <3>3. wk' = "decode" => item' \notin items'
        BY <1>g, <2>1, <2>2, <2>7 DEF OnTheirWay, AtDecoders
      <3>. QED
        BY <2>1, <2>4, <2>7, <3>1, <3>2, <3>3, WayGoesOn
    <2>8. ASSUME NEW c \in items \cup {Head(calls)},
                 items' = (items \cup {Head(calls)}) \ {c},
                 outcome' = [outcome EXCEPT ![c] = "dropped"]
          PROVE  OnTheirWay'
      <3>1. \A i \in DOMAIN calls' : calls'[i] \notin items' \cup AtDecoders'
        BY <2>3, <2>5, <2>6, <2>8
      <3>2. \A i \in DOMAIN calls' : calls'[i] # c
        BY <2>5, <2>6, <2>8
      <3>3. c \notin AtDecoders /\ OnTheWay(c)
        BY <1>g, <2>2, <2>8 DEF OnTheWay, OnTheirWay, AtDecoders
      <3>4. \A b \in Ids : OnTheWay(b)' => OnTheWay(b) /\ b # c
        BY <2>2, <2>3, <2>5, <2>8, <3>2, <3>3 DEF OnTheWay
      <3>5. \A b \in Ids : b # c => outcome'[b] = outcome[b]
        BY <1>g, <2>8
      <3>6. wk' = "decode" => item' \notin items'
        BY <1>g, <2>1, <2>2, <2>8 DEF OnTheirWay, AtDecoders
      <3>7. /\ \A b \in Ids : OnTheWay(b)' => OnTheWay(b) /\ outcome'[b] = outcome[b]
            /\ \A b \in Ids : outcome'[b] # outcome[b] => OnTheWay(b)
        BY <3>3, <3>4, <3>5
      <3>. QED
        BY <2>1, <2>4, <3>1, <3>6, <3>7, WayGoesOn
    <2>. QED
      BY <2>1, <2>2, <2>7, <2>8, PutIs
  <1>2. CASE WkGet
    <2>1. /\ wk = "get" /\ item' \in items /\ items' = items \ {item'} /\ wk' = "decode"
          /\ UNCHANGED <<calls, outcome, stageVars, sent, crashed>>
      BY <1>2 DEF WkGet, feedVars, world
    <2>2. AtDecoders' = {item'} /\ AtDecoders = {}
      BY <2>1 DEF AtDecoders
    <2>3. items' \cup AtDecoders' = items \cup AtDecoders
      BY <2>1, <2>2
    <2>4. \A b \in Ids : OnTheWay(b)' <=> OnTheWay(b)
      BY <2>1, <2>3 DEF OnTheWay
    <2>5. /\ \A i, j \in DOMAIN calls' : calls'[i] = calls'[j] => i = j
          /\ \A i \in DOMAIN calls' : calls'[i] \notin items' \cup AtDecoders'
      BY <1>g, <2>1, <2>3 DEF OnTheirWay
    <2>. QED
      BY <2>1, <2>4, <2>5, WayGoesOn
  <1>3. CASE WkDecode
    <2>1. PICK o \in Outcomes :
            /\ wk = "decode" /\ outcome' = [outcome EXCEPT ![item] = o]
            /\ wk' = IF o \in {"decoded", "not_decoded"} THEN "db" ELSE "get"
            /\ UNCHANGED <<calls, items, item, stageVars, sent, crashed>>
      BY <1>3 DEF WkDecode, feedVars, world
    <2>2. AtDecoders' = {} /\ AtDecoders = {item}
      BY <2>1 DEF AtDecoders
    <2>3. OnTheWay(item) /\ item \notin items /\ \A i \in DOMAIN calls : calls[i] # item
      BY <1>g, <2>1, <2>2 DEF OnTheWay, OnTheirWay
    <2>4. \A b \in Ids : OnTheWay(b)' => OnTheWay(b) /\ b # item
      BY <2>1, <2>2, <2>3 DEF OnTheWay
    <2>5. \A b \in Ids : b # item => outcome'[b] = outcome[b]
      BY <1>g, <2>1
    <2>6. /\ \A b \in Ids : OnTheWay(b)' => OnTheWay(b) /\ outcome'[b] = outcome[b]
          /\ \A b \in Ids : outcome'[b] # outcome[b] => OnTheWay(b)
      BY <2>3, <2>4, <2>5
    <2>7. /\ \A i, j \in DOMAIN calls' : calls'[i] = calls'[j] => i = j
          /\ \A i \in DOMAIN calls' : calls'[i] \notin items' \cup AtDecoders'
      BY <1>g, <2>1, <2>2 DEF OnTheirWay
    <2>8. wk' # "decode"
      BY <2>1
    <2>. QED
      BY <2>1, <2>6, <2>7, <2>8, WayGoesOn
  <1>4. CASE WkDb \/ WkLabel \/ WkCancelled \/ WkCloses
    <2>1. /\ UNCHANGED <<calls, items, item, outcome, stageVars, sent, crashed>>
          /\ wk' # "decode"
      BY <1>4 DEF WkDb, WkLabel, WkCancelled, WkCloses, feedVars, world
    <2>2. AtDecoders' = {}
      BY <2>1 DEF AtDecoders
    <2>3. \A b \in Ids : OnTheWay(b)' => OnTheWay(b)
      BY <2>1, <2>2 DEF OnTheWay
    <2>4. /\ \A i, j \in DOMAIN calls' : calls'[i] = calls'[j] => i = j
          /\ \A i \in DOMAIN calls' : calls'[i] \notin items' \cup AtDecoders'
      BY <1>g, <2>1, <2>2 DEF OnTheirWay
    <2>. QED
      BY <2>1, <2>3, <2>4, WayGoesOn
  <1>5. CASE BtHandsRows \/ Ev \/ RetryRuns \/ LoopDrains \/ LastDrain \/ Stop
    <2>1. UNCHANGED <<stageVars, sent>>
      BY <1>5, StageStays DEF Loop
    <2>2. UNCHANGED workVars
      BY <1>5, WorkStays DEF Bt
    <2>3. UNCHANGED crashed
      BY <1>5 DEF BtHandsRows, Ev, EvBegins, EvEvicts, EvGoesOn, EvUnlinks, RetryRuns,
         LoopDrains, LastDrain, Stop, world
    <2>4. \A b \in Ids : Handed(b) => Handed(b)'
      BY <2>1 DEF Handed, stageVars
    <2>. QED
      BY <2>2, <2>3, <2>4, WayIsKept
  <1>6. CASE BtSubmit
    <2>1. UNCHANGED <<workVars, crashed, handErr, cur, st>>
      BY <1>6 DEF BtSubmit, world
    <2>2. PICK n \in Nat \ {0} :
            /\ sent \in Nat /\ batch' = (sent + 1)..(sent + n)
            /\ \/ UNCHANGED counted
               \/ counted' = [b \in Ids |-> IF b \in batch' THEN "queue_full" ELSE counted[b]]
      BY <1>6, NewBatch
    <2>3. \A b \in Ids : b \in batch' => ~Handed(b)
      <3>1. \A b \in Ids : b \in batch' => Fresh(b)
        BY <2>2 DEF Fresh
      <3>. QED
        BY <3>1, NotHandedYet DEF Ahead
    <2>4. \A b \in Ids : Handed(b) => Handed(b)'
      BY <1>g, <2>1, <2>2, <2>3 DEF Handed
    <2>. QED
      BY <2>1, <2>4, WayIsKept
  <1>7. CASE StGet
    <2>1. /\ UNCHANGED <<workVars, crashed, handErr>> /\ st = "get"
          /\ \/ cur' = Head(todo) /\ UNCHANGED counted
             \/ counted' = [counted EXCEPT ![Head(todo)] = "left out"]
      BY <1>7 DEF StGet, world
    <2>2. ~Handed(Head(todo)) /\ Head(todo) \in Ids
      BY <1>7, FreshAfterwards, NotHandedYet DEF Ahead
    <2>3. \A b \in Ids : Handed(b) => Handed(b)'
      BY <1>g, <2>1, <2>2 DEF Handed
    <2>. QED
      BY <2>1, <2>3, WayIsKept
  <1>8. CASE StWrite \/ StMeta \/ StTrack
    <2>1. UNCHANGED <<workVars, crashed, handErr, counted, cur>> /\ st # "count"
      BY <1>8 DEF StWrite, StMeta, StTrack, world
    <2>2. \A b \in Ids : Handed(b) => Handed(b)'
      BY <2>1 DEF Handed
    <2>. QED
      BY <2>1, <2>2, WayIsKept
  <1>9. CASE StCount
    <2>1. /\ UNCHANGED <<workVars, crashed, handErr>> /\ st = "count"
          /\ counted' = [counted EXCEPT ![cur] = "isolated"]
      BY <1>9 DEF StCount, world
    <2>2. \A b \in Ids : Handed(b) => Handed(b)'
      BY <1>g, <2>1 DEF Handed
    <2>. QED
      BY <2>1, <2>2, WayIsKept
  <1>10. CASE StHand
    <2>1. /\ st = "hand" /\ st' = "count"
          /\ UNCHANGED <<todo, cur, counted, sent, crashed, items, wk, item, outcome>>
          /\ \/ calls' = Append(calls, cur) /\ UNCHANGED handErr
             \/ calls' = calls /\ UNCHANGED handErr
             \/ calls' = calls /\ handErr' = handErr \cup {cur}
      BY <1>10 DEF StHand, feedVars, world
    <2>2. cur \in Ids
      BY <1>g, <2>1 DEF InOrder
    <2>3. ~Handed(cur) /\ ~OnTheWay(cur)
      BY <2>1, <2>2, NotHandedYet DEF Ahead
    <2>4. \A b \in Ids : Handed(b) => Handed(b)'
      BY <2>1, <2>3 DEF Handed
    <2>5. CASE calls' = calls
      <3>1. UNCHANGED workVars
        BY <2>1, <2>5 DEF workVars
      <3>. QED
        BY <2>1, <2>4, <3>1, WayIsKept
    <2>6. CASE calls' = Append(calls, cur) /\ UNCHANGED handErr
      <3>1. /\ DOMAIN calls = 1..Len(calls) /\ DOMAIN calls' = 1..(Len(calls) + 1)
                 /\ Len(calls) \in Nat
            /\ \A i \in 1..(Len(calls) + 1) : calls'[i] = IF i = Len(calls) + 1 THEN cur
                 ELSE calls[i]
        BY <1>g, <2>2, <2>6, Appended
      <3>2. AtDecoders' = AtDecoders
        BY <2>1 DEF AtDecoders
      <3>3. /\ cur \notin items \cup AtDecoders
            /\ \A i \in DOMAIN calls : calls[i] # cur
        BY <2>3 DEF OnTheWay
      <3>4. \A i, j \in DOMAIN calls' : calls'[i] = calls'[j] => i = j
        <4>1. \A i \in DOMAIN calls' : i = Len(calls) + 1 \/ i \in DOMAIN calls
          BY <3>1
        <4>2. \A i, j \in DOMAIN calls : calls[i] = calls[j] => i = j
          BY <1>g DEF OnTheirWay
        <4>. QED
          BY <3>1, <3>3, <4>1, <4>2
      <3>5. \A i \in DOMAIN calls' : calls'[i] \notin items' \cup AtDecoders'
        <4>1. \A i \in DOMAIN calls : calls[i] \notin items \cup AtDecoders
          BY <1>g DEF OnTheirWay
        <4>. QED
          BY <2>1, <3>1, <3>2, <3>3, <4>1
      <3>6. \A b \in Ids : OnTheWay(b)' => OnTheWay(b) \/ b = cur
        BY <2>1, <3>1, <3>2 DEF OnTheWay
      <3>7. outcome[cur] = "" /\ cur \notin handErr
        BY <1>g, <2>1, <2>2 DEF OnTheirWay, Ahead
      <3>8. \A b \in Ids : OnTheWay(b)' => Handed(b)' /\ outcome'[b] = ""
        <4>1. \A b \in Ids : b = cur => Handed(b)'
          BY <2>1, <2>6, <3>7 DEF Handed
        <4>. QED
          BY <1>g, <2>1, <2>4, <3>6, <3>7, <4>1 DEF OnTheirWay
      <3>9. \A b \in Ids : Ahead(b)' => outcome'[b] = "" /\ b \notin handErr'
        BY <1>g, <2>1, AheadAfterwards DEF OnTheirWay
      <3>10. ~crashed' => \A b \in Ids : outcome'[b] # "" => Handed(b)'
        BY <1>g, <2>1, <2>4 DEF OnTheirWay
      <3>11. wk' = "decode" => item' \notin items'
        BY <1>g, <2>1 DEF OnTheirWay
      <3>. QED
        BY <3>4, <3>5, <3>8, <3>9, <3>10, <3>11 DEF OnTheirWay
    <2>. QED
      BY <2>1, <2>5, <2>6
  <1>11. CASE CrashRestart
    <2>1. /\ crashed' = TRUE /\ calls' = <<>> /\ items' = {} /\ wk' = "get" /\ outcome' = outcome
      BY <1>11 DEF CrashRestart
    <2>2. DOMAIN calls' = {} /\ AtDecoders' = {}
      <3>1. DOMAIN <<>> = {}
        OBVIOUS
      <3>. QED
        BY <2>1, <3>1 DEF AtDecoders
    <2>3. \A b \in Ids : ~OnTheWay(b)'
      BY <2>1, <2>2 DEF OnTheWay
    <2>4. \A b \in Ids : Ahead(b)' => outcome'[b] = "" /\ b \notin handErr'
      BY <1>g, <2>1, AheadAfterwards DEF OnTheirWay
    <2>. QED
      BY <2>1, <2>2, <2>3, <2>4 DEF OnTheirWay
  <1>. QED
    BY <1>1, <1>2, <1>3, <1>4, <1>5, <1>6, <1>7, <1>8, <1>9, <1>10, <1>11
       DEF DeliveryNext, Bt, St, Loop, Ends

\* A step that inserts nothing keeps the rows to come.
LEMMA RowsNotWritten ==
  ASSUME DeliveryInv, UNCHANGED <<sent, batch, rowq>>,
         \A b \in Ids : rows[b] = "none" => rows'[b] = "none"
  PROVE  RowsToCome'
PROOF
  <1>1. RowsToCome /\ batch \in SUBSET Ids /\ rowq \in Seq(SUBSET Ids)
    BY DeliveryGives DEF FeedTypes, RowTypes
  <1>2. \A i \in DOMAIN rowq : rowq[i] \in SUBSET Ids
    BY <1>1
  <1>. QED
    BY <1>1, <1>2 DEF RowsToCome

\* The rows still to be inserted stay so until they are.
LEMMA RowsToComeKept ==
  ASSUME DeliveryInv, DeliveryNext
  PROVE  RowsToCome'
PROOF
  <1>g. /\ RowsToCome /\ sent \in Nat /\ batch \in SUBSET Ids /\ rowq \in Seq(SUBSET Ids)
        /\ rows \in [Ids -> Verdicts \cup {"none", "plain"}] /\ \A b \in Ids : b \in Nat
    BY DeliveryGives, DeliveryAssumption DEF FeedTypes, RowTypes, Ids
  <1>q. \A i \in DOMAIN rowq : rowq[i] \in SUBSET Ids
    BY <1>g
  <1>1. CASE BtSubmit
    <2>1. UNCHANGED <<rowq, rows>>
      BY <1>1 DEF BtSubmit, rowVars
    <2>2. PICK n \in Nat \ {0} :
            sent' = sent + n /\ batch' = (sent + 1)..(sent + n) /\ batch' \subseteq Ids
      BY <1>1, NewBatch
    <2>3. \A b \in Ids : (b > sent' => b > sent) /\ (b <= sent => b <= sent')
      BY <1>g, <2>2
    <2>4. \A b \in batch' : b > sent /\ b <= sent' /\ b \in Ids /\ ~(b <= sent)
      BY <1>g, <2>2
    <2>. QED
      BY <1>g, <1>q, <2>1, <2>3, <2>4 DEF RowsToCome
  <1>2. CASE BtHandsRows
    <2>1. rowq' = Append(rowq, batch) /\ batch' = {} /\ UNCHANGED <<sent, rows>>
      BY <1>2 DEF BtHandsRows
    <2>2. \A i \in DOMAIN rowq' : rowq'[i] = batch \/ (i \in DOMAIN rowq /\ rowq'[i] = rowq[i])
      <3>1. /\ Len(rowq) \in Nat /\ DOMAIN rowq = 1..Len(rowq)
            /\ DOMAIN Append(rowq, batch) = 1..(Len(rowq) + 1)
            /\ \A i \in 1..(Len(rowq) + 1) :
                 Append(rowq, batch)[i] = IF i = Len(rowq) + 1 THEN batch ELSE rowq[i]
        BY <1>g, Appended
      <3>. QED
        BY <2>1, <3>1
    <2>. QED
      BY <1>g, <2>1, <2>2 DEF RowsToCome
  <1>3. CASE WkDb
    <2>1. UNCHANGED <<sent, batch, rowq>> /\ (Labels(item) \/ UNCHANGED rows)
      BY <1>3 DEF WkDb, LabelRaises, feedVars
    <2>2. \A b \in Ids : rows[b] = "none" => rows'[b] = "none"
      BY <1>g, <2>1 DEF Labels
    <2>. QED
      BY <2>1, <2>2, RowsNotWritten
  <1>4. CASE RetryRuns
    <2>1. UNCHANGED <<sent, batch, rowq>> /\ \E b \in retries : Labels(b) \/ UNCHANGED rows
      BY <1>4 DEF RetryRuns, LabelRaises, feedVars
    <2>2. \A b \in Ids : rows[b] = "none" => rows'[b] = "none"
      BY <1>g, <2>1 DEF Labels
    <2>. QED
      BY <2>1, <2>2, RowsNotWritten
  <1>5. CASE WkCloses
    <2>1. /\ UNCHANGED <<sent, batch, rowq>>
          /\ \E late : rows' = [b \in Ids |-> IF b \in retries \ late /\ rows[b] # "none"
                                              THEN outcome[b] ELSE rows[b]]
      BY <1>5 DEF WkCloses, feedVars
    <2>2. \A b \in Ids : rows[b] = "none" => rows'[b] = "none"
      BY <2>1
    <2>. QED
      BY <2>1, <2>2, RowsNotWritten
  <1>6. CASE LoopDrains \/ LastDrain
    <2>1. UNCHANGED <<sent, batch>> /\ \E ok \in BOOLEAN : Drains(ok)
      BY <1>6 DEF LoopDrains, LastDrain, feedVars
    <2>2. /\ rowq' = <<>>
          /\ \/ UNCHANGED rows
             \/ rows' = [b \in Ids |-> IF \E i \in 1..Len(rowq) : b \in rowq[i]
                                       THEN "plain" ELSE rows[b]]
      BY <2>1, DrainIs
    <2>3. DOMAIN rowq = 1..Len(rowq) /\ DOMAIN rowq' = {}
      <3>1. DOMAIN <<>> = {}
        OBVIOUS
      <3>. QED
        BY <1>g, <2>2, <3>1
    <2>4. \A b \in Ids : b > sent => ~\E i \in 1..Len(rowq) : b \in rowq[i]
      <3>1. \A b \in Ids : b > sent => ~(b <= sent)
        BY <1>g
      <3>. QED
        BY <1>g, <2>3, <3>1 DEF RowsToCome
    <2>5. \A b \in batch : ~\E i \in 1..Len(rowq) : b \in rowq[i]
      BY <1>g, <2>3 DEF RowsToCome
    <2>. QED
      BY <1>g, <2>1, <2>2, <2>3, <2>4, <2>5 DEF RowsToCome
  <1>7. CASE CrashRestart
    <2>1. UNCHANGED <<sent, rows>> /\ batch' = {} /\ rowq' = <<>>
      BY <1>7 DEF CrashRestart
    <2>2. DOMAIN rowq' = {}
      <3>1. DOMAIN <<>> = {}
        OBVIOUS
      <3>. QED
        BY <2>1, <3>1
    <2>. QED
      BY <1>g, <2>1, <2>2 DEF RowsToCome
  <1>8. CASE St \/ Ev \/ LoopPuts \/ WkGet \/ WkDecode \/ WkLabel \/ Stop \/ WkCancelled
    <2>1. UNCHANGED rowVars
      BY <1>8, RowsStay
    <2>2. UNCHANGED feedVars
      BY <1>8 DEF St, StGet, StWrite, StMeta, StTrack, StHand, StCount, Ev, EvBegins, EvEvicts,
         EvGoesOn, EvUnlinks, LoopPuts, WkGet, WkDecode, WkLabel, Stop, WkCancelled
    <2>. QED
      BY <2>1, <2>2, RowsNotWritten DEF rowVars, feedVars
  <1>. QED
    BY <1>1, <1>2, <1>3, <1>4, <1>5, <1>6, <1>7, <1>8 DEF DeliveryNext, Bt, Loop, Ends

\* An attributed burst's outcome keeps being followed until it is on the row.
LEMMA OutcomeIsFollowedKept ==
  ASSUME DeliveryInv, DeliveryNext
  PROVE  OutcomeIsFollowed'
PROOF
  <1>g. /\ OutcomeIsFollowed /\ outcome \in [Ids -> Verdicts] /\ item \in Ids \cup {None}
        /\ rows \in [Ids -> Verdicts \cup {"none", "plain"}]
        /\ RowsToCome /\ rowq \in Seq(SUBSET Ids)
    BY DeliveryGives DEF WorkTypes, RowTypes
  <1>1. CASE LoopPuts
    <2>1. /\ calls # <<>> /\ Put(Head(calls)) /\ UNCHANGED <<wk, item, rows, retries, missed>>
      BY <1>1 DEF LoopPuts, rowVars
    <2>2. outcome' = outcome \/ \E c : outcome' = [outcome EXCEPT ![c] = "dropped"]
      BY <2>1, HeadCall, PutIs
    <2>3. \A b \in Ids : outcome'[b] = outcome[b] \/ outcome'[b] = "dropped"
      BY <1>g, <2>2
    <2>. QED
      BY <1>g, <2>1, <2>3 DEF OutcomeIsFollowed, Labelled
  <1>2. CASE WkGet
    BY <1>g, <1>2 DEF WkGet, rowVars, OutcomeIsFollowed
  <1>3. CASE WkDecode
    <2>1. PICK o \in Outcomes :
            /\ wk = "decode" /\ outcome' = [outcome EXCEPT ![item] = o]
            /\ wk' = IF o \in {"decoded", "not_decoded"} THEN "db" ELSE "get"
            /\ UNCHANGED <<item, rows, retries, missed>>
      BY <1>3 DEF WkDecode, rowVars
    <2>2. \A b \in Ids : outcome'[b] = IF b = item THEN o ELSE outcome[b]
      BY <1>g, <2>1
    <2>. QED
      BY <1>g, <2>1, <2>2 DEF OutcomeIsFollowed, Labelled
  <1>4. CASE WkDb
    <2>1. /\ wk = "db" /\ wk' = "label" /\ UNCHANGED <<item, outcome>>
          /\ UNCHANGED rows \/ rows' = [rows EXCEPT ![item] = outcome[item]]
          /\ retries \subseteq retries' /\ missed \subseteq missed'
      BY <1>4 DEF WkDb, LabelRaises, Labels
    <2>2. \A b \in Ids : b # item => rows'[b] = rows[b]
      BY <1>g, <2>1
    <2>3. item \in Ids => item \in retries' \cup missed' \/ rows'[item] = outcome'[item]
      <3>1. CASE LabelRaises(item)
        BY <3>1 DEF LabelRaises
      <3>2. CASE /\ Labels(item)
                 /\ retries' = IF rows[item] = "none" THEN retries \cup {item} ELSE retries
        BY <1>g, <2>1, <3>2 DEF Labels
      <3>. QED
        BY <1>4, <3>1, <3>2 DEF WkDb
    <2>. QED
      BY <1>g, <2>1, <2>2, <2>3 DEF OutcomeIsFollowed
  <1>5. CASE WkLabel
    BY <1>g, <1>5 DEF WkLabel, rowVars, OutcomeIsFollowed
  <1>6. CASE RetryRuns
    <2>1. PICK c \in retries :
            /\ UNCHANGED rows \/ rows' = [rows EXCEPT ![c] = outcome[c]]
            /\ \/ /\ Labels(c)
                  /\ missed' = IF rows[c] = "none" THEN missed \cup {c} ELSE missed
               \/ missed' = missed \cup {c}
            /\ retries' = retries \ {c} /\ UNCHANGED <<wk, item, outcome>>
      BY <1>6 DEF RetryRuns, LabelRaises, Labels, workVars
    <2>2. \A b \in Ids : b # c => rows'[b] = rows[b]
      BY <1>g, <2>1
    <2>3. missed \subseteq missed'
      BY <2>1
    <2>4. c \in Ids => c \in missed' \/ rows'[c] = outcome'[c]
      BY <1>g, <2>1 DEF Labels
    <2>. QED
      BY <1>g, <2>1, <2>2, <2>3, <2>4 DEF OutcomeIsFollowed
  <1>7. CASE LoopDrains \/ LastDrain
    <2>1. UNCHANGED <<workVars, retries, missed>> /\ \E ok \in BOOLEAN : Drains(ok)
      BY <1>7 DEF LoopDrains, LastDrain
    <2>2. \/ UNCHANGED rows
          \/ rows' = [b \in Ids |-> IF \E i \in 1..Len(rowq) : b \in rowq[i]
                                    THEN "plain" ELSE rows[b]]
      BY <2>1, DrainIs
    <2>3. \A b \in Ids : rows'[b] = rows[b] \/ rows[b] = "none"
      <3>1. DOMAIN rowq = 1..Len(rowq)
        BY <1>g
      <3>2. \A i \in 1..Len(rowq) : \A b \in rowq[i] : rows[b] = "none"
        BY <1>g, <3>1 DEF RowsToCome
      <3>. QED
        BY <2>2, <3>2
    <2>4. \A b \in Ids : outcome[b] \in Labelled => outcome[b] # "none"
      BY DEF Labelled
    <2>5. UNCHANGED <<wk, item, outcome, retries, missed>>
      BY <2>1 DEF workVars
    <2>. QED
      BY <1>g, <2>3, <2>4, <2>5 DEF OutcomeIsFollowed
  <1>8. CASE WkCancelled
    <2>1. UNCHANGED <<item, outcome, rows, retries, missed>> /\ wk' = "close" /\ wk # "off"
      BY <1>8 DEF WkCancelled, rowVars
    <2>. QED
      BY <1>g, <2>1 DEF OutcomeIsFollowed
  <1>9. CASE WkCloses
    <2>1. PICK late \in SUBSET retries, raised \in SUBSET retries :
            /\ rows' = [b \in Ids |-> IF b \in retries \ late /\ rows[b] # "none"
                                      THEN outcome[b] ELSE rows[b]]
            /\ missed' = missed \cup raised
                           \cup {b \in retries : b \in late \/ rows[b] = "none"}
            /\ wk' = "off" /\ UNCHANGED <<item, outcome>>
      BY <1>9 DEF WkCloses
    <2>2. \A b \in Ids : b \in retries => rows'[b] = outcome'[b] \/ b \in missed'
      BY <2>1
    <2>3. \A b \in Ids : rows[b] = outcome[b] => rows'[b] = outcome'[b]
      BY <2>1
    <2>. QED
      BY <1>g, <2>1, <2>2, <2>3 DEF OutcomeIsFollowed
  <1>10. CASE CrashRestart
    <2>1. /\ UNCHANGED <<outcome, rows>>
          /\ missed' = missed \cup {b \in 1..sent : outcome[b] # "" /\ rows[b] # outcome[b]}
      BY <1>10 DEF CrashRestart
    <2>2. \A b \in Ids : outcome[b] # "" => b \in 1..sent
      <3>1. \A b \in Ids : b > sent => outcome[b] = ""
        BY DeliveryGives DEF OnTheirWay, Ahead, Fresh
      <3>2. \A b \in Ids : b \in 1..sent \/ b > sent
        BY DeliveryGives, DeliveryAssumption DEF FeedTypes, Ids
      <3>. QED
        BY <3>1, <3>2
    <2>. QED
      BY <2>1, <2>2 DEF OutcomeIsFollowed, Labelled
  <1>11. CASE Bt \/ St \/ Ev \/ Stop
    <2>1. UNCHANGED <<rows, retries, missed>>
      <3>1. CASE BtHandsRows
        BY <3>1 DEF BtHandsRows
      <3>2. CASE BtSubmit \/ St \/ Ev \/ Stop
        BY <3>2, RowsStay DEF rowVars
      <3>. QED
        BY <1>11, <3>1, <3>2 DEF Bt
    <2>2. UNCHANGED <<wk, item, outcome>>
      <3>1. CASE StHand
        BY <3>1 DEF StHand
      <3>2. CASE ~StHand
        BY <1>11, <3>2, WorkStays DEF workVars
      <3>. QED
        BY <3>1, <3>2
    <2>. QED
      BY <1>g, <2>1, <2>2 DEF OutcomeIsFollowed
  <1>. QED
    BY <1>1, <1>2, <1>3, <1>4, <1>5, <1>6, <1>7, <1>8, <1>9, <1>10, <1>11
       DEF DeliveryNext, Loop, Ends

-----------------------------------------------------------------------------
(* Delivery: the theorems.                                                 *)

\* The invariant holds when the process starts.
LEMMA DeliveryInvInit ==
  ASSUME DeliveryInit
  PROVE  DeliveryInv
PROOF
  <1>0. MaxBursts \in Nat /\ QueueMax \in Nat
    BY DeliveryAssumption
  <1>a. /\ happens \in Scenarios /\ power \in [Ids -> Powers]
        /\ running \in BOOLEAN /\ crashed \in BOOLEAN
        /\ bt = "feed" /\ batch = {} /\ sent = 0
    BY DEF DeliveryInit
  <1>b. /\ todo = <<>> /\ st = "get" /\ cur = None /\ handErr = {}
        /\ counted = [b \in Ids |-> ""]
    BY DEF DeliveryInit
  <1>c. /\ ev = "idle" /\ evFrom = "cap" /\ victim = None
        /\ data = {} /\ meta = {} /\ index = [b \in Ids |-> 0] /\ stuck = {}
    BY DEF DeliveryInit, NoEntry
  <1>d. /\ calls = <<>> /\ items = {} /\ wk = "get" /\ item = None
        /\ outcome = [b \in Ids |-> ""]
    BY DEF DeliveryInit
  <1>e. /\ rowq = <<>> /\ retries = {} /\ rows = [b \in Ids |-> "none"] /\ missed = {}
    BY DEF DeliveryInit
  <1>w. DOMAIN todo = {} /\ DOMAIN calls = {} /\ DOMAIN rowq = {}
    <2>1. DOMAIN <<>> = {}
      OBVIOUS
    <2>. QED
      BY <1>b, <1>d, <1>e, <2>1
  <1>s. <<>> \in Seq(Ids)
    OBVIOUS
  <1>n. \A b \in Ids : b # None
    BY DEF Ids, None
  <1>1. FeedTypes
    BY <1>0, <1>a DEF FeedTypes
  <1>2. StageTypes
    BY <1>b, <1>s DEF StageTypes, Counted
  <1>3. FileTypes
    BY <1>c DEF FileTypes
  <1>4. WorkTypes
    <2>1. Cardinality({}) <= QueueMax
      BY <1>0, FS_EmptySet
    <2>2. outcome \in [Ids -> Verdicts]
      BY <1>d DEF Verdicts
    <2>. QED
      BY <1>d, <1>s, <2>1, <2>2 DEF WorkTypes
  <1>5. RowTypes
    BY <1>e DEF RowTypes
  <1>6. InOrder
    <2>1. cur <= sent
      <3>1. cur = 0 /\ sent = 0
        BY <1>a, <1>b DEF None
      <3>. QED
        BY <3>1
    <2>. QED
      BY <1>b, <1>w, <2>1 DEF InOrder
  <1>7. FilesInv
    BY <1>b, <1>c, <1>n DEF NoEntry, FilesInv, FreshHasNoFiles, FilesInHand, ArchiveIsIndexed,
         Indexed
  <1>8. CountsAreKept
    <2>1. \A b \in Ids : Fresh(b)
      BY <1>0, <1>a DEF Ids, Fresh
    <2>. QED
      BY <1>b, <2>1 DEF CountsAreKept
  <1>9. OnTheirWay
    <2>1. AtDecoders = {}
      BY <1>d DEF AtDecoders
    <2>. QED
      BY <1>b, <1>d, <1>w, <2>1 DEF OnTheirWay, OnTheWay
  <1>10. RowsToCome /\ OutcomeIsFollowed
    BY <1>a, <1>d, <1>e, <1>w DEF RowsToCome, OutcomeIsFollowed, Labelled
  <1>. QED
    BY <1>1, <1>2, <1>3, <1>4, <1>5, <1>6, <1>7, <1>8, <1>9, <1>10 DEF DeliveryInv, DeliveryTypes

\* Every step keeps the invariant.
LEMMA DeliveryInvKept ==
  ASSUME DeliveryInv, [DeliveryNext]_deliveryVars
  PROVE  DeliveryInv'
PROOF
  <1>1. CASE DeliveryNext
    BY <1>1, FeedTypesKept, StageTypesKept, FileTypesKept, WorkTypesKept, RowTypesKept,
       FilesInvKept, CountsAreKeptKept, OnTheirWayKept, RowsToComeKept, OutcomeIsFollowedKept
       DEF DeliveryInv, DeliveryTypes
  <1>2. CASE UNCHANGED deliveryVars
    <2>1. UNCHANGED <<happens, power, running, crashed, bt, sent, batch, todo, st, cur, counted,
                      handErr, data, meta, index, stuck, ev, evFrom, victim, calls, items, wk,
                      item, outcome, rowq, rows, retries, missed>>
      BY <1>2 DEF deliveryVars, world, feedVars, stageVars, fileVars, evVars, workVars, rowVars
    <2>2. DeliveryTypes' /\ InOrder'
      BY <2>1 DEF DeliveryInv, DeliveryTypes, FeedTypes, StageTypes, FileTypes, WorkTypes,
         RowTypes, InOrder
    <2>3. FilesInv'
      BY <2>1 DEF DeliveryInv, FilesInv, FreshHasNoFiles, FilesInHand, ArchiveIsIndexed,
         Indexed, OnDisk, Fresh, Waiting
    <2>4. CountsAreKept'
      BY <2>1 DEF DeliveryInv, CountsAreKept, Fresh, Waiting
    <2>5. OnTheirWay'
      BY <2>1 DEF DeliveryInv, OnTheirWay, OnTheWay, AtDecoders, Handed, Ahead, Fresh, Waiting
    <2>6. RowsToCome' /\ OutcomeIsFollowed'
      BY <2>1 DEF DeliveryInv, RowsToCome, OutcomeIsFollowed
    <2>. QED
      BY <2>2, <2>3, <2>4, <2>5, <2>6 DEF DeliveryInv
  <1>. QED
    BY <1>1, <1>2

\* The counters agree only when nothing is on its way: counting the bursts the
\* stage is done with against those submitted, and the verdicts against the
\* hand-overs, leaves no burst out on either side.
LEMMA SettledMeansDone ==
  ASSUME DeliveryInv
  PROVE  SettledIsDone
PROOF
  <1>1. SUFFICES ASSUME ~crashed, Settled
                 PROVE  /\ todo = <<>> /\ st = "get" /\ calls = <<>> /\ items = {}
                        /\ wk # "decode"
    BY DEF SettledIsDone
  <1>g. /\ CountsAreKept /\ OnTheirWay /\ InOrder /\ sent \in 0..MaxBursts /\ MaxBursts \in Nat
        /\ todo \in Seq(Ids) /\ cur \in Ids \cup {None} /\ calls \in Seq(Ids)
        /\ items \in SUBSET Ids /\ (wk = "decode" => item \in Ids)
    BY DeliveryGives, DeliveryAssumption DEF FeedTypes, StageTypes, WorkTypes
  <1>. DEFINE Through == {b \in Ids : counted[b] \in Final}
              Judged == {b \in Ids : outcome[b] \in OutcomesCounted}
              Owing == {b \in Ids : counted[b] = "isolated" /\ b \notin handErr}
  <1>2. /\ Cardinality(Through) >= sent
        /\ Cardinality(Judged) >= Cardinality(Owing)
    BY <1>1 DEF Settled
  <1>3. Through = 1..sent
    <2>1. Through \subseteq 1..sent
      <3>1. \A b \in Ids : b > sent => counted[b] = ""
        BY <1>g DEF CountsAreKept, Fresh
      <3>2. \A b \in Ids : b > sent \/ b \in 1..sent
        BY <1>g DEF Ids
      <3>. QED
        BY <3>1, <3>2 DEF Final
    <2>2. IsFiniteSet(1..sent) /\ Cardinality(1..sent) = sent
      BY <1>g, FS_Interval
    <2>. HIDE DEF Through
    <2>3. /\ Cardinality(Through) \in Nat /\ Cardinality(Through) <= sent
          /\ (Cardinality(Through) = sent => Through = 1..sent)
      BY <2>1, <2>2, FS_Subset, FS_CardinalityType
    <2>. QED
      BY <1>g, <1>2, <2>3
  <1>4. \A b \in Ids : b <= sent => counted[b] # ""
    <2>1. \A b \in Ids : b <= sent => b \in 1..sent
      BY <1>g DEF Ids
    <2>. QED
      BY <1>3, <2>1 DEF Final
  <1>5. todo = <<>>
    <2>1. ASSUME todo # <<>> PROVE FALSE
      <3>1. todo[1] \in Ids /\ 1 \in DOMAIN todo
        BY <1>g, <2>1, HeadAndTail
      <3>2. todo[1] <= sent /\ Fresh(todo[1])
        BY <1>g, <3>1 DEF InOrder, Fresh, Waiting
      <3>. QED
        BY <1>g, <1>4, <3>1, <3>2 DEF CountsAreKept
    <2>. QED
      BY <2>1
  <1>6. st = "get"
    <2>1. ASSUME st # "get" PROVE FALSE
      <3>1. cur \in Ids /\ cur <= sent
        BY <1>g, <2>1 DEF InOrder
      <3>. QED
        BY <1>g, <1>4, <2>1, <3>1 DEF CountsAreKept
    <2>. QED
      BY <2>1
  <1>7. Judged = Owing
    <2>1. Judged \subseteq Owing
      <3>1. \A b \in Ids : outcome[b] # "" => Handed(b)
        BY <1>1, <1>g DEF OnTheirWay
      <3>. QED
        BY <1>6, <3>1 DEF Handed, OutcomesCounted
    <2>2. IsFiniteSet(Owing)
      BY BurstsAreFinite
    <2>. HIDE DEF Judged, Owing
    <2>3. /\ Cardinality(Judged) \in Nat /\ Cardinality(Owing) \in Nat
          /\ Cardinality(Judged) <= Cardinality(Owing)
          /\ (Cardinality(Judged) = Cardinality(Owing) => Judged = Owing)
      BY <2>1, <2>2, FS_Subset, FS_CardinalityType
    <2>. QED
      BY <1>2, <2>3
  <1>8. \A b \in Ids : ~OnTheWay(b)
    <2>1. \A b \in Ids : OnTheWay(b) => b \in Owing /\ b \notin Judged
      BY <1>6, <1>g DEF OnTheirWay, Handed, OutcomesCounted
    <2>. QED
      BY <1>7, <2>1
  <1>9. calls = <<>>
    <2>1. ASSUME calls # <<>> PROVE FALSE
      <3>1. Head(calls) \in Ids /\ OnTheWay(Head(calls))
        BY <2>1, HeadCall
      <3>. QED
        BY <1>8, <3>1
    <2>. QED
      BY <2>1
  <1>10. items = {} /\ wk # "decode"
    BY <1>8, <1>g DEF OnTheWay, AtDecoders
  <1>. QED
    BY <1>5, <1>6, <1>9, <1>10

\* The invariant gives what the run checks.
LEMMA DeliveryInvGivesAll ==
  ASSUME DeliveryInv
  PROVE  DeliveredWhole
PROOF
  <1>1. DeliveryTypeOK
    <2>1. UNION {batch, handErr, data, meta, stuck, items, retries, missed} \subseteq Ids
      BY DeliveryGives DEF FeedTypes, StageTypes, FileTypes, WorkTypes, RowTypes
    <2>. QED
      BY <2>1, DeliveryGives DEF DeliveryTypeOK, FeedTypes, StageTypes, FileTypes, WorkTypes,
         RowTypes
  <1>2. OutcomeIsOnRow
    BY DeliveryGives DEF OutcomeIsOnRow, OutcomeIsFollowed, Labelled
  <1>. QED
    BY <1>1, <1>2, SettledMeansDone, DeliveryGives DEF DeliveredWhole

\* The invariant holds of every behaviour of the delivery.
THEOREM DeliveryIsKept == DeliverySpec => []DeliveryInv
PROOF
  <1>. QED
    BY DeliveryInvInit, DeliveryInvKept, PTL DEF DeliverySpec

\* A burst's files, verdict and row come together whatever fails: the archive's
\* index is the archive, attribution is settled only when nothing is on its way,
\* and an attributed burst's row says so (isolation.py, burst_archive.py,
\* attribution.py and replay.py).
THEOREM DeliveryIsWhole == DeliverySpec => []DeliveredWhole
PROOF
  <1>. QED
    BY DeliveryIsKept, DeliveryInvGivesAll, PTL

\* What a full attribution queue drops is no stronger than anything that stays
\* (StrongestQueue.put_nowait).
THEOREM TheWeakestGoes == DeliverySpec => WeakestGoes
PROOF
  <1>1. ASSUME DeliveryInv, [DeliveryNext]_deliveryVars
        PROVE  [\A b \in Ids : outcome[b] # "dropped" /\ outcome'[b] = "dropped"
                  => \A c \in items' : power[c] >= power[b]]_deliveryVars
    <2>g. /\ outcome \in [Ids -> Verdicts] /\ items \in SUBSET Ids
          /\ \A b \in Ids : power[b] \in Int
      BY <1>1, DeliveryGives, DeliveryAssumption DEF WorkTypes, FeedTypes
    <2>1. CASE LoopPuts
      <3>1. Put(Head(calls)) /\ calls # <<>>
        BY <2>1 DEF LoopPuts
      <3>2. Head(calls) \in Ids /\ Head(calls) \notin items
        BY <1>1, <3>1, HeadCall
      <3>3. /\ items' \in SUBSET Ids
            /\ \/ outcome' = outcome
               \/ \E c \in items \cup {Head(calls)} :
                    /\ outcome' = [outcome EXCEPT ![c] = "dropped"]
                    /\ \A d \in items' : power[c] <= power[d]
        BY <1>1, <3>1, <3>2, PutIs
      <3>. QED
        BY <2>g, <3>2, <3>3
    <2>2. CASE WkDecode
      <3>1. \E o \in Outcomes : outcome' = [outcome EXCEPT ![item] = o]
        BY <2>2 DEF WkDecode
      <3>2. \A o \in Outcomes : o # "dropped"
        BY DEF Outcomes
      <3>. QED
        BY <2>g, <3>1, <3>2
    <2>3. CASE UNCHANGED outcome
      BY <2>3
    <2>4. CASE DeliveryNext /\ ~LoopPuts /\ ~WkDecode
      <3>1. UNCHANGED outcome
        <4>1. CASE Bt \/ (St /\ ~StHand) \/ Ev \/ RetryRuns \/ LoopDrains \/ LastDrain \/ Stop
          BY <4>1, WorkStays DEF workVars
        <4>2. CASE StHand \/ WkGet \/ WkDb \/ WkLabel \/ WkCancelled \/ WkCloses \/ CrashRestart
          BY <4>2 DEF StHand, WkGet, WkDb, WkLabel, WkCancelled, WkCloses, CrashRestart
        <4>. QED
          BY <2>4, <4>1, <4>2 DEF DeliveryNext, Loop, Ends
      <3>. QED
        BY <3>1
    <2>5. UNCHANGED deliveryVars => UNCHANGED outcome
      BY DEF deliveryVars, workVars
    <2>. QED
      BY <1>1, <2>1, <2>2, <2>3, <2>4, <2>5
  <1>. QED
    BY <1>1, DeliveryIsKept, PTL DEF DeliverySpec, WeakestGoes

-----------------------------------------------------------------------------
(* Upkeep: the inductive invariant.                                        *)

\* The last hour, the tables of the figures and the rows of an hour.
N == MaxTime \div HOUR
Tables == [Hours -> [Fields -> Int]]
Rows == [untried : Nat, tried : Nat]

\* The types of the clock and of the process's life.
ClockTypes ==
  /\ life \in Lives /\ now \in 0..MaxTime /\ made \in Nat
  /\ phase \in {"up", "stopping", "drained", "flushed", "down"}

\* The figures: what is in hand is never negative, a flush has what it took, and
\* what is kept is what is owed, or more when a write was not answered.
FigureTypes ==
  /\ {pending, taken, stored, recorded} \subseteq Tables
  /\ flushing \in BOOLEAN /\ unsure \in 0..(MaxUnsure + 1)
  /\ ~flushing => taken = Zero
FiguresInv ==
  \A f \in Fields :
    /\ Sum(pending, f) >= 0 /\ Sum(taken, f) >= 0
    /\ Sum(Kept, f) >= Sum(recorded, f)
    /\ unsure = 0 => Sum(Kept, f) = Sum(recorded, f)
\* How far the stop is says what may still be in hand.
PhaseInv ==
  /\ phase = "up" \/ (phase = "stopping" /\ flushing) => unsure <= MaxUnsure
  /\ phase = "drained" /\ flushing => pending = Zero
  /\ phase = "flushed" => pending = Zero /\ ~flushing
OthersRest == ~Follows("figures") => unsure = 0 /\ ~flushing /\ phase \in {"up", "down"}

\* The detection hours: a pass is at the first hour not done, an hour with no row
\* gone has its detections, and what it has counted is over.
HourTypes ==
  /\ detections \in [Hours -> Rows] /\ counts \in [Hours -> Rows]
  /\ landed \in [Hours -> [untried : Int, tried : Int]]
  /\ gone \in SUBSET Hours
  /\ since \in {-1} \cup Hours /\ done \in {-1} \cup Hours
  /\ pass \in [at : {"rest", "loop", "store", "mark"}, hour : Int, left : Int, got : Rows]
HoursInv ==
  /\ done # -1 => since # -1 /\ since <= done
  /\ pass.at # "rest" => pass.hour = done /\ done # -1
  /\ \A h \in Hours :
       /\ h \notin gone /\ h >= done => detections[h] = landed[h]
       /\ since # -1 /\ h >= since /\ h < done => LongOver(h)
  /\ pass.at \in {"store", "mark"} =>
       LongOver(pass.hour) /\ (pass.hour \in gone \/ pass.got = landed[pass.hour])
  /\ pass.at = "mark" => counts[pass.hour] = pass.got
  /\ HoursAreWhole

\* The windows: in the order of their starts, none after the clock; the marks lie
\* on windows that are over.
Marks == [start : Int, id : Nat]
BlobTypes ==
  /\ windows \in Seq([start : Nat, blob : BOOLEAN, there : BOOLEAN])
  /\ {mark, savedMark, onDisk} \subseteq Marks
  /\ loaded \in BOOLEAN
  /\ prune \in [at : {"rest", "blobs", "save", "last save", "rows"}, cutoff : Int, chunks : Nat]
InStartOrder ==
  /\ \A w \in DOMAIN windows : windows[w].start <= now
  /\ \A v, w \in DOMAIN windows : v <= w => windows[v].start <= windows[w].start
MarksInv ==
  /\ \A m \in {mark, savedMark, onDisk} : m.start < now
  /\ \A m \in {mark, savedMark, onDisk} : m.id <= Len(windows)
  /\ prune.at # "rest" => prune.cutoff <= now
BlobsInv == InStartOrder /\ MarksInv /\ PruneIsWhole

\* All of it: what every reachable state of the loops satisfies.
UpkeepInv ==
  /\ ClockTypes /\ FigureTypes /\ FiguresInv /\ PhaseInv /\ OthersRest
  /\ HourTypes /\ HoursInv /\ BlobTypes /\ BlobsInv

-----------------------------------------------------------------------------
(* Upkeep: hours and sums.                                                 *)

\* There are at least two hours, numbered from 0.
LEMMA HoursAre == N \in Nat \ {0} /\ Hours = 0..N /\ 0 \in Hours /\ N \in Hours
PROOF
  <1>1. N \in Nat \ {0}
    BY UpkeepAssumption DEF N, HOUR
  <1>. QED
    BY <1>1 DEF Hours, N

\* Induction on the numbers to m, for a set.
LEMMA UpToAll ==
  ASSUME NEW m \in Nat, NEW S, 0 \in S, \A k \in 1..m : k - 1 \in S => k \in S
  PROVE  \A k \in 0..m : k \in S
PROOF
  <1>. DEFINE T == {k \in 0..m : k \notin S}
  <1>1. SUFFICES ASSUME T # {} PROVE FALSE
    OBVIOUS
  <1>2. IsFiniteSet(0..m)
    BY FS_Interval
  <1>3. IsFiniteSet(T)
    <2>1. T \subseteq 0..m
      OBVIOUS
    <2>. QED
      BY <1>2, <2>1, FS_Subset
  <1>. DEFINE f == [k \in 0..m |-> k]
  <1>4. \E k \in T : \A j \in T : f[k] <= f[j]
    <2>1. \A k \in T : f[k] \in Int
      OBVIOUS
    <2>. HIDE DEF T, f
    <2>. QED
      BY <1>1, <1>3, <2>1, LeastValue
  <1>5. PICK k \in T : \A j \in T : k <= j
    BY <1>4
  <1>6. k - 1 \in 0..m /\ k - 1 \notin T
    BY <1>5
  <1>. QED
    BY <1>6

\* Numbers have running totals.
LEMMA RunningTotals ==
  ASSUME NEW m \in Nat, NEW w, \A k \in 0..m : w[k] \in Int
  PROVE  \E g \in [0..m -> Int] : g[0] = w[0] /\ \A k \in 1..m : g[k] = g[k - 1] + w[k]
PROOF
  <1>. DEFINE Totals(g, n) == g[0] = w[0] /\ \A k \in 1..n : g[k] = g[k - 1] + w[k]
              S == {n \in 0..m : \E g \in [0..n -> Int] : Totals(g, n)}
  <1>1. 0 \in S
    <2>1. [k \in 0..0 |-> w[k]] \in [0..0 -> Int]
      OBVIOUS
    <2>2. Totals([k \in 0..0 |-> w[k]], 0)
      OBVIOUS
    <2>. HIDE DEF Totals
    <2>3. \E g \in [0..0 -> Int] : Totals(g, 0)
      BY <2>1, <2>2
    <2>. QED
      BY <2>3
  <1>2. ASSUME NEW n \in 1..m, n - 1 \in S PROVE n \in S
    <2>1. PICK g \in [0..(n - 1) -> Int] : Totals(g, n - 1)
      BY <1>2
    <2>. DEFINE h == [k \in 0..n |-> IF k = n THEN g[n - 1] + w[n] ELSE g[k]]
    <2>2. h \in [0..n -> Int]
      OBVIOUS
    <2>3. Totals(h, n)
      <3>1. h[0] = w[0]
        BY <2>1
      <3>2. ASSUME NEW k \in 1..n PROVE h[k] = h[k - 1] + w[k]
        <4>1. h[k - 1] = g[k - 1]
          OBVIOUS
        <4>2. CASE k = n
          BY <4>1, <4>2
        <4>3. CASE k # n
          <5>1. k \in 1..(n - 1)
            BY <4>3
          <5>. QED
            BY <2>1, <4>1, <5>1
        <4>. QED
          BY <4>2, <4>3
      <3>. QED
        BY <3>1, <3>2
    <2>. HIDE DEF h, Totals
    <2>4. \E x \in [0..n -> Int] : Totals(x, n)
      BY <2>2, <2>3
    <2>. QED
      BY <2>4
  <1>3. m \in S
    <2>. HIDE DEF S
    <2>1. \A k \in 0..m : k \in S
      BY <1>1, <1>2, UpToAll
    <2>. QED
      BY <2>1
  <1>. QED
    BY <1>3

\* Sum is the last of the running totals of a field.
LEMMA SumIs ==
  ASSUME NEW a, NEW f, NEW g \in [Hours -> Int],
         g[0] = a[0][f], \A k \in 1..N : g[k] = g[k - 1] + a[k][f]
  PROVE  Sum(a, f) = g[N]
PROOF
  <1>. DEFINE Step(h) == [k \in Hours |-> IF k = 0 THEN a[0][f] ELSE h[k - 1] + a[k][f]]
              run == CHOOSE h : h = Step(h)
  <1>1. g = Step(g)
    BY HoursAre
  <1>2. run = Step(run)
    <2>. HIDE DEF Step
    <2>. QED
      BY <1>1
  <1>3. Sum(a, f) = run[N]
    BY DEF Sum, N
  <1>. DEFINE S == {k \in Hours : run[k] = g[k]}
  <1>. HIDE DEF run
  <1>4. 0 \in S
    BY <1>2, HoursAre
  <1>5. \A k \in 1..N : k - 1 \in S => k \in S
    BY <1>2, HoursAre
  <1>6. \A k \in 0..N : k \in S
    <2>. HIDE DEF S
    <2>. QED
      BY <1>4, <1>5, HoursAre, UpToAll
  <1>. QED
    BY <1>3, <1>6, HoursAre

\* The running totals of a field of a table, of which Sum is the last.
LEMMA SumTotals ==
  ASSUME NEW a \in Tables, NEW f \in Fields
  PROVE  \E g \in [Hours -> Int] :
           /\ g[0] = a[0][f] /\ \A k \in 1..N : g[k] = g[k - 1] + a[k][f]
           /\ Sum(a, f) = g[N]
PROOF
  <1>. DEFINE w == [k \in Hours |-> a[k][f]]
  <1>1. \A k \in 0..N : w[k] = a[k][f] /\ w[k] \in Int
    BY HoursAre DEF Tables
  <1>. HIDE DEF w
  <1>2. PICK g \in [0..N -> Int] : g[0] = w[0] /\ \A k \in 1..N : g[k] = g[k - 1] + w[k]
    BY <1>1, HoursAre, RunningTotals
  <1>3. g \in [Hours -> Int] /\ g[0] = a[0][f] /\ \A k \in 1..N : g[k] = g[k - 1] + a[k][f]
    BY <1>1, <1>2, HoursAre
  <1>. QED
    BY <1>3, SumIs

\* The sum of two tables adds the sums of each figure.
LEMMA PlusIs ==
  ASSUME NEW a \in Tables, NEW b \in Tables
  PROVE  /\ Plus(a, b) \in Tables
         /\ \A f \in Fields : Sum(Plus(a, b), f) = Sum(a, f) + Sum(b, f)
PROOF
  <1>1. Plus(a, b) \in Tables
    BY DEF Plus, Tables
  <1>2. ASSUME NEW f \in Fields PROVE Sum(Plus(a, b), f) = Sum(a, f) + Sum(b, f)
    <2>1. PICK g \in [Hours -> Int] :
            /\ g[0] = a[0][f] /\ \A k \in 1..N : g[k] = g[k - 1] + a[k][f]
            /\ Sum(a, f) = g[N]
      BY SumTotals
    <2>2. PICK h \in [Hours -> Int] :
            /\ h[0] = b[0][f] /\ \A k \in 1..N : h[k] = h[k - 1] + b[k][f]
            /\ Sum(b, f) = h[N]
      BY SumTotals
    <2>. DEFINE s == [k \in Hours |-> g[k] + h[k]]
    <2>3. \A k \in Hours : Plus(a, b)[k][f] = a[k][f] + b[k][f] /\ a[k][f] \in Int
            /\ b[k][f] \in Int
      BY DEF Plus, Tables
    <2>4. s \in [Hours -> Int] /\ \A k \in Hours : s[k] = g[k] + h[k]
      OBVIOUS
    <2>. HIDE DEF s
    <2>5. s[0] = Plus(a, b)[0][f]
      BY <2>1, <2>2, <2>3, <2>4, HoursAre
    <2>6. ASSUME NEW k \in 1..N PROVE s[k] = s[k - 1] + Plus(a, b)[k][f]
      <3>1. k \in Hours /\ k - 1 \in Hours
        BY HoursAre
      <3>. QED
        BY <2>1, <2>2, <2>3, <2>4, <3>1
    <2>7. Sum(Plus(a, b), f) = s[N]
      BY <2>4, <2>5, <2>6, SumIs
    <2>. QED
      BY <2>1, <2>2, <2>4, <2>7, HoursAre
  <1>. QED
    BY <1>1, <1>2

\* The empty table sums to nothing.
LEMMA ZeroIs == Zero \in Tables /\ \A f \in Fields : Sum(Zero, f) = 0
PROOF
  <1>1. Zero \in Tables
    BY DEF Zero, Tables
  <1>2. ASSUME NEW f \in Fields PROVE Sum(Zero, f) = 0
    <2>. DEFINE s == [k \in Hours |-> 0]
    <2>1. \A k \in Hours : Zero[k][f] = 0
      BY DEF Zero
    <2>2. s \in [Hours -> Int] /\ s[0] = Zero[0][f] /\ \A k \in 1..N : s[k] = s[k - 1] + Zero[k][f]
      BY <2>1, HoursAre
    <2>3. s[N] = 0
      BY HoursAre
    <2>. HIDE DEF s
    <2>. QED
      BY <2>2, <2>3, SumIs
  <1>. QED
    BY <1>1, <1>2

\* A write that ran no, one or two times.
LEMMA TimesIs ==
  ASSUME NEW a \in Tables, NEW n \in 0..2
  PROVE  /\ Times(n, a) \in Tables
         /\ \A f \in Fields : Sum(Times(n, a), f) = n * Sum(a, f) /\ Sum(a, f) \in Int
PROOF
  <1>1. \A f \in Fields : Sum(a, f) \in Int
    <2>1. ASSUME NEW f \in Fields PROVE Sum(a, f) \in Int
      BY SumTotals, HoursAre
    <2>. QED
      BY <2>1
  <1>2. CASE n = 0
    <2>1. Times(0, a) = Zero
      BY DEF Times, Zero, Tables
    <2>. QED
      BY <1>1, <1>2, <2>1, ZeroIs
  <1>3. CASE n = 1
    <2>1. Times(1, a) = a
      BY DEF Times, Tables
    <2>. QED
      BY <1>1, <1>3, <2>1
  <1>4. CASE n = 2
    <2>1. Times(2, a) = Plus(a, a)
      BY DEF Times, Plus, Tables
    <2>. QED
      BY <1>1, <1>4, <2>1, PlusIs
  <1>. QED
    BY <1>2, <1>3, <1>4

-----------------------------------------------------------------------------
(* Upkeep: what a capture is counted as is what it owes.                   *)

\* The hours a capture lies in.
LEMMA HoursOfCapture ==
  ASSUME NEW c \in Captures
  PROVE  /\ c.start \in Nat /\ c.stop \in Nat /\ c.start <= c.stop /\ c.bytes \in Nat
         /\ Hour(c.start) \in Hours /\ LastHour(c) \in Hours /\ Hour(c.start) <= LastHour(c)
         /\ Hour(c.start) \in Nat /\ LastHour(c) \in Nat
         /\ 4 * Hour(c.start) <= c.start /\ c.start < 4 * Hour(c.start) + 4
         /\ c.start = c.stop => LastHour(c) = Hour(c.start)
         /\ c.start < c.stop => 4 * LastHour(c) < c.stop /\ c.stop <= 4 * LastHour(c) + 4
PROOF
  <1>1. c.start \in Nat /\ c.stop \in c.start..MaxTime /\ c.bytes \in Nat /\ MaxTime \in Nat
    BY UpkeepAssumption
  <1>2. \A t \in 0..MaxTime :
          /\ Hour(t) \in Nat /\ Hour(t) \in Hours /\ 4 * Hour(t) <= t /\ t < 4 * Hour(t) + 4
    BY <1>1 DEF Hour, HOUR, Hours
  <1>3. \A s, t \in 0..MaxTime : s <= t => Hour(s) <= Hour(t)
    BY <1>1 DEF Hour, HOUR
  <1>4. CASE c.start = c.stop
    BY <1>1, <1>2, <1>4 DEF LastHour
  <1>5. CASE c.start < c.stop
    <2>1. c.start \in 0..MaxTime /\ c.stop - 1 \in 0..MaxTime /\ c.start <= c.stop - 1
      BY <1>1, <1>5
    <2>2. LastHour(c) = Hour(c.stop - 1)
      BY <1>1, <1>5 DEF LastHour
    <2>3. Hour(c.start) <= Hour(c.stop - 1)
      BY <1>3, <2>1
    <2>4. 4 * Hour(c.stop - 1) <= c.stop - 1 /\ c.stop - 1 < 4 * Hour(c.stop - 1) + 4
      BY <1>2, <2>1
    <2>. QED
      BY <1>1, <1>2, <1>5, <2>1, <2>2, <2>3, <2>4
  <1>. QED
    BY <1>1, <1>4, <1>5

\* What is owed in one hour is the whole of it.
LEMMA OwedIs ==
  ASSUME NEW c \in Captures
  PROVE  /\ Owed(c) \in Tables
         /\ Sum(Owed(c), "captures") = 1 /\ Sum(Owed(c), "bytes") = c.bytes
         /\ Sum(Owed(c), "seconds") = c.stop - c.start
         /\ Sum(Owed(c), "deleted") = 0 /\ Sum(Owed(c), "active") = 0
PROOF
  <1>. DEFINE Whole(f) == CASE f = "captures" -> 1
                            [] f = "bytes" -> c.bytes
                            [] f = "seconds" -> c.stop - c.start
                            [] OTHER -> 0
  <1>1. \A f \in Fields : Whole(f) \in Int
    BY HoursOfCapture DEF Fields
  <1>2. \A h \in Hours : \A f \in Fields : Owed(c)[h][f] = IF h = Hour(c.start) THEN Whole(f) ELSE 0
    BY DEF Owed
  <1>3. Owed(c) \in Tables
    <2>1. Owed(c) = [h \in Hours |-> [f \in Fields |-> Owed(c)[h][f]]]
      BY DEF Owed
    <2>. HIDE DEF Whole
    <2>2. \A h \in Hours : \A f \in Fields : Owed(c)[h][f] \in Int
      BY <1>1, <1>2
    <2>. QED
      BY <2>1, <2>2 DEF Tables
  <1>4. ASSUME NEW f \in Fields PROVE Sum(Owed(c), f) = Whole(f)
    <2>. DEFINE g == [h \in Hours |-> IF h < Hour(c.start) THEN 0 ELSE Whole(f)]
    <2>. HIDE DEF Whole
    <2>1. g \in [Hours -> Int]
      BY <1>1
    <2>2. g[0] = Owed(c)[0][f]
      BY <1>2, HoursAre, HoursOfCapture
    <2>3. ASSUME NEW k \in 1..N PROVE g[k] = g[k - 1] + Owed(c)[k][f]
      <3>1. k \in Hours /\ k - 1 \in Hours /\ k - 1 < k
        BY HoursAre
      <3>. QED
        BY <1>1, <1>2, <3>1, HoursOfCapture
    <2>4. g[N] = Whole(f)
      BY HoursAre, HoursOfCapture
    <2>. HIDE DEF g
    <2>. QED
      BY <2>1, <2>2, <2>3, <2>4, SumIs
  <1>5. {"captures", "bytes", "seconds", "deleted", "active"} \subseteq Fields
    BY DEF Fields
  <1>. QED
    BY <1>3, <1>4, <1>5

\* The rounded shares are whole numbers of bytes.
LEMMA ShareIs ==
  ASSUME NEW c \in Captures, NEW h \in Hour(c.start)..LastHour(c)
  PROVE  /\ h \in Hours /\ SecondsIn(c, h) \in Int
         /\ h < LastHour(c) => Share(c, h) \in Int
PROOF
  <1>1. h \in Hours /\ h \in Nat
    BY HoursOfCapture, HoursAre
  <1>2. SecondsIn(c, h) \in Int
    BY <1>1, HoursOfCapture DEF SecondsIn, HOUR
  <1>3. ASSUME h < LastHour(c) PROVE Share(c, h) \in Int
    <2>0. c.start # c.stop
      BY <1>1, <1>3, HoursOfCapture
    <2>. DEFINE s == c.start
                t == c.stop
    <2>1. c.stop - c.start \in Nat \ {0}
      <3>1. s \in Nat /\ t \in Nat /\ s <= t /\ s # t
        BY <2>0, HoursOfCapture
      <3>. HIDE DEF s, t
      <3>2. t - s \in Nat \ {0}
        BY <3>1
      <3>. QED
        BY <3>2 DEF s, t
    <2>2. \A n \in Int : \A d \in Nat \ {0} : n \div d \in Int /\ n % d \in Int
      OBVIOUS
    <2>3. c.bytes * SecondsIn(c, h) \in Int
      BY <1>2, HoursOfCapture
    <2>4. \A n \in Int : \A d \in Nat \ {0} : Round(n, d) \in Int
      BY <2>2 DEF Round
    <2>. QED
      BY <2>1, <2>3, <2>4 DEF Share
  <1>. QED
    BY <1>1, <1>2, <1>3

\* What the hours before the last were given, hour by hour.
LEMMA GivenIs ==
  ASSUME NEW c \in Captures
  PROVE  \E g \in [0..(LastHour(c) - Hour(c.start)) -> Int] :
           /\ g[0] = 0
           /\ \A n \in 1..(LastHour(c) - Hour(c.start)) :
                g[n] = g[n - 1] + Share(c, Hour(c.start) + n - 1)
           /\ Given(c) = g[LastHour(c) - Hour(c.start)]
PROOF
  <1>. DEFINE m == LastHour(c) - Hour(c.start)
              w == [n \in 0..m |-> IF n = 0 THEN 0 ELSE Share(c, Hour(c.start) + n - 1)]
              Step(h) == [n \in 0..m |-> IF n = 0 THEN 0
                                         ELSE h[n - 1] + Share(c, Hour(c.start) + n - 1)]
              given == CHOOSE h : h = Step(h)
  <1>1. m \in Nat
    BY HoursOfCapture
  <1>2. Given(c) = given[m]
    BY DEF Given
  <1>3. \A n \in 0..m : w[n] \in Int
    <2>1. \A n \in 1..m : Share(c, Hour(c.start) + n - 1) \in Int
      <3>1. ASSUME NEW n \in 1..m PROVE Share(c, Hour(c.start) + n - 1) \in Int
        <4>1. /\ Hour(c.start) + n - 1 \in Hour(c.start)..LastHour(c)
              /\ Hour(c.start) + n - 1 < LastHour(c)
          BY HoursOfCapture
        <4>. QED
          BY <4>1, ShareIs
      <3>. QED
        BY <3>1
    <2>. QED
      BY <2>1
  <1>4. w[0] = 0 /\ \A n \in 1..m : w[n] = Share(c, Hour(c.start) + n - 1)
    BY <1>1
  <1>. HIDE DEF m, w
  <1>5. PICK g \in [0..m -> Int] : g[0] = w[0] /\ \A n \in 1..m : g[n] = g[n - 1] + w[n]
    BY <1>1, <1>3, RunningTotals
  <1>6. g = Step(g)
    BY <1>1, <1>4, <1>5
  <1>7. given = Step(given)
    <2>. HIDE DEF Step
    <2>. QED
      BY <1>6
  <1>. HIDE DEF given
  <1>. DEFINE S == {n \in 0..m : given[n] = g[n]}
  <1>8. 0 \in S
    BY <1>1, <1>4, <1>5, <1>7
  <1>9. \A n \in 1..m : n - 1 \in S => n \in S
    BY <1>1, <1>4, <1>5, <1>7
  <1>10. \A n \in 0..m : n \in S
    <2>. HIDE DEF S
    <2>. QED
      BY <1>1, <1>8, <1>9, UpToAll
  <1>11. Given(c) = g[m]
    BY <1>1, <1>2, <1>10
  <1>. QED
    BY <1>4, <1>5, <1>11 DEF m

\* The seconds of the hours add up to the length of the capture.
LEMMA SecondsAddUp ==
  ASSUME NEW c \in Captures,
         \A h \in Hours : Recorded(c)[h]["seconds"] =
                            IF h \in Hour(c.start)..LastHour(c) THEN SecondsIn(c, h) ELSE 0
  PROVE  Sum(Recorded(c), "seconds") = c.stop - c.start
PROOF
  <1>. DEFINE A == Hour(c.start)
              B == LastHour(c)
              s == c.start
              t == c.stop
              g == [h \in Hours |-> IF h < A THEN 0 ELSE IF h < B THEN 4 * h + 4 - s ELSE t - s]
  <1>1. /\ s \in Nat /\ t \in Nat /\ s <= t /\ A \in Nat /\ B \in Nat /\ A <= B
        /\ A \in Hours /\ B \in Hours
        /\ 4 * A <= s /\ s < 4 * A + 4 /\ (s = t => B = A)
        /\ s < t => 4 * B < t /\ t <= 4 * B + 4
    BY HoursOfCapture
  <1>2. \A h \in Nat : SecondsIn(c, h) = (IF t < 4 * h + 4 THEN t ELSE 4 * h + 4)
                                          - (IF s > 4 * h THEN s ELSE 4 * h)
    BY <1>1 DEF SecondsIn, HOUR
  <1>3. \A h \in Hours : Recorded(c)[h]["seconds"] = IF A <= h /\ h <= B THEN SecondsIn(c, h) ELSE 0
    BY <1>1, HoursAre
  <1>4. \A h \in Hours : g[h] = IF h < A THEN 0 ELSE IF h < B THEN 4 * h + 4 - s ELSE t - s
    OBVIOUS
  <1>5. g \in [Hours -> Int]
    BY <1>1, HoursAre
  <1>. HIDE DEF A, B, s, t, g
  <1>6. g[0] = Recorded(c)[0]["seconds"]
    BY <1>1, <1>2, <1>3, <1>4, HoursAre
  <1>7. ASSUME NEW k \in 1..N PROVE g[k] = g[k - 1] + Recorded(c)[k]["seconds"]
    <2>1. k \in Hours /\ k - 1 \in Hours /\ k \in Nat /\ k >= 1
      BY HoursAre
    <2>2. g[k] = IF k < A THEN 0 ELSE IF k < B THEN 4 * k + 4 - s ELSE t - s
      BY <1>4, <2>1
    <2>3. g[k - 1] = IF k - 1 < A THEN 0 ELSE IF k - 1 < B THEN 4 * k - s ELSE t - s
      BY <1>1, <1>4, <2>1
    <2>4. Recorded(c)[k]["seconds"] = IF A <= k /\ k <= B THEN SecondsIn(c, k) ELSE 0
      BY <1>3, <2>1
    <2>5. CASE k < A
      BY <1>1, <2>1, <2>2, <2>3, <2>4, <2>5
    <2>6. CASE B < k
      BY <1>1, <2>1, <2>2, <2>3, <2>4, <2>6
    <2>7. CASE A <= k /\ k <= B
      <3>1. Recorded(c)[k]["seconds"] = (IF t < 4 * k + 4 THEN t ELSE 4 * k + 4)
                                        - (IF s > 4 * k THEN s ELSE 4 * k)
        BY <1>2, <2>1, <2>4, <2>7
      <3>. QED
        BY <1>1, <2>1, <2>2, <2>3, <2>7, <3>1
    <2>. QED
      BY <1>1, <2>1, <2>5, <2>6, <2>7
  <1>8. g[N] = t - s
    BY <1>1, <1>4, HoursAre
  <1>. QED
    BY <1>5, <1>6, <1>7, <1>8, SumIs DEF s, t

\* So do the bytes: the last hour has what the rounding of the others left.
LEMMA BytesAddUp ==
  ASSUME NEW c \in Captures,
         \A h \in Hours : Recorded(c)[h]["bytes"] =
                            IF h \in Hour(c.start)..LastHour(c) THEN BytesIn(c, h) ELSE 0
  PROVE  Sum(Recorded(c), "bytes") = c.bytes
PROOF
  <1>. DEFINE A == Hour(c.start)
              B == LastHour(c)
  <1>1. PICK p \in [0..(B - A) -> Int] :
          /\ p[0] = 0 /\ \A n \in 1..(B - A) : p[n] = p[n - 1] + Share(c, A + n - 1)
          /\ Given(c) = p[B - A]
    BY GivenIs
  <1>. DEFINE g == [h \in Hours |-> IF h < A THEN 0 ELSE IF h < B THEN p[h - A + 1] ELSE c.bytes]
  <1>2. A \in Nat /\ B \in Nat /\ A <= B /\ A \in Hours /\ B \in Hours /\ c.bytes \in Nat
    BY HoursOfCapture
  <1>3. \A h \in Hours : Recorded(c)[h]["bytes"] =
                           IF A <= h /\ h <= B
                           THEN IF h < B THEN Share(c, h) ELSE c.bytes - p[B - A] ELSE 0
    BY <1>1, <1>2, HoursAre DEF BytesIn
  <1>4. \A h \in Hours : g[h] = IF h < A THEN 0 ELSE IF h < B THEN p[h - A + 1] ELSE c.bytes
    OBVIOUS
  <1>. HIDE DEF A, B
  <1>5. g \in [Hours -> Int]
    <2>1. \A h \in Hours : A <= h /\ h < B => h - A + 1 \in 0..(B - A)
      BY <1>2, HoursAre
    <2>2. \A h \in Hours : g[h] \in Int
      BY <1>1, <1>2, <2>1, HoursAre
    <2>. QED
      BY <2>2
  <1>. HIDE DEF g
  <1>6. g[0] = Recorded(c)[0]["bytes"]
    <2>1. CASE A = 0 /\ B > 0
      <3>1. 1 \in 1..(B - A) /\ A + 1 - 1 = 0
        BY <1>2, <2>1
      <3>2. p[1] = p[1 - 1] + Share(c, A + 1 - 1)
        BY <1>1, <3>1
      <3>3. Share(c, 0) \in Int
        BY <2>1, HoursAre, HoursOfCapture, ShareIs DEF A, B
      <3>. QED
        BY <1>1, <1>2, <1>3, <1>4, <2>1, <3>1, <3>2, <3>3, HoursAre
    <2>2. CASE A # 0
      BY <1>2, <1>3, <1>4, <2>2, HoursAre
    <2>3. CASE A = 0 /\ B = 0
      <3>1. p[B - A] = 0
        BY <1>1, <2>3
      <3>. QED
        BY <1>2, <1>3, <1>4, <2>3, <3>1, HoursAre
    <2>. QED
      BY <1>2, <2>1, <2>2, <2>3
  <1>7. ASSUME NEW k \in 1..N PROVE g[k] = g[k - 1] + Recorded(c)[k]["bytes"]
    <2>1. k \in Hours /\ k - 1 \in Hours /\ k \in Nat /\ k >= 1
      BY HoursAre
    <2>2. g[k] = IF k < A THEN 0 ELSE IF k < B THEN p[k - A + 1] ELSE c.bytes
      BY <1>4, <2>1
    <2>3. g[k - 1] = IF k - 1 < A THEN 0 ELSE IF k - 1 < B THEN p[k - A] ELSE c.bytes
      <3>1. k - 1 - A + 1 = k - A
        BY <1>2, <2>1
      <3>. QED
        BY <1>4, <2>1, <3>1
    <2>4. Recorded(c)[k]["bytes"] = IF A <= k /\ k <= B
                                    THEN IF k < B THEN Share(c, k) ELSE c.bytes - p[B - A] ELSE 0
      BY <1>3, <2>1
    <2>5. CASE k < A \/ k > B
      BY <1>2, <2>1, <2>2, <2>3, <2>4, <2>5
    <2>6. CASE A <= k /\ k < B
      <3>. DEFINE n == k - A + 1
      <3>1. n \in 1..(B - A) /\ n - 1 = k - A /\ A + n - 1 = k
        BY <1>2, <2>1, <2>6
      <3>2. p[k - A + 1] = p[k - A] + Share(c, k)
        <4>. HIDE DEF n
        <4>1. p[n] = p[n - 1] + Share(c, A + n - 1)
          BY <1>1, <3>1
        <4>2. p[n] = p[k - A] + Share(c, k)
          BY <3>1, <4>1
        <4>. QED
          BY <4>2 DEF n
      <3>3. p[k - A] \in Int /\ p[k - A + 1] \in Int
        BY <1>1, <1>2, <2>1, <2>6
      <3>4. k = A => p[k - A] = 0
        BY <1>1, <1>2
      <3>5. Share(c, k) \in Int
        <4>1. k \in A..B
          BY <1>2, <2>1, <2>6
        <4>. QED
          BY <2>6, <4>1, ShareIs DEF A, B
      <3>. QED
        BY <1>2, <2>1, <2>2, <2>3, <2>4, <2>6, <3>2, <3>3, <3>4, <3>5
    <2>7. CASE k = B
      <3>1. p[B - A] \in Int
        BY <1>1, <1>2
      <3>2. B = A => p[B - A] = 0
        BY <1>1, <1>2
      <3>. QED
        BY <1>2, <2>1, <2>2, <2>3, <2>4, <2>7, <3>1, <3>2
    <2>. QED
      BY <1>2, <2>1, <2>5, <2>6, <2>7
  <1>8. g[N] = c.bytes
    BY <1>2, <1>4, HoursAre
  <1>. QED
    BY <1>5, <1>6, <1>7, <1>8, SumIs

\* A capture is counted whole: once, with all its bytes and seconds.
LEMMA RecordedIs ==
  ASSUME NEW c \in Captures
  PROVE  /\ Recorded(c) \in Tables
         /\ \A f \in Fields : Sum(Recorded(c), f) = Sum(Owed(c), f)
         /\ \A f \in Fields : Sum(Owed(c), f) >= 0
PROOF
  <1>. DEFINE R == Hour(c.start)..LastHour(c)
  <1>1. /\ \A h \in Hours : Recorded(c)[h]["captures"] = IF h = Hour(c.start) THEN 1 ELSE 0
        /\ \A h \in Hours : Recorded(c)[h]["bytes"] = IF h \in R THEN BytesIn(c, h) ELSE 0
        /\ \A h \in Hours : Recorded(c)[h]["seconds"] = IF h \in R THEN SecondsIn(c, h) ELSE 0
        /\ \A h \in Hours : Recorded(c)[h]["deleted"] = 0 /\ Recorded(c)[h]["active"] = 0
    BY DEF Recorded, Fields
  <1>2. Given(c) \in Int
    <2>. DEFINE m == LastHour(c) - Hour(c.start)
    <2>1. m \in 0..m
      BY HoursOfCapture
    <2>2. \E g \in [0..m -> Int] : Given(c) = g[m]
      BY GivenIs
    <2>. HIDE DEF m
    <2>. QED
      BY <2>1, <2>2
  <1>3. \A h \in R : BytesIn(c, h) \in Int
    <2>1. ASSUME NEW h \in R PROVE BytesIn(c, h) \in Int
      BY <1>2, ShareIs, HoursOfCapture DEF BytesIn
    <2>. QED
      BY <2>1
  <1>4. \A h \in R : SecondsIn(c, h) \in Int
    BY ShareIs
  <1>. HIDE DEF R
  <1>5. Recorded(c) \in Tables
    <2>1. \A h \in Hours : \A f \in Fields : Recorded(c)[h][f] \in Int
      BY <1>1, <1>3, <1>4 DEF Fields
    <2>2. Recorded(c) = [h \in Hours |-> [f \in Fields |-> Recorded(c)[h][f]]]
      BY DEF Recorded
    <2>. QED
      BY <2>1, <2>2 DEF Tables
  <1>6. Sum(Recorded(c), "seconds") = c.stop - c.start
    BY <1>1, SecondsAddUp DEF R
  <1>7. Sum(Recorded(c), "bytes") = c.bytes
    BY <1>1, BytesAddUp DEF R
  <1>8. Sum(Recorded(c), "captures") = 1
    <2>. DEFINE g == [h \in Hours |-> IF h < Hour(c.start) THEN 0 ELSE 1]
    <2>1. g \in [Hours -> Int] /\ g[0] = Recorded(c)[0]["captures"] /\ g[N] = 1
      BY <1>1, HoursAre, HoursOfCapture
    <2>2. ASSUME NEW k \in 1..N PROVE g[k] = g[k - 1] + Recorded(c)[k]["captures"]
      <3>1. k \in Hours /\ k - 1 \in Hours
        BY HoursAre
      <3>. QED
        BY <1>1, <3>1, HoursAre, HoursOfCapture
    <2>. HIDE DEF g
    <2>. QED
      BY <2>1, <2>2, SumIs
  <1>9. Sum(Recorded(c), "deleted") = 0 /\ Sum(Recorded(c), "active") = 0
    <2>. DEFINE g == [h \in Hours |-> 0]
    <2>1. g \in [Hours -> Int] /\ g[0] = 0 /\ g[N] = 0 /\ \A k \in 1..N : g[k] = 0 /\ g[k - 1] = 0
      BY HoursAre
    <2>. HIDE DEF g
    <2>2. \A f \in {"deleted", "active"} :
            g[0] = Recorded(c)[0][f] /\ \A k \in 1..N : g[k] = g[k - 1] + Recorded(c)[k][f]
      BY <1>1, <2>1, HoursAre
    <2>. QED
      BY <2>1, <2>2, SumIs
  <1>10. c.stop - c.start >= 0 /\ c.bytes >= 0
    BY HoursOfCapture
  <1>. QED
    BY <1>5, <1>6, <1>7, <1>8, <1>9, <1>10, OwedIs DEF Fields

\* One event in one hour.
LEMMA OneIs ==
  ASSUME NEW h \in Hours, NEW e \in Fields
  PROVE  One(h, e, 1) \in Tables /\ \A f \in Fields : Sum(One(h, e, 1), f) >= 0
PROOF
  <1>1. \A k \in Hours : \A f \in Fields : One(h, e, 1)[k][f] = IF k = h /\ f = e THEN 1 ELSE 0
    BY DEF One, Zero
  <1>2. One(h, e, 1) \in Tables
    BY DEF One, Zero, Tables
  <1>3. ASSUME NEW f \in Fields PROVE Sum(One(h, e, 1), f) >= 0
    <2>. DEFINE g == [k \in Hours |-> IF f = e /\ h <= k THEN 1 ELSE 0]
    <2>1. g \in [Hours -> Int] /\ g[0] = One(h, e, 1)[0][f] /\ g[N] >= 0
      BY <1>1, HoursAre
    <2>2. ASSUME NEW k \in 1..N PROVE g[k] = g[k - 1] + One(h, e, 1)[k][f]
      BY <1>1, HoursAre
    <2>. HIDE DEF g
    <2>. QED
      BY <2>1, <2>2, SumIs
  <1>. QED
    BY <1>2, <1>3

-----------------------------------------------------------------------------
(* Upkeep: the figures.                                                    *)

\* What is kept is what is stored, in hand and taken.
LEMMA KeptIs ==
  ASSUME NEW a \in Tables, NEW b \in Tables, NEW d \in Tables, NEW f \in Fields
  PROVE  /\ Sum(Plus(Plus(a, b), d), f) = Sum(a, f) + Sum(b, f) + Sum(d, f)
         /\ Sum(a, f) \in Int /\ Sum(b, f) \in Int /\ Sum(d, f) \in Int
PROOF
  <1>1. 1 \in 0..2
    OBVIOUS
  <1>2. Plus(a, b) \in Tables
    BY PlusIs
  <1>3. Sum(a, f) \in Int /\ Sum(b, f) \in Int /\ Sum(d, f) \in Int
    BY <1>1, TimesIs
  <1>4. Sum(Plus(Plus(a, b), d), f) = Sum(Plus(a, b), f) + Sum(d, f)
    BY <1>2, PlusIs
  <1>5. Sum(Plus(a, b), f) = Sum(a, f) + Sum(b, f)
    BY PlusIs
  <1>. QED
    BY <1>3, <1>4, <1>5

\* What an event adds to the pending figures it also owes.
LEMMA CountsKeepFigures ==
  ASSUME UpkeepInv, NEW added \in Tables, NEW owed \in Tables,
         \A f \in Fields : Sum(added, f) = Sum(owed, f) /\ Sum(owed, f) >= 0,
         Counts(added, owed)
  PROVE  FigureTypes' /\ FiguresInv' /\ PhaseInv' /\ OthersRest'
PROOF
  <1>1. /\ pending \in Tables /\ taken \in Tables /\ stored \in Tables /\ recorded \in Tables
        /\ FigureTypes /\ PhaseInv /\ FiguresInv /\ OthersRest
    BY DEF UpkeepInv, FigureTypes
  <1>2. /\ pending' = Plus(pending, added) /\ recorded' = Plus(recorded, owed)
        /\ UNCHANGED <<life, taken, flushing, stored, unsure, phase>>
        /\ phase \in {"up", "stopping"} /\ Follows("figures")
    BY DEF Counts
  <1>3. pending' \in Tables /\ recorded' \in Tables /\ taken' \in Tables /\ stored' \in Tables
    BY <1>1, <1>2, PlusIs
  <1>4. FigureTypes'
    BY <1>1, <1>2, <1>3 DEF FigureTypes
  <1>5. ASSUME NEW f \in Fields
        PROVE  /\ Sum(pending', f) >= 0 /\ Sum(taken', f) >= 0
               /\ Sum(Kept', f) >= Sum(recorded', f)
               /\ unsure' = 0 => Sum(Kept', f) = Sum(recorded', f)
    <2>1. Sum(Kept', f) = Sum(pending', f) + Sum(taken', f) + Sum(stored', f)
      BY <1>3, KeptIs DEF Kept
    <2>2. /\ Sum(Kept, f) = Sum(pending, f) + Sum(taken, f) + Sum(stored, f)
          /\ Sum(pending, f) \in Int /\ Sum(taken, f) \in Int /\ Sum(stored, f) \in Int
      BY <1>1, KeptIs DEF Kept
    <2>3. Sum(recorded, f) \in Int /\ Sum(added, f) \in Int /\ Sum(owed, f) \in Int
      BY <1>1, KeptIs
    <2>4. /\ Sum(pending', f) = Sum(pending, f) + Sum(added, f)
          /\ Sum(recorded', f) = Sum(recorded, f) + Sum(owed, f)
      BY <1>1, <1>2, PlusIs
    <2>5. /\ Sum(pending, f) >= 0 /\ Sum(taken, f) >= 0
          /\ Sum(Kept, f) >= Sum(recorded, f)
          /\ unsure = 0 => Sum(Kept, f) = Sum(recorded, f)
      BY <1>1 DEF FiguresInv
    <2>6. taken' = taken /\ stored' = stored /\ unsure' = unsure
      BY <1>2
    <2>. QED
      BY <2>1, <2>2, <2>3, <2>4, <2>5, <2>6
  <1>6. FiguresInv'
    BY <1>5 DEF FiguresInv
  <1>7. PhaseInv' /\ OthersRest'
    BY <1>1, <1>2 DEF PhaseInv, OthersRest, Follows
  <1>. QED
    BY <1>4, <1>6, <1>7

\* Each hook of the collection adds as much to what is owed as to what is in
\* hand.
LEMMA AddingKeepsFigures ==
  ASSUME UpkeepInv, AddRecorded \/ AddDeleted \/ AddActive
  PROVE  FigureTypes' /\ FiguresInv' /\ PhaseInv' /\ OthersRest'
PROOF
  <1>1. CASE AddRecorded
    <2>1. PICK c \in Captures : Counts(Recorded(c), Owed(c))
      BY <1>1 DEF AddRecorded
    <2>. QED
      BY <2>1, RecordedIs, OwedIs, CountsKeepFigures
  <1>2. 0 \in Hours /\ 1 \in Hours /\ "deleted" \in Fields /\ "active" \in Fields
    BY HoursAre DEF Fields
  <1>3. CASE AddDeleted
    BY <1>2, <1>3, OneIs, CountsKeepFigures DEF AddDeleted
  <1>4. CASE AddActive
    BY <1>2, <1>4, OneIs, CountsKeepFigures DEF AddActive
  <1>. QED
    BY <1>1, <1>3, <1>4

\* Taking the figures moves them; nothing else can be taken meanwhile.
LEMMA TakeKeepsFigures ==
  ASSUME UpkeepInv, Take
  PROVE  FigureTypes' /\ FiguresInv' /\ PhaseInv' /\ OthersRest'
PROOF
  <1>1. /\ pending \in Tables /\ taken \in Tables /\ stored \in Tables /\ recorded \in Tables
        /\ FigureTypes /\ PhaseInv /\ FiguresInv /\ OthersRest
    BY DEF UpkeepInv, FigureTypes
  <1>2. /\ taken' = pending /\ pending' = Zero /\ flushing' = TRUE
        /\ UNCHANGED <<life, stored, recorded, unsure, phase>>
        /\ phase \in {"up", "drained"} /\ ~flushing /\ Follows("figures")
    BY DEF Take
  <1>3. Zero \in Tables /\ taken = Zero
    BY <1>1, <1>2, ZeroIs DEF FigureTypes
  <1>4. FigureTypes'
    BY <1>1, <1>2, <1>3 DEF FigureTypes
  <1>5. ASSUME NEW f \in Fields
        PROVE  /\ Sum(pending', f) >= 0 /\ Sum(taken', f) >= 0
               /\ Sum(Kept', f) >= Sum(recorded', f)
               /\ unsure' = 0 => Sum(Kept', f) = Sum(recorded', f)
    <2>1. Sum(Kept', f) = Sum(Zero, f) + Sum(pending, f) + Sum(stored, f)
      BY <1>1, <1>2, <1>3, KeptIs DEF Kept
    <2>2. /\ Sum(Kept, f) = Sum(pending, f) + Sum(Zero, f) + Sum(stored, f)
          /\ Sum(pending, f) \in Int /\ Sum(stored, f) \in Int
      BY <1>1, <1>3, KeptIs DEF Kept
    <2>3. Sum(Zero, f) = 0
      BY ZeroIs
    <2>4. /\ Sum(pending, f) >= 0
          /\ Sum(Kept, f) >= Sum(recorded, f)
          /\ unsure = 0 => Sum(Kept, f) = Sum(recorded, f)
      BY <1>1 DEF FiguresInv
    <2>5. pending' = Zero /\ taken' = pending /\ recorded' = recorded /\ unsure' = unsure
      BY <1>2
    <2>. QED
      BY <2>1, <2>2, <2>3, <2>4, <2>5
  <1>6. FiguresInv'
    BY <1>5 DEF FiguresInv
  <1>7. PhaseInv' /\ OthersRest'
    BY <1>1, <1>2 DEF PhaseInv, OthersRest, Follows
  <1>. QED
    BY <1>4, <1>6, <1>7

\* An answered write stores what was taken, once or twice.
LEMMA FlushedKeepsFigures ==
  ASSUME UpkeepInv, Flushed
  PROVE  FigureTypes' /\ FiguresInv' /\ PhaseInv' /\ OthersRest'
PROOF
  <1>1. /\ pending \in Tables /\ taken \in Tables /\ stored \in Tables /\ recorded \in Tables
        /\ FigureTypes /\ PhaseInv /\ FiguresInv /\ OthersRest
        /\ unsure \in 0..(MaxUnsure + 1) /\ MaxUnsure \in Nat
    BY UpkeepAssumption DEF UpkeepInv, FigureTypes
  <1>2. PICK times \in 1..2 :
          /\ stored' = Plus(stored, Times(times, taken))
          /\ unsure' = unsure + times - 1
          /\ times = 2 => unsure < MaxUnsure
    BY DEF Flushed
  <1>3. /\ flushing /\ flushing' = FALSE /\ taken' = Zero
        /\ phase' = IF phase = "drained" THEN "flushed" ELSE phase
        /\ UNCHANGED <<life, pending, recorded>>
    BY DEF Flushed
  <1>4. times \in 0..2 /\ Times(times, taken) \in Tables
    BY <1>1, <1>2, TimesIs
  <1>5. Zero \in Tables /\ stored' \in Tables
    BY <1>1, <1>2, <1>4, ZeroIs, PlusIs
  <1>6. FigureTypes'
    <2>1. unsure' \in 0..(MaxUnsure + 1)
      BY <1>1, <1>2
    <2>. QED
      BY <1>1, <1>3, <1>5, <2>1 DEF FigureTypes
  <1>7. ASSUME NEW f \in Fields
        PROVE  /\ Sum(pending', f) >= 0 /\ Sum(taken', f) >= 0
               /\ Sum(Kept', f) >= Sum(recorded', f)
               /\ unsure' = 0 => Sum(Kept', f) = Sum(recorded', f)
    <2>1. Sum(Kept', f) = Sum(pending, f) + Sum(Zero, f) + Sum(stored', f)
      BY <1>1, <1>3, <1>5, KeptIs DEF Kept
    <2>2. /\ Sum(Kept, f) = Sum(pending, f) + Sum(taken, f) + Sum(stored, f)
          /\ Sum(pending, f) \in Int /\ Sum(taken, f) \in Int /\ Sum(stored, f) \in Int
      BY <1>1, KeptIs DEF Kept
    <2>3. Sum(Zero, f) = 0 /\ Sum(recorded, f) \in Int
      BY <1>1, ZeroIs, KeptIs
    <2>4. Sum(stored', f) = Sum(stored, f) + times * Sum(taken, f)
      BY <1>1, <1>2, <1>4, PlusIs, TimesIs
    <2>5. /\ Sum(pending, f) >= 0 /\ Sum(taken, f) >= 0
          /\ Sum(Kept, f) >= Sum(recorded, f)
          /\ unsure = 0 => Sum(Kept, f) = Sum(recorded, f)
      BY <1>1 DEF FiguresInv
    <2>6. pending' = pending /\ taken' = Zero /\ recorded' = recorded
      BY <1>3
    <2>7. CASE times = 1
      BY <1>1, <1>2, <2>1, <2>2, <2>3, <2>4, <2>5, <2>6, <2>7
    <2>8. CASE times = 2
      <3>1. unsure' # 0
        BY <1>1, <1>2, <2>8
      <3>. QED
        BY <2>1, <2>2, <2>3, <2>4, <2>5, <2>6, <2>8, <3>1
    <2>. QED
      BY <2>7, <2>8
  <1>8. FiguresInv'
    BY <1>7 DEF FiguresInv
  <1>9. PhaseInv'
    BY <1>1, <1>2, <1>3 DEF PhaseInv
  <1>10. OthersRest'
    BY <1>1, <1>2, <1>3 DEF OthersRest, Follows
  <1>. QED
    BY <1>6, <1>8, <1>9, <1>10

\* A write that raised, or was cancelled, puts the figures back.
LEMMA FailedFlushKeepsFigures ==
  ASSUME UpkeepInv, FlushFails
  PROVE  FigureTypes' /\ FiguresInv' /\ PhaseInv' /\ OthersRest'
PROOF
  <1>1. /\ pending \in Tables /\ taken \in Tables /\ stored \in Tables /\ recorded \in Tables
        /\ FigureTypes /\ PhaseInv /\ FiguresInv /\ OthersRest
        /\ unsure \in 0..(MaxUnsure + 1) /\ MaxUnsure \in Nat
    BY UpkeepAssumption DEF UpkeepInv, FigureTypes
  <1>2. PICK times \in 0..1 : stored' = Plus(stored, Times(times, taken))
    BY DEF FlushFails
  <1>3. /\ flushing /\ flushing' = FALSE /\ taken' = Zero /\ unsure' = unsure + 1
        /\ phase' = IF phase = "drained" THEN "down" ELSE phase
        /\ phase = "stopping" \/ unsure < MaxUnsure
        /\ pending' = Plus(pending, taken)
        /\ UNCHANGED <<life, recorded>>
    BY DEF FlushFails, PutBack
  <1>4. times \in 0..2 /\ Times(times, taken) \in Tables
    BY <1>1, <1>2, TimesIs
  <1>5. Zero \in Tables /\ stored' \in Tables /\ pending' \in Tables
    BY <1>1, <1>2, <1>3, <1>4, ZeroIs, PlusIs
  <1>6. unsure' \in 0..(MaxUnsure + 1) /\ unsure' # 0
    BY <1>1, <1>3 DEF PhaseInv
  <1>7. FigureTypes'
    BY <1>1, <1>3, <1>5, <1>6 DEF FigureTypes
  <1>8. ASSUME NEW f \in Fields
        PROVE  /\ Sum(pending', f) >= 0 /\ Sum(taken', f) >= 0
               /\ Sum(Kept', f) >= Sum(recorded', f)
    <2>1. Sum(Kept', f) = Sum(pending', f) + Sum(Zero, f) + Sum(stored', f)
      BY <1>3, <1>5, KeptIs DEF Kept
    <2>2. /\ Sum(Kept, f) = Sum(pending, f) + Sum(taken, f) + Sum(stored, f)
          /\ Sum(pending, f) \in Int /\ Sum(taken, f) \in Int /\ Sum(stored, f) \in Int
      BY <1>1, KeptIs DEF Kept
    <2>3. Sum(Zero, f) = 0 /\ Sum(recorded, f) \in Int
      BY <1>1, ZeroIs, KeptIs
    <2>4. /\ Sum(stored', f) = Sum(stored, f) + times * Sum(taken, f)
          /\ Sum(pending', f) = Sum(pending, f) + Sum(taken, f)
      BY <1>1, <1>2, <1>3, <1>4, PlusIs, TimesIs
    <2>5. /\ Sum(pending, f) >= 0 /\ Sum(taken, f) >= 0
          /\ Sum(Kept, f) >= Sum(recorded, f)
      BY <1>1 DEF FiguresInv
    <2>6. taken' = Zero /\ recorded' = recorded
      BY <1>3
    <2>7. times = 0 \/ times = 1
      BY <1>2
    <2>. QED
      BY <2>1, <2>2, <2>3, <2>4, <2>5, <2>6, <2>7
  <1>9. FiguresInv'
    BY <1>6, <1>8 DEF FiguresInv
  <1>10. PhaseInv'
    BY <1>1, <1>3 DEF PhaseInv
  <1>11. OthersRest'
    BY <1>1, <1>3 DEF OthersRest, Follows
  <1>. QED
    BY <1>7, <1>9, <1>10, <1>11

\* Everything else leaves the figures alone; the process stops and starts.
LEMMA FiguresStay ==
  ASSUME UpkeepInv, UNCHANGED <<life, pending, taken, flushing, stored, recorded, unsure>>
  PROVE  FigureTypes' /\ FiguresInv'
PROOF
  <1>1. FigureTypes /\ FiguresInv
    BY DEF UpkeepInv
  <1>2. FigureTypes'
    BY <1>1 DEF FigureTypes
  <1>3. Kept' = Kept
    BY DEF Kept
  <1>4. ASSUME NEW f \in Fields
        PROVE  /\ Sum(pending', f) >= 0 /\ Sum(taken', f) >= 0
               /\ Sum(Kept', f) >= Sum(recorded', f)
               /\ unsure' = 0 => Sum(Kept', f) = Sum(recorded', f)
    BY <1>1, <1>3 DEF FiguresInv
  <1>. QED
    BY <1>2, <1>4 DEF FiguresInv

\* A stop in good order flushes what is in hand before the process is down.
LEMMA StoppingKeepsFigures ==
  ASSUME UpkeepInv, Stops \/ Drained
  PROVE  FigureTypes' /\ FiguresInv' /\ PhaseInv' /\ OthersRest'
PROOF
  <1>1. UNCHANGED <<life, pending, taken, flushing, stored, recorded, unsure>>
    BY DEF Stops, Drained
  <1>2. PhaseInv /\ OthersRest
    BY DEF UpkeepInv
  <1>. DEFINE Figured == life.part = "figures"
  <1>3. CASE Stops
    <2>1. Figured /\ Figured' /\ phase = "up" /\ phase' = "stopping"
      BY <1>1, <1>3 DEF Stops, Follows
    <2>2. OthersRest'
      BY <2>1 DEF OthersRest, Follows
    <2>3. PhaseInv'
      BY <1>1, <1>2, <2>1 DEF PhaseInv
    <2>. QED
      BY <1>1, <2>2, <2>3, FiguresStay
  <1>4. CASE Drained
    <2>1. phase = "stopping" /\ ~flushing /\ phase' = IF pending = Zero THEN "flushed"
            ELSE "drained"
      BY <1>4 DEF Drained
    <2>2. Figured /\ Figured'
      BY <1>1, <1>2, <2>1 DEF OthersRest, Follows
    <2>3. OthersRest'
      BY <2>2 DEF OthersRest, Follows
    <2>4. PhaseInv'
      BY <1>1, <1>2, <2>1 DEF PhaseInv
    <2>. QED
      BY <1>1, <2>3, <2>4, FiguresStay
  <1>. QED
    BY <1>3, <1>4

\* Every step keeps the figures.
LEMMA FiguresAreKept ==
  ASSUME UpkeepInv, UpkeepNext \/ UNCHANGED upkeepVars
  PROVE  FigureTypes' /\ FiguresInv' /\ PhaseInv' /\ OthersRest'
PROOF
  <1>1. CASE AddRecorded \/ AddDeleted \/ AddActive \/ Take \/ Flushed \/ FlushFails \/ Stops
               \/ Drained
    BY <1>1, AddingKeepsFigures, TakeKeepsFigures, FlushedKeepsFigures, FailedFlushKeepsFigures,
       StoppingKeepsFigures
  <1>2. CASE UNCHANGED <<life, figureVars>>
    <2>1. FigureTypes' /\ FiguresInv'
      BY <1>2, FiguresStay DEF figureVars
    <2>. QED
      BY <1>2, <2>1 DEF UpkeepInv, PhaseInv, OthersRest, Follows, figureVars
  <1>3. CASE Crash \/ Restart
    <2>1. UNCHANGED <<life, pending, taken, flushing, stored, recorded, unsure>>
      BY <1>3 DEF Crash, Restart, hourVars, blobVars
    <2>2. FigureTypes' /\ FiguresInv'
      BY <2>1, FiguresStay
    <2>3. ~Follows("figures") /\ phase' \in {"up", "down"} /\ MaxUnsure \in Nat
      BY <1>3, UpkeepAssumption DEF Crash, Restart
    <2>. QED
      BY <2>1, <2>2, <2>3 DEF UpkeepInv, PhaseInv, OthersRest, Follows
  <1>4. CASE Tick \/ Detect \/ Attribute \/ FirstMarks \/ PassBegins \/ CountHour \/ PassEnds
               \/ StoreHour
             \/ MarkHour \/ RowsExpire
    <2>1. UNCHANGED <<life, figureVars>>
      BY <1>4 DEF Tick, Detect, Attribute, FirstMarks, PassBegins, CountHour, PassEnds, StoreHour,
                  MarkHour, RowsExpire
    <2>. QED
      BY <1>2, <2>1
  <1>5. CASE StoreWindow \/ PruneBegins \/ PruneChunk \/ SaveMark \/ DeleteChunk
    <2>1. UNCHANGED <<life, figureVars>>
      BY <1>5 DEF StoreWindow, PruneBegins, PruneChunk, SaveMark, DeleteChunk
    <2>. QED
      BY <1>2, <2>1
  <1>6. CASE UNCHANGED upkeepVars
    BY <1>2, <1>6 DEF upkeepVars
  <1>. QED
    BY <1>1, <1>3, <1>4, <1>5, <1>6 DEF UpkeepNext

-----------------------------------------------------------------------------
(* Upkeep: the detection hours.                                            *)

\* The clock stays within its bound, and moves forward.
LEMMA ClockIsKept ==
  ASSUME UpkeepInv, UpkeepNext \/ UNCHANGED upkeepVars
  PROVE  ClockTypes' /\ now <= now' /\ life' = life
PROOF
  <1>1. /\ life \in Lives /\ now \in 0..MaxTime /\ made \in Nat /\ MaxTime \in Nat
        /\ phase \in {"up", "stopping", "drained", "flushed", "down"}
    BY UpkeepAssumption DEF UpkeepInv, ClockTypes
  <1>2. CASE AddRecorded \/ AddDeleted \/ AddActive
    <2>1. life' = life /\ now' = now /\ phase' = phase /\ made' = made + 1
      BY <1>2 DEF AddRecorded, AddDeleted, AddActive, Counts
    <2>. QED
      BY <1>1, <2>1 DEF ClockTypes
  <1>3. CASE Take \/ Flushed \/ FlushFails \/ Stops \/ Drained
    <2>1. /\ life' = life /\ now' = now /\ made' = made
          /\ phase' \in {phase, "stopping", "drained", "flushed", "down"}
      BY <1>3 DEF Take, Flushed, FlushFails, Stops, Drained
    <2>. QED
      BY <1>1, <2>1 DEF ClockTypes
  <1>4. CASE Detect \/ StoreWindow
    <2>1. life' = life /\ now' = now /\ phase' = phase /\ made' = made + 1
      BY <1>4 DEF Detect, StoreWindow, figureVars
    <2>. QED
      BY <1>1, <2>1 DEF ClockTypes
  <1>5. CASE Attribute \/ FirstMarks \/ PassBegins \/ CountHour \/ PassEnds \/ StoreHour \/ MarkHour
             \/ RowsExpire
    <2>1. life' = life /\ now' = now /\ phase' = phase /\ made' = made
      BY <1>5 DEF Attribute, FirstMarks, PassBegins, CountHour, PassEnds, StoreHour, MarkHour,
           RowsExpire,
                  figureVars
    <2>. QED
      BY <1>1, <2>1 DEF ClockTypes
  <1>6. CASE PruneBegins \/ PruneChunk \/ SaveMark \/ DeleteChunk
    <2>1. life' = life /\ now' = now /\ phase' = phase /\ made' = made
      BY <1>6 DEF PruneBegins, PruneChunk, SaveMark, DeleteChunk, figureVars
    <2>. QED
      BY <1>1, <2>1 DEF ClockTypes
  <1>7. CASE Tick
    <2>1. life' = life /\ now' = now + 1 /\ phase' = phase /\ made' = made /\ now < life.until
      BY <1>7 DEF Tick, figureVars
    <2>2. life.until \in 0..MaxTime
      BY <1>1, UpkeepAssumption
    <2>. QED
      BY <1>1, <2>1, <2>2 DEF ClockTypes
  <1>8. CASE Crash \/ Restart
    <2>1. life' = life /\ now' = now /\ phase' \in {"up", "down"} /\ made' = made
      BY <1>8 DEF Crash, Restart
    <2>. QED
      BY <1>1, <2>1 DEF ClockTypes
  <1>9. CASE UNCHANGED upkeepVars
    <2>1. life' = life /\ now' = now /\ phase' = phase /\ made' = made
      BY <1>9 DEF upkeepVars, figureVars
    <2>. QED
      BY <1>1, <2>1 DEF ClockTypes
  <1>. QED
    BY <1>2, <1>3, <1>4, <1>5, <1>6, <1>7, <1>8, <1>9 DEF UpkeepNext

\* An hour that is over is before any hour in which a detection may start.
LEMMA RecentIsNotOver ==
  ASSUME now \in 0..MaxTime, NEW t \in Recent
  PROVE  Hour(t) \in Hours /\ \A h \in Hours : LongOver(h) => h < Hour(t)
PROOF
  <1>1. MaxTime \in Nat
    BY UpkeepAssumption
  <1>2. t \in 0..MaxTime /\ t >= now - 1
    BY <1>1 DEF Recent
  <1>3. Hour(t) \in Hours /\ Hour(t) \in Nat /\ 4 * Hour(t) <= t /\ t < 4 * Hour(t) + 4
    BY <1>1, <1>2 DEF Hour, HOUR, Hours
  <1>4. ASSUME NEW h \in Hours, LongOver(h) PROVE h < Hour(t)
    <2>1. (h + 1) * 4 <= now - 1 /\ h \in Nat
      BY <1>4, HoursAre DEF LongOver, HOUR
    <2>. QED
      BY <1>2, <1>3, <2>1
  <1>. QED
    BY <1>3, <1>4

\* The hour after one that is over is an hour.
LEMMA NextHourIs ==
  ASSUME now \in 0..MaxTime, NEW h \in Hours, LongOver(h)
  PROVE  h + 1 \in Hours
PROOF
  <1>1. MaxTime \in Nat /\ h \in Nat
    BY UpkeepAssumption, HoursAre
  <1>2. (h + 1) * 4 <= now - 1
    BY DEF LongOver, HOUR
  <1>3. (h + 1) <= MaxTime \div 4
    BY <1>1, <1>2
  <1>. QED
    BY <1>1, <1>3, HoursAre DEF N, HOUR

\* An hour that is over stays over.
LEMMA StillOver ==
  ASSUME now \in Int, now' \in Int, now <= now', NEW h \in Int, LongOver(h)
  PROVE  LongOver(h)'
PROOF
  <1>1. (h + 1) * 4 <= now - 1
    BY DEF LongOver, HOUR
  <1>2. (h + 1) * 4 \in Int /\ \A a, b, x \in Int : x <= a - 1 /\ a <= b => x <= b - 1
    OBVIOUS
  <1>3. (h + 1) * 4 <= now' - 1
    BY <1>1, <1>2
  <1>. QED
    BY <1>3 DEF LongOver, HOUR

\* What the hours of detections must keep.
HoursKept == HourTypes /\ HoursInv

\* A row added or attributed, in an hour that no pass has come to.
LEMMA RowKeepsHours ==
  ASSUME UpkeepInv, NEW t \in Recent, NEW r \in Rows, NEW l \in [untried : Int, tried : Int],
         detections' = [detections EXCEPT ![Hour(t)] = r],
         landed' = [landed EXCEPT ![Hour(t)] = l],
         detections[Hour(t)] = landed[Hour(t)] => r = l,
         UNCHANGED <<now, gone, since, done, counts, pass>>
  PROVE  HoursKept'
PROOF
  <1>1. HourTypes /\ HoursInv /\ now \in 0..MaxTime
    BY DEF UpkeepInv, ClockTypes
  <1>2. Hour(t) \in Hours /\ \A h \in Hours : LongOver(h) => h < Hour(t)
    BY <1>1, RecentIsNotOver
  <1>3. /\ \A h \in Hours : detections'[h] = IF h = Hour(t) THEN r ELSE detections[h]
        /\ \A h \in Hours : landed'[h] = IF h = Hour(t) THEN l ELSE landed[h]
    BY <1>1 DEF HourTypes
  <1>4. detections' \in [Hours -> Rows] /\ landed' \in [Hours -> [untried : Int, tried : Int]]
    BY <1>1 DEF HourTypes
  <1>5. HourTypes'
    BY <1>1, <1>4 DEF HourTypes
  <1>6. pass.at # "rest" => pass.hour \in Hours
    BY <1>1 DEF HourTypes, HoursInv
  <1>7. \A h \in Hours : LongOver(h) => landed'[h] = landed[h]
    BY <1>2, <1>3, HoursAre DEF LongOver, HOUR
  <1>8. \A h \in Hours : LongOver(h)' = LongOver(h)
    BY DEF LongOver
  <1>9. ASSUME NEW h \in Hours
        PROVE  /\ h \notin gone /\ h >= done => detections'[h] = landed'[h]
               /\ since # -1 /\ h >= since /\ h < done => LongOver(h)
               /\ since # -1 /\ h >= since /\ h < done => counts[h] = landed'[h] \/ h \in gone
    BY <1>1, <1>3, <1>7 DEF HoursInv, HoursAreWhole
  <1>10. HoursAreWhole'
    BY <1>9 DEF HoursAreWhole
  <1>11. /\ done # -1 => since # -1 /\ since <= done
         /\ pass.at # "rest" => pass.hour = done /\ done # -1
         /\ pass.at \in {"store", "mark"} => LongOver(pass.hour)
         /\ pass.at \in {"store", "mark"} => pass.hour \in gone \/ pass.got = landed'[pass.hour]
         /\ pass.at = "mark" => counts[pass.hour] = pass.got
    BY <1>1, <1>6, <1>7 DEF HoursInv
  <1>12. pass.at \in {"store", "mark"} => LongOver(pass.hour)'
    BY <1>11 DEF LongOver
  <1>13. HoursInv'
    BY <1>8, <1>9, <1>10, <1>11, <1>12 DEF HoursInv
  <1>. QED
    BY <1>5, <1>13 DEF HoursKept

\* A detection lands in an hour that is not over.
LEMMA DetectionsKeepHours ==
  ASSUME UpkeepInv, Detect \/ Attribute
  PROVE  HoursKept'
PROOF
  <1>1. HourTypes /\ now \in 0..MaxTime
    BY DEF UpkeepInv, ClockTypes
  <1>2. CASE Detect
    <2>1. PICK t \in Recent :
            /\ detections' = [detections EXCEPT ![Hour(t)].untried = @ + 1]
            /\ landed' = [landed EXCEPT ![Hour(t)].untried = @ + 1]
      BY <1>2 DEF Detect
    <2>2. UNCHANGED <<now, gone, since, done, counts, pass>>
      BY <1>2 DEF Detect
    <2>3. Hour(t) \in Hours
      BY <1>1, RecentIsNotOver
    <2>. DEFINE More(x) == [untried |-> x.untried + 1, tried |-> x.tried]
    <2>4. /\ detections' = [detections EXCEPT ![Hour(t)] = More(detections[Hour(t)])]
          /\ More(detections[Hour(t)]) \in Rows
      <3>1. detections[Hour(t)] \in Rows
        BY <1>1, <2>3 DEF HourTypes
      <3>2. [detections[Hour(t)] EXCEPT !.untried = @ + 1] = More(detections[Hour(t)])
        BY <3>1 DEF Rows
      <3>3. More(detections[Hour(t)]) \in Rows
        BY <3>1 DEF Rows
      <3>. HIDE DEF More
      <3>. QED
        BY <2>1, <3>2, <3>3
    <2>5. /\ landed' = [landed EXCEPT ![Hour(t)] = More(landed[Hour(t)])]
          /\ More(landed[Hour(t)]) \in [untried : Int, tried : Int]
      <3>1. landed[Hour(t)] \in [untried : Int, tried : Int]
        BY <1>1, <2>3 DEF HourTypes
      <3>2. [landed[Hour(t)] EXCEPT !.untried = @ + 1] = More(landed[Hour(t)])
        BY <3>1
      <3>3. More(landed[Hour(t)]) \in [untried : Int, tried : Int]
        BY <3>1
      <3>. HIDE DEF More
      <3>. QED
        BY <2>1, <3>2, <3>3
    <2>6. detections[Hour(t)] = landed[Hour(t)] => More(detections[Hour(t)]) = More(landed[Hour(t)])
      OBVIOUS
    <2>. HIDE DEF More
    <2>. QED
      BY <2>2, <2>4, <2>5, <2>6, RowKeepsHours
  <1>3. CASE Attribute
    <2>1. PICK t \in Recent :
            /\ detections[Hour(t)].untried > 0
            /\ detections' = [detections EXCEPT ![Hour(t)] = Attributed(@)]
            /\ landed' = [landed EXCEPT ![Hour(t)] = Attributed(@)]
      BY <1>3 DEF Attribute
    <2>2. UNCHANGED <<now, gone, since, done, counts, pass>>
      BY <1>3 DEF Attribute
    <2>3. Hour(t) \in Hours
      BY <1>1, RecentIsNotOver
    <2>4. Attributed(detections[Hour(t)]) \in Rows
      BY <1>1, <2>1, <2>3 DEF HourTypes, Rows, Attributed
    <2>5. Attributed(landed[Hour(t)]) \in [untried : Int, tried : Int]
      BY <1>1, <2>3 DEF HourTypes, Attributed
    <2>. QED
      BY <2>1, <2>2, <2>4, <2>5, RowKeepsHours
  <1>. QED
    BY <1>2, <1>3

\* The pass steps on, and retention empties hours that were counted, or are gone.
LEMMA PassTypes ==
  ASSUME HourTypes
  PROVE  /\ pass = [at |-> pass.at, hour |-> pass.hour, left |-> pass.left, got |-> pass.got]
         /\ pass.at \in {"rest", "loop", "store", "mark"} /\ pass.hour \in Int /\ pass.left \in Int
         /\ pass.got \in Rows
PROOF
  BY DEF HourTypes

\* A pass counts hours that are over, in order.
LEMMA PassKeepsHours ==
  ASSUME UpkeepInv, FirstMarks \/ PassBegins \/ CountHour \/ PassEnds
  PROVE  HoursKept'
PROOF
  <1>1. HourTypes /\ HoursInv /\ now \in 0..MaxTime /\ MaxTime \in Nat /\ PerPass \in Nat
    BY UpkeepAssumption DEF UpkeepInv, ClockTypes
  <1>2. UNCHANGED <<now, detections, landed, gone, counts>>
    BY DEF FirstMarks, PassBegins, CountHour, PassEnds
  <1>3. NoRow \in Rows /\ AtRest \in [at : {"rest", "loop", "store", "mark"}, hour : Int,
          left : Int, got : Rows]
    BY DEF NoRow, AtRest, Rows
  <1>4. \A h \in Hours : LongOver(h)' = LongOver(h)
    BY <1>2 DEF LongOver
  <1>5. CASE FirstMarks
    <2>1. /\ pass.at = "rest" /\ done = -1 /\ pass' = pass
          /\ since' = Hour(now) /\ done' \in {Hour(now), -1}
      BY <1>5 DEF FirstMarks
    <2>2. Hour(now) \in Hours /\ Hour(now) \in Nat
      BY <1>1 DEF Hour, HOUR, Hours
    <2>3. HourTypes'
      BY <1>1, <1>2, <2>1, <2>2 DEF HourTypes
    <2>4. ASSUME NEW h \in Hours
          PROVE  /\ h \notin gone' /\ h >= done' => detections'[h] = landed'[h]
                 /\ ~(since' # -1 /\ h >= since' /\ h < done')
      <3>1. h \in Nat
        BY HoursAre
      <3>2. h >= done
        BY <2>1, <3>1
      <3>3. h \notin gone => detections[h] = landed[h]
        BY <1>1, <3>2 DEF HoursInv
      <3>. QED
        BY <1>2, <2>1, <2>2, <3>1, <3>3
    <2>5. HoursInv'
      BY <1>4, <2>1, <2>2, <2>4 DEF HoursInv, HoursAreWhole
    <2>. QED
      BY <2>3, <2>5 DEF HoursKept
  <1>6. CASE PassBegins
    <2>1. /\ done # -1 /\ since' = since /\ done' = done
          /\ pass' = [at |-> "loop", hour |-> done, left |-> PerPass, got |-> NoRow]
      BY <1>6 DEF PassBegins
    <2>2. done \in Int
      BY <1>1, HoursAre DEF HourTypes
    <2>3. pass' \in [at : {"rest", "loop", "store", "mark"}, hour : Int, left : Int, got : Rows]
      BY <1>1, <1>3, <2>1, <2>2
    <2>4. pass'.at = "loop" /\ pass'.hour = done
      BY <2>1
    <2>5. HourTypes'
      BY <1>1, <1>2, <2>1, <2>3 DEF HourTypes
    <2>6. HoursInv'
      BY <1>1, <1>2, <1>4, <2>1, <2>4 DEF HoursInv, HoursAreWhole
    <2>. QED
      BY <2>5, <2>6 DEF HoursKept
  <1>7. CASE CountHour
    <2>1. /\ pass.at = "loop" /\ LongOver(pass.hour) /\ since' = since /\ done' = done
          /\ pass' = [pass EXCEPT !.at = "store", !.got = detections[pass.hour], !.left = @ - 1]
      BY <1>7 DEF CountHour
    <2>2. pass.hour = done /\ done # -1 /\ done \in Hours
      BY <1>1, <2>1 DEF HoursInv, HourTypes
    <2>3. /\ pass' = [at |-> "store", hour |-> pass.hour, left |-> pass.left - 1,
               got |-> detections[pass.hour]]
          /\ pass.left - 1 \in Int /\ pass.hour \in Int
      <3>. DEFINE got == detections[pass.hour]
      <3>1. pass' = [pass EXCEPT !.at = "store", !.got = got, !.left = @ - 1]
        BY <2>1
      <3>. HIDE DEF got
      <3>2. pass' = [at |-> "store", hour |-> pass.hour, left |-> pass.left - 1, got |-> got]
        BY <1>1, <3>1 DEF HourTypes
      <3>. QED
        BY <1>1, <3>2, PassTypes DEF got
    <2>4. detections[pass.hour] \in Rows
      BY <1>1, <2>2 DEF HourTypes
    <2>5. pass' \in [at : {"rest", "loop", "store", "mark"}, hour : Int, left : Int, got : Rows]
      BY <2>3, <2>4
    <2>6. pass'.at = "store" /\ pass'.hour = done /\ pass'.got = detections[done]
      BY <2>2, <2>3
    <2>7. done \in gone \/ detections[done] = landed[done]
      BY <1>1, <2>2, HoursAre DEF HoursInv
    <2>8. HourTypes'
      BY <1>1, <1>2, <2>1, <2>5 DEF HourTypes
    <2>9. LongOver(pass.hour)'
      <3>1. LongOver(done)
        BY <2>1, <2>2
      <3>2. (pass'.hour + 1) * HOUR <= now' - 1
        BY <1>2, <2>6, <3>1 DEF LongOver
      <3>. QED
        BY <3>2 DEF LongOver
    <2>10. HoursInv'
      BY <1>1, <1>2, <1>4, <2>1, <2>2, <2>6, <2>7, <2>9 DEF HoursInv, HoursAreWhole
    <2>. QED
      BY <2>8, <2>10 DEF HoursKept
  <1>8. CASE PassEnds
    <2>1. since' = since /\ done' = done /\ pass' = AtRest
      BY <1>8 DEF PassEnds
    <2>2. HourTypes'
      BY <1>1, <1>2, <1>3, <2>1 DEF HourTypes
    <2>3. pass'.at = "rest"
      BY <2>1 DEF AtRest
    <2>4. HoursInv'
      BY <1>1, <1>2, <1>4, <2>1, <2>3 DEF HoursInv, HoursAreWhole
    <2>. QED
      BY <2>2, <2>4 DEF HoursKept
  <1>. QED
    BY <1>5, <1>6, <1>7, <1>8

\* Storing an hour's counts, and marking it done only when they are stored.
LEMMA StoringKeepsHours ==
  ASSUME UpkeepInv, StoreHour \/ MarkHour
  PROVE  HoursKept'
PROOF
  <1>1. HourTypes /\ HoursInv /\ now \in 0..MaxTime
    BY DEF UpkeepInv, ClockTypes
  <1>2. UNCHANGED <<now, detections, landed, gone, since>>
    BY DEF StoreHour, MarkHour
  <1>3. NoRow \in Rows /\ AtRest \in [at : {"rest", "loop", "store", "mark"}, hour : Int,
          left : Int, got : Rows]
    BY DEF NoRow, AtRest, Rows
  <1>4. \A h \in Hours : LongOver(h)' = LongOver(h)
    BY <1>2 DEF LongOver
  <1>5. AtRest.at = "rest"
    BY DEF AtRest
  <1>6. pass.at \in {"store", "mark"}
    BY DEF StoreHour, MarkHour
  <1>7. pass.hour = done /\ done \in Hours /\ done \in Nat /\ LongOver(done) /\ since <= done
          /\ since # -1
    BY <1>1, <1>6, HoursAre DEF HoursInv, HourTypes
  <1>8. done \in gone \/ pass.got = landed[done]
    BY <1>1, <1>6, <1>7 DEF HoursInv
  <1>9. ASSUME StoreHour PROVE HoursKept'
    <2>1. PICK answer \in Answers :
            /\ counts' = IF answer = "raised" THEN counts
                 ELSE [counts EXCEPT ![pass.hour] = pass.got]
            /\ pass' = IF answer = "stored" THEN [pass EXCEPT !.at = "mark"] ELSE AtRest
      BY <1>9 DEF StoreHour
    <2>2. done' = done
      BY <1>9 DEF StoreHour
    <2>3. /\ [pass EXCEPT !.at = "mark"]
               = [at |-> "mark", hour |-> pass.hour, left |-> pass.left, got |-> pass.got]
          /\ [pass EXCEPT !.at = "mark"]
               \in [at : {"rest", "loop", "store", "mark"}, hour : Int, left : Int, got : Rows]
      BY <1>1, PassTypes
    <2>4. counts' \in [Hours -> Rows] /\ \A h \in Hours : h # done => counts'[h] = counts[h]
      BY <1>1, <1>7, <2>1, PassTypes DEF HourTypes
    <2>5. HourTypes'
      BY <1>1, <1>2, <1>3, <2>1, <2>2, <2>3, <2>4 DEF HourTypes
    <2>6. ASSUME NEW h \in Hours
          PROVE  /\ h \notin gone' /\ h >= done' => detections'[h] = landed'[h]
                 /\ since' # -1 /\ h >= since' /\ h < done' =>
                      LongOver(h) /\ (counts'[h] = landed'[h] \/ h \in gone')
      BY <1>1, <1>2, <1>7, <2>2, <2>4, HoursAre DEF HoursInv, HoursAreWhole
    <2>7. CASE answer = "stored"
      <3>1. pass'.at = "mark" /\ pass'.hour = done /\ pass'.got = pass.got
        BY <1>7, <2>1, <2>3, <2>7
      <3>2. counts'[done] = pass.got
        BY <1>1, <1>7, <2>1, <2>7 DEF HourTypes
      <3>3. LongOver(pass.hour)'
        BY <1>2, <1>7, <3>1 DEF LongOver
      <3>4. /\ done' # -1 /\ since' # -1 /\ since' <= done' /\ pass'.hour = done'
            /\ pass'.hour \in gone' \/ pass'.got = landed'[pass'.hour]
            /\ counts'[pass'.hour] = pass'.got
        BY <1>2, <1>7, <1>8, <2>2, <3>1, <3>2
      <3>. QED
        BY <1>4, <2>5, <2>6, <3>3, <3>4 DEF HoursKept, HoursInv, HoursAreWhole
    <2>8. CASE answer # "stored"
      <3>1. pass'.at = "rest" /\ done' # -1 /\ since' # -1 /\ since' <= done'
        BY <1>2, <1>5, <1>7, <2>1, <2>2, <2>8
      <3>. QED
        BY <1>4, <2>5, <2>6, <3>1 DEF HoursKept, HoursInv, HoursAreWhole
    <2>. QED
      BY <2>7, <2>8
  <1>10. ASSUME MarkHour PROVE HoursKept'
    <2>1. PICK answer \in Answers :
            /\ done' = IF answer = "raised" THEN done ELSE pass.hour + 1
            /\ pass' = IF answer = "stored" THEN [pass EXCEPT !.at = "loop", !.hour = @ + 1]
                 ELSE AtRest
      BY <1>10 DEF MarkHour
    <2>2. counts' = counts /\ pass.at = "mark"
      BY <1>10 DEF MarkHour
    <2>3. counts[done] = pass.got
      BY <1>1, <1>7, <2>2 DEF HoursInv
    <2>4. done + 1 \in Hours
      BY <1>1, <1>7, NextHourIs
    <2>5. done' \in {done, done + 1} /\ (answer = "stored" => done' = done + 1)
      BY <1>7, <2>1
    <2>6. ASSUME answer = "stored"
          PROVE  /\ pass'.at = "loop" /\ pass'.hour = pass.hour + 1
                 /\ pass' \in [at : {"rest", "loop", "store", "mark"}, hour : Int, left : Int,
                      got : Rows]
      <3>1. pass' = [pass EXCEPT !.at = "loop", !.hour = @ + 1]
        BY <2>1, <2>6
      <3>2. pass' = [at |-> "loop", hour |-> pass.hour + 1, left |-> pass.left, got |-> pass.got]
        BY <1>1, <3>1 DEF HourTypes
      <3>. QED
        BY <1>1, <3>2, PassTypes
    <2>7. HourTypes'
      BY <1>1, <1>2, <1>3, <1>7, <2>1, <2>2, <2>4, <2>5, <2>6 DEF HourTypes
    <2>8. ASSUME NEW h \in Hours
          PROVE  /\ h \notin gone' /\ h >= done' => detections'[h] = landed'[h]
                 /\ since' # -1 /\ h >= since' /\ h < done' =>
                      LongOver(h) /\ (counts'[h] = landed'[h] \/ h \in gone')
      <3>1. h \in Nat /\ done' >= done
        BY <1>7, <2>5, HoursAre
      <3>2. /\ h \notin gone /\ h >= done => detections[h] = landed[h]
            /\ since # -1 /\ h >= since /\ h < done => LongOver(h)
                 /\ (counts[h] = landed[h] \/ h \in gone)
        BY <1>1 DEF HoursInv, HoursAreWhole
      <3>3. h = done => LongOver(h) /\ (counts[h] = landed[h] \/ h \in gone)
        BY <1>7, <1>8, <2>3
      <3>4. h < done' => h < done \/ h = done
        BY <1>7, <2>5, <3>1
      <3>5. h >= done' => h >= done
        BY <1>7, <2>5, <3>1
      <3>. QED
        BY <1>2, <2>2, <3>2, <3>3, <3>4, <3>5
    <2>9. done' # -1 /\ since' # -1 /\ since' <= done'
      BY <1>1, <1>2, <1>7, <2>5, HoursAre DEF HourTypes
    <2>10. pass'.at \in {"loop", "rest"} /\ (pass'.at # "rest" => pass'.hour = done')
      BY <1>5, <1>7, <2>1, <2>5, <2>6
    <2>. QED
      BY <1>4, <2>7, <2>8, <2>9, <2>10 DEF HoursKept, HoursInv, HoursAreWhole
  <1>. QED
    BY <1>9, <1>10

\* Rows that expire leave the counts of their hour alone.
LEMMA ExpiryKeepsHours ==
  ASSUME UpkeepInv, RowsExpire
  PROVE  HoursKept'
PROOF
  <1>1. HourTypes /\ HoursInv
    BY DEF UpkeepInv
  <1>2. PICK g \in Hours :
          /\ detections' = [detections EXCEPT ![g] = NoRow]
          /\ gone' = IF g >= done THEN gone \cup {g} ELSE gone
    BY DEF RowsExpire
  <1>3. UNCHANGED <<now, landed, since, done, counts, pass>>
    BY DEF RowsExpire
  <1>4. NoRow \in Rows
    BY DEF NoRow, Rows
  <1>5. detections' \in [Hours -> Rows] /\ \A h \in Hours : h # g => detections'[h] = detections[h]
    BY <1>1, <1>2, <1>4 DEF HourTypes
  <1>6. HourTypes'
    BY <1>1, <1>2, <1>3, <1>5 DEF HourTypes
  <1>7. gone \subseteq gone' /\ (g >= done => g \in gone')
    BY <1>2
  <1>8. \A h \in Hours : LongOver(h)' = LongOver(h)
    BY <1>3 DEF LongOver
  <1>9. ASSUME NEW h \in Hours
        PROVE  /\ h \notin gone' /\ h >= done' => detections'[h] = landed'[h]
               /\ since' # -1 /\ h >= since' /\ h < done' =>
                    LongOver(h) /\ (counts'[h] = landed'[h] \/ h \in gone')
    BY <1>1, <1>3, <1>5, <1>7 DEF HoursInv, HoursAreWhole
  <1>10. /\ done' # -1 => since' # -1 /\ since' <= done'
         /\ pass'.at # "rest" => pass'.hour = done' /\ done' # -1
         /\ pass'.at \in {"store", "mark"} =>
              LongOver(pass'.hour) /\ (pass'.hour \in gone' \/ pass'.got = landed'[pass'.hour])
         /\ pass'.at = "mark" => counts'[pass'.hour] = pass'.got
    BY <1>1, <1>3, <1>7 DEF HoursInv
  <1>11. pass'.at \in {"store", "mark"} => LongOver(pass.hour)'
    BY <1>3, <1>10 DEF LongOver
  <1>. QED
    BY <1>6, <1>8, <1>9, <1>10, <1>11 DEF HoursKept, HoursInv, HoursAreWhole

\* Everything else leaves the hours alone: time passes, and a crash ends a pass.
LEMMA HoursStay ==
  ASSUME UpkeepInv, now \in Int, now' \in Int, now <= now',
         UNCHANGED <<detections, landed, gone, since, done, counts>>, pass' \in {pass, AtRest}
  PROVE  HoursKept'
PROOF
  <1>1. HourTypes /\ HoursInv
    BY DEF UpkeepInv
  <1>2. AtRest \in [at : {"rest", "loop", "store", "mark"}, hour : Int, left : Int, got : Rows]
    BY DEF NoRow, AtRest, Rows
  <1>3. HourTypes'
    BY <1>1, <1>2 DEF HourTypes
  <1>4. AtRest.at = "rest"
    BY DEF AtRest
  <1>5. \A h \in Int : LongOver(h) => (h + 1) * HOUR <= now' - 1
    BY StillOver DEF LongOver
  <1>6. \A h \in Hours : h \in Int
    BY HoursAre
  <1>7. pass.hour \in Int
    BY <1>1, PassTypes
  <1>8. pass'.at \in {"store", "mark"} => LongOver(pass.hour)'
    BY <1>1, <1>4, <1>5, <1>7 DEF HoursInv, LongOver
  <1>9. \A h \in Hours : since' # -1 /\ h >= since' /\ h < done' => LongOver(h)'
    BY <1>1, <1>5, <1>6 DEF HoursInv, LongOver
  <1>10. HoursAreWhole'
    BY <1>1 DEF HoursInv, HoursAreWhole
  <1>11. /\ done' # -1 => since' # -1 /\ since' <= done'
         /\ pass'.at # "rest" => pass'.hour = done' /\ done' # -1
         /\ pass'.at \in {"store", "mark"} => pass'.hour \in gone'
              \/ pass'.got = landed'[pass'.hour]
         /\ pass'.at = "mark" => counts'[pass'.hour] = pass'.got
         /\ \A h \in Hours : h \notin gone' /\ h >= done' => detections'[h] = landed'[h]
    BY <1>1, <1>4 DEF HoursInv
  <1>. QED
    BY <1>3, <1>8, <1>9, <1>10, <1>11 DEF HoursKept, HoursInv

\* Every step keeps the hours whole.
LEMMA HoursAreKept ==
  ASSUME UpkeepInv, UpkeepNext \/ UNCHANGED upkeepVars
  PROVE  HourTypes' /\ HoursInv'
PROOF
  <1>1. now \in Int /\ now' \in Int /\ now <= now'
    BY ClockIsKept, UpkeepAssumption DEF UpkeepInv, ClockTypes
  <1>2. CASE Detect \/ Attribute \/ FirstMarks \/ PassBegins \/ CountHour \/ PassEnds \/ StoreHour
               \/ MarkHour
             \/ RowsExpire
    BY <1>2, DetectionsKeepHours, PassKeepsHours, StoringKeepsHours, ExpiryKeepsHours DEF HoursKept
  <1>3. CASE AddRecorded \/ AddDeleted \/ AddActive \/ Take \/ Flushed \/ FlushFails \/ Stops
               \/ Drained
    <2>1. UNCHANGED <<detections, landed, gone, since, done, counts, pass>>
      BY <1>3 DEF AddRecorded, AddDeleted, AddActive, Counts, Take, Flushed, FlushFails, Stops,
           Drained, hourVars
    <2>. QED
      BY <1>1, <2>1, HoursStay DEF HoursKept
  <1>4. CASE StoreWindow \/ PruneBegins \/ PruneChunk \/ SaveMark \/ DeleteChunk \/ Tick \/ Crash
               \/ Restart
    <2>1. UNCHANGED <<detections, landed, gone, since, done, counts>> /\ pass' \in {pass, AtRest}
      BY <1>4 DEF StoreWindow, PruneBegins, PruneChunk, SaveMark, DeleteChunk, Tick, Crash, Restart,
           hourVars
    <2>. QED
      BY <1>1, <2>1, HoursStay DEF HoursKept
  <1>5. CASE UNCHANGED upkeepVars
    <2>1. UNCHANGED <<detections, landed, gone, since, done, counts, pass>>
      BY <1>5 DEF upkeepVars, hourVars
    <2>. QED
      BY <1>1, <2>1, HoursStay DEF HoursKept
  <1>. QED
    BY <1>2, <1>3, <1>4, <1>5 DEF UpkeepNext

-----------------------------------------------------------------------------
(* Upkeep: the windows and the mark.                                       *)

\* The first of a finite set are closed downwards in it, and when they are not
\* all of it they are a full chunk.
LEMMA FirstAre ==
  ASSUME NEW ws \in SUBSET Nat, IsFiniteSet(ws)
  PROVE  /\ FirstOf(ws) \subseteq ws /\ IsFiniteSet(FirstOf(ws))
         /\ \A v \in ws : \A w \in FirstOf(ws) : v < w => v \in FirstOf(ws)
         /\ Cardinality(FirstOf(ws)) < ChunkRows => FirstOf(ws) = ws
PROOF
  <1>. DEFINE Before(w) == {v \in ws : v < w}
              first == FirstOf(ws)
  <1>1. first = {w \in ws : Cardinality(Before(w)) < ChunkRows}
    BY DEF FirstOf
  <1>2. first \subseteq ws /\ IsFiniteSet(first)
    BY <1>1, FS_Subset
  <1>3. \A w \in ws : IsFiniteSet(Before(w)) /\ Cardinality(Before(w)) \in Nat
    BY FS_Subset, FS_CardinalityType
  <1>4. ChunkRows \in Nat
    BY UpkeepAssumption
  <1>5. ASSUME NEW v \in ws, NEW w \in first, v < w PROVE v \in first
    <2>0. w \in ws /\ \A x \in ws : x \in Nat
      BY <1>2
    <2>1. Before(v) \subseteq Before(w) /\ w \in ws
      <3>1. \A x \in ws : x < v => x < w
        BY <1>5, <2>0
      <3>. QED
        BY <2>0, <3>1
    <2>. HIDE DEF Before
    <2>2. Cardinality(Before(v)) <= Cardinality(Before(w)) /\ Cardinality(Before(v)) \in Nat
      BY <1>3, <2>1, FS_Subset
    <2>. QED
      BY <1>1, <1>3, <1>4, <2>1, <2>2
  <1>6. ASSUME first # ws PROVE ~(Cardinality(first) < ChunkRows)
    <2>. DEFINE rest == ws \ first
                f == [w \in ws |-> w]
    <2>1. rest # {} /\ IsFiniteSet(rest) /\ \A w \in rest : f[w] \in Int
      <3>1. rest # {}
        <4>. HIDE DEF first
        <4>. QED
          BY <1>2, <1>6
      <3>2. IsFiniteSet(rest)
        <4>1. rest \subseteq ws
          OBVIOUS
        <4>. HIDE DEF rest
        <4>. QED
          BY <4>1, FS_Subset
      <3>3. \A w \in rest : f[w] \in Int
        OBVIOUS
      <3>. QED
        BY <3>1, <3>2, <3>3
    <2>2. PICK w \in rest : \A v \in rest : f[w] <= f[v]
      <3>. HIDE DEF rest, f
      <3>. QED
        BY <2>1, LeastValue
    <2>3. \A v \in rest : w <= v
      BY <2>2
    <2>4. Before(w) \subseteq first
      <3>1. \A x \in ws : x \in Nat /\ (x < w => ~(w <= x))
        OBVIOUS
      <3>. HIDE DEF first
      <3>. QED
        BY <2>3, <3>1
    <2>5. ~(Cardinality(Before(w)) < ChunkRows)
      BY <1>1
    <2>. HIDE DEF Before, first
    <2>6. Cardinality(Before(w)) <= Cardinality(first)
      BY <1>2, <2>4, FS_Subset
    <2>7. Cardinality(first) \in Nat /\ Cardinality(Before(w)) \in Nat
      BY <1>2, <1>3, FS_CardinalityType
    <2>. QED
      BY <1>4, <2>5, <2>6, <2>7
  <1>. QED
    BY <1>2, <1>5, <1>6

\* The last of a set of windows is one of them, and none is after it.
LEMMA LastIs ==
  ASSUME NEW ws \in SUBSET Nat, IsFiniteSet(ws), ws # {}
  PROVE  LastOf(ws) \in ws /\ \A v \in ws : v <= LastOf(ws)
PROOF
  <1>. DEFINE f == [w \in ws |-> -w]
  <1>1. \A w \in ws : f[w] \in Int
    OBVIOUS
  <1>2. \E w \in ws : \A v \in ws : f[w] <= f[v]
    <2>. HIDE DEF f
    <2>. QED
      BY <1>1, LeastValue
  <1>3. \E w \in ws : \A v \in ws : v <= w
    BY <1>2
  <1>. QED
    BY <1>3 DEF LastOf

\* The windows there are, by their ids.
LEMMA WindowsAre ==
  ASSUME BlobTypes
  PROVE  /\ DOMAIN windows = 1..Len(windows) /\ Len(windows) \in Nat /\ IsFiniteSet(DOMAIN windows)
         /\ \A w \in DOMAIN windows :
              /\ windows[w].start \in Nat /\ windows[w].blob \in BOOLEAN
                   /\ windows[w].there \in BOOLEAN
              /\ windows[w] = [start |-> windows[w].start, blob |-> windows[w].blob,
                               there |-> windows[w].there]
PROOF
  <1>0. windows \in Seq([start : Nat, blob : BOOLEAN, there : BOOLEAN])
    BY DEF BlobTypes
  <1>1. DOMAIN windows = 1..Len(windows) /\ Len(windows) \in Nat
    BY <1>0
  <1>2. \A w \in DOMAIN windows : windows[w] \in [start : Nat, blob : BOOLEAN, there : BOOLEAN]
    <2>. DEFINE S == [start : Nat, blob : BOOLEAN, there : BOOLEAN]
    <2>1. windows \in Seq(S)
      BY <1>0
    <2>. HIDE DEF S
    <2>2. \A w \in 1..Len(windows) : windows[w] \in S
      BY <2>1
    <2>. QED
      BY <1>1, <2>2 DEF S
  <1>3. IsFiniteSet(1..Len(windows))
    BY <1>1, FS_Interval
  <1>. QED
    BY <1>1, <1>2, <1>3

\* What the windows and the marks must keep.
BlobsKept == BlobTypes /\ BlobsInv

\* A new window starts now, after every mark and at or after every cutoff.
LEMMA StoringKeepsBlobs ==
  ASSUME UpkeepInv, StoreWindow
  PROVE  BlobsKept'
PROOF
  <1>1. BlobTypes /\ InStartOrder /\ MarksInv /\ PruneIsWhole /\ now \in Nat
    BY UpkeepAssumption DEF UpkeepInv, BlobsInv, ClockTypes
  <1>. DEFINE new == [start |-> now, blob |-> TRUE, there |-> TRUE]
              L == Len(windows)
  <1>2. windows' = Append(windows, new) /\ UNCHANGED <<now, mark, loaded, savedMark, onDisk, prune>>
    BY DEF StoreWindow
  <1>3. new \in [start : Nat, blob : BOOLEAN, there : BOOLEAN]
    BY <1>1
  <1>4. /\ windows' \in Seq([start : Nat, blob : BOOLEAN, there : BOOLEAN])
        /\ L \in Nat /\ DOMAIN windows = 1..L /\ Len(windows') = L + 1
             /\ DOMAIN windows' = 1..(L + 1)
        /\ \A i \in 1..(L + 1) : windows'[i] = IF i = L + 1 THEN new ELSE windows[i]
    <2>1. windows \in Seq([start : Nat, blob : BOOLEAN, there : BOOLEAN])
      BY <1>1 DEF BlobTypes
    <2>. HIDE DEF new
    <2>. QED
      BY <1>2, <1>3, <2>1
  <1>5. BlobTypes'
    BY <1>1, <1>2, <1>4 DEF BlobTypes
  <1>6. new.start = now /\ new.there /\ new.blob
    OBVIOUS
  <1>. HIDE DEF new, L
  <1>7. \A w \in 1..L : windows'[w] = windows[w] /\ windows[w].start \in Nat
    BY <1>1, <1>4, WindowsAre
  <1>8. windows'[L + 1].start = now
    BY <1>4, <1>6
  <1>9. InStartOrder'
    <2>1. \A w \in 1..(L + 1) : w \in 1..L \/ w = L + 1
      BY <1>4
    <2>2. \A w \in 1..L : windows[w].start <= now
      BY <1>1, <1>4 DEF InStartOrder
    <2>3. \A w \in 1..(L + 1) : windows'[w].start <= now
      BY <1>1, <1>7, <1>8, <2>1, <2>2
    <2>4. ASSUME NEW v \in 1..(L + 1), NEW w \in 1..(L + 1), v <= w
          PROVE  windows'[v].start <= windows'[w].start
      <3>1. CASE w = L + 1
        BY <1>8, <2>3, <3>1
      <3>2. CASE w \in 1..L
        <4>1. v \in 1..L
          BY <1>4, <2>4, <3>2
        <4>. QED
          BY <1>1, <1>4, <1>7, <2>4, <3>2, <4>1 DEF InStartOrder
      <3>. QED
        BY <2>1, <3>1, <3>2
    <2>. QED
      BY <1>2, <1>4, <2>3, <2>4 DEF InStartOrder
  <1>10. MarksInv'
    <2>1. \A m \in {mark, savedMark, onDisk} : m.start < now /\ m.id <= L /\ m.id \in Nat
      BY <1>1 DEF MarksInv, BlobTypes, Marks, L
    <2>2. \A m \in {mark', savedMark', onDisk'} : m.start < now' /\ m.id <= Len(windows')
      BY <1>2, <1>4, <2>1
    <2>3. prune'.at # "rest" => prune'.cutoff <= now'
      BY <1>1, <1>2 DEF MarksInv
    <2>. QED
      BY <2>2, <2>3 DEF MarksInv
  <1>11. PruneIsWhole'
    <2>1. SUFFICES ASSUME NEW w \in 1..(L + 1), windows'[w].there, windows'[w].blob
                   PROVE  /\ ~(windows'[w].start < mark.start
                               \/ (windows'[w].start = mark.start /\ w =< mark.id))
                          /\ ~(windows'[w].start < onDisk.start
                               \/ (windows'[w].start = onDisk.start /\ w =< onDisk.id))
                          /\ prune.at = "last save" => windows'[w].start >= prune.cutoff
      BY <1>2, <1>4 DEF PruneIsWhole, Behind, There
    <2>2. mark.start < now /\ onDisk.start < now /\ mark.start \in Int /\ onDisk.start \in Int
      BY <1>1 DEF MarksInv, BlobTypes, Marks
    <2>3. prune.at = "last save" => prune.cutoff <= now /\ prune.cutoff \in Int
      BY <1>1 DEF MarksInv, BlobTypes
    <2>4. CASE w = L + 1
      <3>. DEFINE s == windows'[w].start
      <3>1. s = now
        BY <1>8, <2>4
      <3>. HIDE DEF s
      <3>2. /\ ~(s < mark.start \/ (s = mark.start /\ w =< mark.id))
            /\ ~(s < onDisk.start \/ (s = onDisk.start /\ w =< onDisk.id))
            /\ prune.at = "last save" => s >= prune.cutoff
        <4>1. s \in Int /\ mark.start < s /\ onDisk.start < s
          BY <1>1, <2>2, <3>1
        <4>2. \A a, b \in Int : a < b => ~(b < a) /\ a # b /\ b # a
          OBVIOUS
        <4>3. prune.at = "last save" => s >= prune.cutoff
          BY <2>3, <3>1, <4>1
        <4>. QED
          BY <2>2, <4>1, <4>2, <4>3
      <3>. QED
        BY <3>2 DEF s
    <2>5. CASE w \in 1..L
      BY <1>1, <1>4, <1>7, <2>1, <2>5 DEF PruneIsWhole, Behind, There
    <2>6. w \in 1..L \/ w = L + 1
      BY <1>4
    <2>. QED
      BY <2>4, <2>5, <2>6
  <1>. QED
    BY <1>5, <1>9, <1>10, <1>11 DEF BlobsKept, BlobsInv

\* A change of the windows that only empties some of them, or deletes some rows,
\* and sets a mark only to another.
WindowSet == [start : Nat, blob : BOOLEAN, there : BOOLEAN]
WindowsEmptied ==
  /\ windows' \in Seq(WindowSet) /\ Len(windows') = Len(windows)
  /\ \A w \in DOMAIN windows :
       /\ windows'[w].start = windows[w].start
       /\ windows'[w].there => windows[w].there
       /\ windows'[w].blob => windows[w].blob
MarksMoved ==
  /\ mark' \in {mark, onDisk, NoMark} /\ onDisk' \in {mark, onDisk}
  /\ savedMark' \in {mark, savedMark, onDisk, NoMark} /\ loaded' \in BOOLEAN
PruneMoved ==
  /\ prune' \in [at : {"rest", "blobs", "save", "last save", "rows"}, cutoff : Int, chunks : Nat]
  /\ prune'.at # "rest" => prune'.cutoff <= now'
  /\ prune'.at = "last save" => prune.at = "last save" /\ prune'.cutoff = prune.cutoff
TimeMoved == now \in Int /\ now' \in Int /\ now <= now'

LEMMA EmptyingKeepsBlobs ==
  ASSUME UpkeepInv, WindowsEmptied, MarksMoved, PruneMoved, TimeMoved
  PROVE  BlobsKept'
PROOF
  <1>1. BlobTypes /\ InStartOrder /\ MarksInv /\ PruneIsWhole /\ now \in 0..MaxTime
          /\ MaxTime \in Nat
    BY UpkeepAssumption DEF UpkeepInv, BlobsInv, ClockTypes
  <1>2. now \in Nat /\ now' \in Nat /\ \A t \in Int : t <= now => t <= now'
    BY <1>1 DEF TimeMoved
  <1>3. /\ DOMAIN windows = 1..Len(windows) /\ Len(windows) \in Nat
        /\ \A w \in DOMAIN windows : windows[w].start \in Nat /\ windows[w].start \in Int
    BY <1>1, WindowsAre
  <1>4. NoMark \in Marks /\ NoMark.start = -1 /\ NoMark.id = 0
    BY DEF NoMark, Marks
  <1>5. mark \in Marks /\ savedMark \in Marks /\ onDisk \in Marks
    BY <1>1 DEF BlobTypes
  <1>6. BlobTypes'
    BY <1>4, <1>5 DEF BlobTypes, WindowsEmptied, MarksMoved, PruneMoved, WindowSet
  <1>7. DOMAIN windows' = DOMAIN windows
    <2>1. windows' \in Seq(WindowSet) => DOMAIN windows' = 1..Len(windows')
      OBVIOUS
    <2>. QED
      BY <1>3, <2>1 DEF WindowsEmptied
  <1>8. InStartOrder'
    <2>1. \A w \in DOMAIN windows : windows'[w].start <= now'
      BY <1>1, <1>2, <1>3 DEF InStartOrder, WindowsEmptied
    <2>2. \A v, w \in DOMAIN windows : v <= w => windows'[v].start <= windows'[w].start
      BY <1>1 DEF InStartOrder, WindowsEmptied
    <2>. QED
      BY <1>7, <2>1, <2>2 DEF InStartOrder
  <1>9. MarksInv'
    <2>1. \A m \in {mark, savedMark, onDisk} : m.start < now /\ m.start \in Int
            /\ m.id <= Len(windows)
      BY <1>1, <1>5 DEF MarksInv, Marks
    <2>2. \A a, b, d \in Int : a < b /\ b <= d => a < d
      OBVIOUS
    <2>3. \A m \in {mark, savedMark, onDisk} : m.start < now' /\ m.id <= Len(windows)
      BY <1>2, <2>1, <2>2
    <2>4. NoMark.start < now' /\ NoMark.id <= Len(windows)
      BY <1>2, <1>3, <1>4
    <2>5. \A m \in {mark', savedMark', onDisk'} : m.start < now' /\ m.id <= Len(windows')
      BY <2>3, <2>4 DEF MarksMoved, WindowsEmptied
    <2>. QED
      BY <2>5 DEF MarksInv, PruneMoved
  <1>10. ASSUME NEW w \in DOMAIN windows, windows'[w].there, windows'[w].blob
        PROVE  /\ \A m \in {mark', onDisk'} :
                    ~(windows'[w].start < m.start \/ (windows'[w].start = m.start /\ w =< m.id))
               /\ prune'.at = "last save" => windows'[w].start >= prune'.cutoff
    <2>1. windows'[w].start = windows[w].start /\ windows[w].there /\ windows[w].blob
      BY <1>10 DEF WindowsEmptied
    <2>2. /\ \A m \in {mark, onDisk} :
               ~(windows[w].start < m.start \/ (windows[w].start = m.start /\ w =< m.id))
          /\ prune.at = "last save" => windows[w].start >= prune.cutoff
      BY <1>1, <2>1 DEF PruneIsWhole, Behind, There
    <2>3. ~(windows[w].start < NoMark.start \/ (windows[w].start = NoMark.start /\ w =< NoMark.id))
      BY <1>3, <1>4
    <2>4. mark' \in {mark, onDisk, NoMark} /\ onDisk' \in {mark, onDisk}
      BY DEF MarksMoved
    <2>5. prune'.at = "last save" => windows[w].start >= prune'.cutoff
      BY <2>2 DEF PruneMoved
    <2>6. \A m \in {mark, onDisk, NoMark} :
            ~(windows[w].start < m.start \/ (windows[w].start = m.start /\ w =< m.id))
      BY <2>2, <2>3
    <2>. QED
      BY <2>1, <2>4, <2>5, <2>6
  <1>11. PruneIsWhole'
    BY <1>7, <1>10 DEF PruneIsWhole, Behind, There
  <1>. QED
    BY <1>6, <1>8, <1>9, <1>11 DEF BlobsKept, BlobsInv

\* The windows of a chunk that is emptied or deleted.
LEMMA ChangedWindows ==
  ASSUME BlobTypes, NEW x, NEW e, \A w \in DOMAIN windows : e[w] \in WindowSet,
         x = [w \in DOMAIN windows |-> e[w]]
  PROVE  x \in Seq(WindowSet) /\ Len(x) = Len(windows)
PROOF
  <1>. DEFINE n == Len(windows)
  <1>1. n \in Nat /\ DOMAIN windows = 1..n
    BY WindowsAre
  <1>. HIDE DEF n
  <1>2. x \in [1..n -> WindowSet]
    BY <1>1
  <1>. QED
    BY <1>1, <1>2 DEF n

\* A window emptied, or its row deleted.
LEMMA WindowChange ==
  ASSUME NEW r \in WindowSet
  PROVE  /\ [r EXCEPT !.blob = FALSE] \in WindowSet
         /\ [r EXCEPT !.blob = FALSE].start = r.start /\ [r EXCEPT !.blob = FALSE].there = r.there
         /\ ~[r EXCEPT !.blob = FALSE].blob
         /\ [r EXCEPT !.there = FALSE] \in WindowSet
         /\ [r EXCEPT !.there = FALSE].start = r.start /\ [r EXCEPT !.there = FALSE].blob = r.blob
         /\ ~[r EXCEPT !.there = FALSE].there
PROOF
  BY DEF WindowSet

\* Leaving the windows alone empties none.
LEMMA SameWindows ==
  ASSUME BlobTypes, UNCHANGED windows
  PROVE  WindowsEmptied
PROOF
  <1>1. windows \in Seq(WindowSet)
    BY DEF BlobTypes, WindowSet
  <1>. QED
    BY <1>1 DEF WindowsEmptied

\* The cutoff of a pass is never after the clock: a pass keeps a day or more.
LEMMA BeginningKeepsBlobs ==
  ASSUME UpkeepInv, PruneBegins
  PROVE  BlobsKept'
PROOF
  <1>1. BlobTypes /\ now \in 0..MaxTime /\ MaxTime \in Nat /\ Keep \in Nat \ {0}
    BY UpkeepAssumption DEF UpkeepInv, ClockTypes
  <1>2. PICK days \in {1, Keep} : prune' = [at |-> "blobs", cutoff |-> now - days + 1, chunks |-> 0]
    BY DEF PruneBegins
  <1>3. /\ mark' = IF loaded THEN mark ELSE onDisk
        /\ savedMark' = IF loaded THEN savedMark ELSE onDisk
        /\ loaded' = TRUE /\ UNCHANGED <<now, windows, onDisk>>
    BY DEF PruneBegins
  <1>4. now - days + 1 \in Int /\ now - days + 1 <= now
    BY <1>1
  <1>5. PruneMoved
    BY <1>2, <1>3, <1>4 DEF PruneMoved
  <1>6. MarksMoved
    BY <1>3 DEF MarksMoved
  <1>7. TimeMoved /\ WindowsEmptied
    BY <1>1, <1>3, SameWindows DEF TimeMoved
  <1>. QED
    BY <1>5, <1>6, <1>7, EmptyingKeepsBlobs

\* Saving the mark keeps the prune whole.
LEMMA SavingKeepsBlobs ==
  ASSUME UpkeepInv, SaveMark
  PROVE  BlobsKept'
PROOF
  <1>1. BlobTypes /\ MarksInv /\ now \in 0..MaxTime /\ MaxTime \in Nat
    BY UpkeepAssumption DEF UpkeepInv, BlobsInv, ClockTypes
  <1>2. /\ UNCHANGED <<now, windows, mark, loaded>>
        /\ prune' = [prune EXCEPT !.at = IF @ = "save" THEN "blobs" ELSE "rows"]
        /\ prune.at \in {"save", "last save"}
    BY DEF SaveMark
  <1>3. onDisk' \in {mark, onDisk} /\ savedMark' \in {mark, savedMark}
    BY DEF SaveMark
  <1>4. MarksMoved
    BY <1>1, <1>2, <1>3 DEF MarksMoved, BlobTypes
  <1>5. PruneMoved
    <2>1. /\ prune' \in [at : {"rest", "blobs", "save", "last save", "rows"}, cutoff : Int,
               chunks : Nat]
          /\ prune'.at \in {"blobs", "rows"} /\ prune'.cutoff = prune.cutoff
      BY <1>1, <1>2 DEF BlobTypes
    <2>2. prune.cutoff <= now
      BY <1>1, <1>2 DEF MarksInv
    <2>. QED
      BY <1>2, <2>1, <2>2 DEF PruneMoved
  <1>6. TimeMoved /\ WindowsEmptied
    <2>1. now' = now /\ windows' = windows
      BY DEF SaveMark
    <2>2. TimeMoved
      BY <1>1, <2>1 DEF TimeMoved
    <2>. QED
      BY <1>1, <2>1, <2>2, SameWindows
  <1>. QED
    BY <1>4, <1>5, <1>6, EmptyingKeepsBlobs

\* Deleting rows keeps the prune whole: a row that is gone has no blob.
LEMMA DeletingKeepsBlobs ==
  ASSUME UpkeepInv, DeleteChunk
  PROVE  BlobsKept'
PROOF
  <1>1. BlobTypes /\ MarksInv /\ now \in 0..MaxTime /\ MaxTime \in Nat
    BY UpkeepAssumption DEF UpkeepInv, BlobsInv, ClockTypes
  <1>. DEFINE old == FirstOf({w \in DOMAIN windows : There(w) /\ windows[w].start < now - Keep})
              e == [w \in DOMAIN windows |->
                     IF w \in old THEN [windows[w] EXCEPT !.there = FALSE] ELSE windows[w]]
  <1>2. /\ windows' \in {windows, e} /\ prune' \in {prune, NoPass} /\ prune.at = "rows"
        /\ UNCHANGED <<now, mark, loaded, savedMark, onDisk>>
    BY DEF DeleteChunk
  <1>. HIDE DEF old
  <1>3. \A w \in DOMAIN windows :
          /\ e[w] \in WindowSet /\ e[w].start = windows[w].start /\ e[w].blob = windows[w].blob
          /\ e[w].there => windows[w].there
    <2>1. \A w \in DOMAIN windows : windows[w] \in WindowSet
      BY <1>1, WindowsAre DEF WindowSet
    <2>2. ASSUME NEW w \in DOMAIN windows
          PROVE  /\ e[w] \in WindowSet /\ e[w].start = windows[w].start
                      /\ e[w].blob = windows[w].blob
                 /\ e[w].there => windows[w].there
      <3>1. CASE w \in old
        BY <2>1, <3>1, WindowChange
      <3>2. CASE w \notin old
        BY <2>1, <3>2
      <3>. QED
        BY <3>1, <3>2
    <2>. QED
      BY <2>2
  <1>4. e \in Seq(WindowSet) /\ Len(e) = Len(windows)
    <2>1. e = [w \in DOMAIN windows |-> e[w]]
      OBVIOUS
    <2>. HIDE DEF e
    <2>. QED
      BY <1>1, <1>3, <2>1, ChangedWindows
  <1>5. WindowsEmptied
    <2>. HIDE DEF e
    <2>1. CASE windows' = e
      BY <1>3, <1>4, <2>1 DEF WindowsEmptied
    <2>2. CASE windows' = windows
      BY <1>1, <2>2, SameWindows
    <2>. QED
      BY <1>2, <2>1, <2>2
  <1>6. MarksMoved
    BY <1>1, <1>2 DEF MarksMoved, BlobTypes
  <1>7. PruneMoved
    <2>1. prune \in [at : {"rest", "blobs", "save", "last save", "rows"}, cutoff : Int,
            chunks : Nat]
      BY <1>1 DEF BlobTypes
    <2>2. NoPass \in [at : {"rest", "blobs", "save", "last save", "rows"}, cutoff : Int,
            chunks : Nat]
          /\ NoPass.at = "rest"
      BY DEF NoPass
    <2>3. prune.cutoff <= now
      BY <1>1, <1>2 DEF MarksInv
    <2>4. CASE prune' = prune
      BY <1>2, <2>1, <2>3, <2>4 DEF PruneMoved
    <2>5. CASE prune' = NoPass
      BY <2>2, <2>5 DEF PruneMoved
    <2>. QED
      BY <1>2, <2>4, <2>5
  <1>8. TimeMoved
    BY <1>1, <1>2 DEF TimeMoved
  <1>. QED
    BY <1>5, <1>6, <1>7, <1>8, EmptyingKeepsBlobs

\* A chunk of the walk: the mark goes to the last window scanned, and every
\* window up to it was scanned now or is behind the old mark.
LEMMA ChunkKeepsBlobs ==
  ASSUME UpkeepInv, PruneChunk
  PROVE  BlobsKept'
PROOF
  <1>1. BlobTypes /\ InStartOrder /\ MarksInv /\ PruneIsWhole /\ now \in 0..MaxTime
          /\ MaxTime \in Nat
    BY UpkeepAssumption DEF UpkeepInv, BlobsInv, ClockTypes
  <1>. DEFINE ids == Scanned
              e == [w \in DOMAIN windows |->
                     IF w \in ids THEN [windows[w] EXCEPT !.blob = FALSE] ELSE windows[w]]
              walked == {w \in DOMAIN windows : There(w) /\ windows[w].start < prune.cutoff
                /\ AfterMark(w)}
  <1>2. PICK answer \in Answers :
          /\ windows' = IF answer = "raised" THEN windows ELSE e
          /\ mark' = IF answer = "stored" /\ ids # {} THEN MarkAfter(ids) ELSE mark
          /\ prune' = IF answer = "stored"
                      THEN [prune EXCEPT !.at = AfterChunk(Cardinality(ids), prune.chunks + 1),
                        !.chunks = @ + 1]
                      ELSE [prune EXCEPT !.at = "rows"]
    BY DEF PruneChunk
  <1>3. prune.at = "blobs" /\ UNCHANGED <<now, loaded, savedMark, onDisk>>
    BY DEF PruneChunk
  <1>4. prune.cutoff <= now /\ prune.cutoff \in Int /\ prune.chunks \in Nat
    BY <1>1, <1>3 DEF MarksInv, BlobTypes
  <1>5. /\ DOMAIN windows = 1..Len(windows) /\ Len(windows) \in Nat /\ IsFiniteSet(DOMAIN windows)
        /\ \A w \in DOMAIN windows :
             windows[w].start \in Nat /\ windows[w].blob \in BOOLEAN /\ windows[w].there \in BOOLEAN
    BY <1>1, WindowsAre
  <1>6. /\ ids \subseteq walked /\ IsFiniteSet(ids)
        /\ \A v \in walked : \A w \in ids : v < w => v \in ids
        /\ Cardinality(ids) < ChunkRows => ids = walked
    <2>1. ids = FirstOf(walked)
      BY DEF Scanned
    <2>2. walked \in SUBSET Nat /\ IsFiniteSet(walked)
      <3>1. walked \subseteq DOMAIN windows
        OBVIOUS
      <3>. HIDE DEF walked
      <3>. QED
        BY <1>5, <3>1, FS_Subset
    <2>. HIDE DEF walked, ids
    <2>. QED
      BY <2>1, <2>2, FirstAre
  <1>7. ids \subseteq DOMAIN windows /\ \A w \in ids : windows[w].start < prune.cutoff
    BY <1>6
  <1>8. \A w \in DOMAIN windows :
          There(w) /\ windows[w].start < prune.cutoff /\ AfterMark(w) <=> w \in walked
    OBVIOUS
  <1>. HIDE DEF ids, walked
  <1>9. \A w \in DOMAIN windows :
          /\ e[w] \in WindowSet /\ e[w].start = windows[w].start /\ e[w].there = windows[w].there
          /\ e[w].blob => windows[w].blob /\ w \notin ids
    <2>1. \A w \in DOMAIN windows : windows[w] \in WindowSet
      BY <1>1, WindowsAre DEF WindowSet
    <2>2. ASSUME NEW w \in DOMAIN windows
          PROVE  /\ e[w] \in WindowSet /\ e[w].start = windows[w].start
                      /\ e[w].there = windows[w].there
                 /\ e[w].blob => windows[w].blob /\ w \notin ids
      <3>1. CASE w \in ids
        BY <2>1, <3>1, WindowChange
      <3>2. CASE w \notin ids
        BY <2>1, <3>2
      <3>. QED
        BY <3>1, <3>2
    <2>. QED
      BY <2>2
  <1>10. e \in Seq(WindowSet) /\ Len(e) = Len(windows)
    <2>1. e = [w \in DOMAIN windows |-> e[w]]
      OBVIOUS
    <2>. HIDE DEF e
    <2>. QED
      BY <1>1, <1>9, <2>1, ChangedWindows
  <1>. HIDE DEF e
  <1>11. WindowsEmptied
    <2>1. CASE answer # "raised"
      BY <1>2, <1>9, <1>10, <2>1 DEF WindowsEmptied
    <2>2. CASE answer = "raised"
      BY <1>1, <1>2, <2>2, SameWindows
    <2>. QED
      BY <2>1, <2>2
  <1>12. CASE answer # "stored"
    <2>1. MarksMoved
      BY <1>1, <1>2, <1>3, <1>12 DEF MarksMoved, BlobTypes
    <2>2. /\ prune' \in [at : {"rest", "blobs", "save", "last save", "rows"}, cutoff : Int,
               chunks : Nat]
          /\ prune'.at = "rows" /\ prune'.cutoff = prune.cutoff
      BY <1>1, <1>2, <1>12 DEF BlobTypes
    <2>3. PruneMoved
      BY <1>3, <1>4, <2>2 DEF PruneMoved
    <2>4. TimeMoved
      BY <1>1, <1>3 DEF TimeMoved
    <2>. QED
      BY <1>11, <2>1, <2>3, <2>4, EmptyingKeepsBlobs
  <1>13. CASE answer = "stored"
    <2>. DEFINE next == AfterChunk(Cardinality(ids), prune.chunks + 1)
    <2>1. next \in {"last save", "save", "blobs"} /\ (next = "last save" => ids = walked)
      BY <1>6 DEF AfterChunk
    <2>2. /\ windows' = e /\ mark' = IF ids # {} THEN MarkAfter(ids) ELSE mark
          /\ prune' = [prune EXCEPT !.at = next, !.chunks = @ + 1]
      BY <1>2, <1>13
    <2>. HIDE DEF next
    <2>3. prune' = [at |-> next, cutoff |-> prune.cutoff, chunks |-> prune.chunks + 1]
      BY <1>1, <2>2 DEF BlobTypes
    <2>. DEFINE L == LastOf(ids)
    <2>4. ids # {} =>
            /\ L \in ids /\ L \in DOMAIN windows /\ L \in Nat /\ L <= Len(windows)
            /\ \A v \in ids : v <= L
            /\ mark' = [start |-> windows[L].start, id |-> L]
      <3>1. ids \in SUBSET Nat
        BY <1>5, <1>7
      <3>2. ids # {} => L \in ids /\ \A v \in ids : v <= L
        BY <1>6, <3>1, LastIs
      <3>. QED
        BY <1>5, <1>7, <2>2, <3>2 DEF MarkAfter
    <2>. HIDE DEF L
    <2>5. mark' \in Marks /\ mark'.start < now /\ mark'.id <= Len(windows)
      <3>1. CASE ids # {}
        <4>1. windows[L].start \in Nat /\ windows[L].start < prune.cutoff
          BY <1>5, <1>7, <2>4, <3>1
        <4>2. windows[L].start < now
          BY <1>1, <1>4, <4>1
        <4>. QED
          BY <2>4, <3>1, <4>1, <4>2 DEF Marks
      <3>2. CASE ids = {}
        BY <1>1, <2>2, <3>2 DEF BlobTypes, MarksInv
      <3>. QED
        BY <3>1, <3>2
    <2>6. BlobTypes'
      <3>1. prune' \in [at : {"rest", "blobs", "save", "last save", "rows"}, cutoff : Int,
              chunks : Nat]
        <4>1. next \in {"rest", "blobs", "save", "last save", "rows"} /\ prune.chunks + 1 \in Nat
          <5>1. \A n \in Nat : n + 1 \in Nat
            OBVIOUS
          <5>. QED
            BY <1>4, <2>1, <5>1
        <4>. QED
          BY <1>4, <2>3, <4>1
      <3>2. windows' \in Seq([start : Nat, blob : BOOLEAN, there : BOOLEAN])
        BY <1>10, <2>2 DEF WindowSet
      <3>. QED
        BY <1>1, <1>3, <2>5, <3>1, <3>2 DEF BlobTypes
    <2>7. DOMAIN windows' = DOMAIN windows /\ Len(windows') = Len(windows)
      <3>1. DOMAIN e = 1..Len(e)
        BY <1>10
      <3>. QED
        BY <1>5, <1>10, <2>2, <3>1
    <2>8. InStartOrder'
      BY <1>1, <1>3, <1>9, <2>2, <2>7 DEF InStartOrder
    <2>9. MarksInv'
      <3>1. \A m \in {savedMark, onDisk} : m.start < now /\ m.id <= Len(windows)
        BY <1>1 DEF MarksInv
      <3>2. prune'.cutoff <= now
        BY <1>4, <2>3
      <3>. QED
        BY <1>3, <2>5, <2>7, <3>1, <3>2 DEF MarksInv
    <2>10. ASSUME NEW w \in DOMAIN windows, e[w].there, e[w].blob
           PROVE  /\ ~(windows[w].start < mark'.start \/ (windows[w].start = mark'.start
                       /\ w =< mark'.id))
                  /\ ~(windows[w].start < onDisk.start \/ (windows[w].start = onDisk.start
                       /\ w =< onDisk.id))
                  /\ next = "last save" => windows[w].start >= prune.cutoff
      <3>1. w \notin ids /\ There(w) /\ windows[w].blob
        BY <1>9, <2>10 DEF There
      <3>2. /\ ~(windows[w].start < mark.start \/ (windows[w].start = mark.start /\ w =< mark.id))
            /\ ~(windows[w].start < onDisk.start \/ (windows[w].start = onDisk.start
                 /\ w =< onDisk.id))
        BY <1>1, <3>1 DEF PruneIsWhole, Behind
      <3>3. windows[w].start \in Nat /\ w \in Nat /\ mark.start \in Int /\ mark.id \in Nat
        <4>1. w \in 1..Len(windows) /\ Len(windows) \in Nat
          BY <1>5
        <4>2. mark \in Marks
          BY <1>1 DEF BlobTypes
        <4>. QED
          BY <1>5, <4>1, <4>2 DEF Marks
      <3>4. AfterMark(w)
        BY <3>2, <3>3 DEF AfterMark
      <3>5. windows[w].start < prune.cutoff => w \in walked
        BY <1>8, <3>1, <3>4
      <3>6. next = "last save" => windows[w].start >= prune.cutoff
        <4>1. next = "last save" => ~(windows[w].start < prune.cutoff)
          BY <2>1, <3>1, <3>5
        <4>2. windows[w].start < prune.cutoff \/ windows[w].start >= prune.cutoff
          BY <1>4, <3>3
        <4>. QED
          BY <4>1, <4>2
      <3>7. ~(windows[w].start < mark'.start \/ (windows[w].start = mark'.start /\ w =< mark'.id))
        <4>1. CASE ids = {}
          BY <2>2, <3>2, <4>1
        <4>2. CASE ids # {}
          <5>1. mark'.start = windows[L].start /\ mark'.id = L
            BY <2>4, <4>2
          <5>2. windows[L].start < prune.cutoff /\ windows[L].start \in Nat
            BY <1>5, <1>7, <2>4, <4>2
          <5>3. SUFFICES ASSUME windows[w].start < windows[L].start
                                \/ (windows[w].start = windows[L].start /\ w =< L)
                         PROVE  FALSE
            BY <5>1
          <5>4. w <= L
            <6>1. ~(L <= w) \/ w = L \/ windows[L].start <= windows[w].start
              BY <1>1, <2>4, <4>2 DEF InStartOrder
            <6>. QED
              BY <2>4, <3>3, <4>2, <5>2, <5>3, <6>1
          <5>5. windows[w].start < prune.cutoff
            BY <1>4, <3>3, <5>2, <5>3
          <5>6. w \in walked /\ w < L
            BY <2>4, <3>1, <3>3, <3>5, <4>2, <5>4, <5>5
          <5>. QED
            BY <1>6, <2>4, <3>1, <4>2, <5>6
        <4>. QED
          BY <4>1, <4>2
      <3>. QED
        BY <3>2, <3>6, <3>7
    <2>11. PruneIsWhole'
      <3>1. prune'.at = next /\ prune'.cutoff = prune.cutoff /\ onDisk' = onDisk
        BY <1>3, <2>3
      <3>2. \A w \in DOMAIN windows : windows'[w].start = windows[w].start
        BY <1>9, <2>2
      <3>. QED
        BY <2>2, <2>7, <2>10, <3>1, <3>2 DEF PruneIsWhole, Behind, There
    <2>. QED
      BY <2>6, <2>8, <2>9, <2>11 DEF BlobsKept, BlobsInv
  <1>. QED
    BY <1>12, <1>13

\* Everything else leaves the windows alone; a crash forgets the pass and the mark
\* in memory.
LEMMA BlobsStay ==
  ASSUME UpkeepInv, TimeMoved, UNCHANGED <<windows, onDisk>>, loaded' \in {loaded, FALSE},
         mark' \in {mark, NoMark}, savedMark' \in {savedMark, NoMark}, prune' \in {prune, NoPass}
  PROVE  BlobsKept'
PROOF
  <1>1. BlobTypes /\ MarksInv
    BY DEF UpkeepInv, BlobsInv
  <1>2. MarksMoved
    BY <1>1 DEF MarksMoved, BlobTypes
  <1>3. prune.at # "rest" => prune.cutoff <= now'
    <2>1. \A t \in Int : t <= now => t <= now'
      BY DEF TimeMoved
    <2>. QED
      BY <1>1, <2>1 DEF MarksInv, BlobTypes
  <1>4. PruneMoved
    <2>1. prune \in [at : {"rest", "blobs", "save", "last save", "rows"}, cutoff : Int,
            chunks : Nat]
      BY <1>1 DEF BlobTypes
    <2>2. NoPass \in [at : {"rest", "blobs", "save", "last save", "rows"}, cutoff : Int,
            chunks : Nat]
          /\ NoPass.at = "rest"
      BY DEF NoPass
    <2>3. CASE prune' = prune
      BY <1>3, <2>1, <2>3 DEF PruneMoved
    <2>4. CASE prune' = NoPass
      BY <2>2, <2>4 DEF PruneMoved
    <2>. QED
      BY <2>3, <2>4
  <1>5. WindowsEmptied
    BY <1>1, SameWindows
  <1>. QED
    BY <1>2, <1>4, <1>5, EmptyingKeepsBlobs

\* Every step keeps the prune whole.
LEMMA BlobsAreKept ==
  ASSUME UpkeepInv, UpkeepNext \/ UNCHANGED upkeepVars
  PROVE  BlobTypes' /\ BlobsInv'
PROOF
  <1>1. TimeMoved
    <2>1. now \in Int /\ now' \in Int /\ now <= now'
      BY ClockIsKept, UpkeepAssumption DEF UpkeepInv, ClockTypes
    <2>. QED
      BY <2>1 DEF TimeMoved
  <1>2. CASE StoreWindow \/ PruneBegins \/ PruneChunk \/ SaveMark \/ DeleteChunk
    BY <1>2, StoringKeepsBlobs, BeginningKeepsBlobs, ChunkKeepsBlobs, SavingKeepsBlobs,
         DeletingKeepsBlobs
       DEF BlobsKept
  <1>3. CASE UNCHANGED blobVars
    BY <1>1, <1>3, BlobsStay DEF blobVars, BlobsKept
  <1>4. CASE AddRecorded \/ AddDeleted \/ AddActive \/ Take \/ Flushed \/ FlushFails \/ Stops
               \/ Drained
    BY <1>3, <1>4 DEF AddRecorded, AddDeleted, AddActive, Counts, Take, Flushed, FlushFails, Stops,
         Drained
  <1>5. CASE Detect \/ Attribute \/ FirstMarks \/ PassBegins \/ CountHour \/ PassEnds \/ StoreHour
               \/ MarkHour
             \/ RowsExpire \/ Tick \/ Restart
    BY <1>3, <1>5 DEF Detect, Attribute, FirstMarks, PassBegins, CountHour, PassEnds, StoreHour,
         MarkHour,
                      RowsExpire, Tick, Restart
  <1>6. CASE Crash
    BY <1>1, <1>6, BlobsStay DEF Crash, BlobsKept
  <1>7. CASE UNCHANGED upkeepVars
    BY <1>3, <1>7 DEF upkeepVars
  <1>. QED
    BY <1>2, <1>4, <1>5, <1>6, <1>7 DEF UpkeepNext

-----------------------------------------------------------------------------
(* Upkeep: the theorem.                                                    *)

\* The invariant holds of a database that was just made.
LEMMA UpkeepInvInit == UpkeepInit => UpkeepInv
PROOF
  <1>. SUFFICES ASSUME UpkeepInit PROVE UpkeepInv
    OBVIOUS
  <1>1. MaxTime \in Nat /\ MaxUnsure \in Nat
    BY UpkeepAssumption
  <1>2. ClockTypes
    BY <1>1 DEF UpkeepInit, ClockTypes
  <1>3. /\ pending = Zero /\ taken = Zero /\ stored = Zero /\ recorded = Zero /\ unsure = 0
        /\ flushing = FALSE /\ phase = "up"
    BY DEF UpkeepInit
  <1>4. FigureTypes /\ PhaseInv /\ OthersRest
    <2>1. Zero \in Tables
      BY ZeroIs
    <2>2. FigureTypes
      <3>1. 0 \in 0..(MaxUnsure + 1)
        BY <1>1
      <3>. QED
        BY <1>3, <2>1, <3>1 DEF FigureTypes
    <2>3. PhaseInv
      BY <1>1, <1>3 DEF PhaseInv
    <2>4. OthersRest
      BY <1>3 DEF OthersRest
    <2>. QED
      BY <2>2, <2>3, <2>4
  <1>5. FiguresInv
    <2>1. ASSUME NEW f \in Fields
          PROVE  Sum(pending, f) = 0 /\ Sum(taken, f) = 0 /\ Sum(Kept, f) = 0
                   /\ Sum(recorded, f) = 0
      <3>1. Zero \in Tables /\ Sum(Zero, f) = 0
        BY ZeroIs
      <3>2. Sum(Plus(Plus(Zero, Zero), Zero), f) = 0
        BY <3>1, KeptIs
      <3>. QED
        BY <1>3, <3>1, <3>2 DEF Kept
    <2>2. \A f \in Fields :
            /\ Sum(pending, f) >= 0 /\ Sum(taken, f) >= 0 /\ Sum(Kept, f) >= Sum(recorded, f)
            /\ Sum(Kept, f) = Sum(recorded, f)
      BY <2>1
    <2>. QED
      BY <2>2 DEF FiguresInv
  <1>6. NoRow \in Rows /\ NoRow \in [untried : Int, tried : Int]
    BY DEF NoRow, Rows
  <1>7. HourTypes /\ HoursInv
    <2>1. /\ detections = [h \in Hours |-> NoRow] /\ landed = detections /\ gone = {}
          /\ since = -1 /\ done = -1 /\ counts = detections
          /\ pass = [at |-> "rest", hour |-> 0, left |-> 0, got |-> NoRow]
      BY DEF UpkeepInit, AtRest
    <2>2. HourTypes
      BY <1>6, <2>1 DEF HourTypes
    <2>3. HoursInv
      BY <2>1 DEF HoursInv, HoursAreWhole
    <2>. QED
      BY <2>2, <2>3
  <1>8. BlobTypes /\ BlobsInv
    <2>1. /\ windows = <<>> /\ mark = [start |-> -1, id |-> 0] /\ loaded = FALSE
          /\ savedMark = mark /\ onDisk = mark /\ prune = [at |-> "rest", cutoff |-> 0,
               chunks |-> 0]
          /\ now = 0
      BY DEF UpkeepInit, NoMark, NoPass
    <2>2. windows \in Seq(WindowSet) /\ DOMAIN windows = {} /\ Len(windows) = 0
      <3>1. <<>> \in Seq(WindowSet)
        OBVIOUS
      <3>2. DOMAIN <<>> = {}
        OBVIOUS
      <3>. QED
        BY <2>1, <3>1, <3>2
    <2>3. mark \in Marks /\ mark.start < now /\ mark.id <= 0
      BY <2>1 DEF Marks
    <2>4. BlobTypes
      <3>1. prune \in [at : {"rest", "blobs", "save", "last save", "rows"}, cutoff : Int,
              chunks : Nat]
        BY <2>1
      <3>2. {mark, savedMark, onDisk} \subseteq Marks /\ loaded \in BOOLEAN
        BY <2>1, <2>3
      <3>. QED
        BY <2>2, <3>1, <3>2 DEF BlobTypes, WindowSet
    <2>5. InStartOrder /\ PruneIsWhole
      BY <2>2 DEF InStartOrder, PruneIsWhole
    <2>6. MarksInv
      BY <2>1, <2>2, <2>3 DEF MarksInv
    <2>. QED
      BY <2>4, <2>5, <2>6 DEF BlobsInv
  <1>. QED
    BY <1>2, <1>4, <1>5, <1>7, <1>8 DEF UpkeepInv

\* Every step keeps the invariant.
LEMMA UpkeepInvKept == UpkeepInv /\ [UpkeepNext]_upkeepVars => UpkeepInv'
PROOF
  <1>. SUFFICES ASSUME UpkeepInv, UpkeepNext \/ UNCHANGED upkeepVars PROVE UpkeepInv'
    OBVIOUS
  <1>. QED
    BY ClockIsKept, FiguresAreKept, HoursAreKept, BlobsAreKept DEF UpkeepInv

\* The invariant gives what the run checks of the loops.
LEMMA UpkeepInvGivesAll == UpkeepInv => LoopsLoseNothing
PROOF
  <1>. SUFFICES ASSUME UpkeepInv PROVE LoopsLoseNothing
    OBVIOUS
  <1>1. FiguresKept
    <2>1. MaxUnsure \in Nat
      BY UpkeepAssumption
    <2>2. \A f \in Fields : Sum(Kept, f) >= Sum(recorded, f)
            /\ (unsure > 0 \/ Sum(Kept, f) = Sum(recorded, f))
      BY <2>1 DEF UpkeepInv, FiguresInv, FigureTypes
    <2>3. phase = "flushed" => pending = Zero
      BY DEF UpkeepInv, PhaseInv
    <2>. QED
      BY <2>2, <2>3 DEF FiguresKept
  <1>2. HoursAreWhole /\ PruneIsWhole
    BY DEF UpkeepInv, HoursInv, BlobsInv
  <1>3. UpkeepTypeOK
    <2>1. \A h \in Hours :
            {detections[h].untried, detections[h].tried, counts[h].untried,
              counts[h].tried} \subseteq Nat
      <3>1. \A h \in Hours : detections[h] \in Rows /\ counts[h] \in Rows
        BY DEF UpkeepInv, HourTypes
      <3>. QED
        BY <3>1 DEF Rows
    <2>2. {mark.id, savedMark.id, onDisk.id} \subseteq 0..Len(windows)
      <3>1. Len(windows) \in Nat
        BY WindowsAre DEF UpkeepInv
      <3>2. \A m \in {mark, savedMark, onDisk} : m.id \in Nat /\ m.id <= Len(windows)
        BY DEF UpkeepInv, BlobTypes, BlobsInv, MarksInv, Marks
      <3>. QED
        BY <3>1, <3>2
    <2>. QED
      BY <2>1, <2>2 DEF UpkeepInv, UpkeepTypeOK, ClockTypes, FigureTypes, HourTypes
  <1>. QED
    BY <1>1, <1>2, <1>3 DEF LoopsLoseNothing

\* The invariant holds of every behaviour of the loops.
THEOREM UpkeepIsKept == UpkeepSpec => []UpkeepInv
PROOF
  BY UpkeepInvInit, UpkeepInvKept, PTL DEF UpkeepSpec

\* No recorded figure is lost, every hour marked done holds its detections'
\* counts, and no blob is behind the prune mark, for every number of captures,
\* detections and windows, whichever writes fail and whenever the process dies.
THEOREM TheLoopsLoseNothing == UpkeepSpec => []LoopsLoseNothing
PROOF
  BY UpkeepIsKept, UpkeepInvGivesAll, PTL
=============================================================================
