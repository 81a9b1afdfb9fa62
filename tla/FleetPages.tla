----------------------------- MODULE FleetPages -----------------------------
(***************************************************************************)
(* The fleet's merged lists (fleet/app.py, captures.py, detections.py): a  *)
(* browser pages through every sensor's captures by a cursor of offsets,   *)
(* or through their detections by the start time of the last row.  An item *)
(* is its place in its sensor's own order: a detection's start time, or    *)
(* when a capture was last written; `began` is the start time the fleet    *)
(* merges by, 0 for a capture without metadata.                            *)
(***************************************************************************)
EXTENDS Integers, Sequences, FiniteSets, SequencesExt

CONSTANTS
  Sensors,    \* of the registry, in its order: a set of naturals
  Limit,      \* rows of a page
  Items,      \* the items there are at first: 1..Items, by their sensors' order
  MaxNew,     \* bound on new items, and on removed ones
  MaxFaults,  \* bound on reads that fail
  MaxToggles, \* bound on disabling and enabling a sensor
  Scenarios   \* what may happen in one behaviour: sets of Occurrences

Occurrences ==
  {"captures", "detections", "new", "removed", "fails", "toggle", "ties", "tried",
   "long"}  \* a capture was written later than it began, or has no metadata

VARIABLES
  happens,
  list,     \* sensor -> its items
  began,    \* item -> the start time it is merged by
  wanted,   \* the items the page's filter keeps
  enabled,  \* the enabled sensors
  phase,    \* of the page: "idle", "asking", "done"
  answer,   \* sensor asked -> its answer, or NoAnswer
  cursor,   \* sensor -> offset (0: not in the cursor)
  before,   \* the detections' until
  shown,    \* the rows shown, oldest page first: <<item, sensor>>
  down,     \* the sensors that failed in the last page read
  news, gone, faults, toggles

vars == <<happens, list, began, wanted, enabled, phase, answer, cursor, before, shown, down,
          news, gone, faults, toggles>>

NoAnswer == [ok |-> FALSE, rows |-> <<>>, total |-> -1]
Failed == [ok |-> FALSE, rows |-> <<>>, total |-> 0]
Newest == Items + MaxNew + 1

InOrder == [t \in 1..Newest |-> t]

\* Each item is one sensor's, or with "ties" some of them are on two.
Init ==
  /\ happens \in Scenarios
  /\ \E owners \in [1..Items -> IF "ties" \in happens THEN SUBSET Sensors \ {{}}
                                ELSE {{s} : s \in Sensors}] :
       list = [s \in Sensors |-> {t \in 1..Items : s \in owners[t]}]
  /\ began \in {InOrder} \cup
       (IF "long" \in happens
        THEN UNION {{[InOrder EXCEPT ![t] = b] : b \in 0..(t - 1)} : t \in 1..Items} ELSE {})
  /\ wanted \in IF "tried" \in happens THEN SUBSET (1..Newest) ELSE {1..Newest}
  /\ enabled = Sensors /\ phase = "idle" /\ answer = <<>>
  /\ cursor = [s \in Sensors |-> 0] /\ before = Newest
  /\ shown = <<>> /\ down = {}
  /\ news = 0 /\ gone = 0 /\ faults = 0 /\ toggles = 0

Captures == "captures" \in happens

Smallest(set) == CHOOSE s \in set : \A r \in set : s <= r
Descending(times) == SetToSortSeq(times, LAMBDA a, b : a > b)
FirstOf(seq, n) == SubSeq(seq, 1, IF Len(seq) < n THEN Len(seq) ELSE n)

----------------------------------------------------------------------------
(* One page                                                                *)

\* The page is asked of every enabled sensor.
Ask ==
  /\ phase = "idle" /\ phase' = "asking"
  /\ answer' = [s \in enabled |-> NoAnswer]
  /\ UNCHANGED <<happens, list, began, wanted, enabled, cursor, before, shown, down, news, gone, faults, toggles>>

\* captures_list: the last written first, from the offset on.
CaptureRows(s) == FirstOf(SubSeq(Descending(list[s]), cursor[s] + 1, Cardinality(list[s])), Limit)

\* detections.json: the newest before until; the fleet then keeps what the
\* page's filter wants (a status the sensor's own filter cannot tell).
DetectionRows(s) ==
  SelectSeq(FirstOf(Descending({t \in list[s] : t < before}), Limit), LAMBDA t : t \in wanted)

Answered(s, a) ==
  /\ phase = "asking" /\ s \in DOMAIN answer /\ answer[s] = NoAnswer
  /\ answer' = [answer EXCEPT ![s] = a]
  /\ UNCHANGED <<happens, list, began, wanted, enabled, phase, cursor, before, shown, down, news, gone, toggles>>

Answer(s) ==
  /\ Answered(s, [ok |-> TRUE, rows |-> IF Captures THEN CaptureRows(s) ELSE DetectionRows(s),
                  total |-> Cardinality(list[s])])
  /\ UNCHANGED faults

Fail(s) ==
  /\ "fails" \in happens /\ faults < MaxFaults /\ faults' = faults + 1
  /\ Answered(s, Failed)

\* Mutant: the merge takes the sensors in their order.
BestInOrder(heads) == Smallest(DOMAIN heads)

\* merge_page and merge take the next row that began last, the first sensor's
\* on a tie.
Best(heads) == Smallest({s \in DOMAIN heads : \A r \in DOMAIN heads : heads[r] <= heads[s]})

\* The merged rows, and how many of each sensor's are among them.
Merged[n \in 0..Limit] ==
  IF n = 0 THEN [rows |-> <<>>, taken |-> [s \in DOMAIN answer |-> 0]]
  ELSE LET m == Merged[n - 1]
           left == {s \in DOMAIN answer : m.taken[s] < Len(answer[s].rows)}
           s == Best([r \in left |-> began[answer[r].rows[m.taken[r] + 1]]])
       IN IF left = {} THEN m
          ELSE [rows |-> Append(m.rows, <<answer[s].rows[m.taken[s] + 1], s>>),
                taken |-> [m.taken EXCEPT ![s] = @ + 1]]

Total(f) == FoldFunction(LAMBDA a, b : a + b, 0, f)

\* The new cursor names the sensors that were asked, no others.
CursorAfter(m) == [s \in Sensors |-> IF s \in DOMAIN answer THEN cursor[s] + m.taken[s] ELSE 0]

\* The merged page goes out.  The captures say there is more while fewer are
\* shown than the sensors that answered have; the detections while the page
\* is full, and the next one starts below its last row.
Merge ==
  /\ phase = "asking" /\ \A s \in DOMAIN answer : answer[s] # NoAnswer
  /\ LET m == Merged[Limit]
     IN /\ shown' = shown \o m.rows
        /\ cursor' = CursorAfter(m)
        /\ before' = IF Len(m.rows) = 0 THEN before ELSE m.rows[Len(m.rows)][1]
        /\ phase' = IF IF Captures
                       THEN Total(cursor') < Total([s \in DOMAIN answer |-> answer[s].total])
                       ELSE Len(m.rows) >= Limit
                    THEN "idle" ELSE "done"
  /\ down' = {s \in DOMAIN answer : ~answer[s].ok}
  /\ answer' = <<>>
  /\ UNCHANGED <<happens, list, began, wanted, enabled, news, gone, faults, toggles>>

----------------------------------------------------------------------------
(* The sensors, and the registry                                           *)

\* A sensor makes a new item, or drops one.
Record(s) ==
  /\ "new" \in happens /\ news < MaxNew /\ news' = news + 1
  /\ list' = [list EXCEPT ![s] = @ \cup {Items + news + 1}]
  /\ UNCHANGED <<happens, began, wanted, enabled, phase, answer, cursor, before, shown, down, gone, faults, toggles>>

Forget(s) ==
  /\ "removed" \in happens /\ gone < MaxNew /\ gone' = gone + 1
  /\ \E t \in list[s] : list' = [list EXCEPT ![s] = @ \ {t}]
  /\ UNCHANGED <<happens, began, wanted, enabled, phase, answer, cursor, before, shown, down, news, faults, toggles>>

Toggle(s) ==
  /\ "toggle" \in happens /\ toggles < MaxToggles /\ toggles' = toggles + 1
  /\ enabled' = IF s \in enabled THEN enabled \ {s} ELSE enabled \cup {s}
  /\ UNCHANGED <<happens, list, began, wanted, phase, answer, cursor, before, shown, down, news, gone, faults>>

Next ==
  \/ Ask \/ Merge
  \/ \E s \in Sensors : Answer(s)
  \/ \E s \in Sensors : Fail(s)
  \/ \E s \in Sensors : Record(s)
  \/ \E s \in Sensors : Forget(s)
  \/ \E s \in Sensors : Toggle(s)

Spec == Init /\ [][Next]_vars

----------------------------------------------------------------------------
(* Properties                                                              *)

Rows == {shown[i] : i \in DOMAIN shown}

\* Types: a cursor and a row are of a sensor of the registry.
TypeOK ==
  /\ list \in [Sensors -> SUBSET (1..Newest)] /\ wanted \subseteq 1..Newest
  /\ began \in [1..Newest -> 0..Newest]
  /\ enabled \subseteq Sensors /\ down \subseteq Sensors
  /\ phase \in {"idle", "asking", "done"}
  /\ cursor \in [Sensors -> Nat] /\ before \in 0..Newest
  /\ Rows \subseteq (1..Newest) \X Sensors

\* Reading on never shows an item again, whatever fails meanwhile, while the
\* sensors' lists do not grow.
NothingTwice == "new" \notin happens /\ "toggle" \notin happens => Cardinality(Rows) = Len(shown)

\* A list that shows no more is complete: every item the sensors that answered
\* still have (and the filter wants) was shown.  Captures that fail to read
\* are only late; items that are removed may hide others, ties between
\* detections too.
NothingSkipped ==
  (/\ phase = "done" /\ down = {}
   /\ happens \subseteq {"captures", "detections", "fails", "new", "long"}) =>
    \A s \in enabled : \A t \in list[s] \ (Items + 1)..Newest :
      <<t, s>> \in Rows \/ (~Captures /\ faults > 0)

\* Across its pages, too, a list shows every item once.
EachShownOnce == NothingTwice /\ NothingSkipped

\* Across the pages, too, a sensor's rows keep its own order, and a row comes
\* after one that began before it only behind a row of its own sensor that
\* began no later than that one: one last written later than the row's, though
\* it began earlier, or one without metadata (fleet/captures.py: "each sensor's list is consumed in its own
\* order").  Where the two orders agree, the rows come newest first.
NewestFirst ==
  happens \in {{"captures"}, {"captures", "long"}, {"detections"}} =>
    \A i, j \in DOMAIN shown :
      i < j =>
        /\ shown[i][2] = shown[j][2] => shown[i][1] > shown[j][1]
        /\ began[shown[i][1]] < began[shown[j][1]] =>
             \E k \in i..(j - 1) :
               shown[k][2] = shown[j][2] /\ began[shown[k][1]] <= began[shown[i][1]]

=============================================================================
