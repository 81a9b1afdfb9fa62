---------------------------- MODULE NetworkProofs ----------------------------
(***************************************************************************)
(* What crosses the network.  The rf-db writer's bookmark: what it         *)
(* promises, for any batch size and any number of windows, failed          *)
(* requests, lost answers and crashes.  The fleet's live hub: a browser is *)
(* queued the frames of the mode it chose, and none stays drawn on         *)
(* another tuning's axis, for any browsers, switches, drops and retunes.   *)
(***************************************************************************)
EXTENDS FleetLive, Forward, FiniteSetTheorems, SequenceTheorems, TLAPS

-----------------------------------------------------------------------------
(* The bookmark                                                            *)

\* The places and the marks: none is beyond the newest window.
Marks ==
  /\ newest \in Nat /\ windows \subseteq 1..newest
  /\ bookmark \in Int /\ saved \in Int /\ first \in Int
  /\ bookmark <= newest /\ saved <= newest /\ first <= newest
  /\ batch \subseteq 1..newest /\ last \in Int

\* The batch in hand leaves out no window between the bookmark and its last.
BatchIsNext ==
  pc \in {"insert", "rows", "mark"} =>
    /\ last \in batch
    /\ \A i \in windows \ batch : i <= last => i <= bookmark

\* What rf-db can take of the batch has got there, or is still to be tried.
BatchIsSent ==
  /\ pc = "rows" => \A i \in batch : bad[i] = "no" => i \in Sent \/ i \in todo
  /\ pc = "mark" => \A i \in batch : bad[i] = "no" => i \in Sent

Inv == Marks /\ BatchIsNext /\ BatchIsSent /\ BehindBookmark

----------------------------------------------------------------------------

\* What is in rf-db stays there, whatever rows are added.
LEMMA SentGrows ==
  ASSUME NEW ids, outputs' = Stored(ids)
  PROVE  Sent \subseteq Sent' /\ ids \subseteq Sent'
<1>1. ASSUME NEW i \in Sent PROVE i \in Sent'
  BY <1>1 DEF Sent, Stored
<1>2. ASSUME NEW i \in ids PROVE i \in Sent'
  <2> DEFINE row == [id |-> i, length |-> withLength]
  <2>1. row \in outputs' /\ row.id = i
    BY DEF Stored
  <2> QED BY <2>1 DEF Sent
<1> QED BY <1>1, <1>2

\* The query for the next batch leaves out nothing older than what it returns.
LEMMA NextBatchIsOldest ==
  ASSUME NEW mark \in Int, NEW w \in Nat, windows \subseteq 1..w,
         NEW l \in NextBatch(mark), NEW i \in windows, i \notin NextBatch(mark), i <= l
  PROVE  i <= mark
<1> DEFINE Below(k) == {j \in After(mark) : j < k}
<1> SUFFICES ASSUME i > mark PROVE FALSE
  OBVIOUS
<1>1. i \in After(mark) /\ l \in After(mark) /\ i \in Int /\ l \in Int
  BY DEF After, NextBatch
<1>2. IsFiniteSet(After(mark))
  <2>1. IsFiniteSet(1..w) BY FS_Interval
  <2> QED BY <2>1, FS_Subset DEF After
<1>3. IsFiniteSet(Below(l)) /\ Below(i) \subseteq Below(l)
  <2>1. ASSUME NEW j \in Below(i) PROVE j \in Below(l)
    <3>1. j \in After(mark) /\ j < i OBVIOUS
    <3>2. j \in Int BY <3>1 DEF After
    <3>3. j < l BY <1>1, <3>1, <3>2
    <3> QED BY <3>1, <3>3
  <2>2. Below(l) \subseteq After(mark) OBVIOUS
  <2>3. IsFiniteSet(Below(l)) BY ONLY <1>2, <2>2, FS_Subset
  <2> QED BY <2>1, <2>3
<1>4. /\ Cardinality(Below(i)) <= Cardinality(Below(l))
      /\ Cardinality(Below(i)) \in Nat /\ Cardinality(Below(l)) \in Nat
  <2>1. IsFiniteSet(Below(i)) BY <1>3, FS_Subset
  <2> QED BY <1>3, <2>1, FS_Subset, FS_CardinalityType
<1>5. Cardinality(Below(l)) < Batch /\ ~(Cardinality(Below(i)) < Batch)
  BY <1>1 DEF NextBatch
<1> QED BY <1>4, <1>5, ForwardAssumption

\* A step that leaves the windows, the batch and the marks alone, and takes
\* nothing out of rf-db, keeps everything but what is said of the place.
LEMMA KeepsBehind ==
  ASSUME Inv, UNCHANGED <<newest, windows, bad, bookmark, saved, first>>, Sent \subseteq Sent'
  PROVE  BehindBookmark'
<1> QED BY DEF Inv, BehindBookmark, Due

\* _save_bookmark, whichever way it ends, of a value that nothing is behind.
LEMMA SaveKeepsBehind ==
  ASSUME Inv, NEW value \in Int, Saved(value), value <= newest,
         \A i \in windows : Due(i) /\ i <= value => i \in Sent,
         bookmark' \in {bookmark, value},
         UNCHANGED <<newest, windows, bad, outputs, first, batch, last>>
  PROVE  Marks' /\ BehindBookmark'
<1>1. saved' \in {saved, value}
  BY DEF Saved
<1>2. Marks'
  BY <1>1 DEF Inv, Marks
<1>3. Sent' = Sent
  BY DEF Sent
<1> QED BY <1>1, <1>2, <1>3 DEF Inv, BehindBookmark, Due

----------------------------------------------------------------------------

LEMMA InitHolds == ForwardInit => Inv
<1> SUFFICES ASSUME ForwardInit PROVE Inv
  OBVIOUS
<1> QED BY DEF ForwardInit, Inv, Marks, BatchIsNext, BatchIsSent, BehindBookmark, Unset

LEMMA OpenStep == Inv /\ Open => Inv'
<1> SUFFICES ASSUME Inv, Open PROVE Inv'
  OBVIOUS
<1>1. pc' \in {"load", "open"}
  BY DEF Open
<1>2. Sent' = Sent
  BY DEF Open, Sent, world
<1>3. BehindBookmark'
  BY <1>2, KeepsBehind DEF Open, world
<1> QED BY <1>1, <1>3 DEF Open, Inv, Marks, BatchIsNext, BatchIsSent, world

LEMMA LoadStep == Inv /\ Load => Inv'
<1> SUFFICES ASSUME Inv, Load PROVE Inv'
  OBVIOUS
<1>1. /\ pc' \in {"first", "hardware"}
      /\ UNCHANGED <<newest, windows, bad, outputs, batch, last, saved>>
  BY DEF Load, world
<1>2. Sent' = Sent
  BY <1>1 DEF Sent
<1>3. CASE bookmark = Unset /\ saved = Unset /\ bookmark' = bookmark /\ first' \in windows \cup {0}
  <2>1. Marks'
    BY <1>1, <1>3 DEF Inv, Marks
  <2>2. BehindBookmark'
    BY <1>1, <1>3 DEF Inv, Marks, BehindBookmark, Unset
  <2> QED BY <1>1, <2>1, <2>2 DEF Inv, BatchIsNext, BatchIsSent
<1>4. CASE first' = first /\ bookmark' \in {bookmark, saved}
  <2>1. Marks' /\ BehindBookmark'
    BY <1>1, <1>2, <1>4 DEF Inv, Marks, BehindBookmark, Due
  <2> QED BY <1>1, <2>1 DEF Inv, BatchIsNext, BatchIsSent
<1> QED BY <1>3, <1>4 DEF Load

LEMMA SaveFirstStep == Inv /\ SaveFirst => Inv'
<1> SUFFICES ASSUME Inv, SaveFirst PROVE Inv'
  OBVIOUS
<1>1. \A i \in windows : Due(i) /\ i <= first => i \in Sent
  BY DEF Inv, Marks, Due
<1>2. Marks' /\ BehindBookmark'
  BY <1>1, SaveKeepsBehind DEF SaveFirst, Inv, Marks, world
<1> QED BY <1>2 DEF SaveFirst, Inv, BatchIsNext, BatchIsSent

LEMMA HardwareStep == Inv /\ Hardware => Inv'
<1> SUFFICES ASSUME Inv, Hardware PROVE Inv'
  OBVIOUS
<1>1. pc' \in {"read", "open"}
  BY DEF Hardware, Failed
<1>2. Sent' = Sent
  BY DEF Hardware, Sent, world
<1>3. BehindBookmark'
  BY <1>2, KeepsBehind DEF Hardware, world
<1> QED BY <1>1, <1>3 DEF Hardware, Inv, Marks, BatchIsNext, BatchIsSent, world

LEMMA ReadStep == Inv /\ Read => Inv'
<1> SUFFICES ASSUME Inv, Read PROVE Inv'
  OBVIOUS
<1>1. /\ UNCHANGED <<newest, windows, bad, outputs, bookmark, saved, first>>
      /\ batch' = NextBatch(bookmark) /\ pc' \in {"open", "mark", "insert"}
  BY DEF Read, world
<1>2. Sent' = Sent
  BY <1>1 DEF Sent
<1>3. BehindBookmark'
  BY <1>1, <1>2, KeepsBehind
<1>4. batch' \subseteq windows
  BY <1>1 DEF NextBatch, After
<1>5. batch' # {} => last' \in batch'
  BY DEF Read
<1>6. Marks'
  <2>1. last' \in Int
    BY <1>4, <1>5 DEF Read, Inv, Marks
  <2> QED BY <1>1, <1>4, <2>1 DEF Inv, Marks
<1>7. BatchIsNext'
  <2> SUFFICES ASSUME pc' \in {"insert", "rows", "mark"}
               PROVE  last' \in batch' /\ \A i \in windows \ batch' : i <= last' => i <= bookmark
    BY <1>1 DEF BatchIsNext
  <2>1. last' \in batch'
    BY <1>5 DEF Read
  <2>2. ASSUME NEW i \in windows \ batch', i <= last' PROVE i <= bookmark
    BY <1>1, <2>1, <2>2, NextBatchIsOldest DEF Inv, Marks
  <2> QED BY <2>1, <2>2
<1>8. BatchIsSent'
  <2>1. pc' = "mark" => Rows(batch') = {}
    BY DEF Read
  <2>2. pc' = "mark" => \A i \in batch' : bad[i] = "unstorable"
    BY <2>1 DEF Rows
  <2> QED BY <1>1, <2>2 DEF BatchIsSent
<1> QED BY <1>3, <1>6, <1>7, <1>8 DEF Inv

LEMMA InsertStep == Inv /\ Insert => Inv'
<1> SUFFICES ASSUME Inv, Insert PROVE Inv'
  OBVIOUS
<1>1. /\ UNCHANGED <<newest, windows, bad, bookmark, saved, first, batch, last>>
      /\ pc = "insert" /\ pc' \in {"mark", "open", "rows"}
  BY DEF Insert, Failed
<1>2. Marks' /\ BatchIsNext'
  BY <1>1 DEF Inv, Marks, BatchIsNext
<1>3. CASE /\ \A i \in Rows(batch) : bad[i] = "no"
           /\ outputs' = Stored(Rows(batch)) /\ pc' \in {"mark", "open"}
  <2>1. Sent \subseteq Sent' /\ Rows(batch) \subseteq Sent'
    BY <1>3, SentGrows
  <2>2. BatchIsSent'
    BY <1>1, <1>3, <2>1 DEF BatchIsSent, Rows
  <2> QED BY <1>1, <1>2, <2>1, <2>2, KeepsBehind DEF Inv
<1>4. CASE outputs' = outputs /\ pc' \in {"rows", "open"} /\ (pc' = "rows" => todo' = Rows(batch))
  <2>1. Sent' = Sent
    BY <1>4 DEF Sent
  <2>2. BatchIsSent'
    BY <1>1, <1>4 DEF BatchIsSent, Rows
  <2> QED BY <1>1, <1>2, <2>1, <2>2, KeepsBehind DEF Inv
<1> QED BY <1>3, <1>4 DEF Insert, Failed

LEMMA InsertRowStep == Inv /\ InsertRow => Inv'
<1> SUFFICES ASSUME Inv, InsertRow PROVE Inv'
  OBVIOUS
<1>1. /\ UNCHANGED <<newest, windows, bad, bookmark, saved, first, batch, last>>
      /\ pc = "rows" /\ pc' \in {"rows", "open"}
  BY DEF InsertRow, Failed
<1>2. Marks' /\ BatchIsNext'
  BY <1>1 DEF Inv, Marks, BatchIsNext
<1>3. PICK i \in todo :
        /\ outputs' = IF bad[i] = "no" THEN Stored({i}) ELSE outputs
        /\ pc' = "rows" => todo' = todo \ {i}
  BY DEF InsertRow, RowTried, Failed
<1>4. Sent \subseteq Sent' /\ (bad[i] = "no" => i \in Sent')
  <2>1. CASE bad[i] = "no"
    BY <1>3, <2>1, SentGrows
  <2>2. CASE bad[i] # "no"
    BY <1>3, <2>2 DEF Sent
  <2> QED BY <2>1, <2>2
<1>5. BatchIsSent'
  BY <1>1, <1>3, <1>4 DEF Inv, BatchIsSent
<1> QED BY <1>1, <1>2, <1>4, <1>5, KeepsBehind DEF Inv

LEMMA RowsDoneStep == Inv /\ RowsDone => Inv'
<1> SUFFICES ASSUME Inv, RowsDone PROVE Inv'
  OBVIOUS
<1>1. Sent' = Sent
  BY DEF RowsDone, Sent, world
<1>2. BehindBookmark'
  BY <1>1, KeepsBehind DEF RowsDone, world
<1>3. BatchIsSent'
  BY <1>1 DEF RowsDone, Inv, BatchIsSent, world
<1> QED BY <1>2, <1>3 DEF RowsDone, Inv, Marks, BatchIsNext, world

\* The step the bookmark is for: it passes the batch, which has been sent.
LEMMA MarkStep == Inv /\ Mark => Inv'
<1> SUFFICES ASSUME Inv, Mark PROVE Inv'
  OBVIOUS
<1>1. /\ UNCHANGED <<newest, windows, bad, outputs, saved, first, batch, last>>
      /\ pc = "mark" /\ pc' = "save" /\ bookmark' = last
  BY DEF Mark, MarkLast, world
<1>2. Sent' = Sent
  BY <1>1 DEF Sent
<1>3. ASSUME NEW i \in windows, Due(i), i <= last PROVE i \in Sent
  <2>1. CASE i \in batch
    BY <1>1, <1>3, <2>1 DEF Inv, BatchIsSent, Due
  <2>2. CASE i \notin batch
    BY <1>1, <1>3, <2>2 DEF Inv, BatchIsNext, BehindBookmark
  <2> QED BY <2>1, <2>2
<1>4. BehindBookmark'
  BY <1>1, <1>2, <1>3 DEF Inv, BehindBookmark, Due
<1>5. Marks'
  BY <1>1 DEF Inv, Marks, BatchIsNext
<1> QED BY <1>1, <1>4, <1>5 DEF Inv, BatchIsNext, BatchIsSent

LEMMA SaveStep == Inv /\ Save => Inv'
<1> SUFFICES ASSUME Inv, Save PROVE Inv'
  OBVIOUS
<1>1. \A i \in windows : Due(i) /\ i <= bookmark => i \in Sent
  BY DEF Inv, BehindBookmark
<1>2. Marks' /\ BehindBookmark'
  BY <1>1, SaveKeepsBehind DEF Save, Inv, Marks, world
<1> QED BY <1>2 DEF Save, Inv, BatchIsNext, BatchIsSent

LEMMA StoreWindowStep == Inv /\ StoreWindow => Inv'
<1> SUFFICES ASSUME Inv, StoreWindow PROVE Inv'
  OBVIOUS
<1>1. /\ UNCHANGED <<bad, outputs, pc, bookmark, saved, first, batch, last, todo>>
      /\ newest' = newest + 1 /\ windows' = windows \cup {newest + 1}
  BY DEF StoreWindow, memory
<1>2. Sent' = Sent
  BY <1>1 DEF Sent
<1>3. Marks'
  BY <1>1 DEF Inv, Marks
<1>4. BatchIsNext'
  BY <1>1 DEF Inv, Marks, BatchIsNext
<1>5. BehindBookmark'
  BY <1>1, <1>2 DEF Inv, Marks, BehindBookmark, Due
<1> QED BY <1>1, <1>2, <1>3, <1>4, <1>5 DEF Inv, BatchIsSent

LEMMA ExpireStep == Inv /\ Expire => Inv'
<1> SUFFICES ASSUME Inv, Expire PROVE Inv'
  OBVIOUS
<1>1. /\ UNCHANGED <<newest, bad, outputs, pc, bookmark, saved, first, batch, last, todo>>
      /\ windows' \subseteq windows
  BY DEF Expire, memory
<1>2. Sent' = Sent
  BY <1>1 DEF Sent
<1> QED BY <1>1, <1>2 DEF Inv, Marks, BatchIsNext, BatchIsSent, BehindBookmark, Due

\* A change of the setting, the registration, and stuttering.
LEMMA OtherStep ==
  ASSUME Inv,
         UNCHANGED <<newest, windows, bad, outputs, pc, bookmark, saved, first, batch, last, todo>>
  PROVE  Inv'
<1>1. Sent' = Sent
  BY DEF Sent
<1> QED BY <1>1 DEF Inv, Marks, BatchIsNext, BatchIsSent, BehindBookmark, Due

LEMMA DieStep == Inv /\ Die => Inv'
<1> SUFFICES ASSUME Inv, Die PROVE Inv'
  OBVIOUS
<1>1. /\ UNCHANGED <<newest, windows, bad, outputs, saved, first>>
      /\ pc' = "open" /\ bookmark' = -1 /\ batch' = {} /\ last' = 0
  BY DEF Die, Unset, world
<1>2. Sent' = Sent
  BY <1>1 DEF Sent
<1>3. BehindBookmark'
  BY <1>1, <1>2 DEF Inv, Marks, BehindBookmark, Due
<1> QED BY <1>1, <1>3 DEF Inv, Marks, BatchIsNext, BatchIsSent

\* No window is behind the bookmark, the one in memory or the saved one, that
\* rf-db has not got, whatever fails and whenever the process dies: unless
\* retention dropped it or rf-db cannot take it (flush_once, _save_bookmark).
THEOREM NothingBehind == ForwardSpec => []BehindBookmark
<1>1. Inv /\ [ForwardNext]_forwardVars => Inv'
  <2> SUFFICES ASSUME Inv, [ForwardNext]_forwardVars PROVE Inv'
    OBVIOUS
  <2>1. CASE Flush
    BY <2>1, OpenStep, LoadStep, SaveFirstStep, HardwareStep, ReadStep, InsertStep, InsertRowStep,
       RowsDoneStep, MarkStep, SaveStep DEF Flush
  <2>2. CASE SetLength \/ Register \/ UNCHANGED forwardVars
    BY <2>2, OtherStep DEF SetLength, Register, forwardVars, world, memory
  <2> QED BY <2>1, <2>2, StoreWindowStep, ExpireStep, DieStep DEF ForwardNext
<1>2. Inv => BehindBookmark
  BY DEF Inv
<1> QED BY <1>1, <1>2, InitHolds, PTL DEF ForwardSpec

-----------------------------------------------------------------------------
(* The live hub                                                            *)

\* A viewer that is not there has nothing.
Absent(v) ==
  /\ pending[v] = NoFrame /\ taken[v] = 0 /\ sig[v] = 0
  /\ tile[v] = -1 /\ shown[v] = NotShown /\ ~high[v]

\* The feed's axis is that of its newest frame, and on an open socket the
\* sensor's, once it was sent.
Axes ==
  /\ feed = "up" /\ axisSent => axis = tune
  /\ feed = "none" => axis = 0
  /\ \A m \in Modes : frames[m] <= axis

\* Without a toggle the sensor stays on the roster and its feed while watched.
Kept ==
  "toggle" \notin happens =>
    /\ enabled /\ roster /\ (in # {} => feed # "none")
    /\ \A v \in Viewers : list[v] # "without"

\* Without a switch there is one mode, and the newest frame has the axis.
OneMode ==
  "switch" \notin happens =>
    /\ ~sensorHigh /\ ~asked /\ sends = <<>>
    /\ \A v \in Viewers : ~high[v]
    /\ frames["averaged"] = axis

\* A tile holds the axis its browser has, or none since it was added again.
Tile(v) ==
  /\ tile[v] \in {-1, 0, sig[v]}
  /\ tile[v] = -1 => shown[v] = NotShown

\* Without a toggle no frame is ahead of the axis.
Behind(v) ==
  "toggle" \notin happens /\ v \in in =>
    /\ IF tile[v] = -1 THEN list[v] = "with" /\ sig[v] = 0 /\ taken[v] = 0 ELSE tile[v] = sig[v]
    /\ sig[v] <= axis /\ taken[v] <= axis /\ pending[v].tune <= axis
    /\ shown[v].tune <= shown[v].axis

\* Without a switch what a browser holds of an old tuning is followed by what
\* the axis belongs to.
Followed(v) ==
  /\ "switch" \notin happens /\ v \in in /\ axis # 0
  /\ taken[v] # 0 \/ shown[v].axis \notin {0, shown[v].tune}
  => axis \in {taken[v], pending[v].tune}

\* Of one browser.
OfViewer(v) == (v \notin in => Absent(v)) /\ Tile(v) /\ Behind(v) /\ Followed(v)

\* The tunings are numbered by the retunes; the tasks ask for High Res or not.
Counts == tune = retunes + 1 /\ retunes \in Nat /\ sends \in Seq(BOOLEAN)

\* The inductive invariant.
HubInv ==
  /\ TypeOK /\ FramesFollowMode /\ Counts /\ Axes /\ Kept /\ OneMode
  /\ \A v \in Viewers : OfViewer(v)

\* The invariant, part by part.
LEMMA HubGives ==
  ASSUME HubInv
  PROVE  /\ TypeOK /\ FramesFollowMode /\ Counts /\ Axes /\ Kept /\ OneMode
         /\ \A w \in Viewers : (w \notin in => Absent(w)) /\ Tile(w) /\ Behind(w) /\ Followed(w)
PROOF
  BY DEF HubInv, OfViewer

\* A mode that is asked for is queued as one more task.
LEMMA SendsGrow ==
  ASSUME sends \in Seq(BOOLEAN), NEW vs, NEW h, ApplyMode(vs, h)
  PROVE  sends' \in Seq(BOOLEAN)
PROOF
  <1>1. WantsHigh(vs, h) \in BOOLEAN
    BY DEF WantsHigh
  <1>2. Append(sends, WantsHigh(vs, h)) \in Seq(BOOLEAN)
    BY <1>1, AppendProperties
  <1>. QED
    BY <1>2 DEF ApplyMode

\* A browser that joins gets the newest frame of its feed, and no tile before the roster.
LEMMA JoinKeeps ==
  ASSUME HubInv, NEW v \in Viewers, Join(v)
  PROVE  HubInv'
PROOF
  <1>f. \/ axis' = axis /\ frames' = frames
        \/ axis' = 0 /\ frames' = NoFrames
    <2>1. CASE enabled /\ feed = "none"
      BY <2>1 DEF Join, Reconcile, Fresh
    <2>2. CASE enabled /\ feed # "none"
      BY <2>2 DEF Join, Reconcile, feedVars
    <2>3. CASE ~enabled
      BY <2>3 DEF Join, Reconcile, Fresh, feedVars
    <2>. QED
      BY <2>1, <2>2, <2>3
  <1>g. "toggle" \notin happens /\ feed # "none" => axis' = axis /\ frames' = frames
    BY HubGives DEF Join, Reconcile, feedVars, Kept
  <1>n. v \notin in /\ in' = in \cup {v} /\ Absent(v) /\ happens' = happens
    BY HubGives DEF Join
  <1>p. pending'[v].tune = frames'["averaged"] /\ list'[v] = Listing
    BY HubGives DEF Join, TypeOK, NoFrame
  <1>w. \A w \in Viewers \ {v} :
          pending'[w] = pending[w] /\ (roster = enabled => list'[w] = list[w])
    BY HubGives DEF Join, TypeOK
  <1>k. taken' = taken /\ sig' = sig /\ tile' = tile /\ shown' = shown
    BY DEF Join
  <1>s. sends' \in Seq(BOOLEAN)
    <2>1. <<>> \in Seq(BOOLEAN)
      OBVIOUS
    <2>. QED
      BY <2>1, HubGives DEF Join, Reconcile, Counts
  <1>1. TypeOK'
    <2>1. happens' \in Lives /\ in' \subseteq Viewers
      BY HubGives, <1>f, <1>g, <1>n, <1>p, <1>w, <1>k, <1>s DEF Join, Reconcile, Fresh,
         NoFrames, Listing, State, feedVars, sensorVars, TypeOK, Modes, NoFrame, Counts
    <2>2. high' \in [Viewers -> BOOLEAN]
      BY HubGives, <1>f, <1>g, <1>n, <1>p, <1>w, <1>k, <1>s DEF Join, Reconcile, Fresh,
         NoFrames, Listing, State, feedVars, sensorVars, TypeOK, Modes, NoFrame, Counts
    <2>3. list' \in [Viewers -> {"none", "with", "without"}]
      BY HubGives, <1>f, <1>g, <1>n, <1>p, <1>w, <1>k, <1>s DEF Join, Reconcile, Fresh,
         NoFrames, Listing, State, feedVars, sensorVars, TypeOK, Modes, NoFrame, Counts
    <2>4. pending' \in [Viewers -> {NoFrame} \cup [mode : Modes, tune : 1..tune']]
      BY HubGives, <1>f, <1>g, <1>n, <1>p, <1>w, <1>k, <1>s DEF Join, Reconcile, Fresh,
         NoFrames, Listing, State, feedVars, sensorVars, TypeOK, Modes, NoFrame, Counts
    <2>5. taken' \in [Viewers -> 0..tune'] /\ sig' \in [Viewers -> 0..tune']
      BY HubGives, <1>f, <1>g, <1>n, <1>p, <1>w, <1>k, <1>s DEF Join, Reconcile, Fresh,
         NoFrames, Listing, State, feedVars, sensorVars, TypeOK, Modes, NoFrame, Counts
    <2>6. tile' \in [Viewers -> -1..tune']
      BY HubGives, <1>f, <1>g, <1>n, <1>p, <1>w, <1>k, <1>s DEF Join, Reconcile, Fresh,
         NoFrames, Listing, State, feedVars, sensorVars, TypeOK, Modes, NoFrame, Counts
    <2>7. shown' \in [Viewers -> [tune : 0..tune', axis : 0..tune']]
      BY HubGives, <1>f, <1>g, <1>n, <1>p, <1>w, <1>k, <1>s DEF Join, Reconcile, Fresh,
         NoFrames, Listing, State, feedVars, sensorVars, TypeOK, Modes, NoFrame, Counts
    <2>8. idle' \in {"no", "grace", "over"} /\ feed' \in {"none", "connecting", "up", "waiting"}
      BY HubGives, <1>f, <1>g, <1>n, <1>p, <1>w, <1>k, <1>s DEF Join, Reconcile, Fresh,
         NoFrames, Listing, State, feedVars, sensorVars, TypeOK, Modes, NoFrame, Counts
    <2>9. /\ enabled' \in BOOLEAN /\ seen' \in BOOLEAN /\ quiet' \in BOOLEAN /\ asked' \in BOOLEAN
         /\ roster' \in BOOLEAN /\ sensorHigh' \in BOOLEAN /\ axisSent' \in BOOLEAN
      BY HubGives, <1>f, <1>g, <1>n, <1>p, <1>w, <1>k, <1>s DEF Join, Reconcile, Fresh,
         NoFrames, Listing, State, feedVars, sensorVars, TypeOK, Modes, NoFrame, Counts
    <2>10. failures' \in Nat /\ frames' \in [Modes -> 0..tune'] /\ axis' \in 0..tune'
      BY HubGives, <1>f, <1>g, <1>n, <1>p, <1>w, <1>k, <1>s DEF Join, Reconcile, Fresh,
         NoFrames, Listing, State, feedVars, sensorVars, TypeOK, Modes, NoFrame, Counts
    <2>11. tune' \in 1..(MaxRetunes + 1)
      BY HubGives, <1>f, <1>g, <1>n, <1>p, <1>w, <1>k, <1>s DEF Join, Reconcile, Fresh,
         NoFrames, Listing, State, feedVars, sensorVars, TypeOK, Modes, NoFrame, Counts
    <2>. QED
      BY <2>1, <2>2, <2>3, <2>4, <2>5, <2>6, <2>7, <2>8, <2>9, <2>10, <2>11 DEF TypeOK
  <1>2. FramesFollowMode'
    BY SMTT(30), HubGives, <1>f, <1>g, <1>n, <1>p, <1>w, <1>k, <1>s DEF Join, Reconcile, Fresh,
       NoFrames,
       Listing, State, feedVars, sensorVars, FramesFollowMode, TypeOK, Wanted, Modes, NoFrame
  <1>3. Counts'
    BY <1>s, HubGives DEF Join, Counts, sensorVars
  <1>4. Axes'
    BY HubGives, <1>f, <1>g, <1>n, <1>p, <1>w, <1>k, <1>s DEF Join, Reconcile, Fresh, NoFrames,
       Listing, State, feedVars, sensorVars, Axes, TypeOK, Modes, NoFrame
  <1>5. Kept'
    BY HubGives, <1>f, <1>g, <1>n, <1>p, <1>w, <1>k, <1>s DEF Join, Reconcile, Fresh, NoFrames,
       Listing, State, feedVars, sensorVars, Kept, TypeOK, Modes, NoFrame
  <1>6. OneMode'
    BY HubGives, <1>f, <1>g, <1>n, <1>p, <1>w, <1>k, <1>s DEF Join, Reconcile, Fresh, NoFrames,
       Listing, State, feedVars, sensorVars, OneMode, TypeOK, Modes, NoFrame
  <1>7. ASSUME NEW w \in Viewers PROVE OfViewer(w)'
    <2>1. (w \notin in => Absent(w))'
      BY HubGives, <1>f, <1>g, <1>n, <1>p, <1>w, <1>k, <1>s, <1>7 DEF Join, Reconcile, Fresh,
         NoFrames, Listing, State, feedVars, sensorVars, Absent, TypeOK, Modes, NoFrame,
         NotShown
    <2>2. Tile(w)'
      BY HubGives, <1>f, <1>g, <1>n, <1>p, <1>w, <1>k, <1>s, <1>7 DEF Join, Reconcile, Fresh,
         NoFrames, Listing, State, feedVars, sensorVars, Tile, TypeOK, Modes, NoFrame, NotShown
    <2>3. Behind(w)'
      <3>1. CASE w = v
        <4>1. pending'[v].tune <= axis'
          BY <1>p, <1>4 DEF Axes, Modes
        <4>2. "toggle" \notin happens => list'[v] = "with"
          BY <1>p, HubGives DEF Kept, Listing
        <4>. QED
          <5>1. /\ tile'[v] = -1 /\ sig'[v] = 0 /\ taken'[v] = 0
                /\ shown'[v].tune = 0 /\ shown'[v].axis = 0
            BY <1>n, <1>k DEF Absent, NotShown
          <5>2. axis' \in Nat
            BY <1>1 DEF TypeOK
          <5>. QED
            BY <1>n, <3>1, <4>1, <4>2, <5>1, <5>2 DEF Behind
      <3>2. CASE w # v /\ w \in in
        BY <1>n, <1>g, <1>w, <1>k, <3>2, HubGives DEF Kept, Behind
      <3>3. CASE w # v /\ w \notin in
        BY <1>n, <3>3 DEF Behind
      <3>. QED
        BY <3>1, <3>2, <3>3
    <2>4. Followed(w)'
      <3>1. CASE w = v
        BY <1>n, <1>k, <3>1 DEF Absent, Followed, NotShown
      <3>2. CASE w # v
        BY <1>n, <1>f, <1>w, <1>k, <3>2, HubGives DEF Followed
      <3>. QED
        BY <3>1, <3>2
    <2>. QED
      BY <2>1, <2>2, <2>3, <2>4 DEF OfViewer
  <1>. QED
    BY <1>1, <1>2, <1>3, <1>4, <1>5, <1>6, <1>7 DEF HubInv

\* One that leaves keeps nothing.
LEMMA LeaveKeeps ==
  ASSUME HubInv, NEW v \in Viewers, Leave(v)
  PROVE  HubInv'
PROOF
  <1>1. TypeOK'
    <2>1. happens' \in Lives /\ in' \subseteq Viewers
      BY HubGives DEF Leave, ApplyMode, feedVars, sensorVars, boundVars, TypeOK, Modes, NoFrame,
         NotShown, Counts
    <2>2. high' \in [Viewers -> BOOLEAN]
      BY HubGives DEF Leave, ApplyMode, feedVars, sensorVars, boundVars, TypeOK, Modes, NoFrame,
         NotShown, Counts
    <2>3. list' \in [Viewers -> {"none", "with", "without"}]
      BY HubGives DEF Leave, ApplyMode, feedVars, sensorVars, boundVars, TypeOK, Modes, NoFrame,
         NotShown, Counts
    <2>4. pending' \in [Viewers -> {NoFrame} \cup [mode : Modes, tune : 1..tune']]
      BY HubGives DEF Leave, ApplyMode, feedVars, sensorVars, boundVars, TypeOK, Modes, NoFrame,
         NotShown, Counts
    <2>5. taken' \in [Viewers -> 0..tune'] /\ sig' \in [Viewers -> 0..tune']
      BY HubGives DEF Leave, ApplyMode, feedVars, sensorVars, boundVars, TypeOK, Modes, NoFrame,
         NotShown, Counts
    <2>6. tile' \in [Viewers -> -1..tune']
      BY HubGives DEF Leave, ApplyMode, feedVars, sensorVars, boundVars, TypeOK, Modes, NoFrame,
         NotShown, Counts
    <2>7. shown' \in [Viewers -> [tune : 0..tune', axis : 0..tune']]
      BY HubGives DEF Leave, ApplyMode, feedVars, sensorVars, boundVars, TypeOK, Modes, NoFrame,
         NotShown, Counts
    <2>8. idle' \in {"no", "grace", "over"} /\ feed' \in {"none", "connecting", "up", "waiting"}
      BY HubGives DEF Leave, ApplyMode, feedVars, sensorVars, boundVars, TypeOK, Modes, NoFrame,
         NotShown, Counts
    <2>9. /\ enabled' \in BOOLEAN /\ seen' \in BOOLEAN /\ quiet' \in BOOLEAN /\ asked' \in BOOLEAN
         /\ roster' \in BOOLEAN /\ sensorHigh' \in BOOLEAN /\ axisSent' \in BOOLEAN
      BY HubGives DEF Leave, ApplyMode, feedVars, sensorVars, boundVars, TypeOK, Modes, NoFrame,
         NotShown, Counts
    <2>10. failures' \in Nat /\ frames' \in [Modes -> 0..tune'] /\ axis' \in 0..tune'
      BY HubGives DEF Leave, ApplyMode, feedVars, sensorVars, boundVars, TypeOK, Modes, NoFrame,
         NotShown, Counts
    <2>11. tune' \in 1..(MaxRetunes + 1)
      BY HubGives DEF Leave, ApplyMode, feedVars, sensorVars, boundVars, TypeOK, Modes, NoFrame,
         NotShown, Counts
    <2>. QED
      BY <2>1, <2>2, <2>3, <2>4, <2>5, <2>6, <2>7, <2>8, <2>9, <2>10, <2>11 DEF TypeOK
  <1>2. FramesFollowMode'
    BY HubGives DEF Leave, ApplyMode, feedVars, sensorVars, boundVars, FramesFollowMode, TypeOK,
       Wanted, WantsHigh, Modes, NoFrame
  <1>3. Counts'
    <2>1. ApplyMode(in', high)
      BY DEF Leave
    <2>2. sends' \in Seq(BOOLEAN)
      BY <2>1, HubGives, SendsGrow DEF Counts
    <2>. QED
      BY <2>2, HubGives DEF Leave, Counts, sensorVars, boundVars
  <1>4. Axes'
    BY HubGives DEF Leave, ApplyMode, feedVars, sensorVars, boundVars, Axes, TypeOK, WantsHigh,
       Modes, NoFrame
  <1>5. Kept'
    BY HubGives DEF Leave, ApplyMode, feedVars, sensorVars, boundVars, Kept, TypeOK, WantsHigh,
       Modes, NoFrame
  <1>6. OneMode'
    BY HubGives DEF Leave, ApplyMode, feedVars, sensorVars, boundVars, OneMode, TypeOK,
       WantsHigh, Modes, NoFrame
  <1>7. ASSUME NEW w \in Viewers PROVE OfViewer(w)'
    <2>1. (w \notin in => Absent(w))'
      BY HubGives, <1>7 DEF Leave, ApplyMode, feedVars, sensorVars, boundVars, Absent, TypeOK,
         WantsHigh, Modes, NoFrame, NotShown
    <2>2. Tile(w)'
      BY HubGives, <1>7 DEF Leave, ApplyMode, feedVars, sensorVars, boundVars, Tile, TypeOK,
         WantsHigh, Modes, NoFrame, NotShown
    <2>3. Behind(w)'
      BY HubGives, <1>7 DEF Leave, ApplyMode, feedVars, sensorVars, boundVars, Behind, TypeOK,
         WantsHigh, Modes, NoFrame, NotShown
    <2>4. Followed(w)'
      BY HubGives, <1>7 DEF Leave, ApplyMode, feedVars, sensorVars, boundVars, Followed, TypeOK,
         WantsHigh, Modes, NoFrame, NotShown
    <2>. QED
      BY <2>1, <2>2, <2>3, <2>4 DEF OfViewer
  <1>. QED
    BY <1>1, <1>2, <1>3, <1>4, <1>5, <1>6, <1>7 DEF HubInv

\* A switch drops the frame queued in the old mode.
LEMMA SwitchKeeps ==
  ASSUME HubInv, NEW v \in Viewers, Switch(v)
  PROVE  HubInv'
PROOF
  <1>1. TypeOK'
    BY HubGives DEF Switch, ApplyMode, QueueDropped, feedVars, sensorVars, TypeOK, WantsHigh,
       Modes, NoFrame
  <1>2. FramesFollowMode'
    BY HubGives DEF Switch, ApplyMode, QueueDropped, feedVars, sensorVars, FramesFollowMode,
       TypeOK, Wanted, WantsHigh, Modes, NoFrame
  <1>3. Counts'
    <2>1. ApplyMode(in, high')
      BY DEF Switch
    <2>2. sends' \in Seq(BOOLEAN)
      BY <2>1, HubGives, SendsGrow DEF Counts
    <2>. QED
      BY <2>2, HubGives DEF Switch, Counts, sensorVars
  <1>4. Axes'
    BY HubGives DEF Switch, ApplyMode, QueueDropped, feedVars, sensorVars, Axes, TypeOK,
       WantsHigh, Modes, NoFrame
  <1>5. Kept'
    BY HubGives DEF Switch, ApplyMode, QueueDropped, feedVars, sensorVars, Kept, TypeOK,
       WantsHigh, Modes, NoFrame
  <1>6. OneMode'
    BY HubGives DEF Switch, ApplyMode, QueueDropped, feedVars, sensorVars, OneMode, TypeOK,
       WantsHigh, Modes, NoFrame
  <1>7. ASSUME NEW w \in Viewers PROVE OfViewer(w)'
    <2>1. (w \notin in => Absent(w))'
      BY HubGives, <1>7 DEF Switch, ApplyMode, QueueDropped, feedVars, sensorVars, Absent,
         TypeOK, WantsHigh, Modes, NoFrame, NotShown
    <2>2. Tile(w)'
      BY HubGives, <1>7 DEF Switch, ApplyMode, QueueDropped, feedVars, sensorVars, Tile, TypeOK,
         WantsHigh, Modes, NoFrame, NotShown
    <2>3. Behind(w)'
      BY HubGives, <1>7 DEF Switch, ApplyMode, QueueDropped, feedVars, sensorVars, Behind,
         TypeOK, WantsHigh, Modes, NoFrame
    <2>4. Followed(w)'
      BY HubGives, <1>7 DEF Switch, ApplyMode, QueueDropped, feedVars, sensorVars, Followed,
         TypeOK, WantsHigh, Modes, NoFrame
    <2>. QED
      BY <2>1, <2>2, <2>3, <2>4 DEF OfViewer
  <1>. QED
    BY <1>1, <1>2, <1>3, <1>4, <1>5, <1>6, <1>7 DEF HubInv

\* The frame a sender takes is the one that was queued.
LEMMA TakeKeeps ==
  ASSUME HubInv, NEW v \in Viewers, Take(v)
  PROVE  HubInv'
PROOF
  <1>a. v \in in /\ taken[v] = 0 /\ taken'[v] = pending[v].tune /\ pending'[v] = NoFrame
    BY HubGives DEF Take, TypeOK
  <1>w. \A w \in Viewers \ {v} :
          /\ pending'[w] = pending[w] /\ taken'[w] = taken[w] /\ list'[w] = list[w]
          /\ tile'[w] = tile[w] /\ shown'[w] = shown[w]
    BY HubGives DEF Take, TypeOK
  <1>t. /\ list[v] = "without" => tile'[v] = -1 /\ shown'[v] = NotShown
        /\ list[v] # "without" => shown'[v] = shown[v]
        /\ list[v] = "with" => tile'[v] = IF tile[v] = -1 THEN 0 ELSE tile[v]
        /\ list[v] = "none" => tile'[v] = tile[v]
    BY HubGives DEF Take, TypeOK
  <1>k. happens' = happens /\ in' = in /\ axis' = axis /\ sig' = sig
    BY DEF Take, feedVars
  <1>1. TypeOK'
    <2>1. happens' \in Lives /\ in' \subseteq Viewers
      BY HubGives, <1>a, <1>w, <1>t, <1>k DEF Take, feedVars, sensorVars, boundVars, TypeOK,
         Modes, NoFrame, NotShown, Counts
    <2>2. high' \in [Viewers -> BOOLEAN]
      BY HubGives, <1>a, <1>w, <1>t, <1>k DEF Take, feedVars, sensorVars, boundVars, TypeOK,
         Modes, NoFrame, NotShown, Counts
    <2>3. list' \in [Viewers -> {"none", "with", "without"}]
      BY HubGives, <1>a, <1>w, <1>t, <1>k DEF Take, feedVars, sensorVars, boundVars, TypeOK,
         Modes, NoFrame, NotShown, Counts
    <2>4. pending' \in [Viewers -> {NoFrame} \cup [mode : Modes, tune : 1..tune']]
      BY HubGives, <1>a, <1>w, <1>t, <1>k DEF Take, feedVars, sensorVars, boundVars, TypeOK,
         Modes, NoFrame, NotShown, Counts
    <2>5. taken' \in [Viewers -> 0..tune'] /\ sig' \in [Viewers -> 0..tune']
      BY HubGives, <1>a, <1>w, <1>t, <1>k DEF Take, feedVars, sensorVars, boundVars, TypeOK,
         Modes, NoFrame, NotShown, Counts
    <2>6. tile' \in [Viewers -> -1..tune']
      BY HubGives, <1>a, <1>w, <1>t, <1>k DEF Take, feedVars, sensorVars, boundVars, TypeOK,
         Modes, NoFrame, NotShown, Counts
    <2>7. shown' \in [Viewers -> [tune : 0..tune', axis : 0..tune']]
      BY HubGives, <1>a, <1>w, <1>t, <1>k DEF Take, feedVars, sensorVars, boundVars, TypeOK,
         Modes, NoFrame, NotShown, Counts
    <2>8. idle' \in {"no", "grace", "over"} /\ feed' \in {"none", "connecting", "up", "waiting"}
      BY HubGives, <1>a, <1>w, <1>t, <1>k DEF Take, feedVars, sensorVars, boundVars, TypeOK,
         Modes, NoFrame, NotShown, Counts
    <2>9. /\ enabled' \in BOOLEAN /\ seen' \in BOOLEAN /\ quiet' \in BOOLEAN /\ asked' \in BOOLEAN
         /\ roster' \in BOOLEAN /\ sensorHigh' \in BOOLEAN /\ axisSent' \in BOOLEAN
      BY HubGives, <1>a, <1>w, <1>t, <1>k DEF Take, feedVars, sensorVars, boundVars, TypeOK,
         Modes, NoFrame, NotShown, Counts
    <2>10. failures' \in Nat /\ frames' \in [Modes -> 0..tune'] /\ axis' \in 0..tune'
      BY HubGives, <1>a, <1>w, <1>t, <1>k DEF Take, feedVars, sensorVars, boundVars, TypeOK,
         Modes, NoFrame, NotShown, Counts
    <2>11. tune' \in 1..(MaxRetunes + 1)
      BY HubGives, <1>a, <1>w, <1>t, <1>k DEF Take, feedVars, sensorVars, boundVars, TypeOK,
         Modes, NoFrame, NotShown, Counts
    <2>. QED
      BY <2>1, <2>2, <2>3, <2>4, <2>5, <2>6, <2>7, <2>8, <2>9, <2>10, <2>11 DEF TypeOK
  <1>2. FramesFollowMode'
    BY HubGives, <1>a, <1>w, <1>t, <1>k DEF Take, feedVars, sensorVars, boundVars,
       FramesFollowMode, TypeOK, Wanted, Modes, NoFrame
  <1>3. Counts'
    BY HubGives, <1>a, <1>w, <1>t, <1>k DEF Take, feedVars, sensorVars, boundVars, Counts,
       TypeOK, Modes, NoFrame
  <1>4. Axes'
    BY HubGives, <1>a, <1>w, <1>t, <1>k DEF Take, feedVars, sensorVars, boundVars, Axes, TypeOK,
       Modes, NoFrame
  <1>5. Kept'
    BY HubGives, <1>a, <1>w, <1>t, <1>k DEF Take, feedVars, sensorVars, boundVars, Kept, TypeOK,
       Modes, NoFrame
  <1>6. OneMode'
    BY HubGives, <1>a, <1>w, <1>t, <1>k DEF Take, feedVars, sensorVars, boundVars, OneMode,
       TypeOK, Modes, NoFrame
  <1>7. ASSUME NEW w \in Viewers PROVE OfViewer(w)'
    <2>1. (w \notin in => Absent(w))'
      BY HubGives, <1>a, <1>w, <1>t, <1>k, <1>7 DEF Take, feedVars, sensorVars, boundVars,
         Absent, TypeOK, Modes, NoFrame, NotShown
    <2>2. Tile(w)'
      BY HubGives, <1>a, <1>w, <1>t, <1>k, <1>7 DEF Take, feedVars, sensorVars, boundVars, Tile,
         TypeOK, Modes, NoFrame, NotShown
    <2>3. Behind(w)'
      <3>1. CASE w = v
        <4>1. "toggle" \notin happens => list[v] \in {"with", "none"}
          BY HubGives DEF Kept, TypeOK
        <4>. QED
          BY <1>a, <1>t, <1>k, <3>1, <4>1, HubGives DEF Behind, TypeOK, NoFrame, NotShown
      <3>2. CASE w # v
        BY <1>w, <1>k, <3>2, HubGives DEF Behind
      <3>. QED
        BY <3>1, <3>2
    <2>4. Followed(w)'
      <3>1. CASE w = v
        <4>1. pending[v] # NoFrame /\ "switch" \notin happens /\ axis # 0 => pending[v].tune = axis
          BY <1>a, HubGives DEF FramesFollowMode, Axes, OneMode, Wanted
        <4>2. pending[v] = NoFrame => taken'[v] = 0
          BY <1>a DEF NoFrame
        <4>. QED
          BY <1>a, <1>t, <1>k, <3>1, <4>1, <4>2, HubGives DEF Followed, NotShown, NoFrame
      <3>2. CASE w # v
        BY <1>w, <1>k, <3>2, HubGives DEF Followed
      <3>. QED
        BY <3>1, <3>2
    <2>. QED
      BY <2>1, <2>2, <2>3, <2>4 DEF OfViewer
  <1>. QED
    BY <1>1, <1>2, <1>3, <1>4, <1>5, <1>6, <1>7 DEF HubInv

\* The frame goes with the feed's axis of now, which is no older than the frame's.
LEMMA SendKeeps ==
  ASSUME HubInv, NEW v \in Viewers, Send(v)
  PROVE  HubInv'
PROOF
  <1>1. TypeOK'
    BY HubGives DEF Send, SigNow, feedVars, sensorVars, boundVars, TypeOK, Modes, NoFrame
  <1>2. FramesFollowMode'
    BY HubGives DEF Send, SigNow, feedVars, sensorVars, boundVars, FramesFollowMode, TypeOK,
       Wanted, Modes, NoFrame
  <1>3. Counts'
    BY HubGives DEF Send, SigNow, feedVars, sensorVars, boundVars, Counts, TypeOK, Modes,
       NoFrame
  <1>4. Axes'
    BY HubGives DEF Send, SigNow, feedVars, sensorVars, boundVars, Axes, TypeOK, Modes, NoFrame
  <1>5. Kept'
    BY HubGives DEF Send, SigNow, feedVars, sensorVars, boundVars, Kept, TypeOK, Modes, NoFrame
  <1>6. OneMode'
    BY HubGives DEF Send, SigNow, feedVars, sensorVars, boundVars, OneMode, TypeOK, Modes,
       NoFrame
  <1>7. ASSUME NEW w \in Viewers PROVE OfViewer(w)'
    <2>1. (w \notin in => Absent(w))'
      BY HubGives, <1>7 DEF Send, SigNow, feedVars, sensorVars, boundVars, Absent, TypeOK,
         Modes, NoFrame, NotShown
    <2>2. Tile(w)'
      BY HubGives, <1>7 DEF Send, SigNow, feedVars, sensorVars, boundVars, Tile, TypeOK, Modes,
         NoFrame, NotShown
    <2>3. Behind(w)'
      BY HubGives, <1>7 DEF Send, SigNow, feedVars, sensorVars, boundVars, Behind, TypeOK,
         Modes, NoFrame
    <2>4. Followed(w)'
      <3>1. CASE w = v
        <4>1. SUFFICES ASSUME "switch" \notin happens, axis # 0,
                              shown'[v].axis \notin {0, shown'[v].tune}
                       PROVE  axis = pending[v].tune
          BY <3>1, HubGives DEF Send, Followed, feedVars, TypeOK
        <4>2. taken[v] # 0 /\ axis \in {taken[v], pending[v].tune} /\ SigNow(v) = axis
          BY <4>1, HubGives DEF Send, Followed, SigNow
        <4>3. CASE tile[v] = -1
          BY <4>1, <4>2, <4>3, HubGives DEF Send, Tile, NotShown, TypeOK
        <4>4. CASE tile[v] # -1
          <5>1. shown'[v].tune = taken[v] /\ shown'[v].axis \in {0, axis}
            BY <4>2, <4>4, HubGives DEF Send, Tile, TypeOK
          <5>. QED
            BY <4>1, <4>2, <5>1
        <4>. QED
          BY <4>3, <4>4
      <3>2. CASE w # v
        BY <3>2, HubGives DEF Send, Followed, feedVars, TypeOK
      <3>. QED
        BY <3>1, <3>2
    <2>. QED
      BY <2>1, <2>2, <2>3, <2>4 DEF OfViewer
  <1>. QED
    BY <1>1, <1>2, <1>3, <1>4, <1>5, <1>6, <1>7 DEF HubInv

\* The grace runs out.
LEMMA GraceEndsKeeps ==
  ASSUME HubInv, GraceEnds
  PROVE  HubInv'
PROOF
  <1>1. TypeOK'
    BY HubGives DEF GraceEnds, viewerVars, feedVars, sensorVars, boundVars, TypeOK, Modes,
       NoFrame
  <1>2. FramesFollowMode'
    BY HubGives DEF GraceEnds, viewerVars, feedVars, sensorVars, boundVars, FramesFollowMode,
       TypeOK, Wanted, Modes, NoFrame
  <1>3. Counts'
    BY HubGives DEF GraceEnds, viewerVars, feedVars, sensorVars, boundVars, Counts, TypeOK,
       Modes, NoFrame
  <1>4. Axes'
    BY HubGives DEF GraceEnds, viewerVars, feedVars, sensorVars, boundVars, Axes, TypeOK, Modes,
       NoFrame
  <1>5. Kept'
    BY HubGives DEF GraceEnds, viewerVars, feedVars, sensorVars, boundVars, Kept, TypeOK, Modes,
       NoFrame
  <1>6. OneMode'
    BY HubGives DEF GraceEnds, viewerVars, feedVars, sensorVars, boundVars, OneMode, TypeOK,
       Modes, NoFrame
  <1>7. ASSUME NEW w \in Viewers PROVE OfViewer(w)'
    <2>1. (w \notin in => Absent(w))'
      BY HubGives, <1>7 DEF GraceEnds, viewerVars, feedVars, sensorVars, boundVars, Absent,
         TypeOK, Modes, NoFrame, NotShown
    <2>2. Tile(w)'
      BY HubGives, <1>7 DEF GraceEnds, viewerVars, feedVars, sensorVars, boundVars, Tile,
         TypeOK, Modes, NoFrame, NotShown
    <2>3. Behind(w)'
      BY HubGives, <1>7 DEF GraceEnds, viewerVars, feedVars, sensorVars, boundVars, Behind,
         TypeOK, Modes, NoFrame
    <2>4. Followed(w)'
      BY HubGives, <1>7 DEF GraceEnds, viewerVars, feedVars, sensorVars, boundVars, Followed,
         TypeOK, Modes, NoFrame
    <2>. QED
      BY <2>1, <2>2, <2>3, <2>4 DEF OfViewer
  <1>. QED
    BY <1>1, <1>2, <1>3, <1>4, <1>5, <1>6, <1>7 DEF HubInv

\* The tick lets go of a feed only when nobody watches or the sensor is disabled.
LEMMA TickReconcileKeeps ==
  ASSUME HubInv, TickReconcile
  PROVE  HubInv'
PROOF
  <1>f. \/ feed' = feed /\ axis' = axis /\ frames' = frames
        \/ axis' = 0 /\ frames' = NoFrames
    BY DEF TickReconcile, Reconcile, Fresh, feedVars
  <1>g. "toggle" \notin happens /\ in # {} =>
          axis' = axis /\ frames' = frames /\ list' = list
    BY HubGives DEF TickReconcile, Reconcile, Fresh, feedVars, Watching, Kept, TypeOK
  <1>1. TypeOK'
    <2>1. happens' \in Lives /\ in' \subseteq Viewers
      BY HubGives, <1>f, <1>g DEF TickReconcile, Reconcile, Fresh, NoFrames, Listing, Watching,
         feedVars, sensorVars, boundVars, TypeOK, Modes, NoFrame, Counts
    <2>2. high' \in [Viewers -> BOOLEAN]
      BY HubGives, <1>f, <1>g DEF TickReconcile, Reconcile, Fresh, NoFrames, Listing, Watching,
         feedVars, sensorVars, boundVars, TypeOK, Modes, NoFrame, Counts
    <2>3. list' \in [Viewers -> {"none", "with", "without"}]
      BY HubGives, <1>f, <1>g DEF TickReconcile, Reconcile, Fresh, NoFrames, Listing, Watching,
         feedVars, sensorVars, boundVars, TypeOK, Modes, NoFrame, Counts
    <2>4. pending' \in [Viewers -> {NoFrame} \cup [mode : Modes, tune : 1..tune']]
      BY HubGives, <1>f, <1>g DEF TickReconcile, Reconcile, Fresh, NoFrames, Listing, Watching,
         feedVars, sensorVars, boundVars, TypeOK, Modes, NoFrame, Counts
    <2>5. taken' \in [Viewers -> 0..tune'] /\ sig' \in [Viewers -> 0..tune']
      BY HubGives, <1>f, <1>g DEF TickReconcile, Reconcile, Fresh, NoFrames, Listing, Watching,
         feedVars, sensorVars, boundVars, TypeOK, Modes, NoFrame, Counts
    <2>6. tile' \in [Viewers -> -1..tune']
      BY HubGives, <1>f, <1>g DEF TickReconcile, Reconcile, Fresh, NoFrames, Listing, Watching,
         feedVars, sensorVars, boundVars, TypeOK, Modes, NoFrame, Counts
    <2>7. shown' \in [Viewers -> [tune : 0..tune', axis : 0..tune']]
      BY HubGives, <1>f, <1>g DEF TickReconcile, Reconcile, Fresh, NoFrames, Listing, Watching,
         feedVars, sensorVars, boundVars, TypeOK, Modes, NoFrame, Counts
    <2>8. idle' \in {"no", "grace", "over"} /\ feed' \in {"none", "connecting", "up", "waiting"}
      BY HubGives, <1>f, <1>g DEF TickReconcile, Reconcile, Fresh, NoFrames, Listing, Watching,
         feedVars, sensorVars, boundVars, TypeOK, Modes, NoFrame, Counts
    <2>9. /\ enabled' \in BOOLEAN /\ seen' \in BOOLEAN /\ quiet' \in BOOLEAN /\ asked' \in BOOLEAN
         /\ roster' \in BOOLEAN /\ sensorHigh' \in BOOLEAN /\ axisSent' \in BOOLEAN
      BY HubGives, <1>f, <1>g DEF TickReconcile, Reconcile, Fresh, NoFrames, Listing, Watching,
         feedVars, sensorVars, boundVars, TypeOK, Modes, NoFrame, Counts
    <2>10. failures' \in Nat /\ frames' \in [Modes -> 0..tune'] /\ axis' \in 0..tune'
      BY HubGives, <1>f, <1>g DEF TickReconcile, Reconcile, Fresh, NoFrames, Listing, Watching,
         feedVars, sensorVars, boundVars, TypeOK, Modes, NoFrame, Counts
    <2>11. tune' \in 1..(MaxRetunes + 1)
      BY HubGives, <1>f, <1>g DEF TickReconcile, Reconcile, Fresh, NoFrames, Listing, Watching,
         feedVars, sensorVars, boundVars, TypeOK, Modes, NoFrame, Counts
    <2>. QED
      BY <2>1, <2>2, <2>3, <2>4, <2>5, <2>6, <2>7, <2>8, <2>9, <2>10, <2>11 DEF TypeOK
  <1>2. FramesFollowMode'
    BY HubGives, <1>f, <1>g DEF TickReconcile, Reconcile, Fresh, NoFrames, Listing, Watching,
       feedVars, sensorVars, boundVars, FramesFollowMode, TypeOK, Wanted, Modes, NoFrame
  <1>3. Counts'
    <2>1. <<>> \in Seq(BOOLEAN)
      OBVIOUS
    <2>. QED
      BY <2>1, HubGives DEF TickReconcile, Reconcile, Counts, sensorVars, boundVars
  <1>4. Axes'
    BY HubGives, <1>f, <1>g DEF TickReconcile, Reconcile, Fresh, NoFrames, Listing, Watching,
       feedVars, sensorVars, boundVars, Axes, TypeOK, Modes, NoFrame
  <1>5. Kept'
    BY HubGives, <1>f, <1>g DEF TickReconcile, Reconcile, Fresh, NoFrames, Listing, Watching,
       feedVars, sensorVars, boundVars, Kept, TypeOK, Modes, NoFrame
  <1>6. OneMode'
    BY HubGives, <1>f, <1>g DEF TickReconcile, Reconcile, Fresh, NoFrames, Listing, Watching,
       feedVars, sensorVars, boundVars, OneMode, TypeOK, Modes, NoFrame
  <1>7. ASSUME NEW w \in Viewers PROVE OfViewer(w)'
    <2>1. (w \notin in => Absent(w))'
      BY HubGives, <1>f, <1>g, <1>7 DEF TickReconcile, Reconcile, Fresh, NoFrames, Listing,
         Watching, feedVars, sensorVars, boundVars, Absent, TypeOK, Modes, NoFrame, NotShown
    <2>2. Tile(w)'
      BY HubGives, <1>f, <1>g, <1>7 DEF TickReconcile, Reconcile, Fresh, NoFrames, Listing,
         Watching, feedVars, sensorVars, boundVars, Tile, TypeOK, Modes, NoFrame, NotShown
    <2>3. Behind(w)'
      BY <1>g, HubGives DEF TickReconcile, Behind
    <2>4. Followed(w)'
      BY HubGives, <1>f, <1>g, <1>7 DEF TickReconcile, Reconcile, Fresh, NoFrames, Listing,
         Watching, feedVars, sensorVars, boundVars, Followed, TypeOK, Modes, NoFrame
    <2>. QED
      BY <2>1, <2>2, <2>3, <2>4 DEF OfViewer
  <1>. QED
    BY <1>1, <1>2, <1>3, <1>4, <1>5, <1>6, <1>7 DEF HubInv

\* A status touches no frame.
LEMMA TickStatusKeeps ==
  ASSUME HubInv, TickStatus
  PROVE  HubInv'
PROOF
  <1>1. TypeOK'
    BY HubGives DEF TickStatus, Publish, sensorVars, boundVars, TypeOK, Modes, NoFrame
  <1>2. FramesFollowMode'
    BY HubGives DEF TickStatus, Publish, sensorVars, boundVars, FramesFollowMode, TypeOK,
       Wanted, Modes, NoFrame
  <1>3. Counts'
    BY HubGives DEF TickStatus, Publish, sensorVars, boundVars, Counts, TypeOK, Modes, NoFrame
  <1>4. Axes'
    BY HubGives DEF TickStatus, Publish, sensorVars, boundVars, Axes, TypeOK, Modes, NoFrame
  <1>5. Kept'
    BY HubGives DEF TickStatus, Publish, sensorVars, boundVars, Kept, TypeOK, Modes, NoFrame
  <1>6. OneMode'
    BY HubGives DEF TickStatus, Publish, sensorVars, boundVars, OneMode, TypeOK, Modes, NoFrame
  <1>7. ASSUME NEW w \in Viewers PROVE OfViewer(w)'
    <2>1. (w \notin in => Absent(w))'
      BY HubGives, <1>7 DEF TickStatus, Publish, sensorVars, boundVars, Absent, TypeOK, Modes,
         NoFrame, NotShown
    <2>2. Tile(w)'
      BY HubGives, <1>7 DEF TickStatus, Publish, sensorVars, boundVars, Tile, TypeOK, Modes,
         NoFrame, NotShown
    <2>3. Behind(w)'
      BY HubGives, <1>7 DEF TickStatus, Publish, sensorVars, boundVars, Behind, TypeOK, Modes,
         NoFrame
    <2>4. Followed(w)'
      BY HubGives, <1>7 DEF TickStatus, Publish, sensorVars, boundVars, Followed, TypeOK, Modes,
         NoFrame
    <2>. QED
      BY <2>1, <2>2, <2>3, <2>4 DEF OfViewer
  <1>. QED
    BY <1>1, <1>2, <1>3, <1>4, <1>5, <1>6, <1>7 DEF HubInv

\* A new socket has sent no axis; the feed keeps its last.
LEMMA ConnectKeeps ==
  ASSUME HubInv, Connect
  PROVE  HubInv'
PROOF
  <1>1. TypeOK'
    BY HubGives DEF Connect, Publish, boundVars, TypeOK, WantsHigh, Modes, NoFrame
  <1>2. FramesFollowMode'
    BY HubGives DEF Connect, Publish, boundVars, FramesFollowMode, TypeOK, Wanted, WantsHigh,
       Modes, NoFrame
  <1>3. Counts'
    BY HubGives DEF Connect, Publish, boundVars, Counts, TypeOK, WantsHigh, Modes, NoFrame
  <1>4. Axes'
    BY HubGives DEF Connect, Publish, boundVars, Axes, TypeOK, WantsHigh, Modes, NoFrame
  <1>5. Kept'
    BY HubGives DEF Connect, Publish, boundVars, Kept, TypeOK, WantsHigh, Modes, NoFrame
  <1>6. OneMode'
    BY HubGives DEF Connect, Publish, boundVars, OneMode, TypeOK, WantsHigh, Modes, NoFrame
  <1>7. ASSUME NEW w \in Viewers PROVE OfViewer(w)'
    <2>1. (w \notin in => Absent(w))'
      BY HubGives, <1>7 DEF Connect, Publish, boundVars, Absent, TypeOK, WantsHigh, Modes,
         NoFrame, NotShown
    <2>2. Tile(w)'
      BY HubGives, <1>7 DEF Connect, Publish, boundVars, Tile, TypeOK, WantsHigh, Modes,
         NoFrame, NotShown
    <2>3. Behind(w)'
      BY HubGives, <1>7 DEF Connect, Publish, boundVars, Behind, TypeOK, WantsHigh, Modes,
         NoFrame
    <2>4. Followed(w)'
      BY HubGives, <1>7 DEF Connect, Publish, boundVars, Followed, TypeOK, WantsHigh, Modes,
         NoFrame
    <2>. QED
      BY <2>1, <2>2, <2>3, <2>4 DEF OfViewer
  <1>. QED
    BY <1>1, <1>2, <1>3, <1>4, <1>5, <1>6, <1>7 DEF HubInv

\* A lost socket leaves the feed's axis and frames.
LEMMA LoseKeeps ==
  ASSUME HubInv, Lose
  PROVE  HubInv'
PROOF
  <1>1. TypeOK'
    BY HubGives DEF Lose, Publish, sensorVars, TypeOK, Modes, NoFrame
  <1>2. FramesFollowMode'
    BY HubGives DEF Lose, Publish, sensorVars, FramesFollowMode, TypeOK, Wanted, Modes, NoFrame
  <1>3. Counts'
    BY HubGives DEF Lose, Publish, sensorVars, Counts, TypeOK, Modes, NoFrame
  <1>4. Axes'
    BY HubGives DEF Lose, Publish, sensorVars, Axes, TypeOK, Modes, NoFrame
  <1>5. Kept'
    BY HubGives DEF Lose, Publish, sensorVars, Kept, TypeOK, Modes, NoFrame
  <1>6. OneMode'
    BY HubGives DEF Lose, Publish, sensorVars, OneMode, TypeOK, Modes, NoFrame
  <1>7. ASSUME NEW w \in Viewers PROVE OfViewer(w)'
    <2>1. (w \notin in => Absent(w))'
      BY HubGives, <1>7 DEF Lose, Publish, sensorVars, Absent, TypeOK, Modes, NoFrame, NotShown
    <2>2. Tile(w)'
      BY HubGives, <1>7 DEF Lose, Publish, sensorVars, Tile, TypeOK, Modes, NoFrame, NotShown
    <2>3. Behind(w)'
      BY HubGives, <1>7 DEF Lose, Publish, sensorVars, Behind, TypeOK, Modes, NoFrame
    <2>4. Followed(w)'
      BY HubGives, <1>7 DEF Lose, Publish, sensorVars, Followed, TypeOK, Modes, NoFrame
    <2>. QED
      BY <2>1, <2>2, <2>3, <2>4 DEF OfViewer
  <1>. QED
    BY <1>1, <1>2, <1>3, <1>4, <1>5, <1>6, <1>7 DEF HubInv

\* The next connect.
LEMMA BackoffKeeps ==
  ASSUME HubInv, Backoff
  PROVE  HubInv'
PROOF
  <1>1. TypeOK'
    BY HubGives DEF Backoff, viewerVars, sensorVars, boundVars, TypeOK, Modes, NoFrame
  <1>2. FramesFollowMode'
    BY HubGives DEF Backoff, viewerVars, sensorVars, boundVars, FramesFollowMode, TypeOK,
       Wanted, Modes, NoFrame
  <1>3. Counts'
    BY HubGives DEF Backoff, viewerVars, sensorVars, boundVars, Counts, TypeOK, Modes, NoFrame
  <1>4. Axes'
    BY HubGives DEF Backoff, viewerVars, sensorVars, boundVars, Axes, TypeOK, Modes, NoFrame
  <1>5. Kept'
    BY HubGives DEF Backoff, viewerVars, sensorVars, boundVars, Kept, TypeOK, Modes, NoFrame
  <1>6. OneMode'
    BY HubGives DEF Backoff, viewerVars, sensorVars, boundVars, OneMode, TypeOK, Modes, NoFrame
  <1>7. ASSUME NEW w \in Viewers PROVE OfViewer(w)'
    <2>1. (w \notin in => Absent(w))'
      BY HubGives, <1>7 DEF Backoff, viewerVars, sensorVars, boundVars, Absent, TypeOK, Modes,
         NoFrame, NotShown
    <2>2. Tile(w)'
      BY HubGives, <1>7 DEF Backoff, viewerVars, sensorVars, boundVars, Tile, TypeOK, Modes,
         NoFrame, NotShown
    <2>3. Behind(w)'
      BY HubGives, <1>7 DEF Backoff, viewerVars, sensorVars, boundVars, Behind, TypeOK, Modes,
         NoFrame
    <2>4. Followed(w)'
      BY HubGives, <1>7 DEF Backoff, viewerVars, sensorVars, boundVars, Followed, TypeOK, Modes,
         NoFrame
    <2>. QED
      BY <2>1, <2>2, <2>3, <2>4 DEF OfViewer
  <1>. QED
    BY <1>1, <1>2, <1>3, <1>4, <1>5, <1>6, <1>7 DEF HubInv

\* The sensor's mode follows a task, or its send fails.
LEMMA SendModeKeeps ==
  ASSUME HubInv, SendMode
  PROVE  HubInv'
PROOF
  <1>h. Head(sends) \in BOOLEAN
    BY HubGives, HeadTailProperties DEF SendMode, Counts
  <1>1. TypeOK'
    <2>1. happens' \in Lives /\ in' \subseteq Viewers
      BY HubGives, <1>h DEF SendMode, viewerVars, boundVars, TypeOK, Modes, NoFrame, Counts
    <2>2. high' \in [Viewers -> BOOLEAN]
      BY HubGives, <1>h DEF SendMode, viewerVars, boundVars, TypeOK, Modes, NoFrame, Counts
    <2>3. list' \in [Viewers -> {"none", "with", "without"}]
      BY HubGives, <1>h DEF SendMode, viewerVars, boundVars, TypeOK, Modes, NoFrame, Counts
    <2>4. pending' \in [Viewers -> {NoFrame} \cup [mode : Modes, tune : 1..tune']]
      BY HubGives, <1>h DEF SendMode, viewerVars, boundVars, TypeOK, Modes, NoFrame, Counts
    <2>5. taken' \in [Viewers -> 0..tune'] /\ sig' \in [Viewers -> 0..tune']
      BY HubGives, <1>h DEF SendMode, viewerVars, boundVars, TypeOK, Modes, NoFrame, Counts
    <2>6. tile' \in [Viewers -> -1..tune']
      BY HubGives, <1>h DEF SendMode, viewerVars, boundVars, TypeOK, Modes, NoFrame, Counts
    <2>7. shown' \in [Viewers -> [tune : 0..tune', axis : 0..tune']]
      BY HubGives, <1>h DEF SendMode, viewerVars, boundVars, TypeOK, Modes, NoFrame, Counts
    <2>8. idle' \in {"no", "grace", "over"} /\ feed' \in {"none", "connecting", "up", "waiting"}
      BY HubGives, <1>h DEF SendMode, viewerVars, boundVars, TypeOK, Modes, NoFrame, Counts
    <2>9. /\ enabled' \in BOOLEAN /\ seen' \in BOOLEAN /\ quiet' \in BOOLEAN /\ asked' \in BOOLEAN
         /\ roster' \in BOOLEAN /\ sensorHigh' \in BOOLEAN /\ axisSent' \in BOOLEAN
      BY HubGives, <1>h DEF SendMode, viewerVars, boundVars, TypeOK, Modes, NoFrame, Counts
    <2>10. failures' \in Nat /\ frames' \in [Modes -> 0..tune'] /\ axis' \in 0..tune'
      BY HubGives, <1>h DEF SendMode, viewerVars, boundVars, TypeOK, Modes, NoFrame, Counts
    <2>11. tune' \in 1..(MaxRetunes + 1)
      BY HubGives, <1>h DEF SendMode, viewerVars, boundVars, TypeOK, Modes, NoFrame, Counts
    <2>. QED
      BY <2>1, <2>2, <2>3, <2>4, <2>5, <2>6, <2>7, <2>8, <2>9, <2>10, <2>11 DEF TypeOK
  <1>2. FramesFollowMode'
    BY HubGives, <1>h DEF SendMode, viewerVars, boundVars, FramesFollowMode, TypeOK, Wanted,
       Modes, NoFrame
  <1>3. Counts'
    <2>1. Tail(sends) \in Seq(BOOLEAN)
      BY HubGives, HeadTailProperties DEF SendMode, Counts
    <2>. QED
      BY <2>1, HubGives DEF SendMode, Counts, boundVars
  <1>4. Axes'
    BY HubGives, <1>h DEF SendMode, viewerVars, boundVars, Axes, TypeOK, Modes, NoFrame
  <1>5. Kept'
    BY HubGives, <1>h DEF SendMode, viewerVars, boundVars, Kept, TypeOK, Modes, NoFrame
  <1>6. OneMode'
    BY HubGives, <1>h DEF SendMode, viewerVars, boundVars, OneMode, TypeOK, Modes, NoFrame
  <1>7. ASSUME NEW w \in Viewers PROVE OfViewer(w)'
    <2>1. (w \notin in => Absent(w))'
      BY HubGives, <1>h, <1>7 DEF SendMode, viewerVars, boundVars, Absent, TypeOK, Modes,
         NoFrame, NotShown
    <2>2. Tile(w)'
      BY HubGives, <1>h, <1>7 DEF SendMode, viewerVars, boundVars, Tile, TypeOK, Modes, NoFrame,
         NotShown
    <2>3. Behind(w)'
      BY HubGives, <1>h, <1>7 DEF SendMode, viewerVars, boundVars, Behind, TypeOK, Modes,
         NoFrame
    <2>4. Followed(w)'
      BY HubGives, <1>h, <1>7 DEF SendMode, viewerVars, boundVars, Followed, TypeOK, Modes,
         NoFrame
    <2>. QED
      BY <2>1, <2>2, <2>3, <2>4 DEF OfViewer
  <1>. QED
    BY <1>1, <1>2, <1>3, <1>4, <1>5, <1>6, <1>7 DEF HubInv

\* A frame brings the axis of its tuning, and is queued for who wants its mode.
LEMMA FrameKeeps ==
  ASSUME HubInv, NEW m \in Modes, Frame(m)
  PROVE  HubInv'
PROOF
  <1>a. axis' = tune /\ frames' = [frames EXCEPT ![m] = tune]
    BY HubGives DEF Frame, Axes
  <1>m. "switch" \notin happens => m = "averaged" /\ \A v \in Viewers : Wanted(v) = m
    BY HubGives DEF Frame, OneMode, Modes, Wanted
  <1>p. \A v \in Viewers : \/ v \in in /\ Wanted(v) = m /\ pending'[v] = [mode |-> m, tune |-> tune]
                           \/ ~(v \in in /\ Wanted(v) = m) /\ pending'[v] = pending[v]
    BY DEF Frame
  <1>k. /\ happens' = happens /\ in' = in /\ taken' = taken /\ sig' = sig /\ tile' = tile
        /\ shown' = shown /\ list' = list /\ tune' = tune
    BY DEF Frame
  <1>t. tune \in Nat /\ axis <= tune
    BY HubGives DEF TypeOK
  <1>1. TypeOK'
    <2>1. happens' \in Lives /\ in' \subseteq Viewers
      BY HubGives, <1>a, <1>m, <1>p, <1>k, <1>t DEF Frame, Publish, boundVars, TypeOK, Modes,
         NoFrame, Counts
    <2>2. high' \in [Viewers -> BOOLEAN]
      BY HubGives, <1>a, <1>m, <1>p, <1>k, <1>t DEF Frame, Publish, boundVars, TypeOK, Modes,
         NoFrame, Counts
    <2>3. list' \in [Viewers -> {"none", "with", "without"}]
      BY HubGives, <1>a, <1>m, <1>p, <1>k, <1>t DEF Frame, Publish, boundVars, TypeOK, Modes,
         NoFrame, Counts
    <2>4. pending' \in [Viewers -> {NoFrame} \cup [mode : Modes, tune : 1..tune']]
      BY HubGives, <1>a, <1>m, <1>p, <1>k, <1>t DEF Frame, Publish, boundVars, TypeOK, Modes,
         NoFrame, Counts
    <2>5. taken' \in [Viewers -> 0..tune'] /\ sig' \in [Viewers -> 0..tune']
      BY HubGives, <1>a, <1>m, <1>p, <1>k, <1>t DEF Frame, Publish, boundVars, TypeOK, Modes,
         NoFrame, Counts
    <2>6. tile' \in [Viewers -> -1..tune']
      BY HubGives, <1>a, <1>m, <1>p, <1>k, <1>t DEF Frame, Publish, boundVars, TypeOK, Modes,
         NoFrame, Counts
    <2>7. shown' \in [Viewers -> [tune : 0..tune', axis : 0..tune']]
      BY HubGives, <1>a, <1>m, <1>p, <1>k, <1>t DEF Frame, Publish, boundVars, TypeOK, Modes,
         NoFrame, Counts
    <2>8. idle' \in {"no", "grace", "over"} /\ feed' \in {"none", "connecting", "up", "waiting"}
      BY HubGives, <1>a, <1>m, <1>p, <1>k, <1>t DEF Frame, Publish, boundVars, TypeOK, Modes,
         NoFrame, Counts
    <2>9. /\ enabled' \in BOOLEAN /\ seen' \in BOOLEAN /\ quiet' \in BOOLEAN /\ asked' \in BOOLEAN
         /\ roster' \in BOOLEAN /\ sensorHigh' \in BOOLEAN /\ axisSent' \in BOOLEAN
      BY HubGives, <1>a, <1>m, <1>p, <1>k, <1>t DEF Frame, Publish, boundVars, TypeOK, Modes,
         NoFrame, Counts
    <2>10. failures' \in Nat /\ frames' \in [Modes -> 0..tune'] /\ axis' \in 0..tune'
      BY HubGives, <1>a, <1>m, <1>p, <1>k, <1>t DEF Frame, Publish, boundVars, TypeOK, Modes,
         NoFrame, Counts
    <2>11. tune' \in 1..(MaxRetunes + 1)
      BY HubGives, <1>a, <1>m, <1>p, <1>k, <1>t DEF Frame, Publish, boundVars, TypeOK, Modes,
         NoFrame, Counts
    <2>. QED
      BY <2>1, <2>2, <2>3, <2>4, <2>5, <2>6, <2>7, <2>8, <2>9, <2>10, <2>11 DEF TypeOK
  <1>2. FramesFollowMode'
    BY HubGives, <1>a, <1>m, <1>p, <1>k, <1>t DEF Frame, Publish, boundVars, FramesFollowMode,
       TypeOK, Wanted, Modes, NoFrame
  <1>3. Counts'
    BY HubGives, <1>a, <1>m, <1>p, <1>k, <1>t DEF Frame, Publish, boundVars, Counts, TypeOK,
       Wanted, Modes, NoFrame
  <1>4. Axes'
    BY HubGives, <1>a, <1>m, <1>p, <1>k, <1>t DEF Frame, Publish, boundVars, Axes, TypeOK,
       Wanted, Modes, NoFrame
  <1>5. Kept'
    BY HubGives, <1>a, <1>m, <1>p, <1>k, <1>t DEF Frame, Publish, boundVars, Kept, TypeOK,
       Wanted, Modes, NoFrame
  <1>6. OneMode'
    BY <1>a, <1>m, HubGives DEF Frame, OneMode, TypeOK, Modes
  <1>7. ASSUME NEW w \in Viewers PROVE OfViewer(w)'
    <2>1. (w \notin in => Absent(w))'
      BY HubGives, <1>a, <1>m, <1>p, <1>k, <1>t, <1>7 DEF Frame, Publish, boundVars, Absent,
         TypeOK, Wanted, Modes, NoFrame, NotShown
    <2>2. Tile(w)'
      BY HubGives, <1>a, <1>m, <1>p, <1>k, <1>t, <1>7 DEF Frame, Publish, boundVars, Tile,
         TypeOK, Wanted, Modes, NoFrame, NotShown
    <2>3. Behind(w)'
      <3>1. pending'[w].tune <= axis' /\ axis <= axis'
        BY <1>a, <1>p, <1>t, HubGives DEF TypeOK, NoFrame
      <3>. QED
        BY <1>a, <1>k, <1>t, <3>1, HubGives DEF Behind, TypeOK
    <2>4. Followed(w)'
      BY <1>a, <1>m, <1>p, <1>k DEF Followed
    <2>. QED
      BY <2>1, <2>2, <2>3, <2>4 DEF OfViewer
  <1>. QED
    BY <1>1, <1>2, <1>3, <1>4, <1>5, <1>6, <1>7 DEF HubInv

\* The sensor is on standby.
LEMMA QuietKeeps ==
  ASSUME HubInv, Quiet
  PROVE  HubInv'
PROOF
  <1>1. TypeOK'
    BY HubGives DEF Quiet, viewerVars, sensorVars, boundVars, TypeOK, Modes, NoFrame
  <1>2. FramesFollowMode'
    BY HubGives DEF Quiet, viewerVars, sensorVars, boundVars, FramesFollowMode, TypeOK, Wanted,
       Modes, NoFrame
  <1>3. Counts'
    BY HubGives DEF Quiet, viewerVars, sensorVars, boundVars, Counts, TypeOK, Modes, NoFrame
  <1>4. Axes'
    BY HubGives DEF Quiet, viewerVars, sensorVars, boundVars, Axes, TypeOK, Modes, NoFrame
  <1>5. Kept'
    BY HubGives DEF Quiet, viewerVars, sensorVars, boundVars, Kept, TypeOK, Modes, NoFrame
  <1>6. OneMode'
    BY HubGives DEF Quiet, viewerVars, sensorVars, boundVars, OneMode, TypeOK, Modes, NoFrame
  <1>7. ASSUME NEW w \in Viewers PROVE OfViewer(w)'
    <2>1. (w \notin in => Absent(w))'
      BY HubGives, <1>7 DEF Quiet, viewerVars, sensorVars, boundVars, Absent, TypeOK, Modes,
         NoFrame, NotShown
    <2>2. Tile(w)'
      BY HubGives, <1>7 DEF Quiet, viewerVars, sensorVars, boundVars, Tile, TypeOK, Modes,
         NoFrame, NotShown
    <2>3. Behind(w)'
      BY HubGives, <1>7 DEF Quiet, viewerVars, sensorVars, boundVars, Behind, TypeOK, Modes,
         NoFrame
    <2>4. Followed(w)'
      BY HubGives, <1>7 DEF Quiet, viewerVars, sensorVars, boundVars, Followed, TypeOK, Modes,
         NoFrame
    <2>. QED
      BY <2>1, <2>2, <2>3, <2>4 DEF OfViewer
  <1>. QED
    BY <1>1, <1>2, <1>3, <1>4, <1>5, <1>6, <1>7 DEF HubInv

\* After a retune the sensor owes its axis.
LEMMA RetuneKeeps ==
  ASSUME HubInv, Retune
  PROVE  HubInv'
PROOF
  <1>1. TypeOK'
    <2>1. happens' \in Lives /\ in' \subseteq Viewers
      BY HubGives DEF Retune, viewerVars, feedVars, TypeOK, Modes, NoFrame, Counts
    <2>2. high' \in [Viewers -> BOOLEAN]
      BY HubGives DEF Retune, viewerVars, feedVars, TypeOK, Modes, NoFrame, Counts
    <2>3. list' \in [Viewers -> {"none", "with", "without"}]
      BY HubGives DEF Retune, viewerVars, feedVars, TypeOK, Modes, NoFrame, Counts
    <2>4. pending' \in [Viewers -> {NoFrame} \cup [mode : Modes, tune : 1..tune']]
      BY SMTT(30), HubGives DEF Retune, viewerVars, feedVars, TypeOK, Modes, NoFrame, Counts
    <2>5. taken' \in [Viewers -> 0..tune'] /\ sig' \in [Viewers -> 0..tune']
      BY SMTT(30), HubGives DEF Retune, viewerVars, feedVars, TypeOK, Modes, NoFrame, Counts
    <2>6. tile' \in [Viewers -> -1..tune']
      BY SMTT(30), HubGives DEF Retune, viewerVars, feedVars, TypeOK, Modes, NoFrame, Counts
    <2>7. shown' \in [Viewers -> [tune : 0..tune', axis : 0..tune']]
      BY SMTT(30), HubGives DEF Retune, viewerVars, feedVars, TypeOK, Modes, NoFrame, Counts
    <2>8. idle' \in {"no", "grace", "over"} /\ feed' \in {"none", "connecting", "up", "waiting"}
      BY HubGives DEF Retune, viewerVars, feedVars, TypeOK, Modes, NoFrame, Counts
    <2>9. /\ enabled' \in BOOLEAN /\ seen' \in BOOLEAN /\ quiet' \in BOOLEAN /\ asked' \in BOOLEAN
         /\ roster' \in BOOLEAN /\ sensorHigh' \in BOOLEAN /\ axisSent' \in BOOLEAN
      BY HubGives DEF Retune, viewerVars, feedVars, TypeOK, Modes, NoFrame, Counts
    <2>10. failures' \in Nat /\ frames' \in [Modes -> 0..tune'] /\ axis' \in 0..tune'
      BY HubGives DEF Retune, viewerVars, feedVars, TypeOK, Modes, NoFrame, Counts
    <2>11. tune' \in 1..(MaxRetunes + 1)
      BY HubGives, FleetLiveAssumption DEF Retune, TypeOK, Counts
    <2>. QED
      BY <2>1, <2>2, <2>3, <2>4, <2>5, <2>6, <2>7, <2>8, <2>9, <2>10, <2>11 DEF TypeOK
  <1>2. FramesFollowMode'
    BY HubGives DEF Retune, viewerVars, feedVars, FramesFollowMode, TypeOK, Wanted, Modes,
       NoFrame
  <1>3. Counts'
    BY HubGives DEF Retune, viewerVars, feedVars, Counts, TypeOK, Modes, NoFrame
  <1>4. Axes'
    BY HubGives DEF Retune, viewerVars, feedVars, Axes, TypeOK, Modes, NoFrame
  <1>5. Kept'
    BY HubGives DEF Retune, viewerVars, feedVars, Kept, TypeOK, Modes, NoFrame
  <1>6. OneMode'
    BY HubGives DEF Retune, viewerVars, feedVars, OneMode, TypeOK, Modes, NoFrame
  <1>7. ASSUME NEW w \in Viewers PROVE OfViewer(w)'
    <2>1. (w \notin in => Absent(w))'
      BY HubGives, <1>7 DEF Retune, viewerVars, feedVars, Absent, TypeOK, Modes, NoFrame,
         NotShown
    <2>2. Tile(w)'
      BY HubGives, <1>7 DEF Retune, viewerVars, feedVars, Tile, TypeOK, Modes, NoFrame, NotShown
    <2>3. Behind(w)'
      BY HubGives, <1>7 DEF Retune, viewerVars, feedVars, Behind, TypeOK, Modes, NoFrame
    <2>4. Followed(w)'
      BY HubGives, <1>7 DEF Retune, viewerVars, feedVars, Followed, TypeOK, Modes, NoFrame
    <2>. QED
      BY <2>1, <2>2, <2>3, <2>4 DEF OfViewer
  <1>. QED
    BY <1>1, <1>2, <1>3, <1>4, <1>5, <1>6, <1>7 DEF HubInv

\* The registry turns the sensor on or off.
LEMMA ToggleKeeps ==
  ASSUME HubInv, Toggle
  PROVE  HubInv'
PROOF
  <1>1. TypeOK'
    BY HubGives DEF Toggle, viewerVars, feedVars, sensorVars, TypeOK, Modes, NoFrame
  <1>2. FramesFollowMode'
    BY HubGives DEF Toggle, viewerVars, feedVars, sensorVars, FramesFollowMode, TypeOK, Wanted,
       Modes, NoFrame
  <1>3. Counts'
    BY HubGives DEF Toggle, viewerVars, feedVars, sensorVars, Counts, TypeOK, Modes, NoFrame
  <1>4. Axes'
    BY HubGives DEF Toggle, viewerVars, feedVars, sensorVars, Axes, TypeOK, Modes, NoFrame
  <1>5. Kept'
    BY HubGives DEF Toggle, viewerVars, feedVars, sensorVars, Kept, TypeOK, Modes, NoFrame
  <1>6. OneMode'
    BY HubGives DEF Toggle, viewerVars, feedVars, sensorVars, OneMode, TypeOK, Modes, NoFrame
  <1>7. ASSUME NEW w \in Viewers PROVE OfViewer(w)'
    <2>1. (w \notin in => Absent(w))'
      BY HubGives, <1>7 DEF Toggle, viewerVars, feedVars, sensorVars, Absent, TypeOK, Modes,
         NoFrame, NotShown
    <2>2. Tile(w)'
      BY HubGives, <1>7 DEF Toggle, viewerVars, feedVars, sensorVars, Tile, TypeOK, Modes,
         NoFrame, NotShown
    <2>3. Behind(w)'
      BY HubGives, <1>7 DEF Toggle, viewerVars, feedVars, sensorVars, Behind, TypeOK, Modes,
         NoFrame
    <2>4. Followed(w)'
      BY HubGives, <1>7 DEF Toggle, viewerVars, feedVars, sensorVars, Followed, TypeOK, Modes,
         NoFrame
    <2>. QED
      BY <2>1, <2>2, <2>3, <2>4 DEF OfViewer
  <1>. QED
    BY <1>1, <1>2, <1>3, <1>4, <1>5, <1>6, <1>7 DEF HubInv

\* A hub nobody watches satisfies the invariant.
LEMMA InitHub ==
  Init => HubInv
PROOF
  <1>. SUFFICES ASSUME Init PROVE HubInv
    OBVIOUS
  <1>1. TypeOK
    <2>1. /\ high \in [Viewers -> BOOLEAN] /\ list \in [Viewers -> {"none", "with", "without"}]
          /\ pending \in [Viewers -> {NoFrame} \cup [mode : Modes, tune : 1..tune]]
          /\ taken \in [Viewers -> 0..tune] /\ sig \in [Viewers -> 0..tune]
          /\ tile \in [Viewers -> -1..tune]
      BY DEF Init
    <2>2. shown \in [Viewers -> [tune : 0..tune, axis : 0..tune]]
      BY DEF Init, NotShown
    <2>3. frames \in [Modes -> 0..tune] /\ axis \in 0..tune /\ failures \in Nat
      BY DEF Init, NoFrames
    <2>4. tune \in 1..(MaxRetunes + 1)
      BY FleetLiveAssumption DEF Init
    <2>. QED
      BY <2>1, <2>2, <2>3, <2>4 DEF Init, TypeOK
  <1>2. FramesFollowMode /\ Counts /\ Axes /\ Kept /\ OneMode
    BY DEF Init, FramesFollowMode, Counts, Axes, Kept, OneMode, NoFrames, Modes
  <1>3. ASSUME NEW v \in Viewers PROVE OfViewer(v)
    BY DEF Init, OfViewer, Absent, Tile, Behind, Followed
  <1>. QED
    BY <1>1, <1>2, <1>3 DEF HubInv

\* A step that changes nothing keeps it.
LEMMA HubStutters ==
  ASSUME HubInv, UNCHANGED vars
  PROVE  HubInv'
PROOF
  <1>1. TypeOK' /\ FramesFollowMode'
    BY HubGives DEF vars, viewerVars, feedVars, sensorVars, boundVars, TypeOK, FramesFollowMode,
        Wanted
  <1>2. Counts' /\ Axes' /\ Kept' /\ OneMode'
    BY HubGives DEF vars, viewerVars, feedVars, sensorVars, boundVars, Counts, Axes, Kept, OneMode
  <1>3. ASSUME NEW v \in Viewers PROVE OfViewer(v)'
    BY HubGives DEF vars, viewerVars, feedVars, sensorVars, boundVars, OfViewer, Absent, Tile,
        Behind, Followed
  <1>. QED
    BY <1>1, <1>2, <1>3 DEF HubInv

\* Every step of the browsers, the hub and the sensor keeps it.
LEMMA StepKeepsHubInv ==
  HubInv /\ [Next]_vars => HubInv'
PROOF
  BY JoinKeeps, LeaveKeeps, SwitchKeeps, TakeKeeps, SendKeeps, GraceEndsKeeps, TickReconcileKeeps,
     TickStatusKeeps, ConnectKeeps, LoseKeeps, BackoffKeeps, SendModeKeeps, FrameKeeps, QuietKeeps,
     RetuneKeeps, ToggleKeeps, HubStutters DEF Next

\* The invariant holds in every state of the hub.
THEOREM HubIsInvariant == Spec => []HubInv
PROOF
  <1>. QED
    BY InitHub, StepKeepsHubInv, PTL DEF Spec

\* A browser is queued the frames of the mode it chose (set_high_res, put_psd of
\* live.py), and what it draws on another tuning's axis is an older frame that the
\* axis's own is about to replace (_axis_for), unless the browser switches
\* or the sensor was disabled.
THEOREM FramesKeepTheirAxis == Spec => []FramesAndAxis
PROOF
  <1>1. HubInv => FramesAndAxis
    <2>. SUFFICES ASSUME HubInv PROVE FramesAndAxis
      OBVIOUS
    <2>1. ASSUME NEW v \in in, shown[v].axis \notin {0, shown[v].tune}
          PROVE  /\ "toggle" \notin happens => shown[v].tune < shown[v].axis
                 /\ "switch" \notin happens /\ axis # 0 => axis \in {taken[v], pending[v].tune}
      <3>1. /\ v \in Viewers /\ shown[v].tune \in Nat /\ shown[v].axis \in Nat
            /\ Behind(v) /\ Followed(v)
        BY HubGives DEF TypeOK
      <3>2. "toggle" \notin happens => shown[v].tune <= shown[v].axis
        BY <3>1 DEF Behind
      <3>3. "switch" \notin happens /\ axis # 0 => axis \in {taken[v], pending[v].tune}
        BY <2>1, <3>1 DEF Followed
      <3>. QED
        BY <2>1, <3>1, <3>2, <3>3
    <2>. QED
      BY <2>1, HubGives DEF FramesAndAxis, AxisIsTheFrames
  <1>. QED
    BY <1>1, HubIsInvariant, PTL
=============================================================================
