---------------------------- MODULE CaptureIndex ----------------------------
(***************************************************************************)
(* The capture archive on disk and its in-memory index                     *)
(* (storage/local.py), with the three threads that work on it: the         *)
(* recording-control thread that adds a finalized capture, marks priority  *)
(* captures and enforces the cap; the storage thread that makes room; and  *)
(* the coroutines that write each capture's detections sidecar later.      *)
(*                                                                         *)
(* A step under the index's lock is one action; the file I/O between two   *)
(* of them is its own.  Captures are numbered as they are finalized, which *)
(* is the order of their mtimes.                                           *)
(***************************************************************************)
EXTENDS Integers, FiniteSets

CONSTANTS
  MaxCaptures,   \* bound on the captures
  MaxEvictions,  \* bound on the storage ticks that evict
  Origins,       \* where captures are written, out of {"auto", "manual"}
  IqSize,        \* bytes of a .sc16
  SidecarSize,   \* bytes of a .detections.json
  MaxBytes,      \* max_bytes
  PriorityCap,   \* priority_share of it; 0 turns priority off
  Span           \* PRIORITY_SPAN_SEC, in captures

ASSUME CaptureIndexAssumption ==
  /\ {MaxCaptures, MaxEvictions, IqSize, SidecarSize, MaxBytes, PriorityCap, Span} \subseteq Nat
  /\ Origins \subseteq {"auto", "manual"}

VARIABLES
  disk,       \* each capture's files
  index,      \* _entries; None where there is none
  autoBytes,  \* _bytes[auto_dir]
  prioBytes,  \* _prio_bytes
  origin,     \* the directory of each capture
  qualified,  \* captures that are priority by themselves
  until,      \* _priority_until: the last capture of the event
  made,       \* captures finalized
  rc,         \* the recording-control thread
  rcTodo,     \* captures it still has to mark
  sd,         \* each capture's sidecar coroutine
  ev,         \* the storage thread
  evLeft,     \* what is left of its snapshot of the archive
  evPrio,     \* those the snapshot has as priority captures
  evBound,    \* the captures older than its tick
  evictions,
  measured,   \* what each tracker measured, outside the lock
  victim,     \* the capture each evictor deletes; 0 for none
  torn        \* history: a track was overtaken between its measure and its add

rcVars == <<rc, rcTodo>>
evVars == <<ev, evLeft, evPrio, evBound, evictions>>
indexVars == <<index, autoBytes, prioBytes>>
pastVars == <<origin, qualified, until, made>>
vars == <<disk, indexVars, pastVars, rcVars, sd, evVars, measured, victim, torn>>

Captures == 1 .. MaxCaptures
Files == {"iq", "sidecar", "mark"}
Evictors == {"cap", "space"}
None == [size |-> 0, priority |-> FALSE, there |-> FALSE]
Entry(size, priority) == [size |-> size, priority |-> priority, there |-> TRUE]
Entries == [size : Nat, priority : BOOLEAN, there : BOOLEAN]
Tracked(c) == index[c].there
Automatic == {c \in Captures : Tracked(c) /\ origin[c] = "auto"}
Oldest(S) == CHOOSE c \in S : \A d \in S : c <= d
Newest(S) == CHOOSE c \in S : \A d \in S : c >= d

\* _capture_size: the .sc16 and the companions that exist; a mark has no bytes.
CaptureSize(c) ==
  (IF "iq" \in disk[c] THEN IqSize ELSE 0) + (IF "sidecar" \in disk[c] THEN SidecarSize ELSE 0)

(***************************************************************************)
(* _remove_locked and _add_locked, with the totals they keep.              *)
(***************************************************************************)
AutoShare(c, e) == IF origin[c] = "auto" THEN e.size ELSE 0
PrioShare(c, e) == IF origin[c] = "auto" /\ e.priority THEN e.size ELSE 0

Replace(c, e) ==
  /\ index' = [index EXCEPT ![c] = e]
  /\ autoBytes' = autoBytes - AutoShare(c, index[c]) + AutoShare(c, e)
  /\ prioBytes' = prioBytes - PrioShare(c, index[c]) + PrioShare(c, e)

(***************************************************************************)
(* track: measure outside the lock, then add under it.  A capture that is  *)
(* gone is forgotten.                                                      *)
(***************************************************************************)
Measure(c) ==
  IF "iq" \in disk[c] THEN Entry(CaptureSize(c), "mark" \in disk[c]) ELSE None

Add(c) ==
  /\ Replace(c, measured[c])
  /\ torn' = (torn \/ measured[c] # Measure(c)
                   \/ (measured[c].there /\ c \in {victim[v] : v \in Evictors}))
  /\ measured' = [measured EXCEPT ![c] = None]

Init ==
  /\ disk = [c \in Captures |-> {}] /\ index = [c \in Captures |-> None]
  /\ autoBytes = 0 /\ prioBytes = 0
  /\ origin = [c \in Captures |-> "auto"] /\ qualified = {} /\ until = 0 /\ made = 0
  /\ rc = "idle" /\ rcTodo = {}
  /\ sd = [c \in Captures |-> "none"]
  /\ ev = "idle" /\ evLeft = {} /\ evPrio = {} /\ evBound = 0 /\ evictions = 0
  /\ measured = [c \in Captures |-> None]
  /\ victim = [v \in Evictors |-> 0] /\ torn = FALSE

(***************************************************************************)
(* Recording control: finalize a capture, track it, mark it and its event, *)
(* enforce the cap.                                                        *)
(***************************************************************************)
RcGoes(place) == rc' = place

\* _decide_priority: a capture may qualify by itself, or belong to the event of
\* one that did.  Only triggered captures take part.
Reason(c) ==
  IF origin[c] # "auto" THEN "none"
  ELSE IF c \in qualified THEN "itself"
  ELSE IF c <= until THEN "event" ELSE "none"

\* The files are complete; the sidecar coroutine sleeps its grace period.
RcFinalize ==
  /\ rc = "idle" /\ made < MaxCaptures
  /\ made' = made + 1
  /\ disk' = [disk EXCEPT ![made'] = {"iq"}]
  /\ \E o \in Origins, q \in BOOLEAN :
       /\ q => o = "auto"
       /\ origin' = [origin EXCEPT ![made'] = o]
       /\ qualified' = IF q THEN qualified \cup {made'} ELSE qualified
       /\ until' = IF q THEN made' + Span ELSE until
  /\ sd' = [sd EXCEPT ![made'] = "grace"]
  /\ RcGoes("track")
  /\ UNCHANGED <<indexVars, rcTodo, evVars, measured, victim, torn>>

\* Nothing overtakes this track: the capture is in no snapshot yet, and its
\* sidecar coroutine sleeps.
RcTracks ==
  /\ rc = "track"
  /\ Replace(made, Measure(made))
  /\ RcGoes(IF Reason(made) = "none" THEN "cap" ELSE "marks")
  /\ rcTodo' = IF Reason(made) = "none" THEN {} ELSE {made}
  /\ UNCHANGED <<disk, pastVars, sd, evVars, measured, victim, torn>>

\* mark_priority looks, under the lock, for a capture that has no mark yet.
RcNext == IF made \in rcTodo THEN made ELSE Oldest(rcTodo)

RcMarkDone ==
  /\ rcTodo' = rcTodo \ {RcNext}
  /\ RcGoes(IF RcNext = made THEN "before" ELSE IF rcTodo' = {} THEN "cap" ELSE "marks")

RcMarkLooks ==
  /\ rc = "marks"
  /\ IF Tracked(RcNext) /\ ~index[RcNext].priority /\ origin[RcNext] = "auto"
       THEN RcGoes("touch") /\ UNCHANGED rcTodo
       ELSE RcMarkDone
  /\ UNCHANGED <<disk, indexVars, pastVars, sd, evVars, measured, victim, torn>>

RcMarkTouches ==
  /\ rc = "touch" /\ RcGoes("settle")
  /\ disk' = [disk EXCEPT ![RcNext] = @ \cup {"mark"}]
  /\ UNCHANGED <<indexVars, pastVars, rcTodo, sd, evVars, measured, victim, torn>>

RcMarkSettlesCareless ==
  /\ rc = "settle"
  /\ IF Tracked(RcNext)
       THEN Replace(RcNext, [index[RcNext] EXCEPT !.priority = TRUE])
       ELSE UNCHANGED indexVars
  /\ RcMarkDone
  /\ UNCHANGED <<disk, pastVars, sd, evVars, measured, victim, torn>>

\* A mark whose capture was evicted meanwhile is an orphan.
RcMarkSettles ==
  /\ rc = "settle"
  /\ IF Tracked(RcNext)
       THEN Replace(RcNext, [index[RcNext] EXCEPT !.priority = TRUE]) /\ UNCHANGED disk
       ELSE disk' = [disk EXCEPT ![RcNext] = @ \ {"mark"}] /\ UNCHANGED indexVars
  /\ RcMarkDone
  /\ UNCHANGED <<pastVars, sd, evVars, measured, victim, torn>>

RcListsBeforeShort ==
  /\ rc = "before"
  /\ rcTodo' = IF Reason(made) = "itself"
                 THEN {c \in Automatic : c < made /\ c > made - Span} ELSE {}
  /\ RcGoes(IF rcTodo' = {} THEN "cap" ELSE "marks")
  /\ UNCHANGED <<disk, indexVars, pastVars, sd, evVars, measured, victim, torn>>

\* A capture that qualified by itself takes those before it along.
RcListsBefore ==
  /\ rc = "before"
  /\ rcTodo' = IF Reason(made) = "itself"
                 THEN {c \in Automatic : c < made /\ c >= made - Span} ELSE {}
  /\ RcGoes(IF rcTodo' = {} THEN "cap" ELSE "marks")
  /\ UNCHANGED <<disk, indexVars, pastVars, sd, evVars, measured, victim, torn>>

(***************************************************************************)
(* enforce_cap: one victim at a time until the archive is within the cap.  *)
(***************************************************************************)
Ordinary(S) == {c \in S : ~index[c].priority}

CapVictim ==
  LET rest == Automatic \ {Newest(Automatic)}
      prio == rest \ Ordinary(rest)
  IN IF PriorityCap = 0 THEN Oldest(rest)
     ELSE IF prio # {} /\ prioBytes > PriorityCap THEN Oldest(prio)
     ELSE IF Ordinary(rest) # {} THEN Oldest(Ordinary(rest)) ELSE Oldest(prio)

OverCap == autoBytes > MaxBytes /\ Cardinality(Automatic) > 1

RcCap ==
  /\ rc = "cap"
  /\ IF OverCap THEN victim' = [victim EXCEPT !["cap"] = CapVictim] /\ RcGoes("claim")
                ELSE UNCHANGED victim /\ RcGoes("idle")
  /\ UNCHANGED <<disk, indexVars, pastVars, rcTodo, sd, evVars, measured, torn>>

(***************************************************************************)
(* _delete_capture: claim the capture by taking it out of the index,       *)
(* unlink the .sc16 and then its companions.                               *)
(***************************************************************************)
Claim(v) ==
  /\ victim[v] # 0
  /\ Replace(victim[v], None)
  /\ UNCHANGED victim

Unlink(v, files) == disk' = [disk EXCEPT ![victim[v]] = @ \ files]

Deleted(v) == victim' = [victim EXCEPT ![v] = 0]

RcClaims ==
  /\ rc = "claim" /\ RcGoes("iq")
  /\ Claim("cap")
  /\ UNCHANGED <<disk, pastVars, rcTodo, sd, evVars, measured, torn>>

RcUnlinks ==
  \/ /\ rc = "iq" /\ RcGoes("companions")
     /\ Unlink("cap", {"iq"})
     /\ UNCHANGED <<indexVars, pastVars, rcTodo, sd, evVars, measured, victim, torn>>
  \/ /\ rc = "companions" /\ RcGoes("cap")
     /\ Unlink("cap", Files) /\ Deleted("cap")
     /\ UNCHANGED <<indexVars, pastVars, rcTodo, sd, evVars, measured, torn>>

(***************************************************************************)
(* The storage thread: evict_until_free over a snapshot of the archive,    *)
(* ordinary captures first.  A capture written since the tick began is     *)
(* skipped: here it never enters the snapshot.                             *)
(***************************************************************************)
EvBegins ==
  /\ ev = "idle" /\ evictions < MaxEvictions
  /\ evictions' = evictions + 1 /\ evBound' = made /\ ev' = "list"
  /\ UNCHANGED <<disk, indexVars, pastVars, rcVars, sd, evLeft, evPrio, measured, victim, torn>>

EvLists ==
  /\ ev = "list" /\ ev' = "next"
  /\ evLeft' = {c \in Automatic : c <= evBound} /\ evBound' = 0
  /\ evPrio' = IF PriorityCap = 0 THEN {} ELSE evLeft' \ Ordinary(evLeft')
  /\ UNCHANGED <<disk, indexVars, pastVars, rcVars, sd, evictions, measured, victim, torn>>

EvNext == IF evLeft \ evPrio # {} THEN Oldest(evLeft \ evPrio) ELSE Oldest(evLeft)

EvTakes ==
  /\ ev = "next" /\ evLeft # {}
  /\ evLeft' = evLeft \ {EvNext} /\ evPrio' = evPrio \ {EvNext}
  /\ ev' = "claim" /\ victim' = [victim EXCEPT !["space"] = EvNext]
  /\ UNCHANGED <<disk, indexVars, pastVars, rcVars, sd, evBound, evictions, measured, torn>>

\* There is room, or nothing is left.
EvEnds ==
  /\ ev = "next" /\ ev' = "idle"
  /\ evLeft' = {} /\ evPrio' = {}
  /\ UNCHANGED <<disk, indexVars, pastVars, rcVars, sd, evBound, evictions, measured, victim, torn>>

EvClaims ==
  /\ ev = "claim" /\ ev' = "iq"
  /\ Claim("space")
  /\ UNCHANGED <<disk, pastVars, rcVars, sd, evLeft, evPrio, evBound, evictions, measured, torn>>

EvUnlinks ==
  \/ /\ ev = "iq" /\ ev' = "companions"
     /\ Unlink("space", {"iq"})
     /\ UNCHANGED <<indexVars, pastVars, rcVars, sd, evLeft, evPrio, evBound, evictions, measured,
                    victim, torn>>
  \/ /\ ev = "companions" /\ ev' = "next"
     /\ Unlink("space", Files) /\ Deleted("space")
     /\ UNCHANGED <<indexVars, pastVars, rcVars, sd, evLeft, evPrio, evBound, evictions,
                    measured, torn>>

(***************************************************************************)
(* The sidecar coroutine of a capture (_deferred_sidecar).  Its grace      *)
(* period outlasts the track of its capture's own finalize.                *)
(***************************************************************************)
SdGoes(c, place) == sd' = [sd EXCEPT ![c] = place]

SdWakes(c) ==
  /\ sd[c] = "grace" /\ ~(c = made /\ rc = "track")
  /\ SdGoes(c, IF "iq" \in disk[c] THEN "write" ELSE "done")
  /\ UNCHANGED <<disk, indexVars, pastVars, rcVars, evVars, measured, victim, torn>>

SdWrites(c) ==
  /\ sd[c] = "write" /\ SdGoes(c, "look")
  /\ disk' = [disk EXCEPT ![c] = @ \cup {"sidecar"}]
  /\ UNCHANGED <<indexVars, pastVars, rcVars, evVars, measured, victim, torn>>

\* A capture evicted while its sidecar was written takes the sidecar along.
SdLooks(c) ==
  /\ sd[c] = "look"
  /\ SdGoes(c, IF "iq" \in disk[c] THEN "measure" ELSE "drop")
  /\ UNCHANGED <<disk, indexVars, pastVars, rcVars, evVars, measured, victim, torn>>

SdDrops(c) ==
  /\ sd[c] = "drop" /\ SdGoes(c, "done")
  /\ disk' = [disk EXCEPT ![c] = @ \ {"sidecar"}]
  /\ UNCHANGED <<indexVars, pastVars, rcVars, evVars, measured, victim, torn>>

SdMeasures(c) ==
  /\ sd[c] = "measure" /\ SdGoes(c, "add")
  /\ measured' = [measured EXCEPT ![c] = Measure(c)]
  /\ UNCHANGED <<disk, indexVars, pastVars, rcVars, evVars, victim, torn>>

SdAdds(c) ==
  /\ sd[c] = "add" /\ SdGoes(c, "done")
  /\ Add(c)
  /\ UNCHANGED <<disk, pastVars, rcVars, evVars, victim>>

RcStep ==
  \/ RcFinalize \/ RcTracks
  \/ RcMarkLooks \/ RcMarkTouches \/ RcMarkSettles \/ RcListsBefore
  \/ RcCap \/ RcClaims \/ RcUnlinks

EvStep == EvBegins \/ EvLists \/ EvTakes \/ EvEnds \/ EvClaims \/ EvUnlinks

SdStep(c) ==
  SdWakes(c) \/ SdWrites(c) \/ SdLooks(c) \/ SdDrops(c) \/ SdMeasures(c) \/ SdAdds(c)

Next == RcStep \/ EvStep \/ \E c \in Captures : SdStep(c)

Spec == Init /\ [][Next]_vars

(***************************************************************************)
(* Properties.                                                             *)
(***************************************************************************)
TypeOK ==
  /\ disk \in [Captures -> SUBSET Files]
  /\ index \in [Captures -> Entries] /\ measured \in [Captures -> Entries]
  /\ autoBytes \in Nat /\ prioBytes \in 0 .. autoBytes
  /\ origin \in [Captures -> {"auto", "manual"}]
  /\ qualified \subseteq Captures /\ made \in 0 .. MaxCaptures /\ until \in Nat
  /\ rc \in {"iq", "companions", "idle", "track", "marks", "touch", "settle", "before", "cap",
             "claim"}
  /\ rcTodo \subseteq Captures
  /\ sd \in [Captures -> {"none", "grace", "write", "look", "drop", "measure", "add", "done"}]
  /\ ev \in {"iq", "companions", "idle", "list", "next", "claim"}
  /\ evLeft \subseteq Captures /\ evPrio \subseteq Captures /\ evBound \in 0 .. MaxCaptures
  /\ victim \in [Evictors -> 0 .. MaxCaptures]
  /\ torn \in BOOLEAN

\* The running totals are those of the entries, a .sc16 each and some with the
\* sidecar: every way in and out of the index keeps them.
Bytes(S) == IqSize * Cardinality(S) + SidecarSize * Cardinality({c \in S : index[c].size # IqSize})

TotalsMatch ==
  /\ \A c \in Captures :
       index[c].size \in IF Tracked(c) THEN {IqSize, IqSize + SidecarSize} ELSE {0}
  /\ autoBytes = Bytes(Automatic) /\ prioBytes = Bytes(Automatic \ Ordinary(Automatic))

Deleting == {victim[v] : v \in Evictors}
Calm(c) == c <= made /\ c \notin Deleting /\ ~(c = made /\ rc # "idle") /\ c \notin rcTodo
           /\ sd[c] \in {"grace", "write", "done"}

\* The index is what is on disk, for every capture nobody is working on, as
\* long as no track was overtaken by an eviction or a mark.
IndexIsDisk == ~torn => \A c \in Captures : Calm(c) => index[c] = Measure(c)

\* A companion never outlives its capture: a mark or a sidecar written while
\* the capture is evicted goes with it.
NoOrphans ==
  ~torn => \A c \in Captures :
    Calm(c) /\ sd[c] # "write" /\ "iq" \notin disk[c] => disk[c] = {}

\* Once the recording-control thread is done with a capture, an event is kept
\* whole: with a capture that qualified by itself, those within the span before
\* and after it, as far as they are still there.
EventIsWhole ==
  rc = "idle" => \A q \in qualified, c \in 1 .. made :
    /\ c - q <= Span /\ q - c <= Span
    /\ origin[c] = "auto" /\ "iq" \in disk[c] /\ c \notin Deleting /\ Tracked(c)
    => "mark" \in disk[c]

\* After each capture the automatic archive fits the cap again, on disk and not
\* only in the index; only a sidecar written later may exceed it.
ArchiveBounded ==
  LET kept == {c \in Captures : origin[c] = "auto" /\ "iq" \in disk[c]} \ {victim["space"]}
  IN rc = "idle" => IqSize * Cardinality(kept) <= MaxBytes \/ Cardinality(kept) <= 1

\* The index is the disk: its totals are its entries', its entries the files there
\* are, and no file or row is left behind (local.py).
IndexIsTheDisk == TypeOK /\ TotalsMatch /\ IndexIsDisk /\ NoOrphans

\* Evictions take whole events, and the archive stays within its bounds (local.py,
\* streaming.py).
EvictsWholeEvents == EventIsWhole /\ ArchiveBounded
=============================================================================
