----------------------------- MODULE MCNetwork ------------------------------
(***************************************************************************)
(* What crosses the network, its parts side by side: the fleet dashboard's *)
(* live hub (FleetLive), merged pages (FleetPages) and registry            *)
(* (FleetRegistry), and a sensor's windows on their way to rf-db (Forward).*)
(* One part runs in a behaviour; the others rest in their initial states.  *)
(***************************************************************************)
EXTENDS FleetLive, Forward

VARIABLES
  part,   \* "hub", "pages", "registry" or "forwarder"
  page_happens, page_list, page_began, page_wanted, page_enabled, page_phase,
  page_answer, page_cursor, page_before, page_shown, page_down, page_news, page_gone,
  page_faults, page_toggles,
  reg_sensors, reg_file, reg_up, reg_probe, reg_poll, reg_online, reg_changes

pageVars ==
  <<page_happens, page_list, page_began, page_wanted, page_enabled, page_phase,
    page_answer, page_cursor, page_before, page_shown, page_down, page_news, page_gone,
    page_faults, page_toggles>>
regVars ==
  <<reg_sensors, reg_file, reg_up, reg_probe, reg_poll, reg_online, reg_changes>>
allVars == <<part, vars, pageVars, regVars, forwardVars>>

\* The hub: what may go wrong while browsers come and go.
Two == {"v1", "v2"}
All == {{"standby", "drop"}, {"toggle", "drop"}, {"toggle", "retune"}, {"retune", "drop"},
        {"switch", "send fails", "drop"}, {"switch", "retune"}}

\* The pages: both lists, with failing reads, new and removed items, ties, and
\* a capture whose start is out of its sensor's order.
Reads ==
  {{"captures"}, {"detections"}, {"captures", "fails"}, {"detections", "fails"}, {"captures", "new"},
   {"captures", "removed", "fails"}, {"captures", "toggle"}, {"detections", "ties"},
   {"captures", "ties", "fails"}, {"detections", "tried"}, {"detections", "new", "fails"},
   {"captures", "long"}}

\* The registry: three hosts, one with two addresses.
Hosts == {"a", "b", "c"}
Homes == [i \in Hosts |-> CASE i = "a" -> {1, 4} [] i = "b" -> {2} [] i = "c" -> {3}]

\* The forwarder: outages and deaths, rows rf-db refuses, changes of the
\* window's length before the sensor is registered, retention.
Outages ==
  {{"faults", "crash"}, {"faults", "rejected"}, {"crash", "lengths", "unregistered"}, {"faults", "retention"}}

P == INSTANCE FleetPages WITH
  Sensors <- {1, 2}, Limit <- 2, Items <- 5, MaxNew <- 1, MaxFaults <- 2,
  MaxToggles <- 2, Scenarios <- Reads, happens <- page_happens, list <- page_list,
  began <- page_began,
  wanted <- page_wanted, enabled <- page_enabled, phase <- page_phase,
  answer <- page_answer, cursor <- page_cursor, before <- page_before,
  shown <- page_shown, down <- page_down, news <- page_news, gone <- page_gone,
  faults <- page_faults, toggles <- page_toggles

R == INSTANCE FleetRegistry WITH
  Ids <- Hosts, Home <- Homes, MaxChanges <- 4, sensors <- reg_sensors, file <- reg_file,
  up <- reg_up, probe <- reg_probe, poll <- reg_poll, online <- reg_online,
  changes <- reg_changes

\* Two windows at most are unstorable or refused: beside good ones.
AFewBad == Cardinality({i \in DOMAIN bad : bad[i] # "no"}) <= 2

MCInit ==
  /\ part \in {"hub", "pages", "registry", "forwarder"}
  /\ Init /\ (part # "hub" => happens = {"retune", "drop"})
  /\ P!Init /\ (part # "pages" => page_happens = {"captures"} /\ page_list[2] = {})
  /\ R!Init
  /\ ForwardInit /\ (part # "forwarder" => may = {"faults", "crash"} /\ length = 1)
  /\ AFewBad

Hub(A) == part = "hub" /\ A /\ UNCHANGED <<part, pageVars, regVars, forwardVars>>
Paging(A) == part = "pages" /\ A /\ UNCHANGED <<part, vars, regVars, forwardVars>>
Registering(A) == part = "registry" /\ A /\ UNCHANGED <<part, vars, pageVars, forwardVars>>
Forwarding(A) == part = "forwarder" /\ A /\ UNCHANGED <<part, vars, pageVars, regVars>>

MCNext ==
  \/ Hub(\E v \in Viewers : Join(v)) \/ Hub(\E v \in Viewers : Leave(v))
  \/ Hub(\E v \in Viewers : Switch(v)) \/ Hub(\E v \in Viewers : Take(v))
  \/ Hub(\E v \in Viewers : Send(v)) \/ Hub(GraceEnds) \/ Hub(TickReconcile)
  \/ Hub(TickStatus) \/ Hub(Connect) \/ Hub(Lose) \/ Hub(Backoff) \/ Hub(SendMode)
  \/ Hub(\E m \in Modes : Frame(m)) \/ Hub(Quiet) \/ Hub(Retune) \/ Hub(Toggle)
  \/ Paging(P!Ask) \/ Paging(P!Merge) \/ Paging(\E s \in {1, 2} : P!Answer(s))
  \/ Paging(\E s \in {1, 2} : P!Fail(s)) \/ Paging(\E s \in {1, 2} : P!Record(s))
  \/ Paging(\E s \in {1, 2} : P!Forget(s)) \/ Paging(\E s \in {1, 2} : P!Toggle(s))
  \/ Registering(R!Add) \/ Registering(R!Restart)
  \/ Registering(\E i \in Hosts : R!Seen(i)) \/ Registering(\E i \in Hosts : R!Enable(i))
  \/ Registering(\E i \in Hosts : R!Drop(i))
  \/ Registering(\E i \in Hosts : R!StartPoll(i))
  \/ Registering(\E i \in Hosts : R!TryAddress(i))
  \/ Registering(\E a \in R!Addresses : R!AskAddress(a))
  \/ Registering(\E a \in R!Addresses : R!Outage(a))
  \/ Forwarding(Open) \/ Forwarding(Load) \/ Forwarding(SaveFirst) \/ Forwarding(Hardware)
  \/ Forwarding(Read) \/ Forwarding(Insert) \/ Forwarding(InsertRow)
  \/ Forwarding(RowsDone) \/ Forwarding(Mark) \/ Forwarding(Save)
  \/ Forwarding(StoreWindow) \/ Forwarding(Expire) \/ Forwarding(SetLength)
  \/ Forwarding(Register) \/ Forwarding(Die)

\* The fairness of the LiveSpecs of FleetLive, FleetRegistry and Forward.
MCSpec ==
  /\ MCInit /\ [][MCNext]_allVars
  /\ WF_allVars(Hub(GraceEnds)) /\ WF_allVars(Hub(TickReconcile)) /\ WF_allVars(Hub(TickStatus))
  /\ WF_allVars(Hub(Connect)) /\ WF_allVars(Hub(Backoff)) /\ WF_allVars(Hub(SendMode))
  /\ \A i \in Hosts : WF_allVars(Registering(R!StartPoll(i))) /\ WF_allVars(Registering(R!TryAddress(i)))
  /\ WF_allVars(Forwarding(Flush)) /\ WF_allVars(Forwarding(Register))

\* Reading a merged list page by page shows every item once, each sensor's in
\* its own order and the next one always the newest (FleetPages).
ListsAreMerged == P!TypeOK /\ P!EachShownOnce /\ P!NewestFirst

\* A sensor keeps its colour slot, and one that fell back to another address
\* moves back to its best (FleetRegistry).
SensorsKeepTheirPlace == []R!TypeOK /\ R!ColoursAreKept /\ R!MovesBack
=============================================================================
