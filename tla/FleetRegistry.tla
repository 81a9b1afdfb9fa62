--------------------------- MODULE FleetRegistry ---------------------------
(***************************************************************************)
(* The fleet's sensor list (fleet/registry.py), what mDNS and the Sensors  *)
(* page do to it, and the identity poll that moves a sensor between its    *)
(* addresses (SensorHub.refresh).  An address is its rank: 1 is on this    *)
(* host's own subnet.                                                      *)
(***************************************************************************)
EXTENDS Integers, Sequences, FiniteSets, SequencesExt, FiniteSetsExt

CONSTANTS
  Ids,         \* the sensors' hostnames
  Home,        \* hostname -> its host's addresses, a set of naturals
  MaxChanges   \* bound on edits of the list, on addresses going down or coming
               \* back, and on restarts of the fleet, all together

VARIABLES
  sensors,   \* _sensors: hostname -> its entry
  file,      \* fleet.json
  up,        \* the addresses that answer
  probe,     \* add_sensor's address being asked, or 0
  poll,      \* hostname -> the addresses its refresh has still to try, or Idle
  online,    \* the hostnames whose status says online
  changes

vars == <<sensors, file, up, probe, poll, online, changes>>

Change == changes < MaxChanges /\ changes' = changes + 1

Addresses == UNION {Home[i] : i \in Ids}
At(a) == CHOOSE i \in Ids : a \in Home[i]
Idle == <<0>>
Known == DOMAIN sensors

Init ==
  /\ sensors = <<>> /\ file = <<>>
  /\ up = Addresses /\ probe = 0
  /\ poll = [i \in Ids |-> Idle] /\ online = {}
  /\ changes = 0

----------------------------------------------------------------------------
(* The registry                                                            *)

Ranked(addresses) == SetToSortSeq(addresses, <)

\* Mutant: the next slot is the number of sensors.
SlotByCount == Cardinality(Known)

\* _next_slot_locked: the first that none uses.
NextSlot == Min((0..Cardinality(Known)) \ {sensors[i].slot : i \in Known})

With(i, entry) == [j \in Known \cup {i} |-> IF j = i THEN entry ELSE sensors[j]]

\* Every change is saved under the lock that made it.
Changed(new) == sensors' = new /\ file' = new

\* seen_on_mdns: the best address is an mDNS sensor's own; one added by hand
\* keeps its address, and the others are its alternatives.
Seen(i) ==
  LET addrs == Ranked(Home[i])
      own == IF i \notin Known \/ sensors[i].source = "mdns" THEN addrs[1] ELSE sensors[i].address
      entry == [address |-> own, alts |-> SelectSeq(addrs, LAMBDA a : a # own),
                slot |-> IF i \in Known THEN sensors[i].slot ELSE NextSlot,
                enabled |-> IF i \in Known THEN sensors[i].enabled ELSE TRUE,
                source |-> IF i \in Known THEN sensors[i].source ELSE "mdns"]
  IN /\ Change
     /\ Changed(With(i, entry))
     /\ poll' = IF entry.enabled /\ poll[i] = Idle
                THEN [poll EXCEPT ![i] = Ranked(Home[i])] ELSE poll
     /\ UNCHANGED <<up, probe, online>>

\* add_sensor asks who answers at the address, and adds that hostname.
AskAddress(a) ==
  /\ probe = 0 /\ Change
  /\ probe' = a
  /\ UNCHANGED <<sensors, file, up, poll, online>>

Add ==
  /\ probe # 0 /\ probe' = 0
  /\ IF probe \notin up THEN UNCHANGED <<sensors, file, poll>>
     ELSE LET i == At(probe)
              entry == [address |-> probe, source |-> "manual",
                        alts |-> IF i \in Known THEN sensors[i].alts ELSE <<>>,
                        slot |-> IF i \in Known THEN sensors[i].slot ELSE NextSlot,
                        enabled |-> IF i \in Known THEN sensors[i].enabled ELSE TRUE]
          IN /\ Changed(With(i, entry))
             /\ poll' = IF poll[i] = Idle THEN [poll EXCEPT ![i] = <<probe>> \o entry.alts] ELSE poll
  /\ UNCHANGED <<up, online, changes>>

Enable(i) ==
  /\ i \in Known /\ Change
  /\ Changed([sensors EXCEPT ![i].enabled = ~@])
  /\ UNCHANGED <<up, probe, poll, online>>

Drop(i) ==
  /\ i \in Known /\ Change
  /\ Changed([j \in Known \ {i} |-> sensors[j]])
  /\ UNCHANGED <<up, probe, poll, online>>

\* use_address keeps the others, the old main first.
OthersKept(s, a) == SelectSeq(<<s.address>> \o s.alts, LAMBDA b : b # a)

----------------------------------------------------------------------------
(* The identity poll                                                       *)

\* refresh: an mDNS sensor's addresses best first, a manual one's own first.
StartPoll(i) ==
  /\ i \in Known /\ sensors[i].enabled /\ poll[i] = Idle
  /\ LET all == <<sensors[i].address>> \o sensors[i].alts
     IN poll' = [poll EXCEPT ![i] = IF sensors[i].source = "mdns" THEN Ranked(ToSet(all)) ELSE all]
  /\ UNCHANGED <<sensors, file, up, probe, online, changes>>

\* The next address: the first that answers becomes the main one.
TryAddress(i) ==
  /\ poll[i] # Idle
  /\ IF poll[i] = <<>>
     THEN /\ poll' = [poll EXCEPT ![i] = Idle] /\ online' = online \ {i}
          /\ UNCHANGED <<sensors, file>>
     ELSE LET a == Head(poll[i])
          IN IF a \notin up
             THEN poll' = [poll EXCEPT ![i] = Tail(@)] /\ UNCHANGED <<sensors, file, online>>
             ELSE /\ poll' = [poll EXCEPT ![i] = Idle] /\ online' = online \cup {i}
                  /\ IF i \in Known /\ sensors[i].address # a
                     THEN Changed([sensors EXCEPT ![i].address = a, ![i].alts = OthersKept(sensors[i], a)])
                     ELSE UNCHANGED <<sensors, file>>
  /\ UNCHANGED <<up, probe, changes>>

----------------------------------------------------------------------------
(* The network, and a restart of the fleet                                 *)

Outage(a) ==
  /\ Change
  /\ up' = IF a \in up THEN up \ {a} ELSE up \cup {a}
  /\ UNCHANGED <<sensors, file, probe, poll, online>>

Restart ==
  /\ Change
  /\ sensors' = file
  /\ probe' = 0 /\ poll' = [i \in Ids |-> Idle] /\ online' = {}
  /\ UNCHANGED <<file, up>>

Next ==
  \/ Add \/ Restart
  \/ \E i \in Ids : Seen(i)
  \/ \E a \in Addresses : AskAddress(a)
  \/ \E i \in Ids : Enable(i)
  \/ \E i \in Ids : Drop(i)
  \/ \E i \in Ids : StartPoll(i)
  \/ \E i \in Ids : TryAddress(i)
  \/ \E a \in Addresses : Outage(a)

Spec == Init /\ [][Next]_vars

\* The poll comes round every IDENTITY_INTERVAL_SEC, and each request ends.
LiveSpec == Spec /\ \A i \in Ids : WF_vars(StartPoll(i)) /\ WF_vars(TryAddress(i))

----------------------------------------------------------------------------
(* Properties                                                              *)

\* Types: a sensor's addresses are addresses there are.
TypeOK ==
  /\ DOMAIN sensors \subseteq Ids /\ up \subseteq Addresses /\ probe \in Addresses \cup {0}
  /\ \A i \in DOMAIN sensors :
       /\ sensors[i].address \in Addresses /\ ToSet(sensors[i].alts) \subseteq Addresses
       /\ sensors[i].slot \in 0..Cardinality(Ids)
  /\ poll \in [Ids -> Seq(Addresses \cup {0})]
  /\ online \subseteq Ids /\ changes \in 0..MaxChanges

\* "Each sensor keeps the colour slot it was given when first added, so its
\* colour never changes when others come or go": two sensors never share a
\* slot, and none loses its own, over restarts too.
ColoursAreKept ==
  /\ [](\A i, j \in Known : i # j => sensors[i].slot # sensors[j].slot)
  /\ [][\A i \in Known \cap DOMAIN sensors' : sensors'[i].slot = sensors[i].slot]_vars

Alive(i) == ToSet(<<sensors[i].address>> \o sensors[i].alts) \cap up

\* An mDNS sensor that fell back to another address while its best one was
\* down moves back once that one answers again, and its status follows.
MovesBack ==
  \A i \in Ids : []<>(i \in Known /\ sensors[i].enabled /\ sensors[i].source = "mdns" =>
    LET alive == Home[i] \cap up
    IN (alive # {} => sensors[i].address = Min(alive)) /\ (i \in online) = (alive # {}))
=============================================================================
