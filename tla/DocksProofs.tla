---------------------------- MODULE DocksProofs ----------------------------
(***************************************************************************)
(* Proofs about DockDiscovery, for any number of units, models and         *)
(* drivers, any cap, and any number of replugs and changes of the          *)
(* settings, with opens and scans that may fail.                           *)
(*                                                                         *)
(* DiscInv is the inductive invariant of indexes, docks and reconnects:    *)
(* who waits for which driver, and in which state of its life cycle that   *)
(* driver is.  Owned says more, that each driver in use has an owner and   *)
(* that all units served are different; it takes opens that settle before  *)
(* the next probe.                                                         *)
(*                                                                         *)
(* The operators that pick the least path, model or index, ProbeModels,    *)
(* ScannerResumes and TaskStep, are first replaced by what they do with    *)
(* some path, model or index.  Each action then has, for each way it can   *)
(* take, one lemma about DiscInv and one about Owned.                      *)
(*                                                                         *)
(* The second part is about Pages, for any keys, pictures, models and        *)
(* thresholds, any number of saved pages and any number of edits.  Its     *)
(* handlers chain assignments to fields of one record, the world: for each *)
(* the lemmas say which fields it leaves with which values, and PagesInv   *)
(* then holds of the world it ends with.                                   *)
(*                                                                         *)
(* The last part is about Standby, for any settings, kinds of device,      *)
(* levels and keys.  Each part of apply() has a lemma that says, field by  *)
(* field, what it does to the controller and its panel; Ready is what      *)
(* apply() relies on and Settled what it leaves, whatever was recomputed   *)
(* and why, so that each handler only has to establish the first.          *)
(***************************************************************************)
EXTENDS DockDiscovery, Pages, Standby, FiniteSetTheorems, WellFoundedInduction, NaturalsInduction, TLAPS

(* The probe and the creation each wait for the open, or the close, of a driver of their own. *)
ProbeAtWork ==
    /\ probe.pc = "open" => /\ probe.d # None /\ drv[probe.d].st = "opening"
                            /\ drv[probe.d].path # None
    /\ probe.pc = "close" => probe.d # None /\ drv[probe.d].st = "closing"
CreationAtWork ==
    /\ create.pc = "open" => /\ create.d # None /\ drv[create.d].st = "opening"
                             /\ drv[create.d].path # None
    /\ create.pc = "close" => create.d # None /\ drv[create.d].st = "closing"
    /\ create.pc \in {"idle", "scan"} => create.d = None
WorkApart ==
    probe.pc = create.pc /\ probe.pc \in {"open", "close"} => probe.d # create.d

(* The drivers of docks are open, and no two docks have the same. *)
PrimaryIsOpen == primary # None => drv[primary].st = "open" /\ drv[primary].path # None
DocksAreOpen ==
    \A i \in Indices : units[i] # None => drv[units[i]].st = "open" /\ drv[units[i]].path # None
DocksApart ==
    /\ \A i \in Indices : units[i] # None => units[i] # primary
    /\ \A i, j \in Indices : units[i] # None /\ units[i] = units[j] => i = j

(* A driver that a creation starts is open but not attached yet, and belongs to a dock that is
   registered unless it was stopped; the other registered docks have attached theirs. *)
StartIsOpen ==
    create.pc = "start" => /\ create.d # None /\ drv[create.d].st = "open"
                           /\ drv[create.d].path # None /\ create.idx \in Indices
StartApart ==
    create.pc = "start" => /\ create.d # primary /\ create.idx \notin up
                           /\ \A i \in up : units[i] # create.d
Registered ==
    /\ create.stopped => create.pc \in {"start", "close"}
    /\ up \subseteq {i \in Indices : units[i] # None}
    /\ \A i \in Indices \ up : units[i] # None => create.pc = "start" /\ i = create.idx
    /\ create.pc = "start" =>
         units[create.idx] = IF create.stopped THEN None ELSE create.d

(* The pool holds parked drivers, each for one model. *)
PoolIsParked == \A m \in Models : parked[m] # None => drv[parked[m]].st = "parked"
PoolApart == \A m, n \in Models : parked[m] # None /\ parked[m] = parked[n] => m = n

(* A task that has stopped a dock awaits the close of a driver nobody else awaits. *)
TasksAwait ==
    \A k \in TaskKinds :
        tasks[k].pc # "idle" /\ tasks[k].d # None => drv[tasks[k].d].st = "closing"
TasksApart ==
    /\ \A k \in TaskKinds : tasks[k].pc # "idle" /\ tasks[k].d # None =>
         /\ create.pc = "close" => create.d # tasks[k].d
         /\ probe.pc = "close" => probe.d # tasks[k].d
    /\ \A k, n \in TaskKinds :
         tasks[k].pc # "idle" /\ tasks[k].d # None /\ tasks[n].pc # "idle"
           /\ tasks[k].d = tasks[n].d => k = n

(* Only a driver that was open goes dead, and dock 0 is told. *)
DeadWereOpen == \A d \in dead : drv[d].st \in {"open", "closing"}

(* A creation under way across a teardown knows that it is stale. *)
StaleIsKnown == create.pc = "open" /\ ~multi => create.stale

DiscInv ==
    /\ TypeOK /\ ProbeAtWork /\ CreationAtWork /\ WorkApart /\ PrimaryIsOpen /\ DocksAreOpen
    /\ DocksApart /\ StartIsOpen /\ StartApart /\ Registered /\ PoolIsParked /\ PoolApart
    /\ TasksAwait /\ TasksApart /\ DeadWereOpen /\ UnplugReachesPrimary
    /\ IndexPoolConserved /\ NoDockAfterTeardown /\ StaleIsKnown /\ ReconnectPending

(* While an open settles before the next probe, the probe and a creation never wait for one at
   the same time, and the slot of the model that is being opened is empty. *)
OneOpenAtATime ==
    /\ probe.pc # "idle" => primary = None /\ create.pc # "open"
    /\ probe.pc = "open" => parked[ModelOf[drv[probe.d].path]] = None
    /\ create.pc = "open" => parked[ModelOf[drv[create.d].path]] = None

(* Each driver in use has an owner. *)
OpeningIsOwned ==
    \A d \in Drivers : drv[d].st = "opening" =>
        (probe.pc = "open" /\ probe.d = d) \/ (create.pc = "open" /\ create.d = d)
OpenIsOwned ==
    \A d \in Drivers : drv[d].st = "open" =>
        \/ primary = d \/ \E i \in up : units[i] = d
        \/ (create.pc = "start" /\ create.d = d)
ParkedIsOwned == \A d \in Drivers : drv[d].st = "parked" => \E m \in Models : parked[m] = d

(* The units that are opened or served are all different. *)
DockUnitsApart ==
    \A i, j \in Indices : units[i] # None /\ units[j] # None /\ i # j =>
        drv[units[i]].path # drv[units[j]].path
PrimaryUnitApart ==
    primary # None =>
        /\ \A i \in Indices : units[i] # None => drv[units[i]].path # drv[primary].path
        /\ create.pc = "open" => drv[create.d].path # drv[primary].path
OpenedUnitsApart ==
    \A i \in Indices : units[i] # None =>
        /\ create.pc = "open" => drv[units[i]].path # drv[create.d].path
        /\ probe.pc = "open" => drv[units[i]].path # drv[probe.d].path

Owned ==
    /\ OneOpenAtATime /\ OpeningIsOwned /\ OpenIsOwned /\ ParkedIsOwned
    /\ DockUnitsApart /\ PrimaryUnitApart /\ OpenedUnitsApart

OwnedInv == DiscInv /\ Owned

-----------------------------------------------------------------------------
(* Helpers and what the steps do. *)

(* Constants. *)

LEMMA NumbersOnly ==
    /\ Drivers \subseteq Nat /\ Models \subseteq Nat /\ Indices \subseteq Nat /\ Units \subseteq Nat
    /\ None \notin Drivers /\ None \notin Models /\ None \notin Indices /\ None \notin Units
<1>1. Models \subseteq Nat \ {0}
  BY DiscoveryAssumption DEF Models
<1>2. Indices \subseteq Nat \ {0}
  BY DiscoveryAssumption DEF Indices
<1> QED BY <1>1, <1>2, DiscoveryAssumption DEF None

LEMMA ModelsKnown == ASSUME NEW u \in Units PROVE ModelOf[u] \in Models
BY DEF Models

(* The minimum of a set of numbers is one of them. *)
LEMMA MinIsIn ==
    ASSUME NEW S, S \subseteq Nat, S # {}
    PROVE  Min(S) \in S
<1>1. IsWellFoundedOn(OpToRel(<, Nat), Nat)
  BY NatLessThanWellFounded
<1>2. PICK m \in S : \A j \in S : ~ (<<j, m>> \in OpToRel(<, Nat))
  BY <1>1, WFMin
<1>3. \A j \in S : m <= j
  <2> SUFFICES ASSUME NEW j \in S, j < m PROVE FALSE
    OBVIOUS
  <2>1. <<j, m>> \in OpToRel(<, Nat)
    BY DEF OpToRel
  <2> QED BY <2>1, <1>2
<1>4. \E x \in S : \A y \in S : x =< y
  BY <1>3
<1> QED BY <1>4 DEF Min

LEMMA TasksTwo == TaskKinds = {"reload", "choose"}
BY DEF TaskKinds

(* Steps of the probe: it opens u, a unit of model m, on driver d, or it ends. *)
Opens(dv, pk, m, d, u) ==
    /\ ModelOf[u] = m
    /\ pk[m] = d \/ (pk[m] = None /\ dv[d].st = "free")
    /\ drv' = [dv EXCEPT ![d] = [st |-> "opening", path |-> u]]
    /\ parked' = [pk EXCEPT ![m] = None]

ProbeOpens(dv, pk, m, d, u) ==
    /\ Opens(dv, pk, m, d, u)
    /\ \E left \in SUBSET Models : probe' = [pc |-> "open", d |-> d, left |-> left]
    /\ timer' = timer

ProbeEnds(dv, pk) ==
    /\ probe' = NoProbe /\ timer' = ~shutdown
    /\ drv' = IF shutdown THEN Closing(dv, {pk[m] : m \in Models} \ {None}) ELSE dv
    /\ parked' = IF shutdown THEN [m \in Models |-> None] ELSE pk

LEMMA ProbeSteps ==
    ASSUME NEW ms \in SUBSET Models, NEW snap \in SUBSET Units, NEW det, NEW dv,
           NEW pk \in [Models -> Drivers \cup {None}], ProbeModels(ms, snap, det, dv, pk)
    PROVE  \/ \E m \in Models, d \in Drivers, u \in Units \ ClaimedPaths :
                ProbeOpens(dv, pk, m, d, u)
           \/ ProbeEnds(dv, pk)
<1>1. CASE Promising(ms, snap, det) = {}
  BY <1>1 DEF ProbeModels, ProbeEnds, ScheduleReconnect
<1>2. CASE Promising(ms, snap, det) # {}
  <2> DEFINE m == Min(Promising(ms, snap, det))
             fresh == {e \in Drivers : dv[e].st = "free"}
             d == IF pk[m] # None THEN pk[m] ELSE Min(fresh)
  <2>1. Promising(ms, snap, det) \subseteq Models
    BY DEF Promising
  <2>2. m \in Models
    BY <1>2, <2>1, MinIsIn, NumbersOnly
  <2>3. pk[m] # None \/ fresh # {}
    BY <1>2 DEF ProbeModels
  <2>4. fresh \subseteq Nat
    BY NumbersOnly
  <2>5. pk[m] # None \/ d \in fresh
    BY <2>3, <2>4, MinIsIn
  <2>6. d \in Drivers /\ (pk[m] = d \/ (pk[m] = None /\ dv[d].st = "free"))
    BY <2>2, <2>5
  <2>7. PICK u \in Usable(m, snap, det) : drv' = [dv EXCEPT ![d] = [st |-> "opening", path |-> u]]
    BY <1>2 DEF ProbeModels
  <2>8. u \in Units \ ClaimedPaths /\ ModelOf[u] = m
    BY DEF Usable
  <2>9. /\ parked' = [pk EXCEPT ![m] = None] /\ timer' = timer
        /\ probe' = [pc |-> "open", d |-> d, left |-> {k \in ms : k > m}]
    BY <1>2 DEF ProbeModels
  <2>10. {k \in ms : k > m} \in SUBSET Models
    OBVIOUS
  <2> HIDE DEF m, d, fresh
  <2> QED BY <2>2, <2>6, <2>7, <2>8, <2>9, <2>10 DEF ProbeOpens, Opens
<1> QED BY <1>1, <1>2

(* Steps of the scanner after a scan: likewise. *)
ScannerOpens(m, d, u) ==
    /\ Opens(drv, parked, m, d, u)
    /\ create' = [pc |-> "open", d |-> d, idx |-> None, stale |-> FALSE, stopped |-> FALSE]
    /\ ScanTarget /\ u # drv[primary].path

LEMMA ScannerSteps ==
    ASSUME NEW snap \in SUBSET Units, parked \in [Models -> Drivers \cup {None}],
           ScannerResumes(snap)
    PROVE  \/ \E m \in Models, d \in Drivers, u \in Units \ ClaimedPaths : ScannerOpens(m, d, u)
           \/ create' = NoCreate /\ UNCHANGED <<drv, parked>>
<1> DEFINE opens == ScanTarget /\ free # {} /\ Pickable(snap) # {}
<1>1. CASE ~opens
  BY <1>1 DEF ScannerResumes
<1>2. CASE opens
  <2> DEFINE u == Min(Pickable(snap))
             m == ModelOf[u]
             fresh == {e \in Drivers : drv[e].st = "free"}
             d == Acquired(m)
  <2>1. Pickable(snap) \subseteq Units
    BY DEF Pickable
  <2>2. u \in Pickable(snap)
    BY <1>2, <2>1, MinIsIn, NumbersOnly
  <2>3. u \in Units \ ClaimedPaths /\ u # drv[primary].path
    BY <2>2 DEF Pickable
  <2>4. m \in Models
    BY <2>3, ModelsKnown
  <2>5. parked[m] # None \/ fresh # {}
    BY <1>2 DEF ScannerResumes, CanAcquire
  <2>6. fresh \subseteq Nat
    BY NumbersOnly
  <2>7. parked[m] # None \/ d \in fresh
    BY <2>5, <2>6, MinIsIn DEF Acquired
  <2>8. d \in Drivers /\ (parked[m] = d \/ (parked[m] = None /\ drv[d].st = "free"))
    BY <2>4, <2>7 DEF Acquired
  <2>9. /\ drv' = [drv EXCEPT ![d] = [st |-> "opening", path |-> u]]
        /\ parked' = [parked EXCEPT ![m] = None]
        /\ create' = [NoCreate EXCEPT !.pc = "open", !.d = d]
    BY <1>2 DEF ScannerResumes
  <2>10. create' = [pc |-> "open", d |-> d, idx |-> None, stale |-> FALSE, stopped |-> FALSE]
    <3> HIDE DEF d
    <3> QED BY <2>9 DEF NoCreate
  <2>11. ScanTarget
    BY <1>2
  <2> HIDE DEF m, d, u, fresh
  <2>12. ModelOf[u] = m
    BY DEF m
  <2> QED BY <2>3, <2>4, <2>8, <2>9, <2>10, <2>11, <2>12 DEF ScannerOpens, Opens
<1> QED BY <1>1, <1>2

(* Steps of a task: it stops dock i, or dock 0, or it is done. *)
TaskStops(k, i, dv) ==
    /\ i \in Held
    /\ TeardownDock(i, dv)
    /\ \E left \in SUBSET Indices, ms \in SUBSET Models :
         tasks' = [tasks EXCEPT ![k] = [pc |-> "docks", d |-> IF i \in up THEN units[i] ELSE None,
                                        left |-> left, models |-> ms]]
    /\ primary' = primary

TaskStopsPrimary(k, dv) ==
    /\ primary # None /\ primary' = None
    /\ drv' = Closing(dv, {primary})
    /\ tasks' = [tasks EXCEPT ![k] = [pc |-> "primary", d |-> primary, left |-> {}, models |-> {}]]
    /\ UNCHANGED scannerVars

TaskEnds(k, dv) ==
    /\ drv' = dv /\ tasks' = [tasks EXCEPT ![k] = NoTask]
    /\ UNCHANGED <<primary, scannerVars>>

LEMMA TaskSteps ==
    ASSUME NEW k \in TaskKinds, NEW left \in SUBSET Indices, NEW ms \in SUBSET Models, NEW sel,
           NEW dv, TaskStep(k, left, ms, sel, dv)
    PROVE  \/ \E i \in Indices : TaskStops(k, i, dv)
           \/ TaskStopsPrimary(k, dv) \/ TaskEnds(k, dv)
<1> DEFINE stop == {i \in left : /\ units[i] # None
                                 /\ k = "choose" => MustStop(k, ms, sel, units[i])}
<1>1. CASE stop # {}
  <2> DEFINE i == Min(stop)
  <2>1. stop \subseteq Indices /\ stop \subseteq Nat
    BY NumbersOnly
  <2>2. i \in stop
    BY <1>1, <2>1, MinIsIn
  <2>3. i \in Indices /\ i \in Held
    BY <2>1, <2>2 DEF Held
  <2>4. /\ TeardownDock(i, dv) /\ primary' = primary
        /\ tasks' = [tasks EXCEPT ![k] =
               [pc |-> "docks", d |-> IF i \in up THEN units[i] ELSE None,
                left |-> {j \in left : j > i}, models |-> ms]]
    BY <1>1 DEF TaskStep
  <2>5. {j \in left : j > i} \in SUBSET Indices
    OBVIOUS
  <2> HIDE DEF i
  <2> QED BY <2>3, <2>4, <2>5 DEF TaskStops
<1>2. CASE stop = {} /\ primary # None /\ MustStop(k, ms, sel, primary)
  BY <1>2 DEF TaskStep, TaskStopsPrimary, NoTask
<1>3. CASE stop = {} /\ ~(primary # None /\ MustStop(k, ms, sel, primary))
  BY <1>3 DEF TaskStep, TaskEnds
<1> QED BY <1>1, <1>2, <1>3

(* What the steps leave alone. *)
BusRests == UNCHANGED <<plugged, plugs>>
ChoiceRests == UNCHANGED <<selected, multi, edits>>
DocksRest == UNCHANGED <<units, up, free>>

(* The drivers and the pool after the open the probe waited for has failed. *)
AfterFailure == [drv EXCEPT ![probe.d] = [st |-> "parked", path |-> None]]
PoolAfterFailure == [parked EXCEPT ![ModelOf[drv[probe.d].path]] = probe.d]
After(d) == IF d = None THEN drv ELSE [drv EXCEPT ![d] = Unused]

CreateRecs == [pc : {"idle", "scan", "open", "start", "close"}, d : Drivers \cup {None},
               idx : Indices \cup {None}, stale : BOOLEAN, stopped : BOOLEAN]

DriverRecs == [st : {"free", "opening", "open", "parked", "closing"}, path : Units \cup {None}]

LEMMA ClosingTyped ==
    ASSUME NEW dv \in [Drivers -> DriverRecs], NEW ds
    PROVE  Closing(dv, ds) \in [Drivers -> DriverRecs]
BY DEF Closing, DriverRecs

-----------------------------------------------------------------------------
(* Every step keeps DiscInv.  A step <1>a, where there is one, says what the action does. *)

LEMMA PlugStep ==
    ASSUME DiscInv, NEW u \in Units, Plug(u)
    PROVE  DiscInv'
<1> USE DEF usbVars, choiceVars, driverVars, scannerVars, Plug
<1>0. /\ TypeOK /\ ProbeAtWork /\ CreationAtWork /\ WorkApart /\ PrimaryIsOpen /\ DocksAreOpen
      /\ DocksApart /\ StartIsOpen /\ StartApart /\ Registered /\ PoolIsParked /\ PoolApart
      /\ TasksAwait /\ TasksApart /\ DeadWereOpen /\ UnplugReachesPrimary /\ IndexPoolConserved
      /\ NoDockAfterTeardown /\ StaleIsKnown /\ ReconnectPending
  BY DEF DiscInv
<1>1. TypeOK'
  BY <1>0, DiscoveryAssumption DEF TypeOK, Held
<1>2. /\ ProbeAtWork' /\ CreationAtWork' /\ WorkApart' /\ PrimaryIsOpen' /\ DocksAreOpen'
      /\ DocksApart' /\ StartIsOpen' /\ StartApart' /\ PoolIsParked' /\ PoolApart' /\ TasksAwait'
      /\ TasksApart' /\ DeadWereOpen' /\ UnplugReachesPrimary' /\ IndexPoolConserved'
      /\ NoDockAfterTeardown' /\ StaleIsKnown' /\ ReconnectPending'
  BY <1>0 DEF ProbeAtWork, CreationAtWork, WorkApart, PrimaryIsOpen, DocksAreOpen, DocksApart,
      StartIsOpen, StartApart, PoolIsParked, PoolApart, TasksAwait, TasksApart, DeadWereOpen,
      UnplugReachesPrimary, IndexPoolConserved, NoDockAfterTeardown, StaleIsKnown,
      ReconnectPending, Held
<1>10. Registered'
  BY <1>0, NumbersOnly DEF Registered, TypeOK
<1> QED BY <1>1, <1>2, <1>10 DEF DiscInv

LEMMA UnplugStep ==
    ASSUME DiscInv, NEW u \in Units, Unplug(u)
    PROVE  DiscInv'
<1> USE DEF usbVars, choiceVars, driverVars, scannerVars, Unplug
<1>0. /\ TypeOK /\ ProbeAtWork /\ CreationAtWork /\ WorkApart /\ PrimaryIsOpen /\ DocksAreOpen
      /\ DocksApart /\ StartIsOpen /\ StartApart /\ Registered /\ PoolIsParked /\ PoolApart
      /\ TasksAwait /\ TasksApart /\ DeadWereOpen /\ UnplugReachesPrimary /\ IndexPoolConserved
      /\ NoDockAfterTeardown /\ StaleIsKnown /\ ReconnectPending
  BY DEF DiscInv
<1>1. TypeOK'
  <2> DEFINE lost == {d \in Drivers : drv[d].st = "open" /\ drv[d].path = u} \ dead
  <2>1. /\ plugs < MaxPlugs /\ plugs' = plugs + 1 /\ plugged' = plugged \ {u}
        /\ dead' = dead \cup lost /\ mail' = mail \cup lost
        /\ UNCHANGED <<snapshot, detected, selected, multi, edits, drv, primary, probe, timer,
                       parked, create, units, up, free, shutdown, tasks>>
    OBVIOUS
  <2>2. plugs' \in 0 .. MaxPlugs
    BY <1>0, <2>1, DiscoveryAssumption DEF TypeOK
  <2>3. mail' \subseteq dead' /\ dead' \subseteq Drivers /\ plugged' \subseteq Units
    BY <1>0, <2>1 DEF TypeOK
  <2> QED BY ONLY <1>0, <2>1, <2>2, <2>3 DEF TypeOK, Held
<1>2. /\ ProbeAtWork' /\ CreationAtWork' /\ WorkApart' /\ PrimaryIsOpen' /\ DocksAreOpen'
      /\ DocksApart' /\ StartIsOpen' /\ StartApart' /\ PoolIsParked' /\ PoolApart' /\ TasksAwait'
      /\ TasksApart' /\ DeadWereOpen' /\ UnplugReachesPrimary' /\ IndexPoolConserved'
      /\ NoDockAfterTeardown' /\ StaleIsKnown' /\ ReconnectPending'
  BY <1>0 DEF ProbeAtWork, CreationAtWork, WorkApart, PrimaryIsOpen, DocksAreOpen, DocksApart,
      StartIsOpen, StartApart, PoolIsParked, PoolApart, TasksAwait, TasksApart, DeadWereOpen,
      UnplugReachesPrimary, IndexPoolConserved, NoDockAfterTeardown, StaleIsKnown,
      ReconnectPending, Held
<1>10. Registered'
  BY <1>0, NumbersOnly DEF Registered, TypeOK
<1> QED BY <1>1, <1>2, <1>10 DEF DiscInv

LEMMA ReconnectTimerStep ==
    ASSUME DiscInv, ReconnectTimer
    PROVE  DiscInv'
<1> USE DEF usbVars, choiceVars, driverVars, scannerVars, ReconnectTimer, NoProbe
<1>0. /\ TypeOK /\ ProbeAtWork /\ CreationAtWork /\ WorkApart /\ PrimaryIsOpen /\ DocksAreOpen
      /\ DocksApart /\ StartIsOpen /\ StartApart /\ Registered /\ PoolIsParked /\ PoolApart
      /\ TasksAwait /\ TasksApart /\ DeadWereOpen /\ UnplugReachesPrimary /\ IndexPoolConserved
      /\ NoDockAfterTeardown /\ StaleIsKnown /\ ReconnectPending
  BY DEF DiscInv
<1>1. TypeOK'
  BY <1>0, ZenonT(40) DEF TypeOK, Held
<1>2. /\ ProbeAtWork' /\ CreationAtWork' /\ WorkApart' /\ PrimaryIsOpen' /\ DocksAreOpen'
      /\ DocksApart' /\ StartIsOpen' /\ StartApart' /\ PoolIsParked' /\ PoolApart' /\ TasksAwait'
      /\ TasksApart' /\ DeadWereOpen' /\ UnplugReachesPrimary' /\ IndexPoolConserved'
      /\ NoDockAfterTeardown' /\ StaleIsKnown' /\ ReconnectPending'
  BY <1>0 DEF ProbeAtWork, CreationAtWork, WorkApart, PrimaryIsOpen, DocksAreOpen, DocksApart,
      StartIsOpen, StartApart, PoolIsParked, PoolApart, TasksAwait, TasksApart, DeadWereOpen,
      UnplugReachesPrimary, IndexPoolConserved, NoDockAfterTeardown, StaleIsKnown,
      ReconnectPending, Held
<1>10. Registered'
  BY <1>0, NumbersOnly DEF Registered, TypeOK
<1> QED BY <1>1, <1>2, <1>10 DEF DiscInv

LEMMA ProbeOpenedLateStep ==
    ASSUME DiscInv, ProbeOpened, shutdown
    PROVE  DiscInv'
<1> USE DEF usbVars, choiceVars, driverVars, scannerVars, ProbeOpened, NoProbe, Closing
<1>0. /\ TypeOK /\ ProbeAtWork /\ CreationAtWork /\ WorkApart /\ PrimaryIsOpen /\ DocksAreOpen
      /\ DocksApart /\ StartIsOpen /\ StartApart /\ Registered /\ PoolIsParked /\ PoolApart
      /\ TasksAwait /\ TasksApart /\ DeadWereOpen /\ UnplugReachesPrimary /\ IndexPoolConserved
      /\ NoDockAfterTeardown /\ StaleIsKnown /\ ReconnectPending
  BY DEF DiscInv
<1>1. TypeOK'
  BY <1>0 DEF TypeOK, Held
<1>2. /\ ProbeAtWork' /\ WorkApart' /\ DocksApart' /\ StartApart' /\ PoolIsParked' /\ PoolApart'
      /\ TasksApart' /\ UnplugReachesPrimary' /\ IndexPoolConserved' /\ NoDockAfterTeardown'
      /\ StaleIsKnown' /\ ReconnectPending'
  BY <1>0 DEF ProbeAtWork, WorkApart, DocksApart, StartApart, PoolIsParked, PoolApart, TasksApart,
      UnplugReachesPrimary, IndexPoolConserved, NoDockAfterTeardown, StaleIsKnown,
      ReconnectPending, Held
<1>3. CreationAtWork'
  BY <1>0, NumbersOnly DEF CreationAtWork, TypeOK, ProbeAtWork, PoolIsParked, WorkApart
<1>5. PrimaryIsOpen'
  BY <1>0, NumbersOnly DEF PrimaryIsOpen, TypeOK, ProbeAtWork, PoolIsParked
<1>6. DocksAreOpen'
  BY <1>0, NumbersOnly DEF DocksAreOpen, TypeOK, ProbeAtWork, PoolIsParked
<1>8. StartIsOpen'
  BY <1>0, NumbersOnly DEF StartIsOpen, TypeOK, ProbeAtWork, PoolIsParked
<1>10. Registered'
  BY <1>0, NumbersOnly DEF Registered, ProbeAtWork, PoolIsParked, TypeOK
<1>13. TasksAwait'
  BY <1>0, DiscoveryAssumption DEF TasksAwait, TypeOK
<1>15. DeadWereOpen'
  BY <1>0, DiscoveryAssumption DEF DeadWereOpen, TypeOK
<1> QED BY <1>1, <1>2, <1>3, <1>5, <1>6, <1>8, <1>10, <1>13, <1>15 DEF DiscInv

LEMMA ProbeOpenedStep ==
    ASSUME DiscInv, ProbeOpened, ~shutdown
    PROVE  DiscInv'
<1> USE DEF usbVars, choiceVars, driverVars, scannerVars, ProbeOpened, NoProbe
<1>0. /\ TypeOK /\ ProbeAtWork /\ CreationAtWork /\ WorkApart /\ PrimaryIsOpen /\ DocksAreOpen
      /\ DocksApart /\ StartIsOpen /\ StartApart /\ Registered /\ PoolIsParked /\ PoolApart
      /\ TasksAwait /\ TasksApart /\ DeadWereOpen /\ UnplugReachesPrimary /\ IndexPoolConserved
      /\ NoDockAfterTeardown /\ StaleIsKnown /\ ReconnectPending
  BY DEF DiscInv
<1>1. TypeOK'
  BY <1>0 DEF TypeOK, Held
<1>2. /\ ProbeAtWork' /\ WorkApart' /\ PoolApart' /\ TasksApart' /\ IndexPoolConserved'
      /\ NoDockAfterTeardown' /\ StaleIsKnown'
  BY <1>0 DEF ProbeAtWork, WorkApart, PoolApart, TasksApart, IndexPoolConserved,
      NoDockAfterTeardown, StaleIsKnown, Held
<1>3. CreationAtWork'
  BY <1>0, NumbersOnly DEF CreationAtWork, TypeOK, ProbeAtWork, WorkApart
<1>5. PrimaryIsOpen' /\ Registered' /\ PoolIsParked' /\ TasksAwait' /\ ReconnectPending'
  BY <1>0, NumbersOnly DEF PrimaryIsOpen, Registered, PoolIsParked, TasksAwait, ReconnectPending,
      TypeOK, ProbeAtWork
<1>6. DocksAreOpen'
  BY <1>0, DiscoveryAssumption DEF DocksAreOpen, TypeOK
<1>7. DocksApart' /\ StartApart'
  BY <1>0, NumbersOnly DEF DocksApart, StartApart, TypeOK, ProbeAtWork, PrimaryIsOpen,
      DocksAreOpen, StartIsOpen, Registered
<1>8. StartIsOpen'
  BY <1>0, DiscoveryAssumption DEF StartIsOpen, TypeOK
<1>15. DeadWereOpen'
  BY <1>0, DiscoveryAssumption DEF DeadWereOpen, TypeOK
<1>16. UnplugReachesPrimary'
  BY <1>0, NumbersOnly DEF UnplugReachesPrimary, TypeOK, DeadWereOpen, ProbeAtWork
<1> QED BY <1>1, <1>2, <1>3, <1>5, <1>6, <1>7, <1>8, <1>15, <1>16 DEF DiscInv

LEMMA ProbeFailsLateStep ==
    ASSUME DiscInv, ProbeOpenFails, shutdown
    PROVE  DiscInv'
<1> USE DEF usbVars, choiceVars, driverVars, scannerVars, ProbeOpenFails, Closing
<1>0. /\ TypeOK /\ ProbeAtWork /\ CreationAtWork /\ WorkApart /\ PrimaryIsOpen /\ DocksAreOpen
      /\ DocksApart /\ StartIsOpen /\ StartApart /\ Registered /\ PoolIsParked /\ PoolApart
      /\ TasksAwait /\ TasksApart /\ DeadWereOpen /\ UnplugReachesPrimary /\ IndexPoolConserved
      /\ NoDockAfterTeardown /\ StaleIsKnown /\ ReconnectPending
  BY DEF DiscInv
<1>1. TypeOK'
  BY <1>0 DEF TypeOK, Held
<1>2. ProbeAtWork' /\ TasksAwait' /\ DeadWereOpen'
  BY <1>0, DiscoveryAssumption DEF ProbeAtWork, TasksAwait, DeadWereOpen, TypeOK
<1>3. CreationAtWork' /\ WorkApart'
  BY <1>0, NumbersOnly DEF CreationAtWork, WorkApart, TypeOK, ProbeAtWork
<1>5. PrimaryIsOpen' /\ DocksAreOpen' /\ StartIsOpen' /\ Registered' /\ PoolIsParked'
  <2>1. PrimaryIsOpen'
    BY <1>0, NumbersOnly DEF PrimaryIsOpen, TypeOK, ProbeAtWork
  <2>2. DocksAreOpen'
    BY <1>0, NumbersOnly DEF DocksAreOpen, TypeOK, ProbeAtWork
  <2>3. StartIsOpen'
    BY <1>0, NumbersOnly DEF StartIsOpen, TypeOK, ProbeAtWork
  <2>4. Registered'
    BY <1>0, NumbersOnly DEF Registered, TypeOK, ProbeAtWork, DocksAreOpen, StartIsOpen
  <2>5. PoolIsParked'
    BY <1>0, NumbersOnly DEF PoolIsParked, TypeOK, ProbeAtWork
  <2> QED BY <2>1, <2>2, <2>3, <2>4, <2>5
<1>7. /\ DocksApart' /\ StartApart' /\ PoolApart' /\ UnplugReachesPrimary' /\ IndexPoolConserved'
      /\ NoDockAfterTeardown' /\ StaleIsKnown' /\ ReconnectPending'
  BY <1>0 DEF DocksApart, StartApart, PoolApart, UnplugReachesPrimary, IndexPoolConserved,
      NoDockAfterTeardown, StaleIsKnown, ReconnectPending, Held
<1>14. TasksApart'
  BY <1>0, NumbersOnly, TasksTwo DEF TasksApart, TypeOK, ProbeAtWork, TasksAwait
<1> QED BY <1>1, <1>2, <1>3, <1>5, <1>7, <1>14 DEF DiscInv

LEMMA ProbeFailsAndOpensStep ==
    ASSUME DiscInv, NEW m \in Models, NEW d \in Drivers, NEW u \in Units \ ClaimedPaths,
           probe.pc = "open", ~shutdown, ProbeOpens(AfterFailure, PoolAfterFailure, m, d, u),
           create' = create, snapshot' = snapshot, detected' = detected, BusRests, ChoiceRests,
           UNCHANGED <<dead, mail, primary, shutdown, tasks, units, up, free>>
    PROVE  DiscInv'
<1>0. /\ TypeOK /\ ProbeAtWork /\ CreationAtWork /\ WorkApart /\ PrimaryIsOpen /\ DocksAreOpen
      /\ DocksApart /\ StartIsOpen /\ StartApart /\ Registered /\ PoolIsParked /\ PoolApart
      /\ TasksAwait /\ TasksApart /\ DeadWereOpen /\ UnplugReachesPrimary /\ IndexPoolConserved
      /\ NoDockAfterTeardown /\ StaleIsKnown /\ ReconnectPending
  BY DEF DiscInv
<1>a. /\ \A e \in Drivers : e # d /\ e # probe.d => drv'[e] = drv[e]
      /\ drv'[d].st = "opening" /\ drv'[d].path = u /\ u # None
      /\ d # probe.d => drv'[probe.d].st = "parked"
      /\ d = probe.d \/ drv[d].st \in {"free", "parked"}
      /\ probe.d \in Drivers /\ drv[probe.d].st = "opening"
      /\ ModelOf[drv[probe.d].path] \in Models
      /\ d = probe.d => m = ModelOf[drv[probe.d].path]
      /\ d # probe.d => parked[m] = d \/ drv[d].st = "free"
      /\ \A n \in Models : parked'[n] = IF n = m THEN None
                                      ELSE IF n = ModelOf[drv[probe.d].path] THEN probe.d
                                               ELSE parked[n]
  <2>1. probe.d \in Drivers /\ drv[probe.d].st = "opening" /\ drv[probe.d].path \in Units
    BY <1>0 DEF TypeOK, ProbeAtWork
  <2>2. u # None
    BY NumbersOnly
  <2>3. /\ drv' = [AfterFailure EXCEPT ![d] = [st |-> "opening", path |-> u]]
        /\ PoolAfterFailure[m] = d \/ (PoolAfterFailure[m] = None /\ AfterFailure[d].st = "free")
        /\ parked' = [PoolAfterFailure EXCEPT ![m] = None]
    BY DEF ProbeOpens, Opens
  <2>4. AfterFailure[d].st = IF d = probe.d THEN "parked" ELSE drv[d].st
    BY <1>0 DEF TypeOK, AfterFailure
  <2>5. PoolAfterFailure[m] = IF m = ModelOf[drv[probe.d].path] THEN probe.d ELSE parked[m]
    BY <1>0, <2>1 DEF TypeOK, PoolAfterFailure
  <2>6. d = probe.d \/ drv[d].st \in {"free", "parked"}
    BY <1>0, <2>3, <2>4, <2>5, NumbersOnly DEF PoolIsParked
  <2>7. /\ \A e \in Drivers : e # d /\ e # probe.d => drv'[e] = drv[e]
        /\ drv'[d] = [st |-> "opening", path |-> u]
        /\ d # probe.d => drv'[probe.d].st = "parked"
    BY <1>0, <2>1, <2>3 DEF TypeOK, AfterFailure
  <2>8. \A n \in Models : parked'[n] = IF n = m THEN None
                                      ELSE IF n = ModelOf[drv[probe.d].path] THEN probe.d
                                               ELSE parked[n]
    BY <1>0, <2>1, <2>3 DEF TypeOK, PoolAfterFailure
  <2>10. d = probe.d => m = ModelOf[drv[probe.d].path]
    BY <1>0, <2>1, <2>3, <2>4, <2>5, NumbersOnly DEF PoolIsParked
  <2>11. d # probe.d => parked[m] = d \/ drv[d].st = "free"
    BY <1>0, <2>1, <2>3, <2>4, <2>5
  <2>9. ModelOf[drv[probe.d].path] \in Models
    BY <2>1, ModelsKnown
  <2> QED BY <2>1, <2>2, <2>3, <2>6, <2>7, <2>8, <2>9, <2>10, <2>11
<1>1. TypeOK'
  BY <1>0 DEF TypeOK, Held, BusRests, ChoiceRests, DocksRest, ProbeOpens, Opens, AfterFailure,
      PoolAfterFailure
<1>2. ProbeAtWork' /\ PrimaryIsOpen' /\ Registered' /\ PoolApart' /\ DeadWereOpen'
  BY <1>0, NumbersOnly DEF ProbeAtWork, PrimaryIsOpen, Registered, PoolApart, DeadWereOpen, TypeOK,
      PoolIsParked, BusRests, ChoiceRests, DocksRest, ProbeOpens, Opens, AfterFailure,
      PoolAfterFailure
<1>3. CreationAtWork'
  BY <1>0, <1>a DEF CreationAtWork, WorkApart, TypeOK
<1>4. WorkApart'
  BY <1>0, NumbersOnly DEF WorkApart, TypeOK, ProbeAtWork, PoolIsParked, PoolApart, CreationAtWork,
      BusRests, ChoiceRests, DocksRest, ProbeOpens, Opens, AfterFailure, PoolAfterFailure
<1>6. DocksAreOpen'
  BY <1>0, <1>a DEF DocksAreOpen, TypeOK
<1>7. /\ DocksApart' /\ StartApart' /\ TasksApart' /\ UnplugReachesPrimary' /\ IndexPoolConserved'
      /\ NoDockAfterTeardown' /\ StaleIsKnown' /\ ReconnectPending'
  BY <1>0 DEF DocksApart, StartApart, TasksApart, UnplugReachesPrimary, IndexPoolConserved,
      NoDockAfterTeardown, StaleIsKnown, ReconnectPending, Held, BusRests, ChoiceRests, DocksRest,
      ProbeOpens, Opens, AfterFailure, PoolAfterFailure
<1>8. StartIsOpen'
  BY <1>0, <1>a DEF StartIsOpen, TypeOK
<1>11. PoolIsParked'
  BY <1>0, <1>a DEF PoolIsParked, PoolApart, TypeOK
<1>13. TasksAwait'
  BY <1>0, <1>a DEF TasksAwait, TypeOK
<1> QED BY <1>1, <1>2, <1>3, <1>4, <1>6, <1>7, <1>8, <1>11, <1>13 DEF DiscInv

LEMMA ProbeFailsAndEndsStep ==
    ASSUME DiscInv, probe.pc = "open", ~shutdown, ProbeEnds(AfterFailure, PoolAfterFailure),
           create' = create, snapshot' = snapshot, detected' = detected, BusRests, ChoiceRests,
           UNCHANGED <<dead, mail, primary, shutdown, tasks, units, up, free>>
    PROVE  DiscInv'
<1> USE DEF BusRests, ChoiceRests, DocksRest, ProbeEnds, NoProbe, AfterFailure, PoolAfterFailure
<1>0. /\ TypeOK /\ ProbeAtWork /\ CreationAtWork /\ WorkApart /\ PrimaryIsOpen /\ DocksAreOpen
      /\ DocksApart /\ StartIsOpen /\ StartApart /\ Registered /\ PoolIsParked /\ PoolApart
      /\ TasksAwait /\ TasksApart /\ DeadWereOpen /\ UnplugReachesPrimary /\ IndexPoolConserved
      /\ NoDockAfterTeardown /\ StaleIsKnown /\ ReconnectPending
  BY DEF DiscInv
<1>1. TypeOK'
  BY <1>0 DEF TypeOK, Held
<1>2. /\ ProbeAtWork' /\ WorkApart' /\ DocksApart' /\ StartApart' /\ TasksApart'
      /\ UnplugReachesPrimary' /\ IndexPoolConserved' /\ NoDockAfterTeardown' /\ StaleIsKnown'
      /\ ReconnectPending'
  BY <1>0 DEF ProbeAtWork, WorkApart, DocksApart, StartApart, TasksApart, UnplugReachesPrimary,
      IndexPoolConserved, NoDockAfterTeardown, StaleIsKnown, ReconnectPending, Held
<1>3. CreationAtWork'
  BY <1>0, NumbersOnly DEF CreationAtWork, TypeOK, ProbeAtWork, WorkApart
<1>5. PrimaryIsOpen' /\ DocksAreOpen' /\ StartIsOpen' /\ TasksAwait' /\ DeadWereOpen'
  BY <1>0, NumbersOnly DEF PrimaryIsOpen, DocksAreOpen, StartIsOpen, TasksAwait, DeadWereOpen,
      TypeOK, ProbeAtWork
<1>10. Registered'
  BY <1>0, NumbersOnly DEF Registered, TypeOK, ProbeAtWork, PrimaryIsOpen, DocksAreOpen,
      DocksApart, StartIsOpen, StartApart
<1>11. PoolIsParked'
  BY <1>0, DiscoveryAssumption DEF PoolIsParked, TypeOK
<1>12. PoolApart'
  BY <1>0, NumbersOnly, ModelsKnown DEF PoolApart, TypeOK, ProbeAtWork, PoolIsParked
<1> QED BY <1>1, <1>2, <1>3, <1>5, <1>10, <1>11, <1>12 DEF DiscInv

LEMMA ScanTickStep ==
    ASSUME DiscInv, ScanTick
    PROVE  DiscInv'
<1> USE DEF usbVars, choiceVars, driverVars, scannerVars, ScanTick, NoCreate
<1>0. /\ TypeOK /\ ProbeAtWork /\ CreationAtWork /\ WorkApart /\ PrimaryIsOpen /\ DocksAreOpen
      /\ DocksApart /\ StartIsOpen /\ StartApart /\ Registered /\ PoolIsParked /\ PoolApart
      /\ TasksAwait /\ TasksApart /\ DeadWereOpen /\ UnplugReachesPrimary /\ IndexPoolConserved
      /\ NoDockAfterTeardown /\ StaleIsKnown /\ ReconnectPending
  BY DEF DiscInv
<1>1. TypeOK'
  BY <1>0 DEF TypeOK, Held
<1>2. /\ ProbeAtWork' /\ CreationAtWork' /\ WorkApart' /\ PrimaryIsOpen' /\ DocksAreOpen'
      /\ DocksApart' /\ StartIsOpen' /\ StartApart' /\ PoolIsParked' /\ PoolApart' /\ TasksAwait'
      /\ TasksApart' /\ DeadWereOpen' /\ UnplugReachesPrimary' /\ IndexPoolConserved'
      /\ NoDockAfterTeardown' /\ StaleIsKnown' /\ ReconnectPending'
  BY <1>0 DEF ProbeAtWork, CreationAtWork, WorkApart, PrimaryIsOpen, DocksAreOpen, DocksApart,
      StartIsOpen, StartApart, PoolIsParked, PoolApart, TasksAwait, TasksApart, DeadWereOpen,
      UnplugReachesPrimary, IndexPoolConserved, NoDockAfterTeardown, StaleIsKnown,
      ReconnectPending, Held
<1>10. Registered'
  BY <1>0, NumbersOnly DEF Registered, TypeOK
<1> QED BY <1>1, <1>2, <1>10 DEF DiscInv

LEMMA ScanProbeOpensStep ==
    ASSUME DiscInv, NEW m \in Models, NEW d \in Drivers, NEW u \in Units \ ClaimedPaths,
           probe.pc = "scan", ProbeOpens(drv, parked, m, d, u),
           create' = IF create.pc = "scan" THEN NoCreate ELSE create, snapshot' \in SUBSET Units,
           detected' \in SUBSET Units, BusRests, ChoiceRests,
           UNCHANGED <<dead, mail, primary, shutdown, tasks, units, up, free>>
    PROVE  DiscInv'
<1> USE DEF BusRests, ChoiceRests, DocksRest, ProbeOpens, Opens, NoCreate
<1>0. /\ TypeOK /\ ProbeAtWork /\ CreationAtWork /\ WorkApart /\ PrimaryIsOpen /\ DocksAreOpen
      /\ DocksApart /\ StartIsOpen /\ StartApart /\ Registered /\ PoolIsParked /\ PoolApart
      /\ TasksAwait /\ TasksApart /\ DeadWereOpen /\ UnplugReachesPrimary /\ IndexPoolConserved
      /\ NoDockAfterTeardown /\ StaleIsKnown /\ ReconnectPending
  BY DEF DiscInv
<1>1. TypeOK'
  BY <1>0 DEF TypeOK, Held
<1>2. /\ ProbeAtWork' /\ CreationAtWork' /\ PrimaryIsOpen' /\ DocksAreOpen' /\ StartIsOpen'
      /\ Registered' /\ PoolIsParked' /\ TasksAwait' /\ DeadWereOpen'
  BY <1>0, NumbersOnly DEF ProbeAtWork, CreationAtWork, PrimaryIsOpen, DocksAreOpen, StartIsOpen,
      Registered, PoolIsParked, TasksAwait, DeadWereOpen, TypeOK, PoolApart
<1>4. WorkApart'
  BY <1>0, NumbersOnly DEF WorkApart, TypeOK, PoolIsParked, PoolApart, ProbeAtWork, CreationAtWork
<1>7. /\ DocksApart' /\ StartApart' /\ PoolApart' /\ TasksApart' /\ UnplugReachesPrimary'
      /\ IndexPoolConserved' /\ NoDockAfterTeardown' /\ StaleIsKnown' /\ ReconnectPending'
  BY <1>0 DEF DocksApart, StartApart, PoolApart, TasksApart, UnplugReachesPrimary,
      IndexPoolConserved, NoDockAfterTeardown, StaleIsKnown, ReconnectPending, Held
<1> QED BY <1>1, <1>2, <1>4, <1>7 DEF DiscInv

LEMMA ScanProbeEndsStep ==
    ASSUME DiscInv, probe.pc = "scan", ProbeEnds(drv, parked),
           create' = IF create.pc = "scan" THEN NoCreate ELSE create, snapshot' \in SUBSET Units,
           detected' \in SUBSET Units, BusRests, ChoiceRests,
           UNCHANGED <<dead, mail, primary, shutdown, tasks, units, up, free>>
    PROVE  DiscInv'
<1> USE DEF BusRests, ChoiceRests, DocksRest, ProbeEnds, NoProbe, NoCreate, Closing
<1>0. /\ TypeOK /\ ProbeAtWork /\ CreationAtWork /\ WorkApart /\ PrimaryIsOpen /\ DocksAreOpen
      /\ DocksApart /\ StartIsOpen /\ StartApart /\ Registered /\ PoolIsParked /\ PoolApart
      /\ TasksAwait /\ TasksApart /\ DeadWereOpen /\ UnplugReachesPrimary /\ IndexPoolConserved
      /\ NoDockAfterTeardown /\ StaleIsKnown /\ ReconnectPending
  BY DEF DiscInv
<1>1. TypeOK'
  BY <1>0 DEF TypeOK, Held
<1>2. /\ ProbeAtWork' /\ WorkApart' /\ DocksApart' /\ StartApart' /\ PoolIsParked' /\ PoolApart'
      /\ TasksApart' /\ UnplugReachesPrimary' /\ IndexPoolConserved' /\ NoDockAfterTeardown'
      /\ StaleIsKnown' /\ ReconnectPending'
  BY <1>0 DEF ProbeAtWork, WorkApart, DocksApart, StartApart, PoolIsParked, PoolApart, TasksApart,
      UnplugReachesPrimary, IndexPoolConserved, NoDockAfterTeardown, StaleIsKnown,
      ReconnectPending, Held
<1>3. CreationAtWork' /\ PrimaryIsOpen' /\ DocksAreOpen' /\ StartIsOpen' /\ Registered'
  BY <1>0, NumbersOnly DEF CreationAtWork, PrimaryIsOpen, DocksAreOpen, StartIsOpen, Registered,
      TypeOK, PoolIsParked, PoolApart
<1>13. TasksAwait' /\ DeadWereOpen'
  BY <1>0, DiscoveryAssumption DEF TasksAwait, DeadWereOpen, TypeOK
<1> QED BY <1>1, <1>2, <1>3, <1>13 DEF DiscInv

LEMMA ScannerOpensStep ==
    ASSUME DiscInv, NEW m \in Models, NEW d \in Drivers, NEW u \in Units \ ClaimedPaths,
           create.pc = "scan", ScannerOpens(m, d, u), UNCHANGED <<probe, timer>>,
           snapshot' \in SUBSET Units, detected' \in SUBSET Units, BusRests, ChoiceRests,
           UNCHANGED <<dead, mail, primary, shutdown, tasks, units, up, free>>
    PROVE  DiscInv'
<1> USE DEF BusRests, ChoiceRests, DocksRest, ScannerOpens, Opens, ScanTarget
<1>0. /\ TypeOK /\ ProbeAtWork /\ CreationAtWork /\ WorkApart /\ PrimaryIsOpen /\ DocksAreOpen
      /\ DocksApart /\ StartIsOpen /\ StartApart /\ Registered /\ PoolIsParked /\ PoolApart
      /\ TasksAwait /\ TasksApart /\ DeadWereOpen /\ UnplugReachesPrimary /\ IndexPoolConserved
      /\ NoDockAfterTeardown /\ StaleIsKnown /\ ReconnectPending
  BY DEF DiscInv
<1>1. TypeOK'
  BY <1>0 DEF TypeOK, Held
<1>2. /\ ProbeAtWork' /\ WorkApart' /\ DocksApart' /\ StartIsOpen' /\ StartApart' /\ PoolApart'
      /\ TasksApart' /\ UnplugReachesPrimary' /\ IndexPoolConserved' /\ NoDockAfterTeardown'
      /\ StaleIsKnown' /\ ReconnectPending'
  BY <1>0 DEF ProbeAtWork, WorkApart, DocksApart, StartIsOpen, StartApart, PoolApart, TasksApart,
      UnplugReachesPrimary, IndexPoolConserved, NoDockAfterTeardown, StaleIsKnown,
      ReconnectPending, Held
<1>3. /\ CreationAtWork' /\ PrimaryIsOpen' /\ DocksAreOpen' /\ Registered' /\ PoolIsParked'
      /\ TasksAwait' /\ DeadWereOpen'
  BY <1>0, NumbersOnly DEF CreationAtWork, PrimaryIsOpen, DocksAreOpen, Registered, PoolIsParked,
      TasksAwait, DeadWereOpen, TypeOK, PoolApart
<1> QED BY <1>1, <1>2, <1>3 DEF DiscInv

LEMMA ScannerGivesUpStep ==
    ASSUME DiscInv, create.pc = "scan", create' = NoCreate,
           UNCHANGED <<drv, parked, probe, timer>>, snapshot' \in SUBSET Units,
           detected' \in SUBSET Units, BusRests, ChoiceRests,
           UNCHANGED <<dead, mail, primary, shutdown, tasks, units, up, free>>
    PROVE  DiscInv'
<1> USE DEF BusRests, ChoiceRests, DocksRest, NoCreate
<1>0. /\ TypeOK /\ ProbeAtWork /\ CreationAtWork /\ WorkApart /\ PrimaryIsOpen /\ DocksAreOpen
      /\ DocksApart /\ StartIsOpen /\ StartApart /\ Registered /\ PoolIsParked /\ PoolApart
      /\ TasksAwait /\ TasksApart /\ DeadWereOpen /\ UnplugReachesPrimary /\ IndexPoolConserved
      /\ NoDockAfterTeardown /\ StaleIsKnown /\ ReconnectPending
  BY DEF DiscInv
<1>1. TypeOK'
  BY <1>0 DEF TypeOK, Held
<1>2. /\ ProbeAtWork' /\ CreationAtWork' /\ WorkApart' /\ PrimaryIsOpen' /\ DocksAreOpen'
      /\ DocksApart' /\ StartIsOpen' /\ StartApart' /\ PoolIsParked' /\ PoolApart' /\ TasksAwait'
      /\ TasksApart' /\ DeadWereOpen' /\ UnplugReachesPrimary' /\ IndexPoolConserved'
      /\ NoDockAfterTeardown' /\ StaleIsKnown' /\ ReconnectPending'
  BY <1>0 DEF ProbeAtWork, CreationAtWork, WorkApart, PrimaryIsOpen, DocksAreOpen, DocksApart,
      StartIsOpen, StartApart, PoolIsParked, PoolApart, TasksAwait, TasksApart, DeadWereOpen,
      UnplugReachesPrimary, IndexPoolConserved, NoDockAfterTeardown, StaleIsKnown,
      ReconnectPending, Held
<1>10. Registered'
  BY <1>0, NumbersOnly DEF Registered, TypeOK
<1> QED BY <1>1, <1>2, <1>10 DEF DiscInv

LEMMA CreateOpenedLateStep ==
    ASSUME DiscInv, CreateOpened, Stale \/ free = {}
    PROVE  DiscInv'
<1> USE DEF usbVars, choiceVars, driverVars, scannerVars, CreateOpened, Closing
<1>0. /\ TypeOK /\ ProbeAtWork /\ CreationAtWork /\ WorkApart /\ PrimaryIsOpen /\ DocksAreOpen
      /\ DocksApart /\ StartIsOpen /\ StartApart /\ Registered /\ PoolIsParked /\ PoolApart
      /\ TasksAwait /\ TasksApart /\ DeadWereOpen /\ UnplugReachesPrimary /\ IndexPoolConserved
      /\ NoDockAfterTeardown /\ StaleIsKnown /\ ReconnectPending
  BY DEF DiscInv
<1>1. TypeOK'
  BY <1>0 DEF TypeOK, Held
<1>2. ProbeAtWork' /\ WorkApart'
  BY <1>0, NumbersOnly DEF ProbeAtWork, WorkApart, TypeOK, CreationAtWork
<1>3. /\ CreationAtWork' /\ StartIsOpen' /\ StartApart' /\ TasksAwait' /\ DeadWereOpen'
      /\ StaleIsKnown'
  BY <1>0, DiscoveryAssumption DEF CreationAtWork, StartIsOpen, StartApart, TasksAwait,
      DeadWereOpen, StaleIsKnown, TypeOK
<1>5. PrimaryIsOpen' /\ DocksAreOpen' /\ Registered'
  BY <1>0, NumbersOnly DEF PrimaryIsOpen, DocksAreOpen, Registered, TypeOK, CreationAtWork
<1>7. /\ DocksApart' /\ PoolApart' /\ UnplugReachesPrimary' /\ IndexPoolConserved'
      /\ NoDockAfterTeardown' /\ ReconnectPending'
  BY <1>0 DEF DocksApart, PoolApart, UnplugReachesPrimary, IndexPoolConserved, NoDockAfterTeardown,
      ReconnectPending, Held
<1>11. PoolIsParked'
  BY <1>0, NumbersOnly, ModelsKnown DEF PoolIsParked, TypeOK, CreationAtWork
<1>14. TasksApart'
  BY <1>0, NumbersOnly, TasksTwo DEF TasksApart, TypeOK, CreationAtWork, TasksAwait
<1> QED BY <1>1, <1>2, <1>3, <1>5, <1>7, <1>11, <1>14 DEF DiscInv

LEMMA CreateOpenedStep ==
    ASSUME DiscInv, CreateOpened, ~Stale, NEW i \in free, i = Min(free)
    PROVE  DiscInv'
<1>0. /\ TypeOK /\ ProbeAtWork /\ CreationAtWork /\ WorkApart /\ PrimaryIsOpen /\ DocksAreOpen
      /\ DocksApart /\ StartIsOpen /\ StartApart /\ Registered /\ PoolIsParked /\ PoolApart
      /\ TasksAwait /\ TasksApart /\ DeadWereOpen /\ UnplugReachesPrimary /\ IndexPoolConserved
      /\ NoDockAfterTeardown /\ StaleIsKnown /\ ReconnectPending
  BY DEF DiscInv
<1>a. /\ create.pc = "open" /\ create' \in CreateRecs /\ create'.pc = "start" /\ create'.idx = i
      /\ create'.d = create.d /\ create'.stopped = create.stopped
      /\ drv' = [drv EXCEPT ![create.d].st = "open"] /\ create.d \in Drivers
      /\ units' = [units EXCEPT ![i] = create.d] /\ free' = free \ {i} /\ i \in Indices
               /\ units[i] = None
      /\ UNCHANGED <<plugged, plugs, snapshot, detected, selected, multi, edits, dead, mail,
               primary, probe,
                   timer, parked, up, shutdown, tasks>>
  <2>1. /\ create' = [create EXCEPT !.pc = "start", !.idx = Min(free)]
        /\ UNCHANGED <<plugged, plugs, snapshot, detected, selected, multi, edits, dead, mail,
                 primary, probe,
                   timer, parked, up, shutdown, tasks>>
        /\ drv' = [drv EXCEPT ![create.d].st = "open"] /\ create.pc = "open"
        /\ units' = [units EXCEPT ![Min(free)] = create.d] /\ free' = free \ {Min(free)}
    BY DEF CreateOpened, usbVars, choiceVars
  <2>2. create \in CreateRecs /\ i \in Indices
    BY <1>0 DEF TypeOK, CreateRecs
  <2>3. create.d \in Drivers /\ units[i] = None
    BY <1>0, <2>1, <2>2 DEF TypeOK, CreationAtWork, IndexPoolConserved, Held
  <2>4. create' = [create EXCEPT !.pc = "start", !.idx = i]
    BY <2>1
  <2>5. /\ create' \in CreateRecs /\ create'.pc = "start" /\ create'.idx = i
        /\ create'.d = create.d /\ create'.stopped = create.stopped
    BY <2>2, <2>4 DEF CreateRecs
  <2>6. units' = [units EXCEPT ![i] = create.d] /\ free' = free \ {i}
    BY <2>1
  <2> QED BY <2>1, <2>2, <2>3, <2>5, <2>6
<1>1. TypeOK'
  <2>1. drv' \in [Drivers -> [st : {"free", "opening", "open", "parked", "closing"},
           path : Units \cup {None}]]
    BY <1>0, <1>a DEF TypeOK
  <2>2. units' \in [Indices -> Drivers \cup {None}] /\ up' \subseteq Held'
           /\ free' \subseteq Indices
    BY <1>0, <1>a, NumbersOnly DEF TypeOK, Held
  <2> QED BY <1>0, <1>a, <2>1, <2>2 DEF TypeOK, CreateRecs
<1>2. ProbeAtWork'
  BY <1>0, NumbersOnly DEF ProbeAtWork, TypeOK, CreationAtWork, WorkApart, usbVars, choiceVars,
      driverVars, scannerVars, CreateOpened, Stale
<1>3. CreationAtWork'
  BY <1>0, <1>a DEF CreationAtWork, WorkApart, TypeOK
<1>4. WorkApart'
  BY <1>0, <1>a DEF CreationAtWork, WorkApart, TypeOK
<1>5. PrimaryIsOpen' /\ DeadWereOpen'
  BY <1>0, DiscoveryAssumption DEF PrimaryIsOpen, DeadWereOpen, TypeOK, usbVars, choiceVars,
      driverVars, scannerVars, CreateOpened, Stale
<1>6. DocksAreOpen'
  BY <1>0, NumbersOnly DEF DocksAreOpen, TypeOK, CreationAtWork, usbVars, choiceVars, driverVars,
      scannerVars, CreateOpened, Stale
<1>7. DocksApart'
  BY <1>0, NumbersOnly DEF DocksApart, TypeOK, CreationAtWork, PrimaryIsOpen, DocksAreOpen,
      StartIsOpen, StartApart, Registered, usbVars, choiceVars, driverVars, scannerVars,
      CreateOpened, Stale
<1>8. StartIsOpen'
  BY <1>0, <1>a DEF StartIsOpen, TypeOK, CreationAtWork
<1>9. StartApart'
  BY <1>0, <1>a, NumbersOnly DEF StartApart, TypeOK, CreationAtWork, PrimaryIsOpen, DocksAreOpen,
      Registered
<1>10. Registered'
  BY <1>0, <1>a, NumbersOnly DEF Registered, TypeOK, CreationAtWork, PrimaryIsOpen, DocksAreOpen,
      Registered
<1>11. PoolIsParked'
  BY <1>0, NumbersOnly DEF PoolIsParked, TypeOK, CreationAtWork, usbVars, choiceVars, driverVars,
      scannerVars, CreateOpened, Stale
<1>12. PoolApart' /\ UnplugReachesPrimary' /\ StaleIsKnown' /\ ReconnectPending'
  BY <1>0 DEF PoolApart, UnplugReachesPrimary, StaleIsKnown, ReconnectPending, usbVars, choiceVars,
      driverVars, scannerVars, CreateOpened, Stale
<1>13. TasksAwait'
  BY <1>0, NumbersOnly DEF TasksAwait, TypeOK, CreationAtWork, usbVars, choiceVars, driverVars,
      scannerVars, CreateOpened, Stale
<1>14. TasksApart'
  BY <1>0, <1>a DEF TasksApart, TypeOK
<1>17. IndexPoolConserved'
  BY <1>0, NumbersOnly DEF IndexPoolConserved, TypeOK, CreationAtWork, Held, usbVars, choiceVars,
      driverVars, scannerVars, CreateOpened, Stale
<1>18. NoDockAfterTeardown'
  BY <1>0, NumbersOnly DEF NoDockAfterTeardown, TypeOK, CreationAtWork, Held, IndexPoolConserved,
      StaleIsKnown, PrimaryIsOpen, DocksAreOpen, DocksApart, StartIsOpen, StartApart, Registered,
      usbVars, choiceVars, driverVars, scannerVars, CreateOpened, Stale
<1> QED BY <1>1, <1>2, <1>3, <1>4, <1>5, <1>6, <1>7, <1>8, <1>9, <1>10, <1>11, <1>12, <1>13, <1>14,
    <1>17, <1>18 DEF DiscInv

LEMMA CreateOpenFailsLateStep ==
    ASSUME DiscInv, CreateOpenFails, Stale
    PROVE  DiscInv'
<1> USE DEF usbVars, choiceVars, driverVars, scannerVars, CreateOpenFails, Closing
<1>0. /\ TypeOK /\ ProbeAtWork /\ CreationAtWork /\ WorkApart /\ PrimaryIsOpen /\ DocksAreOpen
      /\ DocksApart /\ StartIsOpen /\ StartApart /\ Registered /\ PoolIsParked /\ PoolApart
      /\ TasksAwait /\ TasksApart /\ DeadWereOpen /\ UnplugReachesPrimary /\ IndexPoolConserved
      /\ NoDockAfterTeardown /\ StaleIsKnown /\ ReconnectPending
  BY DEF DiscInv
<1>1. TypeOK'
  BY <1>0 DEF TypeOK, Held
<1>2. ProbeAtWork' /\ WorkApart'
  BY <1>0, NumbersOnly DEF ProbeAtWork, WorkApart, TypeOK, CreationAtWork
<1>3. /\ CreationAtWork' /\ StartIsOpen' /\ StartApart' /\ TasksAwait' /\ DeadWereOpen'
      /\ StaleIsKnown'
  BY <1>0, DiscoveryAssumption DEF CreationAtWork, StartIsOpen, StartApart, TasksAwait,
      DeadWereOpen, StaleIsKnown, TypeOK
<1>5. PrimaryIsOpen'
  BY <1>0, NumbersOnly DEF PrimaryIsOpen, TypeOK, CreationAtWork
<1>6. DocksAreOpen'
  BY <1>0, NumbersOnly DEF DocksAreOpen, TypeOK, CreationAtWork
<1>7. /\ DocksApart' /\ PoolApart' /\ UnplugReachesPrimary' /\ IndexPoolConserved'
      /\ NoDockAfterTeardown' /\ ReconnectPending'
  BY <1>0 DEF DocksApart, PoolApart, UnplugReachesPrimary, IndexPoolConserved, NoDockAfterTeardown,
      ReconnectPending, Held
<1>10. Registered'
  BY <1>0, NumbersOnly DEF Registered, CreationAtWork, TypeOK
<1>11. PoolIsParked'
  BY <1>0, NumbersOnly DEF PoolIsParked, TypeOK, CreationAtWork
<1>14. TasksApart'
  BY <1>0, NumbersOnly, TasksTwo DEF TasksApart, TypeOK, CreationAtWork, TasksAwait
<1> QED BY <1>1, <1>2, <1>3, <1>5, <1>6, <1>7, <1>10, <1>11, <1>14 DEF DiscInv

LEMMA CreateOpenFailsStep ==
    ASSUME DiscInv, CreateOpenFails, ~Stale
    PROVE  DiscInv'
<1> USE DEF usbVars, choiceVars, driverVars, scannerVars, CreateOpenFails, Stale, NoCreate
<1>0. /\ TypeOK /\ ProbeAtWork /\ CreationAtWork /\ WorkApart /\ PrimaryIsOpen /\ DocksAreOpen
      /\ DocksApart /\ StartIsOpen /\ StartApart /\ Registered /\ PoolIsParked /\ PoolApart
      /\ TasksAwait /\ TasksApart /\ DeadWereOpen /\ UnplugReachesPrimary /\ IndexPoolConserved
      /\ NoDockAfterTeardown /\ StaleIsKnown /\ ReconnectPending
  BY DEF DiscInv
<1>1. TypeOK'
  <2>1. /\ drv' = [drv EXCEPT ![create.d] = [st |-> "parked", path |-> None]]
        /\ parked' = [parked EXCEPT ![ModelOf[drv[create.d].path]] = create.d]
        /\ create' = NoCreate /\ create.pc = "open"
        /\ UNCHANGED <<plugged, plugs, snapshot, detected, selected, multi, edits, dead, mail,
                       primary, probe, timer, units, up, free, shutdown, tasks>>
    OBVIOUS
  <2>2. create.d \in Drivers /\ drv[create.d].path \in Units
    BY <1>0, <2>1 DEF TypeOK, CreationAtWork
  <2>3. drv' \in [Drivers -> DriverRecs] /\ parked' \in [Models -> Drivers \cup {None}]
    BY <1>0, <2>1, <2>2, ModelsKnown DEF TypeOK, DriverRecs
  <2>4. create' \in CreateRecs
    BY <2>1 DEF CreateRecs
  <2> QED BY ONLY <1>0, <2>1, <2>3, <2>4 DEF TypeOK, Held, DriverRecs, CreateRecs
<1>2. ProbeAtWork'
  BY <1>0, NumbersOnly DEF ProbeAtWork, TypeOK, CreationAtWork, WorkApart
<1>3. /\ CreationAtWork' /\ WorkApart' /\ DocksApart' /\ StartIsOpen' /\ StartApart'
      /\ TasksApart' /\ UnplugReachesPrimary' /\ IndexPoolConserved' /\ NoDockAfterTeardown'
      /\ StaleIsKnown' /\ ReconnectPending'
  BY <1>0 DEF CreationAtWork, WorkApart, DocksApart, StartIsOpen, StartApart, TasksApart,
      UnplugReachesPrimary, IndexPoolConserved, NoDockAfterTeardown, StaleIsKnown,
      ReconnectPending, Held
<1>5. PrimaryIsOpen' /\ DocksAreOpen' /\ Registered' /\ TasksAwait' /\ DeadWereOpen'
  <2>1. PrimaryIsOpen'
    BY <1>0, NumbersOnly DEF PrimaryIsOpen, DocksAreOpen, Registered, TasksAwait, DeadWereOpen,
        TypeOK, CreationAtWork
  <2>2. DocksAreOpen'
    BY <1>0, NumbersOnly DEF PrimaryIsOpen, DocksAreOpen, Registered, TasksAwait, DeadWereOpen,
        TypeOK, CreationAtWork
  <2>3. Registered'
    BY <1>0, NumbersOnly DEF PrimaryIsOpen, DocksAreOpen, Registered, TasksAwait, DeadWereOpen,
        TypeOK, CreationAtWork
  <2>4. TasksAwait'
    BY <1>0, NumbersOnly DEF PrimaryIsOpen, DocksAreOpen, Registered, TasksAwait, DeadWereOpen,
        TypeOK, CreationAtWork
  <2>5. DeadWereOpen'
    BY <1>0, NumbersOnly DEF PrimaryIsOpen, DocksAreOpen, Registered, TasksAwait, DeadWereOpen,
        TypeOK, CreationAtWork
  <2> QED BY <2>1, <2>2, <2>3, <2>4, <2>5
<1>11. PoolIsParked'
  BY <1>0, DiscoveryAssumption DEF PoolIsParked, TypeOK
<1>12. PoolApart'
  BY <1>0, NumbersOnly, ModelsKnown DEF PoolApart, TypeOK, CreationAtWork, PoolIsParked
<1> QED BY <1>1, <1>2, <1>3, <1>5, <1>11, <1>12 DEF DiscInv

LEMMA CreateStartedStep ==
    ASSUME DiscInv, CreateStarted
    PROVE  DiscInv'
<1> USE DEF usbVars, choiceVars, driverVars, scannerVars, CreateStarted, NoCreate
<1>0. /\ TypeOK /\ ProbeAtWork /\ CreationAtWork /\ WorkApart /\ PrimaryIsOpen /\ DocksAreOpen
      /\ DocksApart /\ StartIsOpen /\ StartApart /\ Registered /\ PoolIsParked /\ PoolApart
      /\ TasksAwait /\ TasksApart /\ DeadWereOpen /\ UnplugReachesPrimary /\ IndexPoolConserved
      /\ NoDockAfterTeardown /\ StaleIsKnown /\ ReconnectPending
  BY DEF DiscInv
<1>1. TypeOK'
  <2>1. up' \subseteq Held' /\ create' \in CreateRecs
    BY <1>0, NumbersOnly DEF TypeOK, Held, Registered, StartIsOpen, CreateRecs
  <2>2. UNCHANGED <<plugged, plugs, snapshot, detected, selected, multi, edits, drv, dead, mail,
                    primary, probe, timer, parked, units, free, shutdown, tasks>>
    OBVIOUS
  <2> QED BY ONLY <1>0, <2>1, <2>2 DEF TypeOK, CreateRecs
<1>2. /\ ProbeAtWork' /\ CreationAtWork' /\ WorkApart' /\ PrimaryIsOpen' /\ DocksAreOpen'
      /\ DocksApart' /\ StartIsOpen' /\ StartApart' /\ PoolIsParked' /\ PoolApart' /\ TasksAwait'
      /\ TasksApart' /\ DeadWereOpen' /\ UnplugReachesPrimary' /\ IndexPoolConserved'
      /\ StaleIsKnown' /\ ReconnectPending'
  BY <1>0 DEF ProbeAtWork, CreationAtWork, WorkApart, PrimaryIsOpen, DocksAreOpen, DocksApart,
      StartIsOpen, StartApart, PoolIsParked, PoolApart, TasksAwait, TasksApart, DeadWereOpen,
      UnplugReachesPrimary, IndexPoolConserved, StaleIsKnown, ReconnectPending, Held
<1>10. Registered'
  <2>1. /\ create.pc = "start" /\ ~create.stopped /\ up' = up \cup {create.idx} /\ units' = units
        /\ create'.pc = "idle" /\ create'.stopped = FALSE
    OBVIOUS
  <2>2. create.idx \in Indices /\ units[create.idx] # None
    BY <1>0, <2>1 DEF Registered, StartIsOpen
  <2> QED BY ONLY <1>0, <2>1, <2>2 DEF Registered
<1>18. NoDockAfterTeardown'
  BY <1>0, NumbersOnly DEF NoDockAfterTeardown, TypeOK, StartIsOpen, StartApart, Registered, Held
<1> QED BY <1>1, <1>2, <1>10, <1>18 DEF DiscInv

LEMMA CreateStartFailsStep ==
    ASSUME DiscInv, CreateStartFails
    PROVE  DiscInv'
<1> USE DEF usbVars, choiceVars, driverVars, scannerVars, CreateStartFails, Closing
<1>0. /\ TypeOK /\ ProbeAtWork /\ CreationAtWork /\ WorkApart /\ PrimaryIsOpen /\ DocksAreOpen
      /\ DocksApart /\ StartIsOpen /\ StartApart /\ Registered /\ PoolIsParked /\ PoolApart
      /\ TasksAwait /\ TasksApart /\ DeadWereOpen /\ UnplugReachesPrimary /\ IndexPoolConserved
      /\ NoDockAfterTeardown /\ StaleIsKnown /\ ReconnectPending
  BY DEF DiscInv
<1>1. TypeOK'
  BY <1>0, NumbersOnly DEF TypeOK, StartIsOpen, StartApart, Registered, Held
<1>2. /\ ProbeAtWork' /\ CreationAtWork' /\ PrimaryIsOpen' /\ DocksAreOpen' /\ Registered'
      /\ PoolIsParked' /\ IndexPoolConserved'
  BY <1>0, NumbersOnly DEF ProbeAtWork, CreationAtWork, PrimaryIsOpen, DocksAreOpen, Registered,
      PoolIsParked, IndexPoolConserved, TypeOK, StartIsOpen, StartApart, Held
<1>4. WorkApart'
  BY <1>0, NumbersOnly DEF WorkApart, TypeOK, StartIsOpen, StartApart, Registered, ProbeAtWork,
      CreationAtWork
<1>7. /\ DocksApart' /\ StartIsOpen' /\ StartApart' /\ PoolApart' /\ UnplugReachesPrimary'
      /\ NoDockAfterTeardown' /\ StaleIsKnown' /\ ReconnectPending'
  BY <1>0 DEF DocksApart, StartIsOpen, StartApart, PoolApart, UnplugReachesPrimary,
      NoDockAfterTeardown, StaleIsKnown, ReconnectPending, Held
<1>13. TasksAwait' /\ DeadWereOpen'
  BY <1>0, DiscoveryAssumption DEF TasksAwait, DeadWereOpen, TypeOK
<1>14. TasksApart'
  BY <1>0, NumbersOnly, TasksTwo DEF TasksApart, TypeOK, StartIsOpen, StartApart, Registered,
      TasksAwait
<1> QED BY <1>1, <1>2, <1>4, <1>7, <1>13, <1>14 DEF DiscInv

LEMMA DisconnectPrimaryStep ==
    ASSUME DiscInv, primary \in mail, primary # None, drv[primary].st = "open",
           mail' = mail \ {primary}, primary' = None, timer' = ~shutdown,
           drv' = [drv EXCEPT ![primary] = Unused], dead' = dead \ {primary},
           UNCHANGED scannerVars,
           UNCHANGED <<usbVars, snapshot, detected, choiceVars, probe, parked, shutdown, tasks>>
    PROVE  DiscInv'
<1> USE DEF usbVars, choiceVars, driverVars, scannerVars, Unused
<1>0. /\ TypeOK /\ ProbeAtWork /\ CreationAtWork /\ WorkApart /\ PrimaryIsOpen /\ DocksAreOpen
      /\ DocksApart /\ StartIsOpen /\ StartApart /\ Registered /\ PoolIsParked /\ PoolApart
      /\ TasksAwait /\ TasksApart /\ DeadWereOpen /\ UnplugReachesPrimary /\ IndexPoolConserved
      /\ NoDockAfterTeardown /\ StaleIsKnown /\ ReconnectPending
  BY DEF DiscInv
<1>1. TypeOK'
  BY <1>0, NumbersOnly DEF TypeOK, PrimaryIsOpen, Held
<1>2. ProbeAtWork'
  BY <1>0, NumbersOnly DEF ProbeAtWork, PrimaryIsOpen, TypeOK
<1>3. CreationAtWork'
  BY <1>0, NumbersOnly DEF CreationAtWork, PrimaryIsOpen, TypeOK
<1>4. WorkApart'
  BY <1>0, NumbersOnly DEF WorkApart, PrimaryIsOpen, TypeOK
<1>5. PrimaryIsOpen'
  BY <1>0, NumbersOnly DEF PrimaryIsOpen, TypeOK
<1>6. DocksAreOpen' /\ StartIsOpen' /\ StartApart'
  BY <1>0, NumbersOnly DEF DocksAreOpen, StartIsOpen, StartApart, TypeOK, PrimaryIsOpen,
      DocksApart, Registered
<1>7. DocksApart'
  BY <1>0, NumbersOnly DEF DocksApart, PrimaryIsOpen, TypeOK
<1>10. Registered'
  BY <1>0, NumbersOnly DEF Registered, PrimaryIsOpen, TypeOK
<1>11. PoolIsParked'
  BY <1>0, NumbersOnly DEF PoolIsParked, PrimaryIsOpen, TypeOK
<1>12. PoolApart'
  BY <1>0, NumbersOnly DEF PoolApart, PrimaryIsOpen, TypeOK
<1>13. TasksAwait'
  BY <1>0, NumbersOnly DEF TasksAwait, PrimaryIsOpen, TypeOK
<1>14. TasksApart'
  BY <1>0, NumbersOnly DEF TasksApart, PrimaryIsOpen, TypeOK
<1>15. DeadWereOpen'
  BY <1>0, NumbersOnly DEF DeadWereOpen, PrimaryIsOpen, TypeOK
<1>16. UnplugReachesPrimary'
  BY <1>0, NumbersOnly DEF UnplugReachesPrimary, PrimaryIsOpen, TypeOK
<1>17. IndexPoolConserved'
  BY <1>0, NumbersOnly DEF IndexPoolConserved, PrimaryIsOpen, TypeOK, Held
<1>18. NoDockAfterTeardown'
  BY <1>0, NumbersOnly DEF NoDockAfterTeardown, PrimaryIsOpen, TypeOK, Held
<1>19. StaleIsKnown'
  BY <1>0, NumbersOnly DEF StaleIsKnown, PrimaryIsOpen, TypeOK
<1>20. ReconnectPending'
  <2>1. timer' <=> ~shutdown
    BY <1>0 DEF TypeOK
  <2> QED BY <2>1 DEF ReconnectPending
<1> QED BY <1>1, <1>2, <1>3, <1>4, <1>5, <1>6, <1>7, <1>10, <1>11, <1>12, <1>13, <1>14, <1>15,
    <1>16, <1>17, <1>18, <1>19, <1>20 DEF DiscInv

LEMMA DisconnectDockStep ==
    ASSUME DiscInv, NEW d \in Drivers, NEW i \in up, d \in mail, drv[d].st = "open",
           mail' = mail \ {d}, units[i] = d, units' = [units EXCEPT ![i] = None], up' = up \ {i},
           free' = free \cup {i}, drv' = [drv EXCEPT ![d] = Unused], dead' = dead \ {d},
           UNCHANGED <<create, primary, timer>>,
           UNCHANGED <<usbVars, snapshot, detected, choiceVars, probe, parked, shutdown, tasks>>
    PROVE  DiscInv'
<1> USE DEF usbVars, choiceVars, driverVars, scannerVars, Unused
<1>0. /\ TypeOK /\ ProbeAtWork /\ CreationAtWork /\ WorkApart /\ PrimaryIsOpen /\ DocksAreOpen
      /\ DocksApart /\ StartIsOpen /\ StartApart /\ Registered /\ PoolIsParked /\ PoolApart
      /\ TasksAwait /\ TasksApart /\ DeadWereOpen /\ UnplugReachesPrimary /\ IndexPoolConserved
      /\ NoDockAfterTeardown /\ StaleIsKnown /\ ReconnectPending
  BY DEF DiscInv
<1>1. TypeOK'
  BY <1>0 DEF TypeOK, Held
<1>2. /\ ProbeAtWork' /\ CreationAtWork' /\ WorkApart' /\ DocksApart' /\ StartApart'
      /\ PoolIsParked' /\ PoolApart' /\ TasksAwait' /\ TasksApart' /\ DeadWereOpen'
      /\ UnplugReachesPrimary' /\ NoDockAfterTeardown' /\ StaleIsKnown' /\ ReconnectPending'
  BY <1>0 DEF ProbeAtWork, CreationAtWork, WorkApart, DocksApart, StartApart, PoolIsParked,
      PoolApart, TasksAwait, TasksApart, DeadWereOpen, UnplugReachesPrimary, NoDockAfterTeardown,
      StaleIsKnown, ReconnectPending, Held
<1>5. PrimaryIsOpen' /\ DocksAreOpen' /\ StartIsOpen' /\ Registered'
  BY <1>0, NumbersOnly DEF PrimaryIsOpen, DocksAreOpen, StartIsOpen, Registered, TypeOK,
      DocksApart, StartApart
<1>17. IndexPoolConserved'
  BY <1>0, DiscoveryAssumption DEF IndexPoolConserved, TypeOK, Held
<1> QED BY <1>1, <1>2, <1>5, <1>17 DEF DiscInv

LEMMA DisconnectCreationStep ==
    ASSUME DiscInv, NEW d \in Drivers, d \in mail, drv[d].st = "open", mail' = mail \ {d},
           d = create.d, d # primary, UNCHANGED <<drv, dead, primary, timer, scannerVars>>,
           UNCHANGED <<usbVars, snapshot, detected, choiceVars, probe, parked, shutdown, tasks>>
    PROVE  DiscInv'
<1> USE DEF usbVars, choiceVars, driverVars, scannerVars
<1>0. /\ TypeOK /\ ProbeAtWork /\ CreationAtWork /\ WorkApart /\ PrimaryIsOpen /\ DocksAreOpen
      /\ DocksApart /\ StartIsOpen /\ StartApart /\ Registered /\ PoolIsParked /\ PoolApart
      /\ TasksAwait /\ TasksApart /\ DeadWereOpen /\ UnplugReachesPrimary /\ IndexPoolConserved
      /\ NoDockAfterTeardown /\ StaleIsKnown /\ ReconnectPending
  BY DEF DiscInv
<1>1. TypeOK'
  BY <1>0 DEF TypeOK, Held
<1>2. /\ ProbeAtWork' /\ CreationAtWork' /\ WorkApart' /\ PrimaryIsOpen' /\ DocksAreOpen'
      /\ DocksApart' /\ StartIsOpen' /\ StartApart' /\ PoolIsParked' /\ PoolApart' /\ TasksAwait'
      /\ TasksApart' /\ DeadWereOpen' /\ UnplugReachesPrimary' /\ IndexPoolConserved'
      /\ NoDockAfterTeardown' /\ StaleIsKnown' /\ ReconnectPending'
  BY <1>0 DEF ProbeAtWork, CreationAtWork, WorkApart, PrimaryIsOpen, DocksAreOpen, DocksApart,
      StartIsOpen, StartApart, PoolIsParked, PoolApart, TasksAwait, TasksApart, DeadWereOpen,
      UnplugReachesPrimary, IndexPoolConserved, NoDockAfterTeardown, StaleIsKnown,
      ReconnectPending, Held
<1>10. Registered'
  BY <1>0, NumbersOnly DEF Registered, TypeOK
<1> QED BY <1>1, <1>2, <1>10 DEF DiscInv

LEMMA ClosedAloneStep ==
    ASSUME DiscInv, NEW d \in Drivers, drv[d].st = "closing", AwaitedBy(d) = {},
           dead' = dead \ {d}, mail' = mail \ {d},
           create' = IF create.pc = "close" /\ create.d = d THEN NoCreate ELSE create,
           ~(probe.pc = "close" /\ probe.d = d), drv' = [drv EXCEPT ![d] = Unused],
           UNCHANGED <<probe, timer, parked>>,
           UNCHANGED <<snapshot, detected, primary, shutdown, tasks, units, up, free>>, BusRests,
           ChoiceRests
    PROVE  DiscInv'
<1> USE DEF BusRests, ChoiceRests, DocksRest, NoCreate, Unused, AwaitedBy
<1>0. /\ TypeOK /\ ProbeAtWork /\ CreationAtWork /\ WorkApart /\ PrimaryIsOpen /\ DocksAreOpen
      /\ DocksApart /\ StartIsOpen /\ StartApart /\ Registered /\ PoolIsParked /\ PoolApart
      /\ TasksAwait /\ TasksApart /\ DeadWereOpen /\ UnplugReachesPrimary /\ IndexPoolConserved
      /\ NoDockAfterTeardown /\ StaleIsKnown /\ ReconnectPending
  BY DEF DiscInv
<1>1. TypeOK'
  BY <1>0, NumbersOnly DEF TypeOK, Held
<1>2. /\ ProbeAtWork' /\ CreationAtWork' /\ WorkApart' /\ PrimaryIsOpen' /\ DocksAreOpen'
      /\ DocksApart' /\ StartIsOpen' /\ StartApart' /\ Registered' /\ PoolIsParked' /\ PoolApart'
      /\ TasksAwait' /\ TasksApart' /\ DeadWereOpen' /\ UnplugReachesPrimary'
      /\ IndexPoolConserved' /\ NoDockAfterTeardown' /\ StaleIsKnown' /\ ReconnectPending'
  BY <1>0, NumbersOnly DEF ProbeAtWork, CreationAtWork, WorkApart, PrimaryIsOpen, DocksAreOpen,
      DocksApart, StartIsOpen, StartApart, Registered, PoolIsParked, PoolApart, TasksAwait,
      TasksApart, DeadWereOpen, UnplugReachesPrimary, IndexPoolConserved, NoDockAfterTeardown,
      StaleIsKnown, ReconnectPending, TypeOK, Held
<1> QED BY <1>1, <1>2 DEF DiscInv

LEMMA ClosedProbeOpensStep ==
    ASSUME DiscInv, NEW m \in Models, NEW d \in Drivers, NEW u \in Units \ ClaimedPaths,
           NEW e \in Drivers, drv[e].st = "closing", AwaitedBy(e) = {}, dead' = dead \ {e},
           mail' = mail \ {e},
           create' = IF create.pc = "close" /\ create.d = e THEN NoCreate ELSE create,
           probe.pc = "close", probe.d = e,
           ProbeOpens([drv EXCEPT ![e] = Unused], parked, m, d, u),
           UNCHANGED <<snapshot, detected, primary, shutdown, tasks, units, up, free>>, BusRests,
           ChoiceRests
    PROVE  DiscInv'
<1>0. /\ TypeOK /\ ProbeAtWork /\ CreationAtWork /\ WorkApart /\ PrimaryIsOpen /\ DocksAreOpen
      /\ DocksApart /\ StartIsOpen /\ StartApart /\ Registered /\ PoolIsParked /\ PoolApart
      /\ TasksAwait /\ TasksApart /\ DeadWereOpen /\ UnplugReachesPrimary /\ IndexPoolConserved
      /\ NoDockAfterTeardown /\ StaleIsKnown /\ ReconnectPending
  BY DEF DiscInv
<1>a. /\ \A x \in Drivers : x # d /\ x # e => drv'[x] = drv[x]
      /\ drv'[d].st = "opening" /\ drv'[d].path = u /\ u # None
      /\ d # e => drv'[e].st = "free"
      /\ d = e \/ parked[m] = d \/ drv[d].st = "free"
      /\ d = e \/ drv[d].st \in {"free", "parked"}
      /\ parked' = [parked EXCEPT ![m] = None]
      /\ \A k \in TaskKinds : tasks[k].pc # "idle" => tasks[k].d # e
  <2>2. u # None
    BY NumbersOnly
  <2>3. /\ drv' = [[drv EXCEPT ![e] = Unused] EXCEPT ![d] = [st |-> "opening", path |-> u]]
        /\ parked[m] = d \/ (parked[m] = None /\ [drv EXCEPT ![e] = Unused][d].st = "free")
        /\ parked' = [parked EXCEPT ![m] = None]
    BY DEF ProbeOpens, Opens
  <2>4. [drv EXCEPT ![e] = Unused][d].st = IF d = e THEN "free" ELSE drv[d].st
    BY <1>0 DEF TypeOK, Unused
  <2>6. d = e \/ drv[d].st \in {"free", "parked"}
    BY <1>0, <2>3, <2>4, NumbersOnly DEF PoolIsParked
  <2>7. /\ \A x \in Drivers : x # d /\ x # e => drv'[x] = drv[x]
        /\ drv'[d].st = "opening" /\ drv'[d].path = u
        /\ d # e => drv'[e].st = "free"
    BY <1>0, <2>3 DEF TypeOK, Unused
  <2>8. \A k \in TaskKinds : tasks[k].pc # "idle" => tasks[k].d # e
    BY DEF AwaitedBy
  <2>9. d = e \/ parked[m] = d \/ drv[d].st = "free"
    BY <2>3, <2>4
  <2> QED BY <2>2, <2>3, <2>6, <2>7, <2>8, <2>9
<1>1. TypeOK'
  BY <1>0 DEF TypeOK, Held, BusRests, ChoiceRests, DocksRest, ProbeOpens, Opens, NoCreate, Unused,
      AwaitedBy
<1>2. ProbeAtWork' /\ PrimaryIsOpen' /\ Registered' /\ DeadWereOpen'
  BY <1>0, NumbersOnly DEF ProbeAtWork, PrimaryIsOpen, Registered, DeadWereOpen, TypeOK,
      PoolIsParked, PoolApart, BusRests, ChoiceRests, DocksRest, ProbeOpens, Opens, NoCreate,
      Unused, AwaitedBy
<1>3. CreationAtWork'
  BY <1>0, <1>a DEF CreationAtWork, WorkApart, TypeOK, NoCreate
<1>4. WorkApart'
  BY <1>0, NumbersOnly DEF WorkApart, TypeOK, ProbeAtWork, PoolIsParked, PoolApart, CreationAtWork,
      BusRests, ChoiceRests, DocksRest, ProbeOpens, Opens, NoCreate, Unused, AwaitedBy
<1>6. DocksAreOpen'
  BY <1>0, <1>a DEF DocksAreOpen, TypeOK
<1>7. /\ DocksApart' /\ StartApart' /\ PoolApart' /\ TasksApart' /\ UnplugReachesPrimary'
      /\ IndexPoolConserved' /\ NoDockAfterTeardown' /\ StaleIsKnown' /\ ReconnectPending'
  BY <1>0 DEF DocksApart, StartApart, PoolApart, TasksApart, UnplugReachesPrimary,
      IndexPoolConserved, NoDockAfterTeardown, StaleIsKnown, ReconnectPending, Held, BusRests,
      ChoiceRests, DocksRest, ProbeOpens, Opens, NoCreate, Unused, AwaitedBy
<1>8. StartIsOpen'
  BY <1>0, <1>a DEF StartIsOpen, TypeOK, NoCreate
<1>11. PoolIsParked'
  BY <1>0, <1>a DEF PoolIsParked, PoolApart, TypeOK
<1>13. TasksAwait'
  BY <1>0, <1>a DEF TasksAwait, TypeOK
<1> QED BY <1>1, <1>2, <1>3, <1>4, <1>6, <1>7, <1>8, <1>11, <1>13 DEF DiscInv

LEMMA ClosedProbeEndsStep ==
    ASSUME DiscInv, NEW e \in Drivers, drv[e].st = "closing", AwaitedBy(e) = {},
           dead' = dead \ {e}, mail' = mail \ {e},
           create' = IF create.pc = "close" /\ create.d = e THEN NoCreate ELSE create,
           probe.pc = "close", probe.d = e, ProbeEnds([drv EXCEPT ![e] = Unused], parked),
           UNCHANGED <<snapshot, detected, primary, shutdown, tasks, units, up, free>>, BusRests,
           ChoiceRests
    PROVE  DiscInv'
<1> USE DEF BusRests, ChoiceRests, DocksRest, ProbeEnds, NoProbe, NoCreate, Unused, Closing,
    AwaitedBy
<1>0. /\ TypeOK /\ ProbeAtWork /\ CreationAtWork /\ WorkApart /\ PrimaryIsOpen /\ DocksAreOpen
      /\ DocksApart /\ StartIsOpen /\ StartApart /\ Registered /\ PoolIsParked /\ PoolApart
      /\ TasksAwait /\ TasksApart /\ DeadWereOpen /\ UnplugReachesPrimary /\ IndexPoolConserved
      /\ NoDockAfterTeardown /\ StaleIsKnown /\ ReconnectPending
  BY DEF DiscInv
<1>1. TypeOK'
  BY <1>0 DEF TypeOK, Held
<1>2. ProbeAtWork'
  BY <1>0 DEF ProbeAtWork
<1>3. CreationAtWork' /\ PrimaryIsOpen' /\ DocksAreOpen' /\ StartIsOpen' /\ Registered'
  BY <1>0, NumbersOnly DEF CreationAtWork, PrimaryIsOpen, DocksAreOpen, StartIsOpen, Registered,
      TypeOK, ProbeAtWork, PoolIsParked, PoolApart
<1>4. WorkApart'
  BY <1>0 DEF WorkApart
<1>7. DocksApart'
  BY <1>0 DEF DocksApart
<1>9. StartApart'
  BY <1>0 DEF StartApart
<1>11. PoolIsParked'
  BY <1>0 DEF PoolIsParked
<1>12. PoolApart'
  BY <1>0 DEF PoolApart
<1>13. TasksAwait' /\ DeadWereOpen'
  BY <1>0, DiscoveryAssumption DEF TasksAwait, DeadWereOpen, TypeOK
<1>14. TasksApart'
  BY <1>0 DEF TasksApart
<1>16. UnplugReachesPrimary'
  BY <1>0 DEF UnplugReachesPrimary
<1>17. IndexPoolConserved'
  BY <1>0 DEF IndexPoolConserved, Held
<1>18. NoDockAfterTeardown'
  BY <1>0 DEF NoDockAfterTeardown, Held
<1>19. StaleIsKnown'
  BY <1>0 DEF StaleIsKnown
<1>20. ReconnectPending'
  BY <1>0 DEF ReconnectPending
<1> QED BY <1>1, <1>2, <1>3, <1>4, <1>7, <1>9, <1>11, <1>12, <1>13, <1>14, <1>16, <1>17, <1>18,
    <1>19, <1>20 DEF DiscInv

LEMMA MultiDeckOffStep ==
    ASSUME DiscInv, SetMultiDeck, multi
    PROVE  DiscInv'
<1>0. /\ TypeOK /\ ProbeAtWork /\ CreationAtWork /\ WorkApart /\ PrimaryIsOpen /\ DocksAreOpen
      /\ DocksApart /\ StartIsOpen /\ StartApart /\ Registered /\ PoolIsParked /\ PoolApart
      /\ TasksAwait /\ TasksApart /\ DeadWereOpen /\ UnplugReachesPrimary /\ IndexPoolConserved
      /\ NoDockAfterTeardown /\ StaleIsKnown /\ ReconnectPending
  BY DEF DiscInv
<1>a. /\ create' \in CreateRecs /\ create'.pc = create.pc /\ create'.idx = create.idx
      /\ create'.d = create.d /\ (create'.stale <=> create.pc \in {"open", "start", "close"})
      /\ (create'.stopped <=> create.pc = "start")
      /\ drv' = Closing(drv, {units[i] : i \in up})
      /\ units' = [i \in Indices |-> None] /\ up' = {} /\ free' = {}
      /\ multi' = FALSE /\ edits < MaxEdits /\ edits' = edits + 1
      /\ UNCHANGED <<plugged, plugs, snapshot, detected, selected, dead, mail, primary, probe,
                   timer, parked, shutdown, tasks>>
  <2> DEFINE a == create.pc \in {"open", "start", "close"}
             b == create.pc = "start"
  <2>1. /\ create' = [create EXCEPT !.stale = a, !.stopped = b]
        /\ drv' = Closing(drv, {units[i] : i \in up})
        /\ units' = [i \in Indices |-> None] /\ up' = {} /\ free' = {}
        /\ multi' = FALSE /\ edits < MaxEdits /\ edits' = edits + 1
        /\ UNCHANGED <<plugged, plugs, snapshot, detected, selected, dead, mail, primary, probe,
                   timer, parked, shutdown, tasks>>
    BY DEF SetMultiDeck, Edit, StopScannedDocks, usbVars
  <2>2. create \in CreateRecs
    BY <1>0 DEF TypeOK, CreateRecs
  <2>3. a \in BOOLEAN /\ b \in BOOLEAN
    OBVIOUS
  <2> HIDE DEF a, b
  <2>4. /\ create' \in CreateRecs /\ create'.pc = create.pc /\ create'.idx = create.idx
        /\ create'.d = create.d /\ (create'.stale <=> a) /\ (create'.stopped <=> b)
    BY <2>1, <2>2, <2>3 DEF CreateRecs
  <2> QED BY <2>1, <2>4 DEF a, b
<1>1. TypeOK'
  <2>1. drv' \in [Drivers -> DriverRecs]
    BY <1>0, <1>a, ClosingTyped DEF TypeOK, DriverRecs
  <2>2. units' \in [Indices -> Drivers \cup {None}] /\ up' \subseteq Held'
           /\ free' \subseteq Indices
    BY <1>0, <1>a
  <2>3. edits' \in 0 .. MaxEdits
    BY <1>0, <1>a, DiscoveryAssumption DEF TypeOK
  <2> QED BY <1>0, <1>a, <2>1, <2>2, <2>3 DEF TypeOK, CreateRecs, DriverRecs
<1>2. ProbeAtWork' /\ PoolIsParked'
  BY <1>0, NumbersOnly DEF ProbeAtWork, PoolIsParked, TypeOK, DocksAreOpen, Registered, usbVars,
      choiceVars, driverVars, scannerVars, SetMultiDeck, Edit, StopScannedDocks, Closing
<1>3. CreationAtWork'
  BY <1>0, <1>a DEF CreationAtWork, TypeOK, Closing, DocksAreOpen, Registered
<1>4. WorkApart'
  BY <1>0, <1>a DEF WorkApart, TypeOK
<1>5. PrimaryIsOpen'
  BY <1>0, NumbersOnly DEF PrimaryIsOpen, TypeOK, DocksAreOpen, Registered, DocksApart,
      StartIsOpen, StartApart, usbVars, choiceVars, driverVars, scannerVars, SetMultiDeck, Edit,
      StopScannedDocks, Closing
<1>6. /\ DocksAreOpen' /\ DocksApart' /\ PoolApart' /\ UnplugReachesPrimary'
      /\ IndexPoolConserved' /\ NoDockAfterTeardown' /\ ReconnectPending'
  BY <1>0 DEF DocksAreOpen, DocksApart, PoolApart, UnplugReachesPrimary, IndexPoolConserved,
      NoDockAfterTeardown, ReconnectPending, Held, usbVars, choiceVars, driverVars, scannerVars,
      SetMultiDeck, Edit, StopScannedDocks, Closing
<1>8. StartIsOpen'
  BY <1>0, <1>a DEF StartIsOpen, TypeOK, CreationAtWork, Closing, StartApart
<1>9. StartApart'
  BY <1>0, <1>a, NumbersOnly DEF StartApart, TypeOK
<1>10. Registered'
  BY <1>0, <1>a, NumbersOnly DEF Registered, TypeOK, StartIsOpen
<1>13. TasksAwait'
  BY <1>0, DiscoveryAssumption DEF TasksAwait, TypeOK, usbVars, choiceVars, driverVars,
      scannerVars, SetMultiDeck, Edit, StopScannedDocks, Closing
<1>14. TasksApart'
  BY <1>0, <1>a DEF TasksApart, TypeOK
<1>15. DeadWereOpen'
  BY <1>0, DiscoveryAssumption DEF DeadWereOpen, TypeOK, usbVars, choiceVars, driverVars,
      scannerVars, SetMultiDeck, Edit, StopScannedDocks, Closing
<1>19. StaleIsKnown'
  BY <1>0, <1>a DEF StaleIsKnown
<1> QED BY <1>1, <1>2, <1>3, <1>4, <1>5, <1>6, <1>8, <1>9, <1>10, <1>13, <1>14, <1>15,
    <1>19 DEF DiscInv

LEMMA MultiDeckOnStep ==
    ASSUME DiscInv, SetMultiDeck, ~multi
    PROVE  DiscInv'
<1> USE DEF usbVars, choiceVars, driverVars, scannerVars, SetMultiDeck, Edit
<1>0. /\ TypeOK /\ ProbeAtWork /\ CreationAtWork /\ WorkApart /\ PrimaryIsOpen /\ DocksAreOpen
      /\ DocksApart /\ StartIsOpen /\ StartApart /\ Registered /\ PoolIsParked /\ PoolApart
      /\ TasksAwait /\ TasksApart /\ DeadWereOpen /\ UnplugReachesPrimary /\ IndexPoolConserved
      /\ NoDockAfterTeardown /\ StaleIsKnown /\ ReconnectPending
  BY DEF DiscInv
<1>1. TypeOK'
  BY <1>0, DiscoveryAssumption DEF TypeOK, Held
<1>2. /\ ProbeAtWork' /\ CreationAtWork' /\ WorkApart' /\ PrimaryIsOpen' /\ DocksAreOpen'
      /\ DocksApart' /\ StartIsOpen' /\ StartApart' /\ PoolIsParked' /\ PoolApart' /\ TasksAwait'
      /\ TasksApart' /\ DeadWereOpen' /\ UnplugReachesPrimary' /\ IndexPoolConserved'
      /\ NoDockAfterTeardown' /\ StaleIsKnown' /\ ReconnectPending'
  BY <1>0 DEF ProbeAtWork, CreationAtWork, WorkApart, PrimaryIsOpen, DocksAreOpen, DocksApart,
      StartIsOpen, StartApart, PoolIsParked, PoolApart, TasksAwait, TasksApart, DeadWereOpen,
      UnplugReachesPrimary, IndexPoolConserved, NoDockAfterTeardown, StaleIsKnown,
      ReconnectPending, Held
<1>10. Registered'
  <2>1. UNCHANGED <<create, units, up>>
    OBVIOUS
  <2> QED BY ONLY <1>0, <2>1 DEF Registered
<1> QED BY <1>1, <1>2, <1>10 DEF DiscInv

LEMMA UserStopsDockStep ==
    ASSUME DiscInv, NEW k \in TaskKinds, NEW i \in Indices, tasks[k].pc = "idle",
           TaskStops(k, i, drv), edits' \in 0 .. MaxEdits, selected' \in SUBSET Units, BusRests,
           UNCHANGED <<snapshot, detected, multi, dead, mail, probe, timer, parked, shutdown>>
    PROVE  DiscInv'
<1> USE DEF BusRests, ChoiceRests, DocksRest, TaskStops, TeardownDock, Closing
<1>0. /\ TypeOK /\ ProbeAtWork /\ CreationAtWork /\ WorkApart /\ PrimaryIsOpen /\ DocksAreOpen
      /\ DocksApart /\ StartIsOpen /\ StartApart /\ Registered /\ PoolIsParked /\ PoolApart
      /\ TasksAwait /\ TasksApart /\ DeadWereOpen /\ UnplugReachesPrimary /\ IndexPoolConserved
      /\ NoDockAfterTeardown /\ StaleIsKnown /\ ReconnectPending
  BY DEF DiscInv
<1>1. TypeOK'
  <2> DEFINE dv == drv
  <2>1. /\ units' = [units EXCEPT ![i] = None] /\ free' = free \cup {i} /\ up' = up \ {i}
        /\ create' = (IF i \in up THEN create ELSE [create EXCEPT !.stopped = TRUE])
        /\ drv' = IF i \in up THEN Closing(dv, {units[i]}) ELSE dv
    OBVIOUS
  <2>2. dv \in [Drivers -> DriverRecs]
    BY <1>0 DEF TypeOK, DriverRecs, After, Unused
  <2> HIDE DEF dv
  <2>3. drv' \in [Drivers -> DriverRecs]
    BY ONLY <2>1, <2>2, ClosingTyped
  <2>4. create' \in CreateRecs
    BY ONLY <1>0, <2>1 DEF TypeOK, CreateRecs
  <2>5. units' \in [Indices -> Drivers \cup {None}] /\ up' \subseteq Held'
           /\ free' \subseteq Indices
    BY <1>0, <2>1 DEF TypeOK, Held
  <2>6. PICK left \in SUBSET Indices, ms \in SUBSET Models :
          tasks' = [tasks EXCEPT ![k] = [pc |-> "docks", d |-> IF i \in up THEN units[i] ELSE None,
                                         left |-> left, models |-> ms]]
    OBVIOUS
  <2>7. (IF i \in up THEN units[i] ELSE None) \in Drivers \cup {None}
    BY <1>0 DEF TypeOK
  <2>8. tasks' \in [TaskKinds -> [pc : {"idle", "docks", "primary"}, d : Drivers \cup {None},
                                  left : SUBSET Indices, models : SUBSET Models]]
    BY <1>0, <2>6, <2>7 DEF TypeOK
  <2>9. /\ plugged' \subseteq Units /\ plugs' \in 0 .. MaxPlugs /\ edits' \in 0 .. MaxEdits
        /\ selected' \subseteq Units /\ multi' \in BOOLEAN /\ mail' \subseteq dead'
        /\ dead' \subseteq Drivers /\ timer' \in BOOLEAN
        /\ UNCHANGED <<snapshot, detected, primary, probe, parked, shutdown>>
    BY <1>0 DEF TypeOK
  <2> QED BY ONLY <1>0, <2>3, <2>4, <2>5, <2>8, <2>9 DEF TypeOK, DriverRecs, CreateRecs
<1>2. ProbeAtWork' /\ CreationAtWork' /\ PrimaryIsOpen' /\ DocksAreOpen' /\ PoolIsParked'
  BY <1>0, NumbersOnly DEF ProbeAtWork, CreationAtWork, PrimaryIsOpen, DocksAreOpen, PoolIsParked,
      TypeOK, Registered, DocksApart
<1>4. /\ WorkApart' /\ DocksApart' /\ StartApart' /\ PoolApart' /\ UnplugReachesPrimary'
      /\ NoDockAfterTeardown' /\ StaleIsKnown' /\ ReconnectPending'
  BY <1>0 DEF WorkApart, DocksApart, StartApart, PoolApart, UnplugReachesPrimary,
      NoDockAfterTeardown, StaleIsKnown, ReconnectPending, Held
<1>8. StartIsOpen'
  BY <1>0, NumbersOnly DEF StartIsOpen, TypeOK, DocksAreOpen, Registered, DocksApart,
      PrimaryIsOpen, StartApart
<1>10. Registered'
  <2>1. /\ units' = [units EXCEPT ![i] = None] /\ up' = up \ {i} /\ units[i] # None
        /\ create' = (IF i \in up THEN create ELSE [create EXCEPT !.stopped = TRUE])
    BY DEF Held
  <2>2. create \in CreateRecs /\ units \in [Indices -> Drivers \cup {None}]
    BY <1>0 DEF TypeOK, CreateRecs
  <2>3. /\ create'.pc = create.pc /\ create'.idx = create.idx /\ create'.d = create.d
        /\ create'.stopped <=> create.stopped \/ i \notin up
    BY <2>1, <2>2 DEF CreateRecs
  <2>4. i \notin up => create.pc = "start" /\ i = create.idx
    BY <1>0, <2>1 DEF Registered
  <2>5. create.pc = "start" => create.idx \in Indices /\ create.idx \notin up
    BY <1>0 DEF StartIsOpen, StartApart
  <2> QED BY ONLY <1>0, <2>1, <2>2, <2>3, <2>4, <2>5, NumbersOnly DEF Registered
<1>13. TasksAwait' /\ DeadWereOpen' /\ IndexPoolConserved'
  BY <1>0, DiscoveryAssumption DEF TasksAwait, DeadWereOpen, IndexPoolConserved, TypeOK, Held
<1>14. TasksApart'
  BY <1>0, NumbersOnly DEF TasksApart, TypeOK, DocksAreOpen, Registered, DocksApart, ProbeAtWork,
      CreationAtWork, WorkApart, TasksAwait
<1> QED BY <1>1, <1>2, <1>4, <1>8, <1>10, <1>13, <1>14 DEF DiscInv

LEMMA UserStopsPrimaryStep ==
    ASSUME DiscInv, NEW k \in TaskKinds, tasks[k].pc = "idle", TaskStopsPrimary(k, drv),
           edits' \in 0 .. MaxEdits, selected' \in SUBSET Units, BusRests,
           UNCHANGED <<snapshot, detected, multi, dead, mail, probe, timer, parked, shutdown>>
    PROVE  DiscInv'
<1> USE DEF BusRests, ChoiceRests, DocksRest, scannerVars, TaskStopsPrimary, Closing
<1>0. /\ TypeOK /\ ProbeAtWork /\ CreationAtWork /\ WorkApart /\ PrimaryIsOpen /\ DocksAreOpen
      /\ DocksApart /\ StartIsOpen /\ StartApart /\ Registered /\ PoolIsParked /\ PoolApart
      /\ TasksAwait /\ TasksApart /\ DeadWereOpen /\ UnplugReachesPrimary /\ IndexPoolConserved
      /\ NoDockAfterTeardown /\ StaleIsKnown /\ ReconnectPending
  BY DEF DiscInv
<1>1. TypeOK'
  BY <1>0 DEF TypeOK, Held
<1>2. ProbeAtWork' /\ CreationAtWork' /\ Registered' /\ PoolIsParked' /\ UnplugReachesPrimary'
  BY <1>0, NumbersOnly DEF ProbeAtWork, CreationAtWork, Registered, PoolIsParked,
      UnplugReachesPrimary, TypeOK, PrimaryIsOpen
<1>4. /\ WorkApart' /\ PrimaryIsOpen' /\ DocksApart' /\ PoolApart' /\ IndexPoolConserved'
      /\ NoDockAfterTeardown' /\ StaleIsKnown'
  BY <1>0 DEF WorkApart, PrimaryIsOpen, DocksApart, PoolApart, IndexPoolConserved,
      NoDockAfterTeardown, StaleIsKnown, Held
<1>6. DocksAreOpen' /\ StartIsOpen' /\ StartApart'
  BY <1>0, NumbersOnly DEF DocksAreOpen, StartIsOpen, StartApart, TypeOK, PrimaryIsOpen,
      DocksApart, Registered
<1>13. TasksAwait' /\ DeadWereOpen' /\ ReconnectPending'
  BY <1>0, DiscoveryAssumption DEF TasksAwait, DeadWereOpen, ReconnectPending, TypeOK
<1>14. TasksApart'
  BY <1>0, NumbersOnly DEF TasksApart, TypeOK, PrimaryIsOpen, ProbeAtWork, CreationAtWork,
      WorkApart, TasksAwait
<1> QED BY <1>1, <1>2, <1>4, <1>6, <1>13, <1>14 DEF DiscInv

LEMMA UserStopsNothingStep ==
    ASSUME DiscInv, NEW k \in TaskKinds, tasks[k].pc = "idle", TaskEnds(k, drv),
           edits' \in 0 .. MaxEdits, selected' \in SUBSET Units, BusRests,
           UNCHANGED <<snapshot, detected, multi, dead, mail, probe, timer, parked, shutdown>>
    PROVE  DiscInv'
<1> USE DEF BusRests, ChoiceRests, DocksRest, scannerVars, TaskEnds, NoTask
<1>0. /\ TypeOK /\ ProbeAtWork /\ CreationAtWork /\ WorkApart /\ PrimaryIsOpen /\ DocksAreOpen
      /\ DocksApart /\ StartIsOpen /\ StartApart /\ Registered /\ PoolIsParked /\ PoolApart
      /\ TasksAwait /\ TasksApart /\ DeadWereOpen /\ UnplugReachesPrimary /\ IndexPoolConserved
      /\ NoDockAfterTeardown /\ StaleIsKnown /\ ReconnectPending
  BY DEF DiscInv
<1>1. TypeOK'
  BY <1>0 DEF TypeOK, Held
<1>2. /\ ProbeAtWork' /\ CreationAtWork' /\ WorkApart' /\ PrimaryIsOpen' /\ DocksAreOpen'
      /\ DocksApart' /\ StartIsOpen' /\ StartApart' /\ PoolIsParked' /\ PoolApart' /\ TasksAwait'
      /\ TasksApart' /\ DeadWereOpen' /\ UnplugReachesPrimary' /\ IndexPoolConserved'
      /\ NoDockAfterTeardown' /\ StaleIsKnown' /\ ReconnectPending'
  BY <1>0 DEF ProbeAtWork, CreationAtWork, WorkApart, PrimaryIsOpen, DocksAreOpen, DocksApart,
      StartIsOpen, StartApart, PoolIsParked, PoolApart, TasksAwait, TasksApart, DeadWereOpen,
      UnplugReachesPrimary, IndexPoolConserved, NoDockAfterTeardown, StaleIsKnown,
      ReconnectPending, Held
<1>10. Registered'
  BY <1>0, NumbersOnly DEF Registered, TypeOK
<1> QED BY <1>1, <1>2, <1>10 DEF DiscInv

LEMMA TaskStopsDockStep ==
    ASSUME DiscInv, NEW k \in TaskKinds, NEW i \in Indices, tasks[k].pc = "docks",
           TaskStops(k, i, After(tasks[k].d)), timer' = timer, BusRests, ChoiceRests,
           UNCHANGED <<snapshot, detected, probe, parked, shutdown>>, dead' = dead \ {tasks[k].d},
           mail' = mail \ {tasks[k].d}
    PROVE  DiscInv'
<1> USE DEF BusRests, ChoiceRests, DocksRest, TaskStops, TeardownDock, Closing, After, Unused
<1>0. /\ TypeOK /\ ProbeAtWork /\ CreationAtWork /\ WorkApart /\ PrimaryIsOpen /\ DocksAreOpen
      /\ DocksApart /\ StartIsOpen /\ StartApart /\ Registered /\ PoolIsParked /\ PoolApart
      /\ TasksAwait /\ TasksApart /\ DeadWereOpen /\ UnplugReachesPrimary /\ IndexPoolConserved
      /\ NoDockAfterTeardown /\ StaleIsKnown /\ ReconnectPending
  BY DEF DiscInv
<1>1. TypeOK'
  <2> DEFINE dv == After(tasks[k].d)
  <2>1. /\ units' = [units EXCEPT ![i] = None] /\ free' = free \cup {i} /\ up' = up \ {i}
        /\ create' = (IF i \in up THEN create ELSE [create EXCEPT !.stopped = TRUE])
        /\ drv' = IF i \in up THEN Closing(dv, {units[i]}) ELSE dv
    OBVIOUS
  <2>2. dv \in [Drivers -> DriverRecs]
    BY <1>0 DEF TypeOK, DriverRecs, After, Unused
  <2> HIDE DEF dv
  <2>3. drv' \in [Drivers -> DriverRecs]
    BY ONLY <2>1, <2>2, ClosingTyped
  <2>4. create' \in CreateRecs
    BY ONLY <1>0, <2>1 DEF TypeOK, CreateRecs
  <2>5. units' \in [Indices -> Drivers \cup {None}] /\ up' \subseteq Held'
           /\ free' \subseteq Indices
    BY <1>0, <2>1 DEF TypeOK, Held
  <2>6. PICK left \in SUBSET Indices, ms \in SUBSET Models :
          tasks' = [tasks EXCEPT ![k] = [pc |-> "docks", d |-> IF i \in up THEN units[i] ELSE None,
                                         left |-> left, models |-> ms]]
    OBVIOUS
  <2>7. (IF i \in up THEN units[i] ELSE None) \in Drivers \cup {None}
    BY <1>0 DEF TypeOK
  <2>8. tasks' \in [TaskKinds -> [pc : {"idle", "docks", "primary"}, d : Drivers \cup {None},
                                  left : SUBSET Indices, models : SUBSET Models]]
    BY <1>0, <2>6, <2>7 DEF TypeOK
  <2>9. /\ plugged' \subseteq Units /\ plugs' \in 0 .. MaxPlugs /\ edits' \in 0 .. MaxEdits
        /\ selected' \subseteq Units /\ multi' \in BOOLEAN /\ mail' \subseteq dead'
        /\ dead' \subseteq Drivers /\ timer' \in BOOLEAN
        /\ UNCHANGED <<snapshot, detected, primary, probe, parked, shutdown>>
    BY <1>0 DEF TypeOK
  <2> QED BY ONLY <1>0, <2>3, <2>4, <2>5, <2>8, <2>9 DEF TypeOK, DriverRecs, CreateRecs
<1>2. ProbeAtWork' /\ CreationAtWork' /\ TasksAwait'
  <2>1. ProbeAtWork'
    BY <1>0, NumbersOnly, TasksTwo DEF ProbeAtWork, CreationAtWork, TasksAwait, TypeOK, DocksAreOpen,
        Registered, DocksApart, TasksApart
  <2>2. CreationAtWork'
    BY <1>0, NumbersOnly, TasksTwo DEF ProbeAtWork, CreationAtWork, TasksAwait, TypeOK, DocksAreOpen,
        Registered, DocksApart, TasksApart
  <2>3. TasksAwait'
    BY <1>0, NumbersOnly, TasksTwo DEF ProbeAtWork, CreationAtWork, TasksAwait, TypeOK, DocksAreOpen,
        Registered, DocksApart, TasksApart
  <2> QED BY <2>1, <2>2, <2>3
<1>4. /\ WorkApart' /\ DocksApart' /\ StartApart' /\ PoolApart' /\ UnplugReachesPrimary'
      /\ NoDockAfterTeardown' /\ StaleIsKnown' /\ ReconnectPending'
  BY <1>0 DEF WorkApart, DocksApart, StartApart, PoolApart, UnplugReachesPrimary,
      NoDockAfterTeardown, StaleIsKnown, ReconnectPending, Held
<1>5. PrimaryIsOpen' /\ DocksAreOpen' /\ PoolIsParked'
  BY <1>0, NumbersOnly DEF PrimaryIsOpen, DocksAreOpen, PoolIsParked, TypeOK, Registered,
      DocksApart, TasksAwait
<1>8. StartIsOpen'
  BY <1>0, NumbersOnly DEF StartIsOpen, TypeOK, DocksAreOpen, Registered, DocksApart, TasksAwait,
      PrimaryIsOpen, StartApart
<1>10. Registered'
  <2>1. /\ units' = [units EXCEPT ![i] = None] /\ up' = up \ {i} /\ units[i] # None
        /\ create' = (IF i \in up THEN create ELSE [create EXCEPT !.stopped = TRUE])
    BY DEF Held
  <2>2. create \in CreateRecs /\ units \in [Indices -> Drivers \cup {None}]
    BY <1>0 DEF TypeOK, CreateRecs
  <2>3. /\ create'.pc = create.pc /\ create'.idx = create.idx /\ create'.d = create.d
        /\ create'.stopped <=> create.stopped \/ i \notin up
    BY <2>1, <2>2 DEF CreateRecs
  <2>4. i \notin up => create.pc = "start" /\ i = create.idx
    BY <1>0, <2>1 DEF Registered
  <2>5. create.pc = "start" => create.idx \in Indices /\ create.idx \notin up
    BY <1>0 DEF StartIsOpen, StartApart
  <2> QED BY ONLY <1>0, <2>1, <2>2, <2>3, <2>4, <2>5, NumbersOnly DEF Registered
<1>14. TasksApart'
  BY <1>0, NumbersOnly DEF TasksApart, TypeOK, DocksAreOpen, Registered, DocksApart, TasksAwait,
      ProbeAtWork, CreationAtWork, WorkApart
<1>15. DeadWereOpen' /\ IndexPoolConserved'
  BY <1>0, DiscoveryAssumption DEF DeadWereOpen, IndexPoolConserved, TypeOK, Held
<1> QED BY <1>1, <1>2, <1>4, <1>5, <1>8, <1>10, <1>14, <1>15 DEF DiscInv

LEMMA TaskStopsPrimaryStep ==
    ASSUME DiscInv, NEW k \in TaskKinds, tasks[k].pc = "docks",
           TaskStopsPrimary(k, After(tasks[k].d)), timer' = timer, BusRests, ChoiceRests,
           UNCHANGED <<snapshot, detected, probe, parked, shutdown>>, dead' = dead \ {tasks[k].d},
           mail' = mail \ {tasks[k].d}
    PROVE  DiscInv'
<1> USE DEF BusRests, ChoiceRests, DocksRest, scannerVars, TaskStopsPrimary, Closing, After, Unused
<1>0. /\ TypeOK /\ ProbeAtWork /\ CreationAtWork /\ WorkApart /\ PrimaryIsOpen /\ DocksAreOpen
      /\ DocksApart /\ StartIsOpen /\ StartApart /\ Registered /\ PoolIsParked /\ PoolApart
      /\ TasksAwait /\ TasksApart /\ DeadWereOpen /\ UnplugReachesPrimary /\ IndexPoolConserved
      /\ NoDockAfterTeardown /\ StaleIsKnown /\ ReconnectPending
  BY DEF DiscInv
<1>1. TypeOK'
  BY <1>0 DEF TypeOK, Held
<1>2. ProbeAtWork' /\ CreationAtWork' /\ TasksAwait'
  <2>1. PICK now : now = After(tasks[k].d)
    OBVIOUS
  <2>2. /\ UNCHANGED <<probe, create>> /\ primary # None
        /\ drv' = [d \in Drivers |-> IF d = primary THEN [now[d] EXCEPT !.st = "closing"] ELSE now[d]]
    BY <2>1
  <2>3. primary \in Drivers /\ drv[primary].st = "open"
    BY <1>0, <2>2 DEF PrimaryIsOpen, TypeOK
  <2>4. ASSUME NEW d \in Drivers, drv[d].st \in {"opening", "closing"}, d # tasks[k].d
        PROVE  drv'[d] = drv[d]
    <3>1. now[d] = drv[d]
      BY <1>0, <2>1, <2>4 DEF TypeOK
    <3> QED BY <2>2, <2>3, <2>4, <3>1
  <2>5. /\ probe.pc \in {"open", "close"} => probe.d \in Drivers \cup {None}
        /\ create.pc \in {"open", "close"} => create.d \in Drivers \cup {None}
        /\ tasks[k].d # None => drv[tasks[k].d].st = "closing"
    BY <1>0 DEF TypeOK, TasksAwait
  <2>6. /\ probe.pc = "close" /\ tasks[k].d # None => probe.d # tasks[k].d
        /\ create.pc = "close" /\ tasks[k].d # None => create.d # tasks[k].d
    BY <1>0 DEF TasksApart
  <2>7. TasksAwait'
    <3>1. PICK r : r = [pc |-> "primary", d |-> primary, left |-> {}, models |-> {}]
      OBVIOUS
    <3>2. tasks' = [tasks EXCEPT ![k] = r] /\ r.d = primary
      BY <2>1, <3>1
    <3>3. drv'[primary].st = "closing"
      <4>1. primary # tasks[k].d
        BY <2>3, <2>5, NumbersOnly DEF TypeOK
      <4>2. now[primary] = drv[primary] /\ drv[primary] \in DriverRecs
        BY <1>0, <2>1, <2>3, <4>1 DEF TypeOK, DriverRecs
      <4>3. drv'[primary] = [now[primary] EXCEPT !.st = "closing"]
        BY <2>2, <2>3
      <4> QED BY ONLY <4>2, <4>3 DEF DriverRecs
    <3>4. tasks'[k].d = primary
      BY <1>0, <3>2 DEF TypeOK
    <3>5. ASSUME NEW n \in TaskKinds, n # k, tasks[n].pc # "idle", tasks[n].d # None
          PROVE  drv'[tasks[n].d].st = "closing"
      <4>1. tasks[n].d \in Drivers /\ drv[tasks[n].d].st = "closing" /\ tasks[n].d # tasks[k].d
        BY <1>0, <3>5 DEF TasksAwait, TasksApart, TypeOK
      <4> QED BY <2>4, <4>1
    <3>6. \A n \in TaskKinds : n # k => tasks'[n] = tasks[n]
      BY <1>0, <3>2 DEF TypeOK
    <3> QED BY <3>3, <3>4, <3>5, <3>6 DEF TasksAwait
  <2> HIDE DEF TaskStopsPrimary, Closing, After
  <2>8. ProbeAtWork'
    <3>1. probe.pc = "open" => drv'[probe.d] = drv[probe.d]
      BY <1>0, <2>4, <2>5 DEF ProbeAtWork
    <3>2. probe.pc = "close" => drv'[probe.d] = drv[probe.d]
      BY <1>0, <2>4, <2>5, <2>6 DEF ProbeAtWork
    <3> QED BY ONLY <1>0, <2>2, <3>1, <3>2 DEF ProbeAtWork
  <2>9. CreationAtWork'
    <3>1. create.pc = "open" => drv'[create.d] = drv[create.d]
      BY <1>0, <2>4, <2>5 DEF CreationAtWork
    <3>2. create.pc = "close" => drv'[create.d] = drv[create.d]
      BY <1>0, <2>4, <2>5, <2>6 DEF CreationAtWork
    <3> QED BY ONLY <1>0, <2>2, <3>1, <3>2 DEF CreationAtWork
  <2> QED BY <2>7, <2>8, <2>9
<1>4. /\ WorkApart' /\ PrimaryIsOpen' /\ DocksApart' /\ PoolApart' /\ IndexPoolConserved'
      /\ NoDockAfterTeardown' /\ StaleIsKnown'
  BY <1>0 DEF WorkApart, PrimaryIsOpen, DocksApart, PoolApart, IndexPoolConserved,
      NoDockAfterTeardown, StaleIsKnown, Held
<1>6. DocksAreOpen' /\ StartIsOpen' /\ StartApart'
  BY <1>0, NumbersOnly DEF DocksAreOpen, StartIsOpen, StartApart, TypeOK, PrimaryIsOpen,
      TasksAwait, DocksApart, Registered
<1>10. Registered' /\ PoolIsParked' /\ UnplugReachesPrimary'
  BY <1>0, NumbersOnly DEF Registered, PoolIsParked, UnplugReachesPrimary, PrimaryIsOpen,
      TasksAwait, TypeOK
<1>14. TasksApart'
  BY <1>0, NumbersOnly DEF TasksApart, TypeOK, PrimaryIsOpen, TasksAwait, ProbeAtWork,
      CreationAtWork, WorkApart
<1>15. DeadWereOpen' /\ ReconnectPending'
  BY <1>0, DiscoveryAssumption DEF DeadWereOpen, ReconnectPending, TypeOK
<1> QED BY <1>1, <1>2, <1>4, <1>6, <1>10, <1>14, <1>15 DEF DiscInv

LEMMA TaskEndsStep ==
    ASSUME DiscInv, NEW k \in TaskKinds, tasks[k].pc = "docks", TaskEnds(k, After(tasks[k].d)),
           timer' = timer, BusRests, ChoiceRests,
           UNCHANGED <<snapshot, detected, probe, parked, shutdown>>, dead' = dead \ {tasks[k].d},
           mail' = mail \ {tasks[k].d}
    PROVE  DiscInv'
<1> USE DEF BusRests, ChoiceRests, DocksRest, scannerVars, TaskEnds, NoTask, After, Unused
<1>0. /\ TypeOK /\ ProbeAtWork /\ CreationAtWork /\ WorkApart /\ PrimaryIsOpen /\ DocksAreOpen
      /\ DocksApart /\ StartIsOpen /\ StartApart /\ Registered /\ PoolIsParked /\ PoolApart
      /\ TasksAwait /\ TasksApart /\ DeadWereOpen /\ UnplugReachesPrimary /\ IndexPoolConserved
      /\ NoDockAfterTeardown /\ StaleIsKnown /\ ReconnectPending
  BY DEF DiscInv
<1>1. TypeOK'
  BY <1>0 DEF TypeOK, Held
<1>2. ProbeAtWork' /\ CreationAtWork' /\ TasksAwait'
  BY <1>0, NumbersOnly, TasksTwo DEF ProbeAtWork, CreationAtWork, TasksAwait, TypeOK, TasksApart
<1>4. /\ WorkApart' /\ DocksApart' /\ StartApart' /\ PoolApart' /\ TasksApart' /\ DeadWereOpen'
      /\ UnplugReachesPrimary' /\ IndexPoolConserved' /\ NoDockAfterTeardown' /\ StaleIsKnown'
      /\ ReconnectPending'
  BY <1>0 DEF WorkApart, DocksApart, StartApart, PoolApart, TasksApart, DeadWereOpen,
      UnplugReachesPrimary, IndexPoolConserved, NoDockAfterTeardown, StaleIsKnown,
      ReconnectPending, Held
<1>5. PrimaryIsOpen' /\ DocksAreOpen' /\ StartIsOpen' /\ Registered' /\ PoolIsParked'
  BY <1>0, NumbersOnly DEF PrimaryIsOpen, DocksAreOpen, StartIsOpen, Registered, PoolIsParked,
      TypeOK, TasksAwait
<1> QED BY <1>1, <1>2, <1>4, <1>5 DEF DiscInv

LEMMA TaskReconnectsStep ==
    ASSUME DiscInv, NEW k \in TaskKinds, tasks[k].pc = "primary", TaskEnds(k, After(tasks[k].d)),
           timer' = ~shutdown, BusRests, ChoiceRests,
           UNCHANGED <<snapshot, detected, probe, parked, shutdown>>, dead' = dead \ {tasks[k].d},
           mail' = mail \ {tasks[k].d}
    PROVE  DiscInv'
<1> USE DEF BusRests, ChoiceRests, DocksRest, scannerVars, TaskEnds, NoTask, After, Unused
<1>0. /\ TypeOK /\ ProbeAtWork /\ CreationAtWork /\ WorkApart /\ PrimaryIsOpen /\ DocksAreOpen
      /\ DocksApart /\ StartIsOpen /\ StartApart /\ Registered /\ PoolIsParked /\ PoolApart
      /\ TasksAwait /\ TasksApart /\ DeadWereOpen /\ UnplugReachesPrimary /\ IndexPoolConserved
      /\ NoDockAfterTeardown /\ StaleIsKnown /\ ReconnectPending
  BY DEF DiscInv
<1>1. TypeOK'
  BY <1>0 DEF TypeOK, Held
<1>2. ProbeAtWork' /\ CreationAtWork' /\ TasksAwait'
  BY <1>0, NumbersOnly, TasksTwo DEF ProbeAtWork, CreationAtWork, TasksAwait, TypeOK, TasksApart
<1>4. WorkApart'
  BY <1>0 DEF WorkApart
<1>5. PrimaryIsOpen' /\ DocksAreOpen' /\ StartIsOpen' /\ Registered' /\ PoolIsParked'
  BY <1>0, NumbersOnly DEF PrimaryIsOpen, DocksAreOpen, StartIsOpen, Registered, PoolIsParked,
      TypeOK, TasksAwait
<1>7. DocksApart'
  BY <1>0 DEF DocksApart
<1>9. StartApart'
  BY <1>0 DEF StartApart
<1>12. PoolApart'
  BY <1>0 DEF PoolApart
<1>14. TasksApart'
  BY <1>0 DEF TasksApart
<1>15. DeadWereOpen'
  BY <1>0 DEF DeadWereOpen
<1>16. UnplugReachesPrimary'
  BY <1>0 DEF UnplugReachesPrimary
<1>17. IndexPoolConserved'
  BY <1>0 DEF IndexPoolConserved, Held
<1>18. NoDockAfterTeardown'
  BY <1>0 DEF NoDockAfterTeardown, Held
<1>19. StaleIsKnown'
  BY <1>0 DEF StaleIsKnown
<1>20. ReconnectPending'
  BY <1>0 DEF ReconnectPending
<1> QED BY <1>1, <1>2, <1>4, <1>5, <1>7, <1>9, <1>12, <1>14, <1>15, <1>16, <1>17, <1>18, <1>19,
    <1>20 DEF DiscInv

LEMMA ShutdownStep ==
    ASSUME DiscInv, Shutdown
    PROVE  DiscInv'
<1>0. /\ TypeOK /\ ProbeAtWork /\ CreationAtWork /\ WorkApart /\ PrimaryIsOpen /\ DocksAreOpen
      /\ DocksApart /\ StartIsOpen /\ StartApart /\ Registered /\ PoolIsParked /\ PoolApart
      /\ TasksAwait /\ TasksApart /\ DeadWereOpen /\ UnplugReachesPrimary /\ IndexPoolConserved
      /\ NoDockAfterTeardown /\ StaleIsKnown /\ ReconnectPending
  BY DEF DiscInv
<1>a. /\ create' \in CreateRecs /\ create'.pc = create.pc /\ create'.idx = create.idx
      /\ create'.d = create.d /\ (create'.stale <=> create.pc \in {"open", "start", "close"})
      /\ (create'.stopped <=> create.pc = "start")
      /\ drv' = Closing(Closing(drv, ({primary} \cup {parked[m] : m \in Models}) \ {None}),
               {units[i] : i \in up})
      /\ units' = [i \in Indices |-> None] /\ up' = {} /\ free' = (IF multi THEN Indices ELSE {})
      /\ shutdown' = TRUE /\ timer' = FALSE /\ primary' = None /\ parked' = [m \in Models |-> None]
      /\ UNCHANGED <<plugged, plugs, snapshot, detected, selected, multi, edits, dead, mail,
               probe, tasks>>
  <2> DEFINE a == create.pc \in {"open", "start", "close"}
             b == create.pc = "start"
  <2>1. /\ create' = [create EXCEPT !.stale = a, !.stopped = b]
      /\ drv' = Closing(Closing(drv, ({primary} \cup {parked[m] : m \in Models}) \ {None}),
               {units[i] : i \in up})
      /\ units' = [i \in Indices |-> None] /\ up' = {} /\ free' = (IF multi THEN Indices ELSE {})
      /\ shutdown' = TRUE /\ timer' = FALSE /\ primary' = None /\ parked' = [m \in Models |-> None]
      /\ UNCHANGED <<plugged, plugs, snapshot, detected, selected, multi, edits, dead, mail,
               probe, tasks>>
    BY DEF Shutdown, StopScannedDocks, usbVars, choiceVars
  <2>2. create \in CreateRecs
    BY <1>0 DEF TypeOK, CreateRecs
  <2>3. a \in BOOLEAN /\ b \in BOOLEAN
    OBVIOUS
  <2> HIDE DEF a, b
  <2>4. /\ create' \in CreateRecs /\ create'.pc = create.pc /\ create'.idx = create.idx
        /\ create'.d = create.d /\ (create'.stale <=> a) /\ (create'.stopped <=> b)
    BY <2>1, <2>2, <2>3 DEF CreateRecs
  <2> QED BY <2>1, <2>4 DEF a, b
<1>1. TypeOK'
  <2>1. drv' \in [Drivers -> DriverRecs]
    BY <1>0, <1>a, ClosingTyped DEF TypeOK, DriverRecs
  <2>2. units' \in [Indices -> Drivers \cup {None}] /\ up' \subseteq Held'
           /\ free' \subseteq Indices
    BY <1>0, <1>a
  <2> QED BY <1>0, <1>a, <2>1, <2>2 DEF TypeOK, CreateRecs, DriverRecs
<1>2. ProbeAtWork' /\ CreationAtWork' /\ UnplugReachesPrimary'
  BY <1>0, NumbersOnly DEF ProbeAtWork, CreationAtWork, UnplugReachesPrimary, TypeOK,
      PrimaryIsOpen, DocksAreOpen, Registered, PoolIsParked, usbVars, choiceVars, driverVars,
      scannerVars, Shutdown, StopScannedDocks, Closing
<1>4. /\ WorkApart' /\ PrimaryIsOpen' /\ DocksAreOpen' /\ DocksApart' /\ PoolIsParked'
      /\ PoolApart' /\ TasksApart' /\ IndexPoolConserved' /\ NoDockAfterTeardown'
      /\ ReconnectPending'
  BY <1>0 DEF WorkApart, PrimaryIsOpen, DocksAreOpen, DocksApart, PoolIsParked, PoolApart,
      TasksApart, IndexPoolConserved, NoDockAfterTeardown, ReconnectPending, Held, usbVars,
      choiceVars, driverVars, scannerVars, Shutdown, StopScannedDocks, Closing
<1>8. StartIsOpen' /\ StartApart'
  BY <1>0, NumbersOnly DEF StartIsOpen, StartApart, TypeOK, PrimaryIsOpen, DocksAreOpen,
      Registered, PoolIsParked, DocksApart, usbVars, choiceVars, driverVars, scannerVars, Shutdown,
      StopScannedDocks, Closing
<1>10. Registered'
  BY ONLY <1>0, <1>a, NumbersOnly DEF Registered, StartIsOpen, TypeOK
<1>13. TasksAwait' /\ DeadWereOpen' /\ StaleIsKnown'
  BY <1>0, DiscoveryAssumption DEF TasksAwait, DeadWereOpen, StaleIsKnown, TypeOK, usbVars,
      choiceVars, driverVars, scannerVars, Shutdown, StopScannedDocks, Closing
<1> QED BY <1>1, <1>2, <1>4, <1>8, <1>10, <1>13 DEF DiscInv

-----------------------------------------------------------------------------
(* With opens that settle in time, every step keeps Owned. *)

LEMMA PlugOwns ==
    ASSUME OwnedInv, NEW u \in Units, ~SlowOpen, Plug(u)
    PROVE  Owned'
<1> USE DEF usbVars, choiceVars, driverVars, scannerVars, Plug
<1>0. /\ TypeOK /\ ProbeAtWork /\ CreationAtWork /\ WorkApart /\ PrimaryIsOpen /\ DocksAreOpen
      /\ DocksApart /\ StartIsOpen /\ StartApart /\ Registered /\ PoolIsParked /\ PoolApart
      /\ TasksAwait /\ TasksApart /\ DeadWereOpen /\ UnplugReachesPrimary /\ IndexPoolConserved
      /\ NoDockAfterTeardown /\ StaleIsKnown /\ ReconnectPending
      /\ OneOpenAtATime /\ OpeningIsOwned /\ OpenIsOwned /\ ParkedIsOwned /\ DockUnitsApart
               /\ PrimaryUnitApart /\ OpenedUnitsApart
  BY DEF OwnedInv, DiscInv, Owned
<1>1. /\ OneOpenAtATime' /\ OpeningIsOwned' /\ OpenIsOwned' /\ ParkedIsOwned' /\ DockUnitsApart'
      /\ PrimaryUnitApart' /\ OpenedUnitsApart'
  BY <1>0 DEF OneOpenAtATime, OpeningIsOwned, OpenIsOwned, ParkedIsOwned, DockUnitsApart,
      PrimaryUnitApart, OpenedUnitsApart
<1> QED BY <1>1 DEF Owned

LEMMA UnplugOwns ==
    ASSUME OwnedInv, NEW u \in Units, ~SlowOpen, Unplug(u)
    PROVE  Owned'
<1> USE DEF usbVars, choiceVars, driverVars, scannerVars, Unplug
<1>0. /\ TypeOK /\ ProbeAtWork /\ CreationAtWork /\ WorkApart /\ PrimaryIsOpen /\ DocksAreOpen
      /\ DocksApart /\ StartIsOpen /\ StartApart /\ Registered /\ PoolIsParked /\ PoolApart
      /\ TasksAwait /\ TasksApart /\ DeadWereOpen /\ UnplugReachesPrimary /\ IndexPoolConserved
      /\ NoDockAfterTeardown /\ StaleIsKnown /\ ReconnectPending
      /\ OneOpenAtATime /\ OpeningIsOwned /\ OpenIsOwned /\ ParkedIsOwned /\ DockUnitsApart
               /\ PrimaryUnitApart /\ OpenedUnitsApart
  BY DEF OwnedInv, DiscInv, Owned
<1>1. /\ OneOpenAtATime' /\ OpeningIsOwned' /\ OpenIsOwned' /\ ParkedIsOwned' /\ DockUnitsApart'
      /\ PrimaryUnitApart' /\ OpenedUnitsApart'
  BY <1>0 DEF OneOpenAtATime, OpeningIsOwned, OpenIsOwned, ParkedIsOwned, DockUnitsApart,
      PrimaryUnitApart, OpenedUnitsApart
<1> QED BY <1>1 DEF Owned

LEMMA ReconnectTimerOwns ==
    ASSUME OwnedInv, ~SlowOpen, ReconnectTimer
    PROVE  Owned'
<1> USE DEF usbVars, choiceVars, driverVars, scannerVars, ReconnectTimer, NoProbe
<1>0. /\ TypeOK /\ ProbeAtWork /\ CreationAtWork /\ WorkApart /\ PrimaryIsOpen /\ DocksAreOpen
      /\ DocksApart /\ StartIsOpen /\ StartApart /\ Registered /\ PoolIsParked /\ PoolApart
      /\ TasksAwait /\ TasksApart /\ DeadWereOpen /\ UnplugReachesPrimary /\ IndexPoolConserved
      /\ NoDockAfterTeardown /\ StaleIsKnown /\ ReconnectPending
      /\ OneOpenAtATime /\ OpeningIsOwned /\ OpenIsOwned /\ ParkedIsOwned /\ DockUnitsApart
               /\ PrimaryUnitApart /\ OpenedUnitsApart
  BY DEF OwnedInv, DiscInv, Owned
<1>1. /\ OneOpenAtATime' /\ OpeningIsOwned' /\ OpenIsOwned' /\ ParkedIsOwned' /\ DockUnitsApart'
      /\ PrimaryUnitApart' /\ OpenedUnitsApart'
  BY <1>0 DEF OneOpenAtATime, OpeningIsOwned, OpenIsOwned, ParkedIsOwned, DockUnitsApart,
      PrimaryUnitApart, OpenedUnitsApart
<1> QED BY <1>1 DEF Owned

LEMMA ProbeOpenedLateOwns ==
    ASSUME OwnedInv, ~SlowOpen, ProbeOpened, shutdown
    PROVE  Owned'
<1> USE DEF usbVars, choiceVars, driverVars, scannerVars, ProbeOpened, NoProbe, Closing
<1>0. /\ TypeOK /\ ProbeAtWork /\ CreationAtWork /\ WorkApart /\ PrimaryIsOpen /\ DocksAreOpen
      /\ DocksApart /\ StartIsOpen /\ StartApart /\ Registered /\ PoolIsParked /\ PoolApart
      /\ TasksAwait /\ TasksApart /\ DeadWereOpen /\ UnplugReachesPrimary /\ IndexPoolConserved
      /\ NoDockAfterTeardown /\ StaleIsKnown /\ ReconnectPending
      /\ OneOpenAtATime /\ OpeningIsOwned /\ OpenIsOwned /\ ParkedIsOwned /\ DockUnitsApart
               /\ PrimaryUnitApart /\ OpenedUnitsApart
  BY DEF OwnedInv, DiscInv, Owned
<1>1. OneOpenAtATime'
  BY <1>0 DEF OneOpenAtATime
<1>2. OpeningIsOwned'
  BY <1>0, NumbersOnly DEF OpeningIsOwned, TypeOK, ProbeAtWork, PoolIsParked
<1>3. OpenIsOwned'
  BY <1>0, NumbersOnly DEF OpenIsOwned, TypeOK, ProbeAtWork, PoolIsParked
<1>4. ParkedIsOwned'
  BY <1>0, NumbersOnly DEF ParkedIsOwned, TypeOK, ProbeAtWork, PoolIsParked
<1>5. DockUnitsApart'
  BY <1>0, NumbersOnly DEF DockUnitsApart, TypeOK, ProbeAtWork, PoolIsParked
<1>6. PrimaryUnitApart' /\ OpenedUnitsApart'
  BY <1>0, NumbersOnly DEF PrimaryUnitApart, OpenedUnitsApart, ProbeAtWork, PoolIsParked, TypeOK,
      OneOpenAtATime
<1> QED BY <1>1, <1>2, <1>3, <1>4, <1>5, <1>6 DEF Owned

LEMMA ProbeOpenedOwns ==
    ASSUME OwnedInv, ~SlowOpen, ProbeOpened, ~shutdown
    PROVE  Owned'
<1> USE DEF usbVars, choiceVars, driverVars, scannerVars, ProbeOpened, NoProbe
<1>0. /\ TypeOK /\ ProbeAtWork /\ CreationAtWork /\ WorkApart /\ PrimaryIsOpen /\ DocksAreOpen
      /\ DocksApart /\ StartIsOpen /\ StartApart /\ Registered /\ PoolIsParked /\ PoolApart
      /\ TasksAwait /\ TasksApart /\ DeadWereOpen /\ UnplugReachesPrimary /\ IndexPoolConserved
      /\ NoDockAfterTeardown /\ StaleIsKnown /\ ReconnectPending
      /\ OneOpenAtATime /\ OpeningIsOwned /\ OpenIsOwned /\ ParkedIsOwned /\ DockUnitsApart
               /\ PrimaryUnitApart /\ OpenedUnitsApart
  BY DEF OwnedInv, DiscInv, Owned
<1>1. OneOpenAtATime'
  BY <1>0 DEF OneOpenAtATime
<1>2. OpeningIsOwned'
  BY <1>0, NumbersOnly DEF OpeningIsOwned, TypeOK, ProbeAtWork
<1>3. OpenIsOwned' /\ OpenedUnitsApart'
  BY <1>0, NumbersOnly DEF OpenIsOwned, OpenedUnitsApart, ProbeAtWork, TypeOK, OneOpenAtATime
<1>4. ParkedIsOwned'
  BY <1>0, NumbersOnly DEF ParkedIsOwned, TypeOK, ProbeAtWork
<1>5. DockUnitsApart'
  BY <1>0, NumbersOnly DEF DockUnitsApart, TypeOK, ProbeAtWork
<1>6. PrimaryUnitApart'
  BY <1>0, NumbersOnly DEF PrimaryUnitApart, ProbeAtWork, TypeOK, PrimaryIsOpen, DocksAreOpen,
      DocksApart, StartIsOpen, StartApart, Registered, OneOpenAtATime, DockUnitsApart,
      OpenedUnitsApart, ClaimedPaths, Held
<1> QED BY <1>1, <1>2, <1>3, <1>4, <1>5, <1>6 DEF Owned

LEMMA ProbeFailsLateOwns ==
    ASSUME OwnedInv, ~SlowOpen, ProbeOpenFails, shutdown
    PROVE  Owned'
<1> USE DEF usbVars, choiceVars, driverVars, scannerVars, ProbeOpenFails, Closing
<1>0. /\ TypeOK /\ ProbeAtWork /\ CreationAtWork /\ WorkApart /\ PrimaryIsOpen /\ DocksAreOpen
      /\ DocksApart /\ StartIsOpen /\ StartApart /\ Registered /\ PoolIsParked /\ PoolApart
      /\ TasksAwait /\ TasksApart /\ DeadWereOpen /\ UnplugReachesPrimary /\ IndexPoolConserved
      /\ NoDockAfterTeardown /\ StaleIsKnown /\ ReconnectPending
      /\ OneOpenAtATime /\ OpeningIsOwned /\ OpenIsOwned /\ ParkedIsOwned /\ DockUnitsApart
               /\ PrimaryUnitApart /\ OpenedUnitsApart
  BY DEF OwnedInv, DiscInv, Owned
<1>1. OneOpenAtATime'
  BY <1>0, NumbersOnly DEF OneOpenAtATime, TypeOK, ProbeAtWork
<1>2. OpeningIsOwned'
  BY <1>0, NumbersOnly DEF OpeningIsOwned, TypeOK, ProbeAtWork
<1>3. OpenIsOwned'
  BY <1>0, NumbersOnly DEF OpenIsOwned, TypeOK, ProbeAtWork
<1>4. ParkedIsOwned'
  BY <1>0, NumbersOnly DEF ParkedIsOwned, TypeOK, ProbeAtWork
<1>5. DockUnitsApart'
  BY <1>0, NumbersOnly DEF DockUnitsApart, TypeOK, ProbeAtWork
<1>6. PrimaryUnitApart' /\ OpenedUnitsApart'
  BY <1>0, NumbersOnly DEF PrimaryUnitApart, OpenedUnitsApart, ProbeAtWork, TypeOK, OneOpenAtATime
<1> QED BY <1>1, <1>2, <1>3, <1>4, <1>5, <1>6 DEF Owned

LEMMA ProbeFailsAndOpensOwns ==
    ASSUME OwnedInv, NEW m \in Models, NEW d \in Drivers, NEW u \in Units \ ClaimedPaths,
           ~SlowOpen, probe.pc = "open", ~shutdown,
           ProbeOpens(AfterFailure, PoolAfterFailure, m, d, u), create' = create,
           snapshot' = snapshot, detected' = detected, BusRests, ChoiceRests,
           UNCHANGED <<dead, mail, primary, shutdown, tasks, units, up, free>>
    PROVE  Owned'
<1>0. /\ TypeOK /\ ProbeAtWork /\ CreationAtWork /\ WorkApart /\ PrimaryIsOpen /\ DocksAreOpen
      /\ DocksApart /\ StartIsOpen /\ StartApart /\ Registered /\ PoolIsParked /\ PoolApart
      /\ TasksAwait /\ TasksApart /\ DeadWereOpen /\ UnplugReachesPrimary /\ IndexPoolConserved
      /\ NoDockAfterTeardown /\ StaleIsKnown /\ ReconnectPending
      /\ OneOpenAtATime /\ OpeningIsOwned /\ OpenIsOwned /\ ParkedIsOwned /\ DockUnitsApart
               /\ PrimaryUnitApart /\ OpenedUnitsApart
  BY DEF OwnedInv, DiscInv, Owned
<1>a. /\ \A e \in Drivers : e # d /\ e # probe.d => drv'[e] = drv[e]
      /\ drv'[d].st = "opening" /\ drv'[d].path = u /\ u # None
      /\ d # probe.d => drv'[probe.d].st = "parked"
      /\ d = probe.d \/ drv[d].st \in {"free", "parked"}
      /\ probe.d \in Drivers /\ drv[probe.d].st = "opening"
      /\ ModelOf[drv[probe.d].path] \in Models
      /\ d = probe.d => m = ModelOf[drv[probe.d].path]
      /\ d # probe.d => parked[m] = d \/ drv[d].st = "free"
      /\ m = ModelOf[drv[probe.d].path] => d = probe.d
      /\ m # ModelOf[drv[probe.d].path] => parked[m] \in {d, None}
      /\ \A n \in Models : parked'[n] = IF n = m THEN None
                                      ELSE IF n = ModelOf[drv[probe.d].path] THEN probe.d
                                               ELSE parked[n]
  <2>1. probe.d \in Drivers /\ drv[probe.d].st = "opening" /\ drv[probe.d].path \in Units
    BY <1>0 DEF TypeOK, ProbeAtWork
  <2>2. u # None
    BY NumbersOnly
  <2>3. /\ drv' = [AfterFailure EXCEPT ![d] = [st |-> "opening", path |-> u]]
        /\ PoolAfterFailure[m] = d \/ (PoolAfterFailure[m] = None /\ AfterFailure[d].st = "free")
        /\ parked' = [PoolAfterFailure EXCEPT ![m] = None]
    BY DEF ProbeOpens, Opens
  <2>4. AfterFailure[d].st = IF d = probe.d THEN "parked" ELSE drv[d].st
    BY <1>0 DEF TypeOK, AfterFailure
  <2>5. PoolAfterFailure[m] = IF m = ModelOf[drv[probe.d].path] THEN probe.d ELSE parked[m]
    BY <1>0, <2>1 DEF TypeOK, PoolAfterFailure
  <2>6. d = probe.d \/ drv[d].st \in {"free", "parked"}
    BY <1>0, <2>3, <2>4, <2>5, NumbersOnly DEF PoolIsParked
  <2>7. /\ \A e \in Drivers : e # d /\ e # probe.d => drv'[e] = drv[e]
        /\ drv'[d] = [st |-> "opening", path |-> u]
        /\ d # probe.d => drv'[probe.d].st = "parked"
    BY <1>0, <2>1, <2>3 DEF TypeOK, AfterFailure
  <2>8. \A n \in Models : parked'[n] = IF n = m THEN None
                                      ELSE IF n = ModelOf[drv[probe.d].path] THEN probe.d
                                               ELSE parked[n]
    BY <1>0, <2>1, <2>3 DEF TypeOK, PoolAfterFailure
  <2>10. d = probe.d => m = ModelOf[drv[probe.d].path]
    BY <1>0, <2>1, <2>3, <2>4, <2>5, NumbersOnly DEF PoolIsParked
  <2>11. d # probe.d => parked[m] = d \/ drv[d].st = "free"
    BY <1>0, <2>1, <2>3, <2>4, <2>5
  <2>12. m = ModelOf[drv[probe.d].path] => d = probe.d
    BY <2>1, <2>3, <2>5, NumbersOnly
  <2>13. m # ModelOf[drv[probe.d].path] => parked[m] \in {d, None}
    BY <2>3, <2>5
  <2>9. ModelOf[drv[probe.d].path] \in Models
    BY <2>1, ModelsKnown
  <2> QED BY <2>1, <2>2, <2>3, <2>6, <2>7, <2>8, <2>9, <2>10, <2>11, <2>12, <2>13
<1>1. OneOpenAtATime' /\ OpeningIsOwned' /\ OpenIsOwned'
  BY <1>0, NumbersOnly DEF OneOpenAtATime, OpeningIsOwned, OpenIsOwned, TypeOK, ProbeAtWork,
      PoolIsParked, PoolApart, BusRests, ChoiceRests, DocksRest, ProbeOpens, Opens, AfterFailure,
      PoolAfterFailure
<1>4. ParkedIsOwned'
  <2> SUFFICES ASSUME NEW x \in Drivers, drv'[x].st = "parked"
               PROVE  \E n \in Models : parked'[n] = x
    BY DEF ParkedIsOwned
  <2>1. x # d
    BY <1>a
  <2>2. CASE x = probe.d
    BY <1>a, <2>1, <2>2
  <2>3. CASE x # probe.d
    <3>1. PICK n \in Models : parked[n] = x
      BY <1>0, <1>a, <2>1, <2>3 DEF ParkedIsOwned
    <3>2. n # m /\ n # ModelOf[drv[probe.d].path]
      BY <1>0, <1>a, <2>1, <2>3, <3>1, NumbersOnly DEF OneOpenAtATime
    <3> QED BY <1>a, <3>1, <3>2
  <2> QED BY <2>2, <2>3
<1>5. DockUnitsApart'
  <2>1. \A i \in Indices : units[i] # None => drv'[units[i]] = drv[units[i]]
    BY <1>0, <1>a DEF TypeOK, DocksAreOpen
  <2> QED BY <1>0, <2>1 DEF DockUnitsApart
<1>6. PrimaryUnitApart'
  BY <1>0, NumbersOnly DEF PrimaryUnitApart, ProbeAtWork, PoolIsParked, PoolApart, TypeOK,
      OneOpenAtATime, BusRests, ChoiceRests, DocksRest, ProbeOpens, Opens, AfterFailure,
      PoolAfterFailure
<1>7. OpenedUnitsApart'
  <2>1. \A i \in Indices : units[i] # None => drv'[units[i]] = drv[units[i]]
    BY <1>0, <1>a DEF TypeOK, DocksAreOpen
  <2>2. probe'.d = d /\ drv'[d].path = u /\ create.pc # "open"
    BY <1>0, <1>a DEF ProbeOpens, OneOpenAtATime
  <2>3. \A i \in Indices : units[i] # None => drv[units[i]].path # u
    BY DEF ClaimedPaths, Held
  <2> QED BY <2>1, <2>2, <2>3 DEF OpenedUnitsApart
<1> QED BY <1>1, <1>4, <1>5, <1>6, <1>7 DEF Owned

LEMMA ProbeFailsAndEndsOwns ==
    ASSUME OwnedInv, ~SlowOpen, probe.pc = "open", ~shutdown,
           ProbeEnds(AfterFailure, PoolAfterFailure), create' = create, snapshot' = snapshot,
           detected' = detected, BusRests, ChoiceRests,
           UNCHANGED <<dead, mail, primary, shutdown, tasks, units, up, free>>
    PROVE  Owned'
<1> USE DEF BusRests, ChoiceRests, DocksRest, ProbeEnds, NoProbe, AfterFailure, PoolAfterFailure
<1>0. /\ TypeOK /\ ProbeAtWork /\ CreationAtWork /\ WorkApart /\ PrimaryIsOpen /\ DocksAreOpen
      /\ DocksApart /\ StartIsOpen /\ StartApart /\ Registered /\ PoolIsParked /\ PoolApart
      /\ TasksAwait /\ TasksApart /\ DeadWereOpen /\ UnplugReachesPrimary /\ IndexPoolConserved
      /\ NoDockAfterTeardown /\ StaleIsKnown /\ ReconnectPending
      /\ OneOpenAtATime /\ OpeningIsOwned /\ OpenIsOwned /\ ParkedIsOwned /\ DockUnitsApart
               /\ PrimaryUnitApart /\ OpenedUnitsApart
  BY DEF OwnedInv, DiscInv, Owned
<1>1. OneOpenAtATime' /\ OpenIsOwned'
  BY <1>0 DEF OneOpenAtATime, OpenIsOwned
<1>2. OpeningIsOwned'
  BY <1>0, NumbersOnly DEF OpeningIsOwned, TypeOK, ProbeAtWork
<1>4. ParkedIsOwned'
  <2>1. /\ drv' = AfterFailure /\ parked' = PoolAfterFailure
        /\ probe.d \in Drivers /\ drv[probe.d].path \in Units
                 /\ parked[ModelOf[drv[probe.d].path]] = None
        /\ probe.d # None
    BY <1>0 DEF TypeOK, ProbeAtWork, OneOpenAtATime
  <2>2. ModelOf[drv[probe.d].path] \in Models
    BY <2>1, ModelsKnown
  <2>3. \A n \in Models : parked'[n] = IF n = ModelOf[drv[probe.d].path] THEN probe.d ELSE parked[n]
    BY <1>0, <2>1, <2>2 DEF TypeOK, PoolAfterFailure
  <2>4. \A x \in Drivers : x # probe.d => drv'[x] = drv[x]
    BY <1>0, <2>1 DEF TypeOK, AfterFailure
  <2>5. SUFFICES ASSUME NEW x \in Drivers, drv'[x].st = "parked"
                 PROVE  \E n \in Models : parked'[n] = x
    BY DEF ParkedIsOwned
  <2>6. CASE x = probe.d
    BY ONLY <2>2, <2>3, <2>6
  <2>7. CASE x # probe.d
    <3>1. drv[x].st = "parked"
      BY ONLY <2>4, <2>5, <2>7
    <3>2. PICK n \in Models : parked[n] = x
      BY ONLY <1>0, <3>1 DEF ParkedIsOwned
    <3>3. n # ModelOf[drv[probe.d].path]
      BY <2>1, <3>2, NumbersOnly
    <3> QED BY ONLY <2>3, <3>2, <3>3
  <2> QED BY <2>6, <2>7
<1>5. DockUnitsApart'
  BY <1>0, NumbersOnly DEF DockUnitsApart, ProbeAtWork, TypeOK, PrimaryIsOpen, DocksAreOpen,
      DocksApart, StartIsOpen, StartApart, Registered, OneOpenAtATime, PrimaryUnitApart,
      OpenedUnitsApart, ClaimedPaths, Held
<1>6. PrimaryUnitApart' /\ OpenedUnitsApart'
  BY <1>0, NumbersOnly DEF PrimaryUnitApart, OpenedUnitsApart, ProbeAtWork, TypeOK, OneOpenAtATime
<1> QED BY <1>1, <1>2, <1>4, <1>5, <1>6 DEF Owned

LEMMA ScanTickOwns ==
    ASSUME OwnedInv, ~SlowOpen, ScanTick
    PROVE  Owned'
<1> USE DEF usbVars, choiceVars, driverVars, scannerVars, ScanTick, NoCreate
<1>0. /\ TypeOK /\ ProbeAtWork /\ CreationAtWork /\ WorkApart /\ PrimaryIsOpen /\ DocksAreOpen
      /\ DocksApart /\ StartIsOpen /\ StartApart /\ Registered /\ PoolIsParked /\ PoolApart
      /\ TasksAwait /\ TasksApart /\ DeadWereOpen /\ UnplugReachesPrimary /\ IndexPoolConserved
      /\ NoDockAfterTeardown /\ StaleIsKnown /\ ReconnectPending
      /\ OneOpenAtATime /\ OpeningIsOwned /\ OpenIsOwned /\ ParkedIsOwned /\ DockUnitsApart
               /\ PrimaryUnitApart /\ OpenedUnitsApart
  BY DEF OwnedInv, DiscInv, Owned
<1>1. /\ OneOpenAtATime' /\ OpeningIsOwned' /\ OpenIsOwned' /\ ParkedIsOwned' /\ DockUnitsApart'
      /\ PrimaryUnitApart' /\ OpenedUnitsApart'
  BY <1>0 DEF OneOpenAtATime, OpeningIsOwned, OpenIsOwned, ParkedIsOwned, DockUnitsApart,
      PrimaryUnitApart, OpenedUnitsApart
<1> QED BY <1>1 DEF Owned

LEMMA ScanProbeOpensOwns ==
    ASSUME OwnedInv, NEW m \in Models, NEW d \in Drivers, NEW u \in Units \ ClaimedPaths,
           ~SlowOpen, probe.pc = "scan", ProbeOpens(drv, parked, m, d, u),
           create' = IF create.pc = "scan" THEN NoCreate ELSE create, snapshot' \in SUBSET Units,
           detected' \in SUBSET Units, BusRests, ChoiceRests,
           UNCHANGED <<dead, mail, primary, shutdown, tasks, units, up, free>>
    PROVE  Owned'
<1> USE DEF BusRests, ChoiceRests, DocksRest, ProbeOpens, Opens, NoCreate
<1>0. /\ TypeOK /\ ProbeAtWork /\ CreationAtWork /\ WorkApart /\ PrimaryIsOpen /\ DocksAreOpen
      /\ DocksApart /\ StartIsOpen /\ StartApart /\ Registered /\ PoolIsParked /\ PoolApart
      /\ TasksAwait /\ TasksApart /\ DeadWereOpen /\ UnplugReachesPrimary /\ IndexPoolConserved
      /\ NoDockAfterTeardown /\ StaleIsKnown /\ ReconnectPending
      /\ OneOpenAtATime /\ OpeningIsOwned /\ OpenIsOwned /\ ParkedIsOwned /\ DockUnitsApart
               /\ PrimaryUnitApart /\ OpenedUnitsApart
  BY DEF OwnedInv, DiscInv, Owned
<1>1. OneOpenAtATime' /\ ParkedIsOwned'
  BY <1>0, NumbersOnly DEF OneOpenAtATime, ParkedIsOwned, TypeOK, PoolIsParked, PoolApart
<1>2. OpeningIsOwned' /\ OpenIsOwned'
  BY <1>0 DEF OpeningIsOwned, OpenIsOwned
<1>5. DockUnitsApart'
  BY <1>0, NumbersOnly DEF DockUnitsApart, PoolIsParked, PoolApart, TypeOK, PrimaryIsOpen,
      DocksAreOpen, DocksApart, StartIsOpen, StartApart, Registered
<1>6. PrimaryUnitApart'
  BY <1>0, NumbersOnly DEF PrimaryUnitApart, PoolIsParked, PoolApart, TypeOK, OneOpenAtATime
<1>7. OpenedUnitsApart'
  BY <1>0, NumbersOnly DEF OpenedUnitsApart, PoolIsParked, PoolApart, TypeOK, PrimaryIsOpen,
      DocksAreOpen, DocksApart, StartIsOpen, StartApart, Registered, OneOpenAtATime,
      DockUnitsApart, PrimaryUnitApart, ClaimedPaths, Held
<1> QED BY <1>1, <1>2, <1>5, <1>6, <1>7 DEF Owned

LEMMA ScanProbeEndsOwns ==
    ASSUME OwnedInv, ~SlowOpen, probe.pc = "scan", ProbeEnds(drv, parked),
           create' = IF create.pc = "scan" THEN NoCreate ELSE create, snapshot' \in SUBSET Units,
           detected' \in SUBSET Units, BusRests, ChoiceRests,
           UNCHANGED <<dead, mail, primary, shutdown, tasks, units, up, free>>
    PROVE  Owned'
<1> USE DEF BusRests, ChoiceRests, DocksRest, ProbeEnds, NoProbe, NoCreate, Closing
<1>0. /\ TypeOK /\ ProbeAtWork /\ CreationAtWork /\ WorkApart /\ PrimaryIsOpen /\ DocksAreOpen
      /\ DocksApart /\ StartIsOpen /\ StartApart /\ Registered /\ PoolIsParked /\ PoolApart
      /\ TasksAwait /\ TasksApart /\ DeadWereOpen /\ UnplugReachesPrimary /\ IndexPoolConserved
      /\ NoDockAfterTeardown /\ StaleIsKnown /\ ReconnectPending
      /\ OneOpenAtATime /\ OpeningIsOwned /\ OpenIsOwned /\ ParkedIsOwned /\ DockUnitsApart
               /\ PrimaryUnitApart /\ OpenedUnitsApart
  BY DEF OwnedInv, DiscInv, Owned
<1>1. OneOpenAtATime' /\ OpeningIsOwned' /\ OpenIsOwned' /\ ParkedIsOwned'
  BY <1>0 DEF OneOpenAtATime, OpeningIsOwned, OpenIsOwned, ParkedIsOwned
<1>5. DockUnitsApart'
  BY <1>0, NumbersOnly DEF DockUnitsApart, TypeOK, PoolIsParked, PoolApart
<1>6. PrimaryUnitApart' /\ OpenedUnitsApart'
  BY <1>0, NumbersOnly DEF PrimaryUnitApart, OpenedUnitsApart, PoolIsParked, PoolApart, TypeOK,
      OneOpenAtATime
<1> QED BY <1>1, <1>5, <1>6 DEF Owned

LEMMA ScannerOpensOwns ==
    ASSUME OwnedInv, NEW m \in Models, NEW d \in Drivers, NEW u \in Units \ ClaimedPaths,
           ~SlowOpen, create.pc = "scan", ScannerOpens(m, d, u), UNCHANGED <<probe, timer>>,
           snapshot' \in SUBSET Units, detected' \in SUBSET Units, BusRests, ChoiceRests,
           UNCHANGED <<dead, mail, primary, shutdown, tasks, units, up, free>>
    PROVE  Owned'
<1> USE DEF BusRests, ChoiceRests, DocksRest, ScannerOpens, Opens, ScanTarget
<1>0. /\ TypeOK /\ ProbeAtWork /\ CreationAtWork /\ WorkApart /\ PrimaryIsOpen /\ DocksAreOpen
      /\ DocksApart /\ StartIsOpen /\ StartApart /\ Registered /\ PoolIsParked /\ PoolApart
      /\ TasksAwait /\ TasksApart /\ DeadWereOpen /\ UnplugReachesPrimary /\ IndexPoolConserved
      /\ NoDockAfterTeardown /\ StaleIsKnown /\ ReconnectPending
      /\ OneOpenAtATime /\ OpeningIsOwned /\ OpenIsOwned /\ ParkedIsOwned /\ DockUnitsApart
               /\ PrimaryUnitApart /\ OpenedUnitsApart
  BY DEF OwnedInv, DiscInv, Owned
<1>1. OneOpenAtATime' /\ ParkedIsOwned'
  BY <1>0, NumbersOnly DEF OneOpenAtATime, ParkedIsOwned, TypeOK, PoolIsParked, PoolApart
<1>2. OpeningIsOwned' /\ OpenIsOwned'
  BY <1>0 DEF OpeningIsOwned, OpenIsOwned
<1>5. DockUnitsApart' /\ PrimaryUnitApart'
  BY <1>0, NumbersOnly DEF DockUnitsApart, PrimaryUnitApart, PoolIsParked, PoolApart, TypeOK,
      PrimaryIsOpen, DocksAreOpen, DocksApart, StartIsOpen, StartApart, Registered
<1>7. OpenedUnitsApart'
  BY <1>0, NumbersOnly DEF OpenedUnitsApart, PoolIsParked, PoolApart, TypeOK, PrimaryIsOpen,
      DocksAreOpen, DocksApart, StartIsOpen, StartApart, Registered, OneOpenAtATime,
      DockUnitsApart, PrimaryUnitApart, ClaimedPaths, Held
<1> QED BY <1>1, <1>2, <1>5, <1>7 DEF Owned

LEMMA ScannerGivesUpOwns ==
    ASSUME OwnedInv, ~SlowOpen, create.pc = "scan", create' = NoCreate,
           UNCHANGED <<drv, parked, probe, timer>>, snapshot' \in SUBSET Units,
           detected' \in SUBSET Units, BusRests, ChoiceRests,
           UNCHANGED <<dead, mail, primary, shutdown, tasks, units, up, free>>
    PROVE  Owned'
<1> USE DEF BusRests, ChoiceRests, DocksRest, NoCreate
<1>0. /\ TypeOK /\ ProbeAtWork /\ CreationAtWork /\ WorkApart /\ PrimaryIsOpen /\ DocksAreOpen
      /\ DocksApart /\ StartIsOpen /\ StartApart /\ Registered /\ PoolIsParked /\ PoolApart
      /\ TasksAwait /\ TasksApart /\ DeadWereOpen /\ UnplugReachesPrimary /\ IndexPoolConserved
      /\ NoDockAfterTeardown /\ StaleIsKnown /\ ReconnectPending
      /\ OneOpenAtATime /\ OpeningIsOwned /\ OpenIsOwned /\ ParkedIsOwned /\ DockUnitsApart
               /\ PrimaryUnitApart /\ OpenedUnitsApart
  BY DEF OwnedInv, DiscInv, Owned
<1>1. /\ OneOpenAtATime' /\ OpeningIsOwned' /\ OpenIsOwned' /\ ParkedIsOwned' /\ DockUnitsApart'
      /\ PrimaryUnitApart' /\ OpenedUnitsApart'
  BY <1>0 DEF OneOpenAtATime, OpeningIsOwned, OpenIsOwned, ParkedIsOwned, DockUnitsApart,
      PrimaryUnitApart, OpenedUnitsApart
<1> QED BY <1>1 DEF Owned

LEMMA CreateOpenedLateOwns ==
    ASSUME OwnedInv, ~SlowOpen, CreateOpened, Stale \/ free = {}
    PROVE  Owned'
<1> USE DEF usbVars, choiceVars, driverVars, scannerVars, CreateOpened, Closing
<1>0. /\ TypeOK /\ ProbeAtWork /\ CreationAtWork /\ WorkApart /\ PrimaryIsOpen /\ DocksAreOpen
      /\ DocksApart /\ StartIsOpen /\ StartApart /\ Registered /\ PoolIsParked /\ PoolApart
      /\ TasksAwait /\ TasksApart /\ DeadWereOpen /\ UnplugReachesPrimary /\ IndexPoolConserved
      /\ NoDockAfterTeardown /\ StaleIsKnown /\ ReconnectPending
      /\ OneOpenAtATime /\ OpeningIsOwned /\ OpenIsOwned /\ ParkedIsOwned /\ DockUnitsApart
               /\ PrimaryUnitApart /\ OpenedUnitsApart
  BY DEF OwnedInv, DiscInv, Owned
<1>1. OneOpenAtATime'
  BY <1>0, NumbersOnly DEF OneOpenAtATime, TypeOK, CreationAtWork
<1>2. OpeningIsOwned'
  BY <1>0, NumbersOnly DEF OpeningIsOwned, TypeOK, CreationAtWork
<1>3. OpenIsOwned'
  BY <1>0, NumbersOnly DEF OpenIsOwned, TypeOK, CreationAtWork
<1>4. ParkedIsOwned'
  BY <1>0, NumbersOnly DEF ParkedIsOwned, TypeOK, CreationAtWork
<1>5. DockUnitsApart'
  BY <1>0, NumbersOnly DEF DockUnitsApart, TypeOK, CreationAtWork
<1>6. PrimaryUnitApart'
  <2>1. \A d \in Drivers : drv'[d].path = drv[d].path
    BY <1>0 DEF TypeOK, CreationAtWork
  <2>2. UNCHANGED <<units, primary>> /\ create'.pc = "close"
    BY <1>0 DEF TypeOK
  <2>3. \A i \in Indices : units[i] \in Drivers \cup {None}
    BY <1>0 DEF TypeOK
  <2>4. primary \in Drivers \cup {None}
    BY <1>0 DEF TypeOK
  <2> QED BY ONLY <1>0, <2>1, <2>2, <2>3, <2>4 DEF PrimaryUnitApart
<1>7. OpenedUnitsApart'
  BY <1>0, NumbersOnly DEF OpenedUnitsApart, CreationAtWork, TypeOK, OneOpenAtATime
<1> QED BY <1>1, <1>2, <1>3, <1>4, <1>5, <1>6, <1>7 DEF Owned

LEMMA CreateOpenedOwns ==
    ASSUME OwnedInv, ~SlowOpen, CreateOpened, ~Stale, NEW i \in free, i = Min(free)
    PROVE  Owned'
<1>0. /\ TypeOK /\ ProbeAtWork /\ CreationAtWork /\ WorkApart /\ PrimaryIsOpen /\ DocksAreOpen
      /\ DocksApart /\ StartIsOpen /\ StartApart /\ Registered /\ PoolIsParked /\ PoolApart
      /\ TasksAwait /\ TasksApart /\ DeadWereOpen /\ UnplugReachesPrimary /\ IndexPoolConserved
      /\ NoDockAfterTeardown /\ StaleIsKnown /\ ReconnectPending
      /\ OneOpenAtATime /\ OpeningIsOwned /\ OpenIsOwned /\ ParkedIsOwned /\ DockUnitsApart
               /\ PrimaryUnitApart /\ OpenedUnitsApart
  BY DEF OwnedInv, DiscInv, Owned
<1>a. /\ create.pc = "open" /\ create' \in CreateRecs /\ create'.pc = "start" /\ create'.idx = i
      /\ create'.d = create.d /\ create'.stopped = create.stopped
      /\ drv' = [drv EXCEPT ![create.d].st = "open"] /\ create.d \in Drivers
      /\ units' = [units EXCEPT ![i] = create.d] /\ free' = free \ {i} /\ i \in Indices
               /\ units[i] = None
      /\ UNCHANGED <<plugged, plugs, snapshot, detected, selected, multi, edits, dead, mail,
               primary, probe,
                   timer, parked, up, shutdown, tasks>>
  <2>1. /\ create' = [create EXCEPT !.pc = "start", !.idx = Min(free)]
        /\ UNCHANGED <<plugged, plugs, snapshot, detected, selected, multi, edits, dead, mail,
                 primary, probe,
                   timer, parked, up, shutdown, tasks>>
        /\ drv' = [drv EXCEPT ![create.d].st = "open"] /\ create.pc = "open"
        /\ units' = [units EXCEPT ![Min(free)] = create.d] /\ free' = free \ {Min(free)}
    BY DEF CreateOpened, usbVars, choiceVars
  <2>2. create \in CreateRecs /\ i \in Indices
    BY <1>0 DEF TypeOK, CreateRecs
  <2>3. create.d \in Drivers /\ units[i] = None
    BY <1>0, <2>1, <2>2 DEF TypeOK, CreationAtWork, IndexPoolConserved, Held
  <2>4. create' = [create EXCEPT !.pc = "start", !.idx = i]
    BY <2>1
  <2>5. /\ create' \in CreateRecs /\ create'.pc = "start" /\ create'.idx = i
        /\ create'.d = create.d /\ create'.stopped = create.stopped
    BY <2>2, <2>4 DEF CreateRecs
  <2>6. units' = [units EXCEPT ![i] = create.d] /\ free' = free \ {i}
    BY <2>1
  <2> QED BY <2>1, <2>2, <2>3, <2>5, <2>6
<1>1. OneOpenAtATime'
  BY <1>0, <1>a, NumbersOnly DEF OneOpenAtATime, TypeOK, CreationAtWork, WorkApart
<1>2. OpeningIsOwned'
  BY <1>0, NumbersOnly DEF OpeningIsOwned, TypeOK, CreationAtWork, usbVars, choiceVars, driverVars,
      scannerVars, CreateOpened, Stale
<1>3. OpenIsOwned'
  BY <1>0, <1>a, NumbersOnly DEF OpenIsOwned, TypeOK, CreationAtWork, Registered
<1>4. ParkedIsOwned'
  BY <1>0, NumbersOnly DEF ParkedIsOwned, TypeOK, CreationAtWork, usbVars, choiceVars, driverVars,
      scannerVars, CreateOpened, Stale
<1>5. DockUnitsApart'
  BY <1>0, NumbersOnly DEF DockUnitsApart, CreationAtWork, TypeOK, PrimaryIsOpen, DocksAreOpen,
      DocksApart, StartIsOpen, StartApart, Registered, OneOpenAtATime, PrimaryUnitApart,
      OpenedUnitsApart, ClaimedPaths, Held, usbVars, choiceVars, driverVars, scannerVars,
      CreateOpened, Stale
<1>6. PrimaryUnitApart'
  BY <1>0, <1>a, NumbersOnly DEF PrimaryUnitApart, TypeOK, CreationAtWork, PrimaryIsOpen,
      DocksAreOpen
<1>7. OpenedUnitsApart'
  BY <1>0, <1>a, NumbersOnly DEF OpenedUnitsApart, TypeOK, CreationAtWork, OneOpenAtATime,
      WorkApart, ProbeAtWork, DocksAreOpen
<1> QED BY <1>1, <1>2, <1>3, <1>4, <1>5, <1>6, <1>7 DEF Owned

LEMMA CreateOpenFailsLateOwns ==
    ASSUME OwnedInv, ~SlowOpen, CreateOpenFails, Stale
    PROVE  Owned'
<1> USE DEF usbVars, choiceVars, driverVars, scannerVars, CreateOpenFails, Closing
<1>0. /\ TypeOK /\ ProbeAtWork /\ CreationAtWork /\ WorkApart /\ PrimaryIsOpen /\ DocksAreOpen
      /\ DocksApart /\ StartIsOpen /\ StartApart /\ Registered /\ PoolIsParked /\ PoolApart
      /\ TasksAwait /\ TasksApart /\ DeadWereOpen /\ UnplugReachesPrimary /\ IndexPoolConserved
      /\ NoDockAfterTeardown /\ StaleIsKnown /\ ReconnectPending
      /\ OneOpenAtATime /\ OpeningIsOwned /\ OpenIsOwned /\ ParkedIsOwned /\ DockUnitsApart
               /\ PrimaryUnitApart /\ OpenedUnitsApart
  BY DEF OwnedInv, DiscInv, Owned
<1>1. OneOpenAtATime'
  BY <1>0, NumbersOnly DEF OneOpenAtATime, TypeOK, CreationAtWork
<1>2. OpeningIsOwned'
  BY <1>0, NumbersOnly DEF OpeningIsOwned, TypeOK, CreationAtWork
<1>3. OpenIsOwned'
  BY <1>0, NumbersOnly DEF OpenIsOwned, TypeOK, CreationAtWork
<1>4. ParkedIsOwned'
  BY <1>0, NumbersOnly DEF ParkedIsOwned, TypeOK, CreationAtWork
<1>5. DockUnitsApart'
  BY <1>0, NumbersOnly DEF DockUnitsApart, TypeOK, CreationAtWork
<1>6. PrimaryUnitApart'
  BY <1>0, NumbersOnly DEF PrimaryUnitApart, TypeOK, CreationAtWork
<1>7. OpenedUnitsApart'
  BY <1>0, NumbersOnly DEF OpenedUnitsApart, CreationAtWork, TypeOK, OneOpenAtATime
<1> QED BY <1>1, <1>2, <1>3, <1>4, <1>5, <1>6, <1>7 DEF Owned

LEMMA CreateOpenFailsOwns ==
    ASSUME OwnedInv, ~SlowOpen, CreateOpenFails, ~Stale
    PROVE  Owned'
<1> USE DEF usbVars, choiceVars, driverVars, scannerVars, CreateOpenFails, Stale, NoCreate
<1>0. /\ TypeOK /\ ProbeAtWork /\ CreationAtWork /\ WorkApart /\ PrimaryIsOpen /\ DocksAreOpen
      /\ DocksApart /\ StartIsOpen /\ StartApart /\ Registered /\ PoolIsParked /\ PoolApart
      /\ TasksAwait /\ TasksApart /\ DeadWereOpen /\ UnplugReachesPrimary /\ IndexPoolConserved
      /\ NoDockAfterTeardown /\ StaleIsKnown /\ ReconnectPending
      /\ OneOpenAtATime /\ OpeningIsOwned /\ OpenIsOwned /\ ParkedIsOwned /\ DockUnitsApart
               /\ PrimaryUnitApart /\ OpenedUnitsApart
  BY DEF OwnedInv, DiscInv, Owned
<1>1. OneOpenAtATime'
  BY <1>0 DEF OneOpenAtATime
<1>2. OpeningIsOwned' /\ OpenIsOwned'
  <2>1. OpeningIsOwned'
    BY <1>0, NumbersOnly DEF OpeningIsOwned, TypeOK, CreationAtWork
  <2>2. OpenIsOwned'
    BY <1>0, NumbersOnly DEF OpenIsOwned, TypeOK, CreationAtWork
  <2> QED BY <2>1, <2>2
<1>4. ParkedIsOwned'
  <2>1. /\ drv' = [drv EXCEPT ![create.d] = [st |-> "parked", path |-> None]]
        /\ parked' = [parked EXCEPT ![ModelOf[drv[create.d].path]] = create.d]
        /\ create.d \in Drivers /\ drv[create.d].path \in Units
                 /\ parked[ModelOf[drv[create.d].path]] = None
        /\ create.d # None
    BY <1>0 DEF TypeOK, CreationAtWork, OneOpenAtATime
  <2>2. ModelOf[drv[create.d].path] \in Models
    BY <2>1, ModelsKnown
  <2>3. \A n \in Models : parked'[n] = IF n = ModelOf[drv[create.d].path] THEN create.d
           ELSE parked[n]
    BY ONLY <1>0, <2>1, <2>2 DEF TypeOK
  <2>4. \A x \in Drivers : x # create.d => drv'[x] = drv[x]
    BY ONLY <1>0, <2>1 DEF TypeOK
  <2>5. SUFFICES ASSUME NEW x \in Drivers, drv'[x].st = "parked"
                 PROVE  \E n \in Models : parked'[n] = x
    BY DEF ParkedIsOwned
  <2>6. CASE x = create.d
    BY ONLY <2>2, <2>3, <2>6
  <2>7. CASE x # create.d
    <3>1. drv[x].st = "parked"
      BY ONLY <2>4, <2>5, <2>7
    <3>2. PICK n \in Models : parked[n] = x
      BY ONLY <1>0, <3>1 DEF ParkedIsOwned
    <3>3. n # ModelOf[drv[create.d].path]
      BY <2>1, <3>2, NumbersOnly
    <3> QED BY ONLY <2>3, <3>2, <3>3
  <2> QED BY <2>6, <2>7
<1>5. DockUnitsApart' /\ PrimaryUnitApart'
  BY <1>0, NumbersOnly DEF DockUnitsApart, PrimaryUnitApart, CreationAtWork, TypeOK, PrimaryIsOpen,
      DocksAreOpen, DocksApart, StartIsOpen, StartApart, Registered
<1>7. OpenedUnitsApart'
  BY <1>0, NumbersOnly DEF OpenedUnitsApart, CreationAtWork, TypeOK, OneOpenAtATime
<1> QED BY <1>1, <1>2, <1>4, <1>5, <1>7 DEF Owned

LEMMA CreateStartedOwns ==
    ASSUME OwnedInv, ~SlowOpen, CreateStarted
    PROVE  Owned'
<1> USE DEF usbVars, choiceVars, driverVars, scannerVars, CreateStarted, NoCreate
<1>0. /\ TypeOK /\ ProbeAtWork /\ CreationAtWork /\ WorkApart /\ PrimaryIsOpen /\ DocksAreOpen
      /\ DocksApart /\ StartIsOpen /\ StartApart /\ Registered /\ PoolIsParked /\ PoolApart
      /\ TasksAwait /\ TasksApart /\ DeadWereOpen /\ UnplugReachesPrimary /\ IndexPoolConserved
      /\ NoDockAfterTeardown /\ StaleIsKnown /\ ReconnectPending
      /\ OneOpenAtATime /\ OpeningIsOwned /\ OpenIsOwned /\ ParkedIsOwned /\ DockUnitsApart
               /\ PrimaryUnitApart /\ OpenedUnitsApart
  BY DEF OwnedInv, DiscInv, Owned
<1>1. /\ OneOpenAtATime' /\ OpeningIsOwned' /\ ParkedIsOwned' /\ DockUnitsApart'
      /\ PrimaryUnitApart' /\ OpenedUnitsApart'
  BY <1>0 DEF OneOpenAtATime, OpeningIsOwned, ParkedIsOwned, DockUnitsApart, PrimaryUnitApart,
      OpenedUnitsApart
<1>3. OpenIsOwned'
  <2>1. /\ create.pc = "start" /\ ~create.stopped /\ up' = up \cup {create.idx}
        /\ UNCHANGED <<units, drv, primary>>
    OBVIOUS
  <2>2. create.idx \in up' /\ units'[create.idx] = create.d
    BY ONLY <1>0, <2>1 DEF Registered
  <2> QED BY ONLY <1>0, <2>1, <2>2 DEF OpenIsOwned
<1> QED BY <1>1, <1>3 DEF Owned

LEMMA CreateStartFailsOwns ==
    ASSUME OwnedInv, ~SlowOpen, CreateStartFails
    PROVE  Owned'
<1> USE DEF usbVars, choiceVars, driverVars, scannerVars, CreateStartFails, Closing
<1>0. /\ TypeOK /\ ProbeAtWork /\ CreationAtWork /\ WorkApart /\ PrimaryIsOpen /\ DocksAreOpen
      /\ DocksApart /\ StartIsOpen /\ StartApart /\ Registered /\ PoolIsParked /\ PoolApart
      /\ TasksAwait /\ TasksApart /\ DeadWereOpen /\ UnplugReachesPrimary /\ IndexPoolConserved
      /\ NoDockAfterTeardown /\ StaleIsKnown /\ ReconnectPending
      /\ OneOpenAtATime /\ OpeningIsOwned /\ OpenIsOwned /\ ParkedIsOwned /\ DockUnitsApart
               /\ PrimaryUnitApart /\ OpenedUnitsApart
  BY DEF OwnedInv, DiscInv, Owned
<1>1. OneOpenAtATime' /\ OpenedUnitsApart'
  BY <1>0, NumbersOnly DEF OneOpenAtATime, OpenedUnitsApart, StartIsOpen, StartApart, Registered,
      TypeOK, ProbeAtWork, CreationAtWork, WorkApart
<1>2. OpeningIsOwned' /\ ParkedIsOwned'
  BY <1>0 DEF OpeningIsOwned, ParkedIsOwned
<1>3. OpenIsOwned' /\ DockUnitsApart' /\ PrimaryUnitApart'
  BY <1>0, NumbersOnly DEF OpenIsOwned, DockUnitsApart, PrimaryUnitApart, TypeOK, StartIsOpen,
      StartApart, Registered
<1> QED BY <1>1, <1>2, <1>3 DEF Owned

LEMMA DisconnectPrimaryOwns ==
    ASSUME OwnedInv, ~SlowOpen, primary \in mail, primary # None, drv[primary].st = "open",
           mail' = mail \ {primary}, primary' = None, timer' = ~shutdown,
           drv' = [drv EXCEPT ![primary] = Unused], dead' = dead \ {primary},
           UNCHANGED scannerVars,
           UNCHANGED <<usbVars, snapshot, detected, choiceVars, probe, parked, shutdown, tasks>>
    PROVE  Owned'
<1> USE DEF usbVars, choiceVars, driverVars, scannerVars, Unused
<1>0. /\ TypeOK /\ ProbeAtWork /\ CreationAtWork /\ WorkApart /\ PrimaryIsOpen /\ DocksAreOpen
      /\ DocksApart /\ StartIsOpen /\ StartApart /\ Registered /\ PoolIsParked /\ PoolApart
      /\ TasksAwait /\ TasksApart /\ DeadWereOpen /\ UnplugReachesPrimary /\ IndexPoolConserved
      /\ NoDockAfterTeardown /\ StaleIsKnown /\ ReconnectPending
      /\ OneOpenAtATime /\ OpeningIsOwned /\ OpenIsOwned /\ ParkedIsOwned /\ DockUnitsApart
               /\ PrimaryUnitApart /\ OpenedUnitsApart
  BY DEF OwnedInv, DiscInv, Owned
<1>1. OneOpenAtATime'
  BY <1>0, NumbersOnly DEF OneOpenAtATime, PrimaryIsOpen, TypeOK, ProbeAtWork, CreationAtWork,
      WorkApart
<1>2. OpeningIsOwned' /\ ParkedIsOwned' /\ PrimaryUnitApart'
  BY <1>0 DEF OpeningIsOwned, ParkedIsOwned, PrimaryUnitApart
<1>3. OpenIsOwned'
  BY <1>0, NumbersOnly DEF OpenIsOwned, TypeOK, PrimaryIsOpen
<1>5. DockUnitsApart' /\ OpenedUnitsApart'
  BY <1>0, NumbersOnly DEF DockUnitsApart, OpenedUnitsApart, PrimaryIsOpen, TypeOK, DocksAreOpen,
      DocksApart, StartIsOpen, StartApart, Registered
<1> QED BY <1>1, <1>2, <1>3, <1>5 DEF Owned

LEMMA DisconnectDockOwns ==
    ASSUME OwnedInv, NEW d \in Drivers, NEW i \in up, ~SlowOpen, d \in mail, drv[d].st = "open",
           mail' = mail \ {d}, units[i] = d, units' = [units EXCEPT ![i] = None], up' = up \ {i},
           free' = free \cup {i}, drv' = [drv EXCEPT ![d] = Unused], dead' = dead \ {d},
           UNCHANGED <<create, primary, timer>>,
           UNCHANGED <<usbVars, snapshot, detected, choiceVars, probe, parked, shutdown, tasks>>
    PROVE  Owned'
<1> USE DEF usbVars, choiceVars, driverVars, scannerVars, Unused
<1>0. /\ TypeOK /\ ProbeAtWork /\ CreationAtWork /\ WorkApart /\ PrimaryIsOpen /\ DocksAreOpen
      /\ DocksApart /\ StartIsOpen /\ StartApart /\ Registered /\ PoolIsParked /\ PoolApart
      /\ TasksAwait /\ TasksApart /\ DeadWereOpen /\ UnplugReachesPrimary /\ IndexPoolConserved
      /\ NoDockAfterTeardown /\ StaleIsKnown /\ ReconnectPending
      /\ OneOpenAtATime /\ OpeningIsOwned /\ OpenIsOwned /\ ParkedIsOwned /\ DockUnitsApart
               /\ PrimaryUnitApart /\ OpenedUnitsApart
  BY DEF OwnedInv, DiscInv, Owned
<1>1. OneOpenAtATime'
  BY <1>0, NumbersOnly DEF OneOpenAtATime, DocksAreOpen, DocksApart, TypeOK, ProbeAtWork,
      CreationAtWork, WorkApart
<1>2. OpeningIsOwned' /\ ParkedIsOwned'
  BY <1>0 DEF OpeningIsOwned, ParkedIsOwned
<1>3. OpenIsOwned' /\ DockUnitsApart'
  BY <1>0, NumbersOnly DEF OpenIsOwned, DockUnitsApart, TypeOK, DocksAreOpen, DocksApart
<1>6. PrimaryUnitApart' /\ OpenedUnitsApart'
  BY <1>0, NumbersOnly DEF PrimaryUnitApart, OpenedUnitsApart, DocksAreOpen, DocksApart, TypeOK,
      PrimaryIsOpen, StartIsOpen, StartApart, Registered
<1> QED BY <1>1, <1>2, <1>3, <1>6 DEF Owned

LEMMA DisconnectCreationOwns ==
    ASSUME OwnedInv, NEW d \in Drivers, ~SlowOpen, d \in mail, drv[d].st = "open",
           mail' = mail \ {d}, d = create.d, d # primary,
           UNCHANGED <<drv, dead, primary, timer, scannerVars>>,
           UNCHANGED <<usbVars, snapshot, detected, choiceVars, probe, parked, shutdown, tasks>>
    PROVE  Owned'
<1> USE DEF usbVars, choiceVars, driverVars, scannerVars
<1>0. /\ TypeOK /\ ProbeAtWork /\ CreationAtWork /\ WorkApart /\ PrimaryIsOpen /\ DocksAreOpen
      /\ DocksApart /\ StartIsOpen /\ StartApart /\ Registered /\ PoolIsParked /\ PoolApart
      /\ TasksAwait /\ TasksApart /\ DeadWereOpen /\ UnplugReachesPrimary /\ IndexPoolConserved
      /\ NoDockAfterTeardown /\ StaleIsKnown /\ ReconnectPending
      /\ OneOpenAtATime /\ OpeningIsOwned /\ OpenIsOwned /\ ParkedIsOwned /\ DockUnitsApart
               /\ PrimaryUnitApart /\ OpenedUnitsApart
  BY DEF OwnedInv, DiscInv, Owned
<1>1. /\ OneOpenAtATime' /\ OpeningIsOwned' /\ OpenIsOwned' /\ ParkedIsOwned' /\ DockUnitsApart'
      /\ PrimaryUnitApart' /\ OpenedUnitsApart'
  BY <1>0 DEF OneOpenAtATime, OpeningIsOwned, OpenIsOwned, ParkedIsOwned, DockUnitsApart,
      PrimaryUnitApart, OpenedUnitsApart
<1> QED BY <1>1 DEF Owned

LEMMA ClosedAloneOwns ==
    ASSUME OwnedInv, NEW d \in Drivers, ~SlowOpen, drv[d].st = "closing", AwaitedBy(d) = {},
           dead' = dead \ {d}, mail' = mail \ {d},
           create' = IF create.pc = "close" /\ create.d = d THEN NoCreate ELSE create,
           ~(probe.pc = "close" /\ probe.d = d), drv' = [drv EXCEPT ![d] = Unused],
           UNCHANGED <<probe, timer, parked>>,
           UNCHANGED <<snapshot, detected, primary, shutdown, tasks, units, up, free>>, BusRests,
           ChoiceRests
    PROVE  Owned'
<1> USE DEF BusRests, ChoiceRests, DocksRest, NoCreate, Unused, AwaitedBy
<1>0. /\ TypeOK /\ ProbeAtWork /\ CreationAtWork /\ WorkApart /\ PrimaryIsOpen /\ DocksAreOpen
      /\ DocksApart /\ StartIsOpen /\ StartApart /\ Registered /\ PoolIsParked /\ PoolApart
      /\ TasksAwait /\ TasksApart /\ DeadWereOpen /\ UnplugReachesPrimary /\ IndexPoolConserved
      /\ NoDockAfterTeardown /\ StaleIsKnown /\ ReconnectPending
      /\ OneOpenAtATime /\ OpeningIsOwned /\ OpenIsOwned /\ ParkedIsOwned /\ DockUnitsApart
               /\ PrimaryUnitApart /\ OpenedUnitsApart
  BY DEF OwnedInv, DiscInv, Owned
<1>1. OneOpenAtATime'
  BY <1>0, NumbersOnly DEF OneOpenAtATime, TypeOK, ProbeAtWork, CreationAtWork, WorkApart
<1>2. OpeningIsOwned' /\ OpenIsOwned' /\ ParkedIsOwned'
  BY <1>0 DEF OpeningIsOwned, OpenIsOwned, ParkedIsOwned
<1>5. DockUnitsApart' /\ PrimaryUnitApart' /\ OpenedUnitsApart'
  BY <1>0, NumbersOnly DEF DockUnitsApart, PrimaryUnitApart, OpenedUnitsApart, TypeOK,
      PrimaryIsOpen, DocksAreOpen, DocksApart, StartIsOpen, StartApart, Registered
<1> QED BY <1>1, <1>2, <1>5 DEF Owned

LEMMA ClosedProbeOpensOwns ==
    ASSUME OwnedInv, NEW m \in Models, NEW d \in Drivers, NEW u \in Units \ ClaimedPaths,
           NEW e \in Drivers, ~SlowOpen, drv[e].st = "closing", AwaitedBy(e) = {},
           dead' = dead \ {e}, mail' = mail \ {e},
           create' = IF create.pc = "close" /\ create.d = e THEN NoCreate ELSE create,
           probe.pc = "close", probe.d = e,
           ProbeOpens([drv EXCEPT ![e] = Unused], parked, m, d, u),
           UNCHANGED <<snapshot, detected, primary, shutdown, tasks, units, up, free>>, BusRests,
           ChoiceRests
    PROVE  Owned'
<1>0. /\ TypeOK /\ ProbeAtWork /\ CreationAtWork /\ WorkApart /\ PrimaryIsOpen /\ DocksAreOpen
      /\ DocksApart /\ StartIsOpen /\ StartApart /\ Registered /\ PoolIsParked /\ PoolApart
      /\ TasksAwait /\ TasksApart /\ DeadWereOpen /\ UnplugReachesPrimary /\ IndexPoolConserved
      /\ NoDockAfterTeardown /\ StaleIsKnown /\ ReconnectPending
      /\ OneOpenAtATime /\ OpeningIsOwned /\ OpenIsOwned /\ ParkedIsOwned /\ DockUnitsApart
               /\ PrimaryUnitApart /\ OpenedUnitsApart
  BY DEF OwnedInv, DiscInv, Owned
<1>a. /\ \A x \in Drivers : x # d /\ x # e => drv'[x] = drv[x]
      /\ drv'[d].st = "opening" /\ drv'[d].path = u /\ u # None
      /\ d # e => drv'[e].st = "free"
      /\ d = e \/ parked[m] = d \/ drv[d].st = "free"
      /\ d = e \/ drv[d].st \in {"free", "parked"}
      /\ parked' = [parked EXCEPT ![m] = None]
      /\ \A k \in TaskKinds : tasks[k].pc # "idle" => tasks[k].d # e
  <2>2. u # None
    BY NumbersOnly
  <2>3. /\ drv' = [[drv EXCEPT ![e] = Unused] EXCEPT ![d] = [st |-> "opening", path |-> u]]
        /\ parked[m] = d \/ (parked[m] = None /\ [drv EXCEPT ![e] = Unused][d].st = "free")
        /\ parked' = [parked EXCEPT ![m] = None]
    BY DEF ProbeOpens, Opens
  <2>4. [drv EXCEPT ![e] = Unused][d].st = IF d = e THEN "free" ELSE drv[d].st
    BY <1>0 DEF TypeOK, Unused
  <2>6. d = e \/ drv[d].st \in {"free", "parked"}
    BY <1>0, <2>3, <2>4, NumbersOnly DEF PoolIsParked
  <2>7. /\ \A x \in Drivers : x # d /\ x # e => drv'[x] = drv[x]
        /\ drv'[d].st = "opening" /\ drv'[d].path = u
        /\ d # e => drv'[e].st = "free"
    BY <1>0, <2>3 DEF TypeOK, Unused
  <2>8. \A k \in TaskKinds : tasks[k].pc # "idle" => tasks[k].d # e
    BY DEF AwaitedBy
  <2>9. d = e \/ parked[m] = d \/ drv[d].st = "free"
    BY <2>3, <2>4
  <2> QED BY <2>2, <2>3, <2>6, <2>7, <2>8, <2>9
<1>1. OneOpenAtATime' /\ OpeningIsOwned' /\ OpenIsOwned' /\ ParkedIsOwned'
  BY <1>0, NumbersOnly DEF OneOpenAtATime, OpeningIsOwned, OpenIsOwned, ParkedIsOwned, TypeOK,
      ProbeAtWork, PoolIsParked, PoolApart, BusRests, ChoiceRests, DocksRest, ProbeOpens, Opens,
      NoCreate, Unused, AwaitedBy
<1>5. DockUnitsApart'
  <2>1. \A i \in Indices : units[i] # None => drv'[units[i]] = drv[units[i]]
    BY <1>0, <1>a DEF TypeOK, DocksAreOpen
  <2> QED BY <1>0, <2>1 DEF DockUnitsApart
<1>6. PrimaryUnitApart'
  BY <1>0, NumbersOnly DEF PrimaryUnitApart, ProbeAtWork, PoolIsParked, PoolApart, TypeOK,
      OneOpenAtATime, BusRests, ChoiceRests, DocksRest, ProbeOpens, Opens, NoCreate, Unused,
      AwaitedBy
<1>7. OpenedUnitsApart'
  <2>1. \A i \in Indices : units[i] # None => drv'[units[i]] = drv[units[i]]
    BY <1>0, <1>a DEF TypeOK, DocksAreOpen
  <2>2. probe'.d = d /\ drv'[d].path = u
    BY <1>a DEF ProbeOpens
  <2>3. create'.pc # "open"
    BY <1>0 DEF OneOpenAtATime, NoCreate
  <2>4. \A i \in Indices : units[i] # None => drv[units[i]].path # u
    BY DEF ClaimedPaths, Held
  <2> QED BY <2>1, <2>2, <2>3, <2>4 DEF OpenedUnitsApart
<1> QED BY <1>1, <1>5, <1>6, <1>7 DEF Owned

LEMMA ClosedProbeEndsOwns ==
    ASSUME OwnedInv, NEW e \in Drivers, ~SlowOpen, drv[e].st = "closing", AwaitedBy(e) = {},
           dead' = dead \ {e}, mail' = mail \ {e},
           create' = IF create.pc = "close" /\ create.d = e THEN NoCreate ELSE create,
           probe.pc = "close", probe.d = e, ProbeEnds([drv EXCEPT ![e] = Unused], parked),
           UNCHANGED <<snapshot, detected, primary, shutdown, tasks, units, up, free>>, BusRests,
           ChoiceRests
    PROVE  Owned'
<1> USE DEF BusRests, ChoiceRests, DocksRest, ProbeEnds, NoProbe, NoCreate, Unused, Closing,
    AwaitedBy
<1>0. /\ TypeOK /\ ProbeAtWork /\ CreationAtWork /\ WorkApart /\ PrimaryIsOpen /\ DocksAreOpen
      /\ DocksApart /\ StartIsOpen /\ StartApart /\ Registered /\ PoolIsParked /\ PoolApart
      /\ TasksAwait /\ TasksApart /\ DeadWereOpen /\ UnplugReachesPrimary /\ IndexPoolConserved
      /\ NoDockAfterTeardown /\ StaleIsKnown /\ ReconnectPending
      /\ OneOpenAtATime /\ OpeningIsOwned /\ OpenIsOwned /\ ParkedIsOwned /\ DockUnitsApart
               /\ PrimaryUnitApart /\ OpenedUnitsApart
  BY DEF OwnedInv, DiscInv, Owned
<1>1. OneOpenAtATime' /\ OpeningIsOwned' /\ OpenIsOwned' /\ ParkedIsOwned'
  BY <1>0 DEF OneOpenAtATime, OpeningIsOwned, OpenIsOwned, ParkedIsOwned
<1>5. DockUnitsApart'
  BY <1>0, NumbersOnly DEF DockUnitsApart, ProbeAtWork, PoolIsParked, PoolApart, TypeOK,
      PrimaryIsOpen, DocksAreOpen, DocksApart, StartIsOpen, StartApart, Registered
<1>6. PrimaryUnitApart' /\ OpenedUnitsApart'
  BY <1>0, NumbersOnly DEF PrimaryUnitApart, OpenedUnitsApart, ProbeAtWork, PoolIsParked,
      PoolApart, TypeOK, OneOpenAtATime
<1> QED BY <1>1, <1>5, <1>6 DEF Owned

LEMMA MultiDeckOffOwns ==
    ASSUME OwnedInv, ~SlowOpen, SetMultiDeck, multi
    PROVE  Owned'
<1>0. /\ TypeOK /\ ProbeAtWork /\ CreationAtWork /\ WorkApart /\ PrimaryIsOpen /\ DocksAreOpen
      /\ DocksApart /\ StartIsOpen /\ StartApart /\ Registered /\ PoolIsParked /\ PoolApart
      /\ TasksAwait /\ TasksApart /\ DeadWereOpen /\ UnplugReachesPrimary /\ IndexPoolConserved
      /\ NoDockAfterTeardown /\ StaleIsKnown /\ ReconnectPending
      /\ OneOpenAtATime /\ OpeningIsOwned /\ OpenIsOwned /\ ParkedIsOwned /\ DockUnitsApart
               /\ PrimaryUnitApart /\ OpenedUnitsApart
  BY DEF OwnedInv, DiscInv, Owned
<1>a. /\ create' \in CreateRecs /\ create'.pc = create.pc /\ create'.idx = create.idx
      /\ create'.d = create.d /\ (create'.stale <=> create.pc \in {"open", "start", "close"})
      /\ (create'.stopped <=> create.pc = "start")
      /\ drv' = Closing(drv, {units[i] : i \in up})
      /\ units' = [i \in Indices |-> None] /\ up' = {} /\ free' = {}
      /\ multi' = FALSE /\ edits < MaxEdits /\ edits' = edits + 1
      /\ UNCHANGED <<plugged, plugs, snapshot, detected, selected, dead, mail, primary, probe,
                   timer, parked, shutdown, tasks>>
  <2> DEFINE a == create.pc \in {"open", "start", "close"}
             b == create.pc = "start"
  <2>1. /\ create' = [create EXCEPT !.stale = a, !.stopped = b]
        /\ drv' = Closing(drv, {units[i] : i \in up})
        /\ units' = [i \in Indices |-> None] /\ up' = {} /\ free' = {}
        /\ multi' = FALSE /\ edits < MaxEdits /\ edits' = edits + 1
        /\ UNCHANGED <<plugged, plugs, snapshot, detected, selected, dead, mail, primary, probe,
                   timer, parked, shutdown, tasks>>
    BY DEF SetMultiDeck, Edit, StopScannedDocks, usbVars
  <2>2. create \in CreateRecs
    BY <1>0 DEF TypeOK, CreateRecs
  <2>3. a \in BOOLEAN /\ b \in BOOLEAN
    OBVIOUS
  <2> HIDE DEF a, b
  <2>4. /\ create' \in CreateRecs /\ create'.pc = create.pc /\ create'.idx = create.idx
        /\ create'.d = create.d /\ (create'.stale <=> a) /\ (create'.stopped <=> b)
    BY <2>1, <2>2, <2>3 DEF CreateRecs
  <2> QED BY <2>1, <2>4 DEF a, b
<1>1. OneOpenAtATime'
  BY <1>0, <1>a, NumbersOnly DEF OneOpenAtATime, TypeOK, Closing, DocksAreOpen, Registered,
      ProbeAtWork, CreationAtWork
<1>2. OpeningIsOwned'
  BY <1>0, <1>a, NumbersOnly DEF OpeningIsOwned, TypeOK, Closing
<1>3. OpenIsOwned'
  BY <1>0, <1>a, NumbersOnly DEF OpenIsOwned, TypeOK, Closing, Registered
<1>4. ParkedIsOwned'
  BY <1>0, NumbersOnly DEF ParkedIsOwned, TypeOK, DocksAreOpen, Registered, usbVars, choiceVars,
      driverVars, scannerVars, SetMultiDeck, Edit, StopScannedDocks, Closing
<1>5. DockUnitsApart' /\ OpenedUnitsApart'
  BY <1>0 DEF DockUnitsApart, OpenedUnitsApart, usbVars, choiceVars, driverVars, scannerVars,
      SetMultiDeck, Edit, StopScannedDocks, Closing
<1>6. PrimaryUnitApart'
  BY <1>0, <1>a, NumbersOnly DEF PrimaryUnitApart, TypeOK, Closing, PrimaryIsOpen, CreationAtWork
<1> QED BY <1>1, <1>2, <1>3, <1>4, <1>5, <1>6 DEF Owned

LEMMA MultiDeckOnOwns ==
    ASSUME OwnedInv, ~SlowOpen, SetMultiDeck, ~multi
    PROVE  Owned'
<1> USE DEF usbVars, choiceVars, driverVars, scannerVars, SetMultiDeck, Edit
<1>0. /\ TypeOK /\ ProbeAtWork /\ CreationAtWork /\ WorkApart /\ PrimaryIsOpen /\ DocksAreOpen
      /\ DocksApart /\ StartIsOpen /\ StartApart /\ Registered /\ PoolIsParked /\ PoolApart
      /\ TasksAwait /\ TasksApart /\ DeadWereOpen /\ UnplugReachesPrimary /\ IndexPoolConserved
      /\ NoDockAfterTeardown /\ StaleIsKnown /\ ReconnectPending
      /\ OneOpenAtATime /\ OpeningIsOwned /\ OpenIsOwned /\ ParkedIsOwned /\ DockUnitsApart
               /\ PrimaryUnitApart /\ OpenedUnitsApart
  BY DEF OwnedInv, DiscInv, Owned
<1>1. /\ OneOpenAtATime' /\ OpeningIsOwned' /\ OpenIsOwned' /\ ParkedIsOwned' /\ DockUnitsApart'
      /\ PrimaryUnitApart' /\ OpenedUnitsApart'
  BY <1>0 DEF OneOpenAtATime, OpeningIsOwned, OpenIsOwned, ParkedIsOwned, DockUnitsApart,
      PrimaryUnitApart, OpenedUnitsApart
<1> QED BY <1>1 DEF Owned

LEMMA UserStopsDockOwns ==
    ASSUME OwnedInv, NEW k \in TaskKinds, NEW i \in Indices, ~SlowOpen, tasks[k].pc = "idle",
           TaskStops(k, i, drv), edits' \in 0 .. MaxEdits, selected' \in SUBSET Units, BusRests,
           UNCHANGED <<snapshot, detected, multi, dead, mail, probe, timer, parked, shutdown>>
    PROVE  Owned'
<1> USE DEF BusRests, ChoiceRests, DocksRest, TaskStops, TeardownDock, Closing
<1>0. /\ TypeOK /\ ProbeAtWork /\ CreationAtWork /\ WorkApart /\ PrimaryIsOpen /\ DocksAreOpen
      /\ DocksApart /\ StartIsOpen /\ StartApart /\ Registered /\ PoolIsParked /\ PoolApart
      /\ TasksAwait /\ TasksApart /\ DeadWereOpen /\ UnplugReachesPrimary /\ IndexPoolConserved
      /\ NoDockAfterTeardown /\ StaleIsKnown /\ ReconnectPending
      /\ OneOpenAtATime /\ OpeningIsOwned /\ OpenIsOwned /\ ParkedIsOwned /\ DockUnitsApart
               /\ PrimaryUnitApart /\ OpenedUnitsApart
  BY DEF OwnedInv, DiscInv, Owned
<1>1. OneOpenAtATime' /\ PrimaryUnitApart' /\ OpenedUnitsApart'
  BY <1>0, NumbersOnly DEF OneOpenAtATime, PrimaryUnitApart, OpenedUnitsApart, DocksAreOpen,
      Registered, DocksApart, TypeOK, ProbeAtWork, CreationAtWork, WorkApart
<1>2. OpeningIsOwned' /\ OpenIsOwned' /\ ParkedIsOwned'
  BY <1>0 DEF OpeningIsOwned, OpenIsOwned, ParkedIsOwned
<1>5. DockUnitsApart'
  BY <1>0, NumbersOnly DEF DockUnitsApart, TypeOK, DocksAreOpen, Registered, DocksApart
<1> QED BY <1>1, <1>2, <1>5 DEF Owned

LEMMA UserStopsPrimaryOwns ==
    ASSUME OwnedInv, NEW k \in TaskKinds, ~SlowOpen, tasks[k].pc = "idle",
           TaskStopsPrimary(k, drv), edits' \in 0 .. MaxEdits, selected' \in SUBSET Units,
           BusRests,
           UNCHANGED <<snapshot, detected, multi, dead, mail, probe, timer, parked, shutdown>>
    PROVE  Owned'
<1> USE DEF BusRests, ChoiceRests, DocksRest, scannerVars, TaskStopsPrimary, Closing
<1>0. /\ TypeOK /\ ProbeAtWork /\ CreationAtWork /\ WorkApart /\ PrimaryIsOpen /\ DocksAreOpen
      /\ DocksApart /\ StartIsOpen /\ StartApart /\ Registered /\ PoolIsParked /\ PoolApart
      /\ TasksAwait /\ TasksApart /\ DeadWereOpen /\ UnplugReachesPrimary /\ IndexPoolConserved
      /\ NoDockAfterTeardown /\ StaleIsKnown /\ ReconnectPending
      /\ OneOpenAtATime /\ OpeningIsOwned /\ OpenIsOwned /\ ParkedIsOwned /\ DockUnitsApart
               /\ PrimaryUnitApart /\ OpenedUnitsApart
  BY DEF OwnedInv, DiscInv, Owned
<1>1. OneOpenAtATime' /\ OpenedUnitsApart'
  BY <1>0, NumbersOnly DEF OneOpenAtATime, OpenedUnitsApart, PrimaryIsOpen, TypeOK, ProbeAtWork,
      CreationAtWork, WorkApart
<1>2. OpeningIsOwned' /\ OpenIsOwned' /\ ParkedIsOwned' /\ PrimaryUnitApart'
  BY <1>0 DEF OpeningIsOwned, OpenIsOwned, ParkedIsOwned, PrimaryUnitApart
<1>5. DockUnitsApart'
  BY <1>0, NumbersOnly DEF DockUnitsApart, TypeOK, PrimaryIsOpen
<1> QED BY <1>1, <1>2, <1>5 DEF Owned

LEMMA UserStopsNothingOwns ==
    ASSUME OwnedInv, NEW k \in TaskKinds, ~SlowOpen, tasks[k].pc = "idle", TaskEnds(k, drv),
           edits' \in 0 .. MaxEdits, selected' \in SUBSET Units, BusRests,
           UNCHANGED <<snapshot, detected, multi, dead, mail, probe, timer, parked, shutdown>>
    PROVE  Owned'
<1> USE DEF BusRests, ChoiceRests, DocksRest, scannerVars, TaskEnds, NoTask
<1>0. /\ TypeOK /\ ProbeAtWork /\ CreationAtWork /\ WorkApart /\ PrimaryIsOpen /\ DocksAreOpen
      /\ DocksApart /\ StartIsOpen /\ StartApart /\ Registered /\ PoolIsParked /\ PoolApart
      /\ TasksAwait /\ TasksApart /\ DeadWereOpen /\ UnplugReachesPrimary /\ IndexPoolConserved
      /\ NoDockAfterTeardown /\ StaleIsKnown /\ ReconnectPending
      /\ OneOpenAtATime /\ OpeningIsOwned /\ OpenIsOwned /\ ParkedIsOwned /\ DockUnitsApart
               /\ PrimaryUnitApart /\ OpenedUnitsApart
  BY DEF OwnedInv, DiscInv, Owned
<1>1. /\ OneOpenAtATime' /\ OpeningIsOwned' /\ OpenIsOwned' /\ ParkedIsOwned' /\ DockUnitsApart'
      /\ PrimaryUnitApart' /\ OpenedUnitsApart'
  BY <1>0 DEF OneOpenAtATime, OpeningIsOwned, OpenIsOwned, ParkedIsOwned, DockUnitsApart,
      PrimaryUnitApart, OpenedUnitsApart
<1> QED BY <1>1 DEF Owned

LEMMA TaskStopsDockOwns ==
    ASSUME OwnedInv, NEW k \in TaskKinds, NEW i \in Indices, ~SlowOpen, tasks[k].pc = "docks",
           TaskStops(k, i, After(tasks[k].d)), timer' = timer, BusRests, ChoiceRests,
           UNCHANGED <<snapshot, detected, probe, parked, shutdown>>, dead' = dead \ {tasks[k].d},
           mail' = mail \ {tasks[k].d}
    PROVE  Owned'
<1> USE DEF BusRests, ChoiceRests, DocksRest, TaskStops, TeardownDock, Closing, After, Unused
<1>0. /\ TypeOK /\ ProbeAtWork /\ CreationAtWork /\ WorkApart /\ PrimaryIsOpen /\ DocksAreOpen
      /\ DocksApart /\ StartIsOpen /\ StartApart /\ Registered /\ PoolIsParked /\ PoolApart
      /\ TasksAwait /\ TasksApart /\ DeadWereOpen /\ UnplugReachesPrimary /\ IndexPoolConserved
      /\ NoDockAfterTeardown /\ StaleIsKnown /\ ReconnectPending
      /\ OneOpenAtATime /\ OpeningIsOwned /\ OpenIsOwned /\ ParkedIsOwned /\ DockUnitsApart
               /\ PrimaryUnitApart /\ OpenedUnitsApart
  BY DEF OwnedInv, DiscInv, Owned
<1>1. OneOpenAtATime'
  BY <1>0, NumbersOnly DEF OneOpenAtATime, DocksAreOpen, Registered, DocksApart, TasksAwait,
      TypeOK, ClaimedPaths, Held, ProbeAtWork, CreationAtWork, WorkApart, PrimaryIsOpen,
      StartIsOpen, StartApart
<1>2. OpeningIsOwned' /\ OpenIsOwned' /\ ParkedIsOwned'
  BY <1>0 DEF OpeningIsOwned, OpenIsOwned, ParkedIsOwned
<1>5. DockUnitsApart'
  BY <1>0, NumbersOnly DEF DockUnitsApart, TypeOK, DocksAreOpen, Registered, DocksApart, TasksAwait
<1>6. PrimaryUnitApart'
  BY <1>0, NumbersOnly DEF PrimaryUnitApart, DocksAreOpen, Registered, DocksApart, TasksAwait,
      TypeOK, ProbeAtWork, CreationAtWork, WorkApart
<1>7. OpenedUnitsApart'
  BY <1>0, NumbersOnly DEF OpenedUnitsApart, DocksAreOpen, Registered, DocksApart, TasksAwait,
      TypeOK, ProbeAtWork, CreationAtWork, WorkApart
<1> QED BY <1>1, <1>2, <1>5, <1>6, <1>7 DEF Owned

LEMMA TaskStopsPrimaryOwns ==
    ASSUME OwnedInv, NEW k \in TaskKinds, ~SlowOpen, tasks[k].pc = "docks",
           TaskStopsPrimary(k, After(tasks[k].d)), timer' = timer, BusRests, ChoiceRests,
           UNCHANGED <<snapshot, detected, probe, parked, shutdown>>, dead' = dead \ {tasks[k].d},
           mail' = mail \ {tasks[k].d}
    PROVE  Owned'
<1> USE DEF BusRests, ChoiceRests, DocksRest, scannerVars, TaskStopsPrimary, Closing, After, Unused
<1>0. /\ TypeOK /\ ProbeAtWork /\ CreationAtWork /\ WorkApart /\ PrimaryIsOpen /\ DocksAreOpen
      /\ DocksApart /\ StartIsOpen /\ StartApart /\ Registered /\ PoolIsParked /\ PoolApart
      /\ TasksAwait /\ TasksApart /\ DeadWereOpen /\ UnplugReachesPrimary /\ IndexPoolConserved
      /\ NoDockAfterTeardown /\ StaleIsKnown /\ ReconnectPending
      /\ OneOpenAtATime /\ OpeningIsOwned /\ OpenIsOwned /\ ParkedIsOwned /\ DockUnitsApart
               /\ PrimaryUnitApart /\ OpenedUnitsApart
  BY DEF OwnedInv, DiscInv, Owned
<1>1. OneOpenAtATime' /\ OpenedUnitsApart'
  <2>1. PICK now : now = After(tasks[k].d)
    OBVIOUS
  <2>2. /\ UNCHANGED <<probe, create, parked>> /\ primary' = None /\ primary # None
        /\ drv' = [d \in Drivers |-> IF d = primary THEN [now[d] EXCEPT !.st = "closing"] ELSE now[d]]
    BY <2>1
  <2>3. primary \in Drivers /\ drv[primary].st = "open"
    BY <1>0, <2>2 DEF PrimaryIsOpen, TypeOK
  <2>4. ASSUME NEW d \in Drivers, drv[d].st = "opening"
        PROVE  drv'[d] = drv[d]
    <3>1. d # primary /\ (tasks[k].d # None => d # tasks[k].d)
      BY <1>0, <2>3, <2>4 DEF TasksAwait
    <3>2. now[d] = drv[d]
      BY <1>0, <2>1, <2>4, <3>1 DEF TypeOK
    <3> QED BY <2>2, <2>4, <3>1, <3>2
  <2>5. /\ probe.pc = "open" => probe.d \in Drivers /\ drv[probe.d].st = "opening"
        /\ create.pc = "open" => create.d \in Drivers /\ drv[create.d].st = "opening"
    BY <1>0 DEF TypeOK, ProbeAtWork, CreationAtWork
  <2> HIDE DEF TaskStopsPrimary, Closing, After
  <2>6. OneOpenAtATime'
    BY <1>0, <2>2, <2>4, <2>5 DEF OneOpenAtATime
  <2>7. OpenedUnitsApart'
    <3>1. UNCHANGED units
      BY DEF TaskStopsPrimary
    <3>2. ASSUME NEW i \in Indices, units[i] # None  PROVE drv'[units[i]] = drv[units[i]]
      <4>1. units[i] \in Drivers /\ drv[units[i]].st = "open" /\ units[i] # primary
        BY <1>0, <3>2 DEF DocksAreOpen, DocksApart, TypeOK
      <4>2. tasks[k].d # None => units[i] # tasks[k].d
        BY <1>0, <4>1 DEF TasksAwait
      <4>3. now[units[i]] = drv[units[i]]
        BY <1>0, <2>1, <4>1, <4>2 DEF TypeOK, After
      <4> QED BY <2>2, <4>1, <4>3
    <3>3. /\ create.pc = "open" => drv'[create.d] = drv[create.d]
          /\ probe.pc = "open" => drv'[probe.d] = drv[probe.d]
      BY <2>4, <2>5
    <3>4. /\ units' = units /\ create' = create /\ probe' = probe
          /\ \A i \in Indices : units[i] # None =>
                /\ create.pc = "open" => drv[units[i]].path # drv[create.d].path
                /\ probe.pc = "open" => drv[units[i]].path # drv[probe.d].path
      BY <1>0, <2>2, <3>1 DEF OpenedUnitsApart
    <3> HIDE DEF BusRests, ChoiceRests, DocksRest, scannerVars, Unused
    <3> QED BY ONLY <3>2, <3>3, <3>4 DEF OpenedUnitsApart
  <2> QED BY <2>6, <2>7
<1>2. OpeningIsOwned' /\ OpenIsOwned' /\ ParkedIsOwned' /\ PrimaryUnitApart'
  BY <1>0 DEF OpeningIsOwned, OpenIsOwned, ParkedIsOwned, PrimaryUnitApart
<1>5. DockUnitsApart'
  BY <1>0, NumbersOnly DEF DockUnitsApart, PrimaryIsOpen, TasksAwait, TypeOK, DocksAreOpen,
      DocksApart, StartIsOpen, StartApart, Registered
<1> QED BY <1>1, <1>2, <1>5 DEF Owned

LEMMA TaskEndsOwns ==
    ASSUME OwnedInv, NEW k \in TaskKinds, ~SlowOpen, tasks[k].pc = "docks",
           TaskEnds(k, After(tasks[k].d)), timer' = timer, BusRests, ChoiceRests,
           UNCHANGED <<snapshot, detected, probe, parked, shutdown>>, dead' = dead \ {tasks[k].d},
           mail' = mail \ {tasks[k].d}
    PROVE  Owned'
<1> USE DEF BusRests, ChoiceRests, DocksRest, scannerVars, TaskEnds, NoTask, After, Unused
<1>0. /\ TypeOK /\ ProbeAtWork /\ CreationAtWork /\ WorkApart /\ PrimaryIsOpen /\ DocksAreOpen
      /\ DocksApart /\ StartIsOpen /\ StartApart /\ Registered /\ PoolIsParked /\ PoolApart
      /\ TasksAwait /\ TasksApart /\ DeadWereOpen /\ UnplugReachesPrimary /\ IndexPoolConserved
      /\ NoDockAfterTeardown /\ StaleIsKnown /\ ReconnectPending
      /\ OneOpenAtATime /\ OpeningIsOwned /\ OpenIsOwned /\ ParkedIsOwned /\ DockUnitsApart
               /\ PrimaryUnitApart /\ OpenedUnitsApart
  BY DEF OwnedInv, DiscInv, Owned
<1>1. OneOpenAtATime'
  BY <1>0, NumbersOnly DEF OneOpenAtATime, TasksAwait, TypeOK, ProbeAtWork, CreationAtWork,
      WorkApart
<1>2. OpeningIsOwned' /\ OpenIsOwned' /\ ParkedIsOwned'
  BY <1>0 DEF OpeningIsOwned, OpenIsOwned, ParkedIsOwned
<1>5. DockUnitsApart' /\ PrimaryUnitApart' /\ OpenedUnitsApart'
  BY <1>0, NumbersOnly DEF DockUnitsApart, PrimaryUnitApart, OpenedUnitsApart, TasksAwait, TypeOK,
      PrimaryIsOpen, DocksAreOpen, DocksApart, StartIsOpen, StartApart, Registered
<1> QED BY <1>1, <1>2, <1>5 DEF Owned

LEMMA TaskReconnectsOwns ==
    ASSUME OwnedInv, NEW k \in TaskKinds, ~SlowOpen, tasks[k].pc = "primary",
           TaskEnds(k, After(tasks[k].d)), timer' = ~shutdown, BusRests, ChoiceRests,
           UNCHANGED <<snapshot, detected, probe, parked, shutdown>>, dead' = dead \ {tasks[k].d},
           mail' = mail \ {tasks[k].d}
    PROVE  Owned'
<1> USE DEF BusRests, ChoiceRests, DocksRest, scannerVars, TaskEnds, NoTask, After, Unused
<1>0. /\ TypeOK /\ ProbeAtWork /\ CreationAtWork /\ WorkApart /\ PrimaryIsOpen /\ DocksAreOpen
      /\ DocksApart /\ StartIsOpen /\ StartApart /\ Registered /\ PoolIsParked /\ PoolApart
      /\ TasksAwait /\ TasksApart /\ DeadWereOpen /\ UnplugReachesPrimary /\ IndexPoolConserved
      /\ NoDockAfterTeardown /\ StaleIsKnown /\ ReconnectPending
      /\ OneOpenAtATime /\ OpeningIsOwned /\ OpenIsOwned /\ ParkedIsOwned /\ DockUnitsApart
               /\ PrimaryUnitApart /\ OpenedUnitsApart
  BY DEF OwnedInv, DiscInv, Owned
<1>1. OneOpenAtATime'
  BY <1>0, NumbersOnly DEF OneOpenAtATime, TasksAwait, TypeOK, ProbeAtWork, CreationAtWork,
      WorkApart
<1>2. OpeningIsOwned' /\ OpenIsOwned' /\ ParkedIsOwned'
  BY <1>0 DEF OpeningIsOwned, OpenIsOwned, ParkedIsOwned
<1>5. DockUnitsApart' /\ PrimaryUnitApart' /\ OpenedUnitsApart'
  BY <1>0, NumbersOnly DEF DockUnitsApart, PrimaryUnitApart, OpenedUnitsApart, TasksAwait, TypeOK,
      PrimaryIsOpen, DocksAreOpen, DocksApart, StartIsOpen, StartApart, Registered
<1> QED BY <1>1, <1>2, <1>5 DEF Owned

LEMMA ShutdownOwns ==
    ASSUME OwnedInv, ~SlowOpen, Shutdown
    PROVE  Owned'
<1>0. /\ TypeOK /\ ProbeAtWork /\ CreationAtWork /\ WorkApart /\ PrimaryIsOpen /\ DocksAreOpen
      /\ DocksApart /\ StartIsOpen /\ StartApart /\ Registered /\ PoolIsParked /\ PoolApart
      /\ TasksAwait /\ TasksApart /\ DeadWereOpen /\ UnplugReachesPrimary /\ IndexPoolConserved
      /\ NoDockAfterTeardown /\ StaleIsKnown /\ ReconnectPending
      /\ OneOpenAtATime /\ OpeningIsOwned /\ OpenIsOwned /\ ParkedIsOwned /\ DockUnitsApart
               /\ PrimaryUnitApart /\ OpenedUnitsApart
  BY DEF OwnedInv, DiscInv, Owned
<1>a. /\ create' \in CreateRecs /\ create'.pc = create.pc /\ create'.idx = create.idx
      /\ create'.d = create.d /\ (create'.stale <=> create.pc \in {"open", "start", "close"})
      /\ (create'.stopped <=> create.pc = "start")
      /\ drv' = Closing(Closing(drv, ({primary} \cup {parked[m] : m \in Models}) \ {None}),
               {units[i] : i \in up})
      /\ units' = [i \in Indices |-> None] /\ up' = {} /\ free' = (IF multi THEN Indices ELSE {})
      /\ shutdown' = TRUE /\ timer' = FALSE /\ primary' = None /\ parked' = [m \in Models |-> None]
      /\ UNCHANGED <<plugged, plugs, snapshot, detected, selected, multi, edits, dead, mail,
               probe, tasks>>
  <2> DEFINE a == create.pc \in {"open", "start", "close"}
             b == create.pc = "start"
  <2>1. /\ create' = [create EXCEPT !.stale = a, !.stopped = b]
      /\ drv' = Closing(Closing(drv, ({primary} \cup {parked[m] : m \in Models}) \ {None}),
               {units[i] : i \in up})
      /\ units' = [i \in Indices |-> None] /\ up' = {} /\ free' = (IF multi THEN Indices ELSE {})
      /\ shutdown' = TRUE /\ timer' = FALSE /\ primary' = None /\ parked' = [m \in Models |-> None]
      /\ UNCHANGED <<plugged, plugs, snapshot, detected, selected, multi, edits, dead, mail,
               probe, tasks>>
    BY DEF Shutdown, StopScannedDocks, usbVars, choiceVars
  <2>2. create \in CreateRecs
    BY <1>0 DEF TypeOK, CreateRecs
  <2>3. a \in BOOLEAN /\ b \in BOOLEAN
    OBVIOUS
  <2> HIDE DEF a, b
  <2>4. /\ create' \in CreateRecs /\ create'.pc = create.pc /\ create'.idx = create.idx
        /\ create'.d = create.d /\ (create'.stale <=> a) /\ (create'.stopped <=> b)
    BY <2>1, <2>2, <2>3 DEF CreateRecs
  <2> QED BY <2>1, <2>4 DEF a, b
<1>1. OneOpenAtATime'
  <2>1. primary' = None /\ create'.pc = create.pc /\ create'.d = create.d /\ probe' = probe
    BY <1>a
  <2>2. \A d \in Drivers : drv'[d].path = drv[d].path
    BY <1>0, <1>a DEF TypeOK, Closing
  <2>3. \A u \in Units : parked'[ModelOf[u]] = None
    BY <1>a, ModelsKnown
  <2>4. probe.pc = "open" => probe.d \in Drivers /\ drv[probe.d].path \in Units
    BY <1>0 DEF TypeOK, ProbeAtWork
  <2>5. create.pc = "open" => create.d \in Drivers /\ drv[create.d].path \in Units
    BY <1>0 DEF TypeOK, CreationAtWork
  <2>6. probe.pc # "idle" => create.pc # "open"
    BY <1>0 DEF OneOpenAtATime
  <2> QED BY <2>1, <2>2, <2>3, <2>4, <2>5, <2>6 DEF OneOpenAtATime
<1>2. /\ OpeningIsOwned' /\ OpenIsOwned' /\ ParkedIsOwned' /\ DockUnitsApart' /\ PrimaryUnitApart'
      /\ OpenedUnitsApart'
  BY <1>0 DEF OpeningIsOwned, OpenIsOwned, ParkedIsOwned, DockUnitsApart, PrimaryUnitApart,
      OpenedUnitsApart, usbVars, choiceVars, driverVars, scannerVars, Shutdown, StopScannedDocks,
      Closing
<1> QED BY <1>1, <1>2 DEF Owned

-----------------------------------------------------------------------------
(* Composition. *)

(* What holds in every reachable state: the ownership only while an open cannot outlast the
   reconnect interval. *)
DocksInv == DiscInv /\ (SlowOpen \/ Owned)

(* It holds at the start. *)
LEMMA DocksInit == Init => DocksInv
<1> SUFFICES ASSUME Init PROVE DocksInv
  OBVIOUS
<1> USE DEF Init, NoProbe, NoCreate, NoTask, Unused
<1>1. TypeOK
  <2>1. drv \in [Drivers -> DriverRecs] /\ create \in CreateRecs
    BY DEF DriverRecs, CreateRecs
  <2>2. plugs \in 0 .. MaxPlugs /\ edits \in 0 .. MaxEdits
    BY DiscoveryAssumption
  <2> QED BY <2>1, <2>2 DEF TypeOK, Held, DriverRecs, CreateRecs
<1>2. ProbeAtWork /\ CreationAtWork /\ WorkApart /\ PrimaryIsOpen /\ DocksAreOpen /\ DocksApart
  BY DEF ProbeAtWork, CreationAtWork, WorkApart, PrimaryIsOpen, DocksAreOpen, DocksApart
<1>3. StartIsOpen /\ StartApart /\ Registered /\ PoolIsParked /\ PoolApart
  BY DEF StartIsOpen, StartApart, Registered, PoolIsParked, PoolApart
<1>4. TasksAwait /\ TasksApart /\ DeadWereOpen /\ UnplugReachesPrimary
  BY DEF TasksAwait, TasksApart, DeadWereOpen, UnplugReachesPrimary
<1>5. IndexPoolConserved /\ NoDockAfterTeardown /\ StaleIsKnown /\ ReconnectPending
  BY DEF IndexPoolConserved, NoDockAfterTeardown, StaleIsKnown, ReconnectPending, Held
<1>6. OneOpenAtATime /\ OpeningIsOwned /\ OpenIsOwned /\ ParkedIsOwned
  BY DEF OneOpenAtATime, OpeningIsOwned, OpenIsOwned, ParkedIsOwned
<1>7. DockUnitsApart /\ PrimaryUnitApart /\ OpenedUnitsApart
  BY DEF DockUnitsApart, PrimaryUnitApart, OpenedUnitsApart
<1> QED BY <1>1, <1>2, <1>3, <1>4, <1>5, <1>6, <1>7 DEF DocksInv, DiscInv, Owned

(* Every step keeps it: one step of the proof for each action, split where the action takes
   different ways. *)
LEMMA DocksStep ==
    ASSUME DocksInv, [Next]_vars
    PROVE  DocksInv'
<1>0. DiscInv /\ (SlowOpen \/ Owned)
  BY DEF DocksInv
<1>i. ~SlowOpen => OwnedInv
  BY <1>0 DEF OwnedInv
<1>t. /\ snapshot \in SUBSET Units /\ plugged \in SUBSET Units
      /\ parked \in [Models -> Drivers \cup {None}] /\ probe.left \in SUBSET Models
      /\ \A k \in TaskKinds : tasks[k].left \in SUBSET Indices /\ tasks[k].models \in SUBSET Models
  BY <1>0 DEF DiscInv, TypeOK

<1>1. CASE \E u \in Units : Plug(u)
  BY <1>0, <1>i, <1>1, PlugStep, PlugOwns DEF DocksInv
<1>2. CASE \E u \in Units : Unplug(u)
  BY <1>0, <1>i, <1>2, UnplugStep, UnplugOwns DEF DocksInv
<1>3. CASE ReconnectTimer
  BY <1>0, <1>i, <1>3, ReconnectTimerStep, ReconnectTimerOwns DEF DocksInv
<1>4. CASE ProbeOpened
  BY <1>0, <1>i, <1>4, ProbeOpenedStep, ProbeOpenedOwns, ProbeOpenedLateStep,
      ProbeOpenedLateOwns DEF DocksInv
<1>5. CASE ProbeOpenFails /\ shutdown
  BY <1>0, <1>i, <1>5, ProbeFailsLateStep, ProbeFailsLateOwns DEF DocksInv
<1>6. CASE ProbeOpenFails /\ ~shutdown
  <2>1. /\ ProbeModels(probe.left, snapshot, detected, AfterFailure, PoolAfterFailure)
        /\ probe.pc = "open" /\ ~shutdown
    BY <1>6 DEF ProbeOpenFails, AfterFailure, PoolAfterFailure
  <2>p. PoolAfterFailure \in [Models -> Drivers \cup {None}]
    BY <1>0, <2>1, ModelsKnown DEF DiscInv, TypeOK, ProbeAtWork, PoolAfterFailure
  <2>2. \/ \E m \in Models, d \in Drivers, u \in Units \ ClaimedPaths :
             ProbeOpens(AfterFailure, PoolAfterFailure, m, d, u)
        \/ ProbeEnds(AfterFailure, PoolAfterFailure)
    BY <1>t, <2>1, <2>p, ProbeSteps
  <2>3. /\ create' = create /\ snapshot' = snapshot /\ detected' = detected
        /\ BusRests /\ ChoiceRests
        /\ UNCHANGED <<dead, mail, primary, shutdown, tasks, units, up, free>>
    BY <1>6 DEF ProbeOpenFails, usbVars, choiceVars, scannerVars, BusRests, ChoiceRests
  <2>4. CASE \E m \in Models, d \in Drivers,
           u \in Units \ ClaimedPaths : ProbeOpens(AfterFailure, PoolAfterFailure, m, d, u)
    BY <1>0, <1>i, <2>1, <2>3, <2>4, ProbeFailsAndOpensStep, ProbeFailsAndOpensOwns DEF DocksInv
  <2>5. CASE ProbeEnds(AfterFailure, PoolAfterFailure)
    BY <1>0, <1>i, <2>1, <2>3, <2>5, ProbeFailsAndEndsStep, ProbeFailsAndEndsOwns DEF DocksInv
  <2> QED BY <2>2, <2>4, <2>5
<1>7. CASE ScanTick
  BY <1>0, <1>i, <1>7, ScanTickStep, ScanTickOwns DEF DocksInv
<1>8. CASE \E snap \in {plugged, {}} : ScanResult(snap)
  <2> PICK snap \in {plugged, {}} : ScanResult(snap)
    BY <1>8
  <2>0. snap \in SUBSET Units
    BY <1>t
  <2>3. /\ snapshot' \in SUBSET Units /\ BusRests /\ ChoiceRests
        /\ UNCHANGED <<dead, mail, primary, shutdown, tasks, units, up, free>>
    BY <2>0 DEF ScanResult, usbVars, choiceVars, BusRests, ChoiceRests
  <2>4. CASE probe.pc = "scan"
    <3>1. /\ ProbeModels(probe.left, snap, snap, drv, parked) /\ detected' \in SUBSET Units
          /\ create' = IF create.pc = "scan" THEN NoCreate ELSE create
      BY <2>0, <2>4 DEF ScanResult
    <3>2. \/ \E m \in Models, d \in Drivers, u \in Units \ ClaimedPaths :
               ProbeOpens(drv, parked, m, d, u)
          \/ ProbeEnds(drv, parked)
      BY <1>t, <2>0, <3>1, ProbeSteps
    <3>3. CASE \E m \in Models, d \in Drivers, u \in Units \ ClaimedPaths :
                 ProbeOpens(drv, parked, m, d, u)
      BY <1>0, <1>i, <2>3, <2>4, <3>1, <3>3, ScanProbeOpensStep, ScanProbeOpensOwns DEF DocksInv
    <3>4. CASE ProbeEnds(drv, parked)
      BY <1>0, <1>i, <2>3, <2>4, <3>1, <3>4, ScanProbeEndsStep, ScanProbeEndsOwns DEF DocksInv
    <3> QED BY <3>2, <3>3, <3>4
  <2>5. CASE probe.pc # "scan"
    <3>1. /\ create.pc = "scan" /\ ScannerResumes(snap) /\ UNCHANGED <<probe, timer>>
      BY <2>5 DEF ScanResult
    <3>2. detected' \in SUBSET Units
      BY <1>0, <2>0, <3>1 DEF ScannerResumes, DiscInv, TypeOK
    <3>3. \/ \E m \in Models, d \in Drivers, u \in Units \ ClaimedPaths : ScannerOpens(m, d, u)
          \/ create' = NoCreate /\ UNCHANGED <<drv, parked>>
      BY <1>t, <2>0, <3>1, ScannerSteps
    <3>4. CASE \E m \in Models, d \in Drivers, u \in Units \ ClaimedPaths : ScannerOpens(m, d, u)
      BY <1>0, <1>i, <2>3, <3>1, <3>2, <3>4, ScannerOpensStep, ScannerOpensOwns DEF DocksInv
    <3>5. CASE create' = NoCreate /\ UNCHANGED <<drv, parked>>
      BY <1>0, <1>i, <2>3, <3>1, <3>2, <3>5, ScannerGivesUpStep, ScannerGivesUpOwns DEF DocksInv
    <3> QED BY <3>3, <3>4, <3>5
  <2> QED BY <2>4, <2>5
<1>9. CASE CreateOpened
  <2>1. CASE Stale \/ free = {}
    BY <1>0, <1>i, <1>9, <2>1, CreateOpenedLateStep, CreateOpenedLateOwns DEF DocksInv
  <2>2. CASE ~(Stale \/ free = {})
    <3>1. free \subseteq Nat /\ free # {}
      BY <1>0, <2>2, NumbersOnly DEF DiscInv, TypeOK
    <3>2. Min(free) \in free
      BY <3>1, MinIsIn
    <3> QED BY <1>0, <1>i, <1>9, <2>2, <3>2, CreateOpenedStep, CreateOpenedOwns DEF DocksInv
  <2> QED BY <2>1, <2>2
<1>10. CASE CreateOpenFails
  BY <1>0, <1>i, <1>10, CreateOpenFailsStep, CreateOpenFailsOwns, CreateOpenFailsLateStep,
      CreateOpenFailsLateOwns DEF DocksInv
<1>11. CASE CreateStarted
  BY <1>0, <1>i, <1>11, CreateStartedStep, CreateStartedOwns DEF DocksInv
<1>12. CASE CreateStartFails
  BY <1>0, <1>i, <1>12, CreateStartFailsStep, CreateStartFailsOwns DEF DocksInv
<1>13. CASE \E d \in Drivers : Disconnect(d)
  <2> PICK d \in Drivers : Disconnect(d)
    BY <1>13
  <2>1. /\ d \in mail /\ drv[d].st = "open" /\ mail' = mail \ {d} /\ d # None
        /\ UNCHANGED <<usbVars, snapshot, detected, choiceVars, probe, parked, shutdown, tasks>>
    BY NumbersOnly DEF Disconnect
  <2>2. CASE d = primary /\ primary' = None
    <3>1. /\ timer' = ~shutdown /\ drv' = [drv EXCEPT ![primary] = Unused]
          /\ dead' = dead \ {primary} /\ UNCHANGED scannerVars
      BY <1>0, <2>1, <2>2 DEF Disconnect, ScheduleReconnect, DiscInv, DocksApart, TypeOK, Held
    <3> QED BY <1>0, <1>i, <2>1, <2>2, <3>1, DisconnectPrimaryStep,
        DisconnectPrimaryOwns DEF DocksInv
  <2>3. CASE \E i \in up :
               /\ units[i] = d
               /\ units' = [units EXCEPT ![i] = None] /\ up' = up \ {i} /\ free' = free \cup {i}
               /\ drv' = [drv EXCEPT ![d] = Unused] /\ dead' = dead \ {d}
               /\ UNCHANGED <<create, primary, timer>>
    BY <1>0, <1>i, <2>1, <2>3, DisconnectDockStep, DisconnectDockOwns DEF DocksInv
  <2>4. CASE d = create.d /\ UNCHANGED <<drv, dead, primary, timer, scannerVars>>
    <3>1. d # primary
      BY <1>0, <2>1, <2>4 DEF DiscInv, TypeOK, CreationAtWork, StartApart
    <3> QED BY <1>0, <1>i, <2>1, <2>4, <3>1, DisconnectCreationStep,
        DisconnectCreationOwns DEF DocksInv
  <2> QED BY <2>2, <2>3, <2>4 DEF Disconnect
<1>14. CASE \E e \in Drivers : Closed(e)
  <2> PICK e \in Drivers : Closed(e)
    BY <1>14
  <2>1. /\ drv[e].st = "closing" /\ AwaitedBy(e) = {} /\ dead' = dead \ {e} /\ mail' = mail \ {e}
        /\ create' = IF create.pc = "close" /\ create.d = e THEN NoCreate ELSE create
        /\ UNCHANGED <<snapshot, detected, primary, shutdown, tasks, units, up, free>>
        /\ BusRests /\ ChoiceRests
    BY DEF Closed, usbVars, choiceVars, BusRests, ChoiceRests
  <2>2. CASE ~(probe.pc = "close" /\ probe.d = e)
    <3>1. drv' = [drv EXCEPT ![e] = Unused] /\ UNCHANGED <<probe, timer, parked>>
      BY <2>2 DEF Closed
    <3> QED BY <1>0, <1>i, <2>1, <2>2, <3>1, ClosedAloneStep, ClosedAloneOwns DEF DocksInv
  <2>3. CASE probe.pc = "close" /\ probe.d = e
    <3>1. ProbeModels(probe.left, snapshot, detected, [drv EXCEPT ![e] = Unused], parked)
      BY <2>3 DEF Closed
    <3>2. \/ \E m \in Models, d \in Drivers, u \in Units \ ClaimedPaths :
               ProbeOpens([drv EXCEPT ![e] = Unused], parked, m, d, u)
          \/ ProbeEnds([drv EXCEPT ![e] = Unused], parked)
      BY <1>t, <3>1, ProbeSteps
    <3>3. CASE \E m \in Models, d \in Drivers, u \in Units \ ClaimedPaths :
                 ProbeOpens([drv EXCEPT ![e] = Unused], parked, m, d, u)
      BY <1>0, <1>i, <2>1, <2>3, <3>3, ClosedProbeOpensStep, ClosedProbeOpensOwns DEF DocksInv
    <3>4. CASE ProbeEnds([drv EXCEPT ![e] = Unused], parked)
      BY <1>0, <1>i, <2>1, <2>3, <3>4, ClosedProbeEndsStep, ClosedProbeEndsOwns DEF DocksInv
    <3> QED BY <3>2, <3>3, <3>4
  <2> QED BY <2>2, <2>3
<1>15. CASE SetMultiDeck
  BY <1>0, <1>i, <1>15, MultiDeckOffStep, MultiDeckOffOwns, MultiDeckOnStep,
      MultiDeckOnOwns DEF DocksInv
<1>16. CASE \E sel \in SUBSET Units : SetActiveDecks(sel)
  <2> PICK sel \in SUBSET Units : SetActiveDecks(sel)
    BY <1>16
  <2>1. TaskStep("choose", Held, {}, sel, drv) /\ Held \in SUBSET Indices /\ {} \in SUBSET Models
    BY DEF SetActiveDecks, Held
  <2>2. /\ edits' \in 0 .. MaxEdits /\ selected' \in SUBSET Units /\ BusRests
        /\ UNCHANGED <<snapshot, detected, multi, dead, mail, probe, timer, parked, shutdown>>
        /\ tasks["choose"].pc = "idle" /\ "choose" \in TaskKinds
    BY <1>0, DiscoveryAssumption DEF SetActiveDecks, Edit, usbVars, BusRests, TaskKinds, DiscInv,
        TypeOK
  <2>3. \/ \E i \in Indices : TaskStops("choose", i, drv)
        \/ TaskStopsPrimary("choose", drv) \/ TaskEnds("choose", drv)
    BY <2>1, <2>2, TaskSteps
  <2>4. CASE \E i \in Indices : TaskStops("choose", i, drv)
    BY <1>0, <1>i, <2>2, <2>4, UserStopsDockStep, UserStopsDockOwns DEF DocksInv
  <2>5. CASE TaskStopsPrimary("choose", drv)
    BY <1>0, <1>i, <2>2, <2>5, UserStopsPrimaryStep, UserStopsPrimaryOwns DEF DocksInv
  <2>6. CASE TaskEnds("choose", drv)
    BY <1>0, <1>i, <2>2, <2>6, UserStopsNothingStep, UserStopsNothingOwns DEF DocksInv
  <2> QED BY <2>3, <2>4, <2>5, <2>6
<1>17. CASE \E ms \in {Models} \cup {{m} : m \in Models} : ReloadDeviceTuning(ms)
  <2> PICK ms \in {Models} \cup {{m} : m \in Models} : ReloadDeviceTuning(ms)
    BY <1>17
  <2> DEFINE left == {i \in Held : ModelOf[drv[units[i]].path] \in ms}
  <2>1. TaskStep("reload", left, ms, selected, drv) /\ left \in SUBSET Indices
           /\ ms \in SUBSET Models
    BY DEF ReloadDeviceTuning, Held
  <2> HIDE DEF left
  <2>2. /\ edits' \in 0 .. MaxEdits /\ selected' \in SUBSET Units /\ BusRests
        /\ UNCHANGED <<snapshot, detected, multi, dead, mail, probe, timer, parked, shutdown>>
        /\ tasks["reload"].pc = "idle" /\ "reload" \in TaskKinds
    BY <1>0, DiscoveryAssumption DEF ReloadDeviceTuning, Edit, usbVars, BusRests, TaskKinds,
        DiscInv, TypeOK
  <2>3. \/ \E i \in Indices : TaskStops("reload", i, drv)
        \/ TaskStopsPrimary("reload", drv) \/ TaskEnds("reload", drv)
    BY <2>1, <2>2, TaskSteps
  <2>4. CASE \E i \in Indices : TaskStops("reload", i, drv)
    BY <1>0, <1>i, <2>2, <2>4, UserStopsDockStep, UserStopsDockOwns DEF DocksInv
  <2>5. CASE TaskStopsPrimary("reload", drv)
    BY <1>0, <1>i, <2>2, <2>5, UserStopsPrimaryStep, UserStopsPrimaryOwns DEF DocksInv
  <2>6. CASE TaskEnds("reload", drv)
    BY <1>0, <1>i, <2>2, <2>6, UserStopsNothingStep, UserStopsNothingOwns DEF DocksInv
  <2> QED BY <2>3, <2>4, <2>5, <2>6
<1>18. CASE \E k \in TaskKinds : TaskResumes(k)
  <2> PICK k \in TaskKinds : TaskResumes(k)
    BY <1>18
  <2>1. /\ BusRests /\ ChoiceRests /\ UNCHANGED <<snapshot, detected, probe, parked, shutdown>>
        /\ dead' = dead \ {tasks[k].d} /\ mail' = mail \ {tasks[k].d}
    BY DEF TaskResumes, usbVars, choiceVars, BusRests, ChoiceRests
  <2>2. CASE /\ tasks[k].pc = "docks" /\ timer' = timer
             /\ TaskStep(k, tasks[k].left, tasks[k].models, selected, After(tasks[k].d))
    <3>1. \/ \E i \in Indices : TaskStops(k, i, After(tasks[k].d))
          \/ TaskStopsPrimary(k, After(tasks[k].d)) \/ TaskEnds(k, After(tasks[k].d))
      BY <1>t, <2>2, TaskSteps
    <3>2. CASE \E i \in Indices : TaskStops(k, i, After(tasks[k].d))
      BY <1>0, <1>i, <2>1, <2>2, <3>2, TaskStopsDockStep, TaskStopsDockOwns DEF DocksInv
    <3>3. CASE TaskStopsPrimary(k, After(tasks[k].d))
      BY <1>0, <1>i, <2>1, <2>2, <3>3, TaskStopsPrimaryStep, TaskStopsPrimaryOwns DEF DocksInv
    <3>4. CASE TaskEnds(k, After(tasks[k].d))
      BY <1>0, <1>i, <2>1, <2>2, <3>4, TaskEndsStep, TaskEndsOwns DEF DocksInv
    <3> QED BY <3>1, <3>2, <3>3, <3>4
  <2>3. CASE tasks[k].pc = "primary" /\ timer' = ~shutdown /\ TaskEnds(k, After(tasks[k].d))
    BY <1>0, <1>i, <2>1, <2>3, TaskReconnectsStep, TaskReconnectsOwns DEF DocksInv
  <2> QED BY <2>2, <2>3 DEF TaskResumes, After, TaskEnds, ScheduleReconnect
<1>19. CASE Shutdown
  BY <1>0, <1>i, <1>19, ShutdownStep, ShutdownOwns DEF DocksInv
<1>20. CASE UNCHANGED vars
  <2> USE DEF vars, usbVars, choiceVars, driverVars, scannerVars
  <2>1. DiscInv'
    BY <1>0, <1>20 DEF DiscInv, TypeOK, ProbeAtWork, CreationAtWork, WorkApart, PrimaryIsOpen,
       DocksAreOpen, DocksApart, StartIsOpen, StartApart, Registered, PoolIsParked, PoolApart,
       TasksAwait, TasksApart, DeadWereOpen, UnplugReachesPrimary, IndexPoolConserved,
       NoDockAfterTeardown, StaleIsKnown, ReconnectPending, Held
  <2>2. Owned => Owned'
    BY <1>20 DEF Owned, OneOpenAtATime, OpeningIsOwned, OpenIsOwned, ParkedIsOwned, DockUnitsApart,
       PrimaryUnitApart, OpenedUnitsApart
  <2> QED BY <1>0, <2>1, <2>2 DEF DocksInv
<1> QED BY <1>1, <1>2, <1>3, <1>4, <1>5, <1>6, <1>7, <1>8, <1>9, <1>10, <1>11, <1>12, <1>13, <1>14,
    <1>15, <1>16, <1>17, <1>18, <1>19, <1>20 DEF Next

(* Both invariants hold always. *)
THEOREM DocksAlways == Spec => []DocksInv
<1> QED BY DocksInit, DocksStep, PTL DEF Spec

(* For any units, drivers, cap and models, with opens and scans that may fail or be slow: the
   index pool neither loses nor duplicates an index, a torn down or shut down scanner has no
   dock, dock 0 never sits on a dead driver without being told, and while it has none the
   search for one goes on (DockScanner, DriverManager, WorkerPool). *)
THEOREM DiscoveryStaysConsistent == Spec => []DiscoveryConsistent
<1>1. DocksInv => DiscoveryConsistent
  BY DEF DocksInv, DiscInv, DiscoveryConsistent, PoolConsistent
<1> QED BY <1>1, DocksAlways, PTL

(* From the invariants: the five kinds of owner exclude each other. *)
LEMMA OwnedIsNotShared == ASSUME OwnedInv PROVE NothingIsShared
<1>0. Owned /\ DiscInv
  BY DEF OwnedInv
<1>t. /\ TypeOK /\ ProbeAtWork /\ CreationAtWork /\ WorkApart /\ PrimaryIsOpen /\ DocksAreOpen
      /\ DocksApart /\ StartIsOpen /\ StartApart /\ Registered /\ PoolIsParked /\ PoolApart
      /\ OneOpenAtATime /\ OpeningIsOwned /\ OpenIsOwned /\ ParkedIsOwned /\ DockUnitsApart
      /\ PrimaryUnitApart
  BY <1>0 DEF Owned, DiscInv
<1>1. DriverHasOneOwner
  <2> SUFFICES ASSUME NEW d \in Drivers
               PROVE  Cardinality(OwnersOf(d)) = IF drv[d].st \in {"free", "closing"} THEN 0 ELSE 1
    BY DEF DriverHasOneOwner
  <2>n. d # None
    BY NumbersOnly
  <2> DEFINE probing == probe.pc = "open" /\ probe.d = d
             creating == create.pc \in {"open", "start"} /\ create.d = d
             served == {i \in up : units[i] = d}
             pooled == {m \in Models : parked[m] = d}
  <2>u. up \subseteq Indices /\ primary \in Drivers \cup {None}
    BY <1>t DEF TypeOK, Held
  <2>1. probing => drv[d].st = "opening"
    BY <1>t DEF ProbeAtWork
  <2>2. primary = d => drv[d].st = "open"
    BY <1>t, <2>n DEF PrimaryIsOpen
  <2>3. creating => drv[d].st = IF create.pc = "open" THEN "opening" ELSE "open"
    BY <1>t DEF CreationAtWork, StartIsOpen
  <2>4. served # {} => drv[d].st = "open"
    BY <1>t, <2>n, <2>u DEF DocksAreOpen
  <2>5. pooled # {} => drv[d].st = "parked"
    BY <1>t, <2>n DEF PoolIsParked
  <2>6. \A i, j \in served : i = j
    BY <1>t, <2>n, <2>u DEF DocksApart
  <2>7. \A m, n \in pooled : m = n
    BY <1>t, <2>n DEF PoolApart
  <2>8. OwnersOf(d) = {o \in {"probe"} : probing} \cup {o \in {"dock 0"} : primary = d}
                      \cup {o \in {"creation"} : creating}
                      \cup {<<"dock", i>> : i \in served} \cup {<<"pool", m>> : m \in pooled}
    BY DEF OwnersOf
  <2>9. drv[d].st \in {"free", "opening", "open", "parked", "closing"}
    BY <1>t DEF TypeOK
  <2>a. ~(probing /\ creating)
    BY <1>t, <2>1, <2>3 DEF WorkApart
  <2>b. primary = d => ~creating /\ served = {}
    BY <1>t, <2>2, <2>3, <2>u, <2>n DEF StartApart, DocksApart
  <2>c. served # {} => ~creating
    BY <1>t, <2>3, <2>4, <2>u, <2>n DEF StartApart
  <2>d. drv[d].st = "opening" => probing \/ creating
    BY <1>t DEF OpeningIsOwned
  <2>e. drv[d].st = "open" => primary = d \/ served # {} \/ creating
    BY <1>t DEF OpenIsOwned
  <2>f. drv[d].st = "parked" => pooled # {}
    BY <1>t DEF ParkedIsOwned
  <2> HIDE DEF probing, creating, served, pooled
  <2>10. CASE drv[d].st \in {"free", "closing"}
    <3>1. ~probing /\ primary # d /\ ~creating /\ served = {} /\ pooled = {}
      BY <2>1, <2>2, <2>3, <2>4, <2>5, <2>10
    <3>2. OwnersOf(d) = {}
      BY <2>8, <3>1
    <3> QED BY <2>10, <3>2, FS_EmptySet
  <2>11. CASE drv[d].st = "opening"
    <3>1. primary # d /\ served = {} /\ pooled = {}
      BY <2>2, <2>4, <2>5, <2>11
    <3>2. OwnersOf(d) = {"probe"} \/ OwnersOf(d) = {"creation"}
      BY <2>8, <2>a, <2>d, <2>11, <3>1
    <3> QED BY <2>11, <3>2, FS_Singleton
  <2>12. CASE drv[d].st = "open"
    <3>1. ~probing /\ pooled = {}
      BY <2>1, <2>5, <2>12
    <3>2. CASE primary = d
      <4>1. OwnersOf(d) = {"dock 0"}
        BY <2>8, <2>b, <3>1, <3>2
      <4> QED BY <2>12, <4>1, FS_Singleton
    <3>3. CASE primary # d /\ creating
      <4>1. OwnersOf(d) = {"creation"}
        BY <2>8, <2>c, <3>1, <3>3
      <4> QED BY <2>12, <4>1, FS_Singleton
    <3>4. CASE primary # d /\ ~creating
      <4>1. PICK i : served = {i}
        BY <2>e, <2>6, <2>12, <3>4
      <4>2. OwnersOf(d) = {<<"dock", i>>}
        BY <2>8, <3>1, <3>4, <4>1
      <4> QED BY <2>12, <4>2, FS_Singleton
    <3> QED BY <3>2, <3>3, <3>4
  <2>13. CASE drv[d].st = "parked"
    <3>1. ~probing /\ primary # d /\ ~creating /\ served = {}
      BY <2>1, <2>2, <2>3, <2>4, <2>13
    <3>2. PICK m : pooled = {m}
      BY <2>f, <2>7, <2>13
    <3>3. OwnersOf(d) = {<<"pool", m>>}
      BY <2>8, <3>1, <3>2
    <3> QED BY <2>13, <3>3, FS_Singleton
  <2> QED BY <2>9, <2>10, <2>11, <2>12, <2>13
<1>2. OneDockPerUnit
  <2> SUFFICES ASSUME NEW d \in Attached, NEW e \in Attached, d # e
               PROVE  drv[d].path # drv[e].path
    BY DEF OneDockPerUnit
  <2>1. \A i \in up : i \in Indices /\ units[i] # None
    BY <1>t DEF TypeOK, Held
  <2>2. \A x \in Attached : (x = primary /\ primary # None) \/ \E i \in up : x = units[i]
    BY DEF Attached
  <2>3. CASE d = primary \/ e = primary
    BY <1>t, <2>1, <2>2, <2>3 DEF PrimaryUnitApart
  <2>4. CASE d # primary /\ e # primary
    <3>1. PICK i \in up, j \in up : d = units[i] /\ e = units[j]
      BY <2>2, <2>4
    <3> QED BY <1>t, <2>1, <3>1 DEF DockUnitsApart
  <2> QED BY <2>3, <2>4
<1> QED BY <1>1, <1>2 DEF NothingIsShared

(* As long as no open outlasts the reconnect interval, every driver in use has exactly one owner,
   a closing one none, and no two docks serve one unit (acquire, park, claimedPaths and the stale
   paths of createDock and the probe).  Without the hypothesis it is false: two failed slow opens
   of one model park two workers in one slot of the pool. *)
THEOREM DriversStayUnshared ==
    ASSUME ~SlowOpen
    PROVE  Spec => []NothingIsShared
<1>1. DocksInv => NothingIsShared
  BY OwnedIsNotShared DEF DocksInv, OwnedInv
<1> QED BY <1>1, DocksAlways, PTL

-----------------------------------------------------------------------------
(* Pages.  Orders on naturals and on the pages of a list. *)

(* The numbers behind `least': a set of naturals has a least element. *)

LEMMA LeastOf ==
  ASSUME NEW S, S \subseteq Nat, S # {}
  PROVE  \E m \in S : \A j \in S : m <= j
<1>1. IsWellFoundedOn(OpToRel(<, Nat), Nat)
  BY NatLessThanWellFounded
<1>2. PICK m \in S : \A j \in S : ~ (<<j, m>> \in OpToRel(<, Nat))
  BY <1>1, WFMin
<1>3. \A j \in S : m <= j
  <2> SUFFICES ASSUME NEW j \in S, j < m PROVE FALSE
    OBVIOUS
  <2>1. <<j, m>> \in OpToRel(<, Nat)
    BY DEF OpToRel
  <2> QED BY <2>1, <1>2
<1> QED BY <1>3

(* A ranking R, total and transitive on some of the places of a list, has a first place. *)

LEMMA FirstExists ==
  ASSUME NEW n \in Nat, NEW P, P \subseteq 1 .. n, P # {}, NEW R,
         \A i, j \in P : i # j => <<i, j>> \in R \/ <<j, i>> \in R,
         \A i, j, k \in P : <<i, j>> \in R /\ <<j, k>> \in R => <<i, k>> \in R
  PROVE  \E i \in P : \A j \in P \ {i} : <<i, j>> \in R
<1> DEFINE Best(k) == \E i \in P \cap (1 .. k) : \A j \in (P \cap (1 .. k)) \ {i} : <<i, j>> \in R
           Bad == {k \in Nat : P \cap (1 .. k) # {} /\ ~Best(k)}
<1>1. Bad = {}
  <2> SUFFICES ASSUME Bad # {} PROVE FALSE
    OBVIOUS
  <2>1. PICK m \in Bad : \A j \in Bad : m <= j
    BY LeastOf
  <2>2. m \in Nat /\ P \cap (1 .. m) # {} /\ ~Best(m)
    BY <2>1
  <2>3. m # 0
    BY <2>2
  <2>4. m - 1 \in Nat /\ m - 1 \notin Bad
    <3>1. m - 1 \in Nat
      BY <2>2, <2>3
    <3>2. m - 1 \in Bad => m <= m - 1
      <4> HIDE DEF Bad
      <4> QED BY <2>1
    <3> HIDE DEF Bad
    <3> QED BY <2>2, <3>1, <3>2
  <2>9. \A j : j \in 1 .. m <=> j \in 1 .. (m - 1) \/ j = m
    <3>1. m \in Nat
      BY <2>2
    <3> HIDE DEF Bad
    <3> QED BY <2>3, <3>1
  <2>5. m \in P
    <3> SUFFICES ASSUME m \notin P PROVE FALSE
      OBVIOUS
    <3>1. P \cap (1 .. m) = P \cap (1 .. (m - 1))
      BY <2>9
    <3> QED BY <3>1, <2>2, <2>4
  <2>6. P \cap (1 .. m) = (P \cap (1 .. (m - 1))) \cup {m}
    <3> DEFINE now == P \cap (1 .. m)
               before == P \cap (1 .. (m - 1))
    <3>1. \A j : j \in now <=> j \in before \/ j = m
      BY <2>5, <2>9, Zenon
    <3> HIDE DEF now, before
    <3>2. now = before \cup {m}
      BY <3>1
    <3> QED BY <3>2 DEF now, before
  <2>7. CASE P \cap (1 .. (m - 1)) = {}
    <3>1. P \cap (1 .. m) = {m}
      BY <2>6, <2>7
    <3> QED BY <3>1, <2>2
  <2>8. CASE P \cap (1 .. (m - 1)) # {}
    <3>1. Best(m - 1)
      BY <2>4, <2>8
    <3>2. PICK i \in P \cap (1 .. (m - 1)) :
             \A j \in (P \cap (1 .. (m - 1))) \ {i} : <<i, j>> \in R
      BY <3>1
    <3>3. i # m /\ i \in P /\ i \in P \cap (1 .. m)
      BY <2>6, <2>2, <3>2
    <3>4. CASE <<i, m>> \in R
      <4>1. \A j \in (P \cap (1 .. m)) \ {i} : <<i, j>> \in R
        BY <2>6, <3>2, <3>4
      <4> QED BY <4>1, <3>3, <2>2
    <3>5. CASE <<m, i>> \in R
      <4>1. \A j \in (P \cap (1 .. m)) \ {m} : <<m, j>> \in R
        BY <2>5, <2>6, <3>2, <3>3, <3>5
      <4>2. m \in P \cap (1 .. m)
        BY <2>6
      <4> QED BY <4>1, <4>2, <2>2
    <3> QED BY <3>3, <2>5, <3>4, <3>5
  <2> QED BY <2>7, <2>8
<1>2. n \notin Bad /\ P \cap (1 .. n) = P
  BY <1>1
<1>3. Best(n)
  BY <1>2
<1> QED BY <1>2, <1>3

(* Ratios of naturals are ordered: a / b, c / d and e / f. *)

LEMMA RatiosOrdered ==
  ASSUME NEW a \in Nat, NEW b \in Nat, NEW c \in Nat, NEW d \in Nat, NEW e \in Nat, NEW f \in Nat,
         b > 0, d > 0, f > 0, a * d >= c * b, c * f >= e * d
  PROVE  a * f >= e * b
<1>1. (a * d) * f >= (c * b) * f
  <2> DEFINE x == a * d
             y == c * b
  <2>1. x \in Nat /\ y \in Nat /\ x >= y
    OBVIOUS
  <2> HIDE DEF x, y
  <2>2. x * f >= y * f
    BY <2>1
  <2> QED BY <2>2 DEF x, y
<1>2. (c * f) * b >= (e * d) * b
  <2> DEFINE x == c * f
             y == e * d
  <2>1. x \in Nat /\ y \in Nat /\ x >= y
    OBVIOUS
  <2> HIDE DEF x, y
  <2>2. x * b >= y * b
    BY <2>1
  <2> QED BY <2>2 DEF x, y
<1>3. (a * f) * d >= (e * b) * d
  <2>1. (a * d) * f = (a * f) * d /\ (c * b) * f = (c * f) * b /\ (e * d) * b = (e * b) * d
    OBVIOUS
  <2> QED BY <1>1, <1>2, <2>1
<1> DEFINE x == a * f
           y == e * b
<1>4. x \in Nat /\ y \in Nat /\ x * d >= y * d
  BY <1>3
<1> HIDE DEF x, y
<1>5. x >= y
  BY <1>4
<1> QED BY <1>5 DEF x, y

(* The tracker, the list of pages and what the controller keeps of it, by type. *)
FrameVectors == [PageKeys -> Nat]
PageRecs ==
  [id : Nat, profile : Profiles, hashes : FrameVectors, ignore : SUBSET PageKeys,
   minMatch : Nat, layout : 0 .. 2]
TrackerRecs ==
  [hashes : FrameVectors, animated : SUBSET PageKeys, active : Nat, pending : Nat \cup {Unset},
   settle : BOOLEAN, maxWait : BOOLEAN, lastHeld : BOOLEAN, profile : Profiles]
SeenRecs ==
  [known : BOOLEAN, profile : Profiles, hashes : FrameVectors, suggested : SUBSET PageKeys,
   settling : BOOLEAN, held : BOOLEAN]
WorldRecs == [t : TrackerRecs, pages : Seq(PageRecs), seen : SeenRecs, painted : 1 .. 2]

(* Sets of keys are finite, and counted by naturals. *)
LEMMA KeysCounted ==
  ASSUME NEW S, S \subseteq PageKeys
  PROVE  IsFiniteSet(S) /\ Cardinality(S) \in Nat /\ (S # {} => Cardinality(S) > 0)
<1>1. IsFiniteSet(S)
  BY PagesAssumption, FS_Subset
<1>2. Cardinality(S) \in Nat /\ (Cardinality(S) = 0 <=> S = {})
  BY <1>1, FS_CardinalityType, FS_EmptySet
<1> QED BY <1>1, <1>2

(* The page shown is one that the frames on the deck match well enough, and it ranks before every
   other such page: by the share of keys that match, then by their number, then by its place in the
   list (page-match.ts).  Without one there is no page. *)
THEOREM WinnerIsFirst ==
  ASSUME NEW pages \in Seq(PageRecs), NEW current \in FrameVectors, NEW profile \in Profiles
  PROVE  LET i == Winner(pages, current, profile)
             m(j) == Cardinality(Matched(pages[j], current))
             n(j) == Cardinality(Considered(pages[j]))
             passes(j) == /\ Eligible(pages[j], profile)
                          /\ m(j) >= RequiredMatches(n(j), pages[j].minMatch)
         IN  \/ i = 0 /\ \A j \in DOMAIN pages : ~passes(j)
             \/ /\ i \in DOMAIN pages /\ passes(i)
                /\ \A j \in DOMAIN pages : passes(j) /\ j # i =>
                     \/ m(i) * n(j) > m(j) * n(i)
                     \/ m(i) * n(j) = m(j) * n(i) /\ n(i) > n(j)
                     \/ m(i) * n(j) = m(j) * n(i) /\ n(i) = n(j) /\ i < j
<1> DEFINE m(j) == Cardinality(Matched(pages[j], current))
           n(j) == Cardinality(Considered(pages[j]))
           passing == {j \in DOMAIN pages : /\ Eligible(pages[j], profile)
                                            /\ m(j) >= RequiredMatches(n(j), pages[j].minMatch)}
           before(i, j) == \/ m(i) * n(j) > m(j) * n(i)
                           \/ m(i) * n(j) = m(j) * n(i) /\ n(i) > n(j)
                           \/ m(i) * n(j) = m(j) * n(i) /\ n(i) = n(j) /\ i < j
           R == {p \in passing \X passing : before(p[1], p[2])}
<1>1. \A j \in passing : j \in Nat /\ m(j) \in Nat /\ n(j) \in Nat /\ n(j) > 0
  <2> SUFFICES ASSUME NEW j \in passing
               PROVE  j \in Nat /\ m(j) \in Nat /\ n(j) \in Nat /\ n(j) > 0
    OBVIOUS
  <2>1. j \in DOMAIN pages /\ Eligible(pages[j], profile)
    OBVIOUS
  <2>2. j \in Nat
    BY <2>1
  <2>3. Considered(pages[j]) \subseteq PageKeys /\ Considered(pages[j]) # {}
    BY <2>1 DEF Considered, Eligible
  <2>4. Matched(pages[j], current) \subseteq PageKeys
    BY <2>3 DEF Matched
  <2> QED BY <2>2, <2>3, <2>4, KeysCounted
<1>2. passing = {} => Winner(pages, current, profile) = 0
  BY DEF Winner
<1>3. passing # {} => Winner(pages, current, profile) = CHOOSE i \in passing : \A j \in passing \ {i} : before(i, j)
  BY DEF Winner
<1>4. passing \subseteq DOMAIN pages /\ DOMAIN pages = 1 .. Len(pages) /\ Len(pages) \in Nat
  OBVIOUS
<1>5. \A j \in DOMAIN pages : j \in passing <=>
        /\ Eligible(pages[j], profile) /\ m(j) >= RequiredMatches(n(j), pages[j].minMatch)
  OBVIOUS
<1>6. \A i, j \in passing : <<i, j>> \in R <=> before(i, j)
  <2> HIDE DEF passing, before
  <2> QED OBVIOUS
<1>7. \A i, j \in passing : i # j => before(i, j) \/ before(j, i)
  <2> SUFFICES ASSUME NEW i \in passing, NEW j \in passing, i # j PROVE before(i, j) \/ before(j, i)
    OBVIOUS
  <2>1. /\ i \in Nat /\ m(i) \in Nat /\ n(i) \in Nat
        /\ j \in Nat /\ m(j) \in Nat /\ n(j) \in Nat
    BY <1>1
  <2> HIDE DEF passing, m, n
  <2> DEFINE x == m(i) * n(j)
             y == m(j) * n(i)
  <2>2. x \in Nat /\ y \in Nat
    BY <2>1
  <2>3. x > y \/ y > x \/ (x = y /\ (n(i) > n(j) \/ n(j) > n(i) \/ (n(i) = n(j) /\ (i < j \/ j < i))))
    <3> HIDE DEF x, y
    <3> QED BY <2>1, <2>2
  <2> QED BY <2>3
<1>8. \A i, j, k \in passing : before(i, j) /\ before(j, k) => before(i, k)
  <2> SUFFICES ASSUME NEW i \in passing, NEW j \in passing, NEW k \in passing,
                      before(i, j), before(j, k)
               PROVE  before(i, k)
    OBVIOUS
  <2>1. /\ i \in Nat /\ m(i) \in Nat /\ n(i) \in Nat /\ n(i) > 0
        /\ j \in Nat /\ m(j) \in Nat /\ n(j) \in Nat /\ n(j) > 0
        /\ k \in Nat /\ m(k) \in Nat /\ n(k) \in Nat /\ n(k) > 0
    BY <1>1
  <2> DEFINE ij == m(i) * n(j)
             ji == m(j) * n(i)
             jk == m(j) * n(k)
             kj == m(k) * n(j)
             ik == m(i) * n(k)
             ki == m(k) * n(i)
  <2> HIDE DEF passing, m, n
  <2>2. ij \in Nat /\ ji \in Nat /\ jk \in Nat /\ kj \in Nat /\ ik \in Nat /\ ki \in Nat
    <3>1. \A x, y \in Nat : x * y \in Nat
      OBVIOUS
    <3> QED BY <2>1, <3>1
  <2>3. /\ ij > ji \/ (ij = ji /\ (n(i) > n(j) \/ (n(i) = n(j) /\ i < j)))
        /\ jk > kj \/ (jk = kj /\ (n(j) > n(k) \/ (n(j) = n(k) /\ j < k)))
    OBVIOUS
  <2>4. ij >= ji /\ jk >= kj
    <3> HIDE DEF ij, ji, jk, kj
    <3> QED BY <2>2, <2>3
  <2>5. ik >= ki
    BY <2>1, <2>4, RatiosOrdered
  <2>6. ki >= ik => kj >= jk
    <3> SUFFICES ASSUME ki >= ik PROVE kj >= jk
      OBVIOUS
    <3> QED BY <2>1, <2>4, RatiosOrdered
  <2>7. ki >= ik => ji >= ij
    <3> SUFFICES ASSUME ki >= ik PROVE ji >= ij
      OBVIOUS
    <3> QED BY <2>1, <2>4, RatiosOrdered
  <2>8. ik > ki \/ (ik = ki /\ (n(i) > n(k) \/ (n(i) = n(k) /\ i < k)))
    <3> HIDE DEF ij, ji, jk, kj, ik, ki
    <3> QED BY <2>1, <2>2, <2>3, <2>4, <2>5, <2>6, <2>7
  <2> QED BY <2>8
<1>9. ASSUME passing # {}
      PROVE  \E i \in passing : \A j \in passing \ {i} : before(i, j)
  <2> HIDE DEF before, passing, R
  <2>1. /\ \A i, j \in passing : i # j => <<i, j>> \in R \/ <<j, i>> \in R
        /\ \A i, j, k \in passing : <<i, j>> \in R /\ <<j, k>> \in R => <<i, k>> \in R
    BY <1>6, <1>7, <1>8
  <2>2. PICK i \in passing : \A j \in passing \ {i} : <<i, j>> \in R
    BY <1>4, <1>9, <2>1, FirstExists
  <2> QED BY <1>6, <2>2
<1>12. PICK w : w = Winner(pages, current, profile)
  OBVIOUS
<1>10. CASE passing = {}
  <2>1. w = 0
    BY <1>2, <1>10, <1>12
  <2> QED BY <1>5, <1>10, <1>12, <2>1
<1>11. CASE passing # {}
  <2>1. w \in passing /\ \A j \in passing \ {w} : before(w, j)
    <3> HIDE DEF passing, before
    <3> QED BY <1>3, <1>9, <1>11, <1>12
  <2>2. w \in DOMAIN pages /\ Eligible(pages[w], profile)
        /\ m(w) >= RequiredMatches(n(w), pages[w].minMatch)
    BY <1>4, <1>5, <2>1
  <2> QED BY <1>5, <1>12, <2>1, <2>2
<1> QED BY <1>10, <1>11

(* A new page's id is in use nowhere. *)

LEMMA NextIsFresh ==
  ASSUME NEW pages \in Seq(PageRecs)
  PROVE  NextPageId(pages) \in Nat \ {0} /\ \A i \in DOMAIN pages : pages[i].id < NextPageId(pages)
<1> DEFINE used == {0} \cup {pages[i].id : i \in DOMAIN pages}
           top == CHOOSE n \in used : \A m \in used : m <= n
<1>1. DOMAIN pages = 1 .. Len(pages) /\ Len(pages) \in Nat /\ \A i \in DOMAIN pages : pages[i].id \in Nat
  <2>1. \A i \in DOMAIN pages : pages[i] \in PageRecs
    OBVIOUS
  <2> QED BY <2>1 DEF PageRecs
<1>2. used \subseteq Nat /\ used # {}
  BY <1>1
<1>3. \E n \in used : \A m \in used : m <= n
  <2>1. CASE DOMAIN pages = {}
    BY <2>1
  <2>2. CASE DOMAIN pages # {}
    <3> DEFINE P == DOMAIN pages
               R == {p \in P \X P : pages[p[1]].id >= pages[p[2]].id}
    <3>1. \A i, j \in P : <<i, j>> \in R <=> pages[i].id >= pages[j].id
      OBVIOUS
    <3>2. PICK i \in P : \A j \in P \ {i} : <<i, j>> \in R
      <4>1. /\ \A j, k \in P : j # k => <<j, k>> \in R \/ <<k, j>> \in R
            /\ \A j, k, l \in P : <<j, k>> \in R /\ <<k, l>> \in R => <<j, l>> \in R
        <5> HIDE DEF R, P
        <5>1. \A j \in P : pages[j].id \in Nat
          BY <1>1 DEF P
        <5> QED BY <3>1, <5>1
      <4>2. P \subseteq 1 .. Len(pages) /\ P # {} /\ Len(pages) \in Nat
        BY <1>1, <2>2
      <4> HIDE DEF R, P
      <4> QED BY <4>1, <4>2, FirstExists
    <3>3. \A j \in P : pages[j].id <= pages[i].id
      <4>1. \A j \in P : pages[j].id \in Nat
        BY <1>1
      <4> SUFFICES ASSUME NEW j \in P PROVE pages[j].id <= pages[i].id
        OBVIOUS
      <4>2. CASE j = i
        BY <4>1, <4>2
      <4>3. CASE j # i
        <5>1. <<i, j>> \in R
          BY <3>2, <4>3
        <5>2. pages[i].id >= pages[j].id
          BY <5>1
        <5> QED BY <4>1, <5>2
      <4> QED BY <4>2, <4>3
    <3>4. pages[i].id \in used
      BY <3>2
    <3>5. \A m \in used : m <= pages[i].id
      BY <1>1, <3>2, <3>3
    <3> QED BY <3>4, <3>5
  <2> QED BY <2>1, <2>2
<1>4. top \in used /\ \A m \in used : m <= top
  <2> HIDE DEF used
  <2> QED BY <1>3
<1>5. NextPageId(pages) = 1 + top
  BY DEF NextPageId
<1>6. \A i \in DOMAIN pages : pages[i].id \in used
  OBVIOUS
<1> HIDE DEF top, used
<1> QED BY <1>1, <1>2, <1>4, <1>5, <1>6

(* The verdict is in: with both timers run out the active page is the winner and was told of. *)
Verdict(w) ==
  ~w.t.settle /\ ~w.t.maxWait /\ ~IsHeldVector(w.t.hashes) =>
    LET i == Winner(w.pages, w.t.hashes, w.t.profile)
    IN  /\ w.t.active = IF i = 0 THEN NoPage ELSE w.pages[i].id
        /\ w.t.pending = Unset
        /\ w.seen.hashes = w.t.hashes

(* What the controller keeps is what it was told last, up to the keys that animate. *)
CopyIsCurrent(w) ==
  w.seen.known =>
    /\ w.seen.settling = w.t.settle
    /\ ~w.seen.settling /\ ~w.seen.held =>
         \A k \in PageKeys \ w.t.animated : w.seen.hashes[k] = w.t.hashes[k]

IsPainted(w) == w.painted = LayoutOf(w.t, w.pages)

PagesInv ==
  LET w == Now(saved) IN w \in WorldRecs /\ Verdict(w) /\ CopyIsCurrent(w) /\ IsPainted(w)

(* A world, by its fields. *)
TrackerOf(h, an, ac, pe, se, ma, la, pr) ==
  [hashes |-> h, animated |-> an, active |-> ac, pending |-> pe, settle |-> se, maxWait |-> ma,
   lastHeld |-> la, profile |-> pr]
World(h, an, ac, pe, se, ma, la, pr, pages, sn, pa) ==
  [t |-> TrackerOf(h, an, ac, pe, se, ma, la, pr), pages |-> pages, seen |-> sn, painted |-> pa]

(* Every world is made of its fields, of the right types, and the other way round. *)
LEMMA FieldsOfWorld ==
  ASSUME NEW w \in WorldRecs
  PROVE  /\ w = World(w.t.hashes, w.t.animated, w.t.active, w.t.pending, w.t.settle, w.t.maxWait,
                      w.t.lastHeld, w.t.profile, w.pages, w.seen, w.painted)
         /\ w.t \in TrackerRecs /\ w.pages \in Seq(PageRecs) /\ w.seen \in SeenRecs
         /\ w.painted \in 1 .. 2
         /\ w.t.hashes \in FrameVectors /\ w.t.animated \in SUBSET PageKeys /\ w.t.active \in Nat
         /\ w.t.pending \in Nat \cup {Unset} /\ w.t.settle \in BOOLEAN /\ w.t.maxWait \in BOOLEAN
         /\ w.t.lastHeld \in BOOLEAN /\ w.t.profile \in Profiles
<1>1. w.t \in TrackerRecs /\ w.pages \in Seq(PageRecs) /\ w.seen \in SeenRecs /\ w.painted \in 1 .. 2
      /\ w = [t |-> w.t, pages |-> w.pages, seen |-> w.seen, painted |-> w.painted]
  BY DEF WorldRecs
<1>2. w.t = [hashes |-> w.t.hashes, animated |-> w.t.animated, active |-> w.t.active,
             pending |-> w.t.pending, settle |-> w.t.settle, maxWait |-> w.t.maxWait,
             lastHeld |-> w.t.lastHeld, profile |-> w.t.profile]
  BY <1>1 DEF TrackerRecs
<1>3. /\ w.t.hashes \in FrameVectors /\ w.t.animated \in SUBSET PageKeys /\ w.t.active \in Nat
      /\ w.t.pending \in Nat \cup {Unset} /\ w.t.settle \in BOOLEAN /\ w.t.maxWait \in BOOLEAN
      /\ w.t.lastHeld \in BOOLEAN /\ w.t.profile \in Profiles
  BY <1>1 DEF TrackerRecs
<1> QED BY <1>1, <1>2, <1>3 DEF World, TrackerOf

LEMMA WorldTyped ==
  ASSUME NEW h \in FrameVectors, NEW an \in SUBSET PageKeys, NEW ac \in Nat,
         NEW pe \in Nat \cup {Unset}, NEW se \in BOOLEAN, NEW ma \in BOOLEAN, NEW la \in BOOLEAN,
         NEW pr \in Profiles, NEW pages \in Seq(PageRecs), NEW sn \in SeenRecs, NEW pa \in 1 .. 2
  PROVE  World(h, an, ac, pe, se, ma, la, pr, pages, sn, pa) \in WorldRecs
BY DEF World, TrackerOf, WorldRecs, TrackerRecs

(* What the assignment of one field does to a world. *)
LEMMA SetHashes ==
  ASSUME NEW h, NEW an, NEW ac, NEW pe, NEW se, NEW ma, NEW la, NEW pr, NEW pages, NEW sn, NEW pa, NEW x,
         NEW w, w = World(h, an, ac, pe, se, ma, la, pr, pages, sn, pa)
  PROVE  [w EXCEPT !.t.hashes = x] = World(x, an, ac, pe, se, ma, la, pr, pages, sn, pa)
<1> DEFINE t == TrackerOf(h, an, ac, pe, se, ma, la, pr)
<1>1. w = [t |-> t, pages |-> pages, seen |-> sn, painted |-> pa]
  BY DEF World
<1>2. PICK s : s = [t EXCEPT !.hashes = x]
  OBVIOUS
<1>3. s = TrackerOf(x, an, ac, pe, se, ma, la, pr)
  BY <1>2 DEF t, TrackerOf
<1> HIDE DEF t
<1>4. [w EXCEPT !.t.hashes = x] = [w EXCEPT !.t = s]
  BY <1>1, <1>2
<1>5. [w EXCEPT !.t = s] = [t |-> s, pages |-> pages, seen |-> sn, painted |-> pa]
  BY <1>1
<1> QED BY <1>3, <1>4, <1>5 DEF World

LEMMA SetAnimated ==
  ASSUME NEW h, NEW an, NEW ac, NEW pe, NEW se, NEW ma, NEW la, NEW pr, NEW pages, NEW sn, NEW pa, NEW x,
         NEW w, w = World(h, an, ac, pe, se, ma, la, pr, pages, sn, pa)
  PROVE  [w EXCEPT !.t.animated = x] = World(h, x, ac, pe, se, ma, la, pr, pages, sn, pa)
<1> DEFINE t == TrackerOf(h, an, ac, pe, se, ma, la, pr)
<1>1. w = [t |-> t, pages |-> pages, seen |-> sn, painted |-> pa]
  BY DEF World
<1>2. PICK s : s = [t EXCEPT !.animated = x]
  OBVIOUS
<1>3. s = TrackerOf(h, x, ac, pe, se, ma, la, pr)
  BY <1>2 DEF t, TrackerOf
<1> HIDE DEF t
<1>4. [w EXCEPT !.t.animated = x] = [w EXCEPT !.t = s]
  BY <1>1, <1>2
<1>5. [w EXCEPT !.t = s] = [t |-> s, pages |-> pages, seen |-> sn, painted |-> pa]
  BY <1>1
<1> QED BY <1>3, <1>4, <1>5 DEF World

LEMMA SetActive ==
  ASSUME NEW h, NEW an, NEW ac, NEW pe, NEW se, NEW ma, NEW la, NEW pr, NEW pages, NEW sn, NEW pa, NEW x,
         NEW w, w = World(h, an, ac, pe, se, ma, la, pr, pages, sn, pa)
  PROVE  [w EXCEPT !.t.active = x] = World(h, an, x, pe, se, ma, la, pr, pages, sn, pa)
<1> DEFINE t == TrackerOf(h, an, ac, pe, se, ma, la, pr)
<1>1. w = [t |-> t, pages |-> pages, seen |-> sn, painted |-> pa]
  BY DEF World
<1>2. PICK s : s = [t EXCEPT !.active = x]
  OBVIOUS
<1>3. s = TrackerOf(h, an, x, pe, se, ma, la, pr)
  BY <1>2 DEF t, TrackerOf
<1> HIDE DEF t
<1>4. [w EXCEPT !.t.active = x] = [w EXCEPT !.t = s]
  BY <1>1, <1>2
<1>5. [w EXCEPT !.t = s] = [t |-> s, pages |-> pages, seen |-> sn, painted |-> pa]
  BY <1>1
<1> QED BY <1>3, <1>4, <1>5 DEF World

LEMMA SetPending ==
  ASSUME NEW h, NEW an, NEW ac, NEW pe, NEW se, NEW ma, NEW la, NEW pr, NEW pages, NEW sn, NEW pa, NEW x,
         NEW w, w = World(h, an, ac, pe, se, ma, la, pr, pages, sn, pa)
  PROVE  [w EXCEPT !.t.pending = x] = World(h, an, ac, x, se, ma, la, pr, pages, sn, pa)
<1> DEFINE t == TrackerOf(h, an, ac, pe, se, ma, la, pr)
<1>1. w = [t |-> t, pages |-> pages, seen |-> sn, painted |-> pa]
  BY DEF World
<1>2. PICK s : s = [t EXCEPT !.pending = x]
  OBVIOUS
<1>3. s = TrackerOf(h, an, ac, x, se, ma, la, pr)
  BY <1>2 DEF t, TrackerOf
<1> HIDE DEF t
<1>4. [w EXCEPT !.t.pending = x] = [w EXCEPT !.t = s]
  BY <1>1, <1>2
<1>5. [w EXCEPT !.t = s] = [t |-> s, pages |-> pages, seen |-> sn, painted |-> pa]
  BY <1>1
<1> QED BY <1>3, <1>4, <1>5 DEF World

LEMMA SetSettle ==
  ASSUME NEW h, NEW an, NEW ac, NEW pe, NEW se, NEW ma, NEW la, NEW pr, NEW pages, NEW sn, NEW pa, NEW x,
         NEW w, w = World(h, an, ac, pe, se, ma, la, pr, pages, sn, pa)
  PROVE  [w EXCEPT !.t.settle = x] = World(h, an, ac, pe, x, ma, la, pr, pages, sn, pa)
<1> DEFINE t == TrackerOf(h, an, ac, pe, se, ma, la, pr)
<1>1. w = [t |-> t, pages |-> pages, seen |-> sn, painted |-> pa]
  BY DEF World
<1>2. PICK s : s = [t EXCEPT !.settle = x]
  OBVIOUS
<1>3. s = TrackerOf(h, an, ac, pe, x, ma, la, pr)
  BY <1>2 DEF t, TrackerOf
<1> HIDE DEF t
<1>4. [w EXCEPT !.t.settle = x] = [w EXCEPT !.t = s]
  BY <1>1, <1>2
<1>5. [w EXCEPT !.t = s] = [t |-> s, pages |-> pages, seen |-> sn, painted |-> pa]
  BY <1>1
<1> QED BY <1>3, <1>4, <1>5 DEF World

LEMMA SetMaxWait ==
  ASSUME NEW h, NEW an, NEW ac, NEW pe, NEW se, NEW ma, NEW la, NEW pr, NEW pages, NEW sn, NEW pa, NEW x,
         NEW w, w = World(h, an, ac, pe, se, ma, la, pr, pages, sn, pa)
  PROVE  [w EXCEPT !.t.maxWait = x] = World(h, an, ac, pe, se, x, la, pr, pages, sn, pa)
<1> DEFINE t == TrackerOf(h, an, ac, pe, se, ma, la, pr)
<1>1. w = [t |-> t, pages |-> pages, seen |-> sn, painted |-> pa]
  BY DEF World
<1>2. PICK s : s = [t EXCEPT !.maxWait = x]
  OBVIOUS
<1>3. s = TrackerOf(h, an, ac, pe, se, x, la, pr)
  BY <1>2 DEF t, TrackerOf
<1> HIDE DEF t
<1>4. [w EXCEPT !.t.maxWait = x] = [w EXCEPT !.t = s]
  BY <1>1, <1>2
<1>5. [w EXCEPT !.t = s] = [t |-> s, pages |-> pages, seen |-> sn, painted |-> pa]
  BY <1>1
<1> QED BY <1>3, <1>4, <1>5 DEF World

LEMMA SetLastHeld ==
  ASSUME NEW h, NEW an, NEW ac, NEW pe, NEW se, NEW ma, NEW la, NEW pr, NEW pages, NEW sn, NEW pa, NEW x,
         NEW w, w = World(h, an, ac, pe, se, ma, la, pr, pages, sn, pa)
  PROVE  [w EXCEPT !.t.lastHeld = x] = World(h, an, ac, pe, se, ma, x, pr, pages, sn, pa)
<1> DEFINE t == TrackerOf(h, an, ac, pe, se, ma, la, pr)
<1>1. w = [t |-> t, pages |-> pages, seen |-> sn, painted |-> pa]
  BY DEF World
<1>2. PICK s : s = [t EXCEPT !.lastHeld = x]
  OBVIOUS
<1>3. s = TrackerOf(h, an, ac, pe, se, ma, x, pr)
  BY <1>2 DEF t, TrackerOf
<1> HIDE DEF t
<1>4. [w EXCEPT !.t.lastHeld = x] = [w EXCEPT !.t = s]
  BY <1>1, <1>2
<1>5. [w EXCEPT !.t = s] = [t |-> s, pages |-> pages, seen |-> sn, painted |-> pa]
  BY <1>1
<1> QED BY <1>3, <1>4, <1>5 DEF World

LEMMA SetProfile ==
  ASSUME NEW h, NEW an, NEW ac, NEW pe, NEW se, NEW ma, NEW la, NEW pr, NEW pages, NEW sn, NEW pa, NEW x,
         NEW w, w = World(h, an, ac, pe, se, ma, la, pr, pages, sn, pa)
  PROVE  [w EXCEPT !.t.profile = x] = World(h, an, ac, pe, se, ma, la, x, pages, sn, pa)
<1> DEFINE t == TrackerOf(h, an, ac, pe, se, ma, la, pr)
<1>1. w = [t |-> t, pages |-> pages, seen |-> sn, painted |-> pa]
  BY DEF World
<1>2. PICK s : s = [t EXCEPT !.profile = x]
  OBVIOUS
<1>3. s = TrackerOf(h, an, ac, pe, se, ma, la, x)
  BY <1>2 DEF t, TrackerOf
<1> HIDE DEF t
<1>4. [w EXCEPT !.t.profile = x] = [w EXCEPT !.t = s]
  BY <1>1, <1>2
<1>5. [w EXCEPT !.t = s] = [t |-> s, pages |-> pages, seen |-> sn, painted |-> pa]
  BY <1>1
<1> QED BY <1>3, <1>4, <1>5 DEF World

LEMMA SetSeen ==
  ASSUME NEW h, NEW an, NEW ac, NEW pe, NEW se, NEW ma, NEW la, NEW pr, NEW pages, NEW sn, NEW pa, NEW x,
         NEW w, w = World(h, an, ac, pe, se, ma, la, pr, pages, sn, pa)
  PROVE  [w EXCEPT !.seen = x] = World(h, an, ac, pe, se, ma, la, pr, pages, x, pa)
<1> DEFINE t == TrackerOf(h, an, ac, pe, se, ma, la, pr)
<1>1. w = [t |-> t, pages |-> pages, seen |-> sn, painted |-> pa]
  BY DEF World
<1> HIDE DEF t
<1> QED BY <1>1 DEF World, t

LEMMA SetPainted ==
  ASSUME NEW h, NEW an, NEW ac, NEW pe, NEW se, NEW ma, NEW la, NEW pr, NEW pages, NEW sn, NEW pa, NEW x,
         NEW w, w = World(h, an, ac, pe, se, ma, la, pr, pages, sn, pa)
  PROVE  [w EXCEPT !.painted = x] = World(h, an, ac, pe, se, ma, la, pr, pages, sn, x)
<1> DEFINE t == TrackerOf(h, an, ac, pe, se, ma, la, pr)
<1>1. w = [t |-> t, pages |-> pages, seen |-> sn, painted |-> pa]
  BY DEF World
<1> HIDE DEF t
<1> QED BY <1>1 DEF World, t

LEMMA SetPages ==
  ASSUME NEW h, NEW an, NEW ac, NEW pe, NEW se, NEW ma, NEW la, NEW pr, NEW pages, NEW sn, NEW pa, NEW x,
         NEW w, w = World(h, an, ac, pe, se, ma, la, pr, pages, sn, pa)
  PROVE  [w EXCEPT !.pages = x] = World(h, an, ac, pe, se, ma, la, pr, x, sn, pa)
<1> DEFINE t == TrackerOf(h, an, ac, pe, se, ma, la, pr)
<1>1. w = [t |-> t, pages |-> pages, seen |-> sn, painted |-> pa]
  BY DEF World
<1> HIDE DEF t
<1> QED BY <1>1 DEF World, t

LEMMA WorldFields ==
  ASSUME NEW h, NEW an, NEW ac, NEW pe, NEW se, NEW ma, NEW la, NEW pr, NEW pages, NEW sn, NEW pa
  PROVE  LET w == World(h, an, ac, pe, se, ma, la, pr, pages, sn, pa)
         IN  /\ w.t.hashes = h /\ w.t.animated = an /\ w.t.active = ac /\ w.t.pending = pe
             /\ w.t.settle = se /\ w.t.maxWait = ma /\ w.t.lastHeld = la /\ w.t.profile = pr
             /\ w.pages = pages /\ w.seen = sn /\ w.painted = pa
BY DEF World, TrackerOf

(* Push tells the controller. *)
Told(h, an, se, pr, held) ==
  [known |-> TRUE, profile |-> pr, hashes |-> h, suggested |-> SuggestIgnore(h, an),
   settling |-> se, held |-> held]

(* A push changes lastHeld and the controller's copy, which is then current. *)
LEMMA PushOf ==
  ASSUME NEW h \in FrameVectors, NEW an \in SUBSET PageKeys, NEW ac,
         NEW pe, NEW se \in BOOLEAN, NEW ma, NEW la,
         NEW pr \in Profiles, NEW pages, NEW sn, NEW pa,
         NEW held \in BOOLEAN
  PROVE  /\ Push(World(h, an, ac, pe, se, ma, la, pr, pages, sn, pa), held)
              = World(h, an, ac, pe, se, ma, held, pr, pages, Told(h, an, se, pr, held), pa)
         /\ Told(h, an, se, pr, held) \in SeenRecs
<1> DEFINE w == World(h, an, ac, pe, se, ma, la, pr, pages, sn, pa)
           mine == Told(h, an, se, pr, held)
<1>1. PICK v : v = [w EXCEPT !.t.lastHeld = held]
  OBVIOUS
<1>2. v = World(h, an, ac, pe, se, ma, held, pr, pages, sn, pa)
  BY <1>1, SetLastHeld
<1>3. mine = [known |-> TRUE, profile |-> w.t.profile, hashes |-> w.t.hashes,
              suggested |-> SuggestIgnore(w.t.hashes, w.t.animated),
              settling |-> w.t.settle, held |-> held]
  <2> HIDE DEF w
  <2>1. w.t.profile = pr /\ w.t.hashes = h /\ w.t.animated = an /\ w.t.settle = se
    BY WorldFields DEF w
  <2> QED BY <2>1 DEF Told
<1>4. Push(w, held) = [v EXCEPT !.seen = mine]
  <2> HIDE DEF w, mine
  <2> QED BY <1>1, <1>3 DEF Push
<1>5. [v EXCEPT !.seen = mine] = World(h, an, ac, pe, se, ma, held, pr, pages, mine, pa)
  BY <1>2, SetSeen
<1>6. SuggestIgnore(h, an) \in SUBSET PageKeys
  BY DEF SuggestIgnore
<1> QED BY <1>4, <1>5, <1>6 DEF Told, SeenRecs

LEMMA CopyAfterPush ==
  ASSUME NEW h, NEW an, NEW ac, NEW pe, NEW se \in BOOLEAN, NEW ma, NEW la, NEW pr, NEW pages, NEW pa,
         NEW held
  PROVE  CopyIsCurrent(World(h, an, ac, pe, se, ma, la, pr, pages, Told(h, an, se, pr, held), pa))
BY WorldFields DEF CopyIsCurrent, Told

(* The layout in force. *)
LayoutFor(ac, pages) ==
  LET named == PagesNamed(pages, ac)
      own == IF named = {} THEN 0 ELSE pages[CHOOSE i \in named : TRUE].layout
  IN  IF own = 0 THEN DefaultLayout ELSE own

(* The layout in force is one of the two, and depends on the active page and the list alone. *)
LEMMA LayoutForTyped ==
  ASSUME NEW ac, NEW pages \in Seq(PageRecs)
  PROVE  LayoutFor(ac, pages) \in 1 .. 2
<1> DEFINE named == PagesNamed(pages, ac)
           c == CHOOSE i \in named : TRUE
<1>1. CASE named = {}
  BY <1>1 DEF LayoutFor, DefaultLayout
<1>2. CASE named # {}
  <2>1. c \in DOMAIN pages
    <3>1. c \in named
      BY <1>2
    <3> QED BY <3>1 DEF PagesNamed
  <2>2. pages[c] \in PageRecs
    BY <2>1
  <2>3. pages[c].layout \in 0 .. 2
    BY <2>2 DEF PageRecs
  <2>4. LayoutFor(ac, pages) = IF pages[c].layout = 0 THEN DefaultLayout ELSE pages[c].layout
    BY <1>2 DEF LayoutFor
  <2> HIDE DEF c
  <2> QED BY <2>3, <2>4 DEF DefaultLayout
<1> QED BY <1>1, <1>2

LEMMA LayoutOfActive ==
  ASSUME NEW h, NEW an, NEW ac, NEW pe, NEW se, NEW ma, NEW la, NEW pr, NEW pages, NEW sn, NEW pa
  PROVE  LET w == World(h, an, ac, pe, se, ma, la, pr, pages, sn, pa)
         IN  /\ LayoutOf(w.t, w.pages) = LayoutFor(ac, pages)
             /\ IsPainted(w) <=> pa = LayoutFor(ac, pages)
<1> DEFINE w == World(h, an, ac, pe, se, ma, la, pr, pages, sn, pa)
<1>1. w.t.active = ac /\ w.pages = pages /\ w.painted = pa
  BY WorldFields
<1>2. LayoutOf(w.t, w.pages) = LayoutFor(ac, pages)
  <2> HIDE DEF w
  <2> QED BY <1>1 DEF LayoutOf, LayoutFor
<1> QED BY <1>1, <1>2 DEF IsPainted

(* A commit changes the page, drops the pending verdict and repaints. *)
LEMMA CommitOf ==
  ASSUME NEW h, NEW an, NEW ac, NEW pe, NEW se, NEW ma, NEW la, NEW pr, NEW pages, NEW sn, NEW pa, NEW id
  PROVE  Commit(World(h, an, ac, pe, se, ma, la, pr, pages, sn, pa), id)
           = World(h, an, id, Unset, se, ma, la, pr, pages, sn, LayoutFor(id, pages))
<1> DEFINE w == World(h, an, ac, pe, se, ma, la, pr, pages, sn, pa)
<1>1. PICK u : u = [w EXCEPT !.t.active = id]
  OBVIOUS
<1>2. u = World(h, an, id, pe, se, ma, la, pr, pages, sn, pa)
  BY <1>1, SetActive
<1>3. PICK v : v = [u EXCEPT !.t.pending = Unset]
  OBVIOUS
<1>4. v = World(h, an, id, Unset, se, ma, la, pr, pages, sn, pa)
  BY <1>2, <1>3, SetPending
<1>5. Commit(w, id) = [v EXCEPT !.painted = LayoutOf(v.t, v.pages)]
  <2> HIDE DEF w
  <2> QED BY <1>1, <1>3 DEF Commit, Repaint
<1>6. LayoutOf(v.t, v.pages) = LayoutFor(id, pages)
  BY <1>4, LayoutOfActive
<1>7. [v EXCEPT !.painted = LayoutFor(id, pages)]
        = World(h, an, id, Unset, se, ma, la, pr, pages, sn, LayoutFor(id, pages))
  BY <1>4, SetPainted
<1> QED BY <1>5, <1>6, <1>7

(* An evaluation: what is decided about the page, and what is told of it. *)
Candidate(pages, h, pr) ==
  LET i == Winner(pages, h, pr) IN IF i = 0 THEN NoPage ELSE pages[i].id

LEMMA CandidateTyped ==
  ASSUME NEW pages \in Seq(PageRecs), NEW h \in FrameVectors, NEW pr \in Profiles
  PROVE  Candidate(pages, h, pr) \in Nat
<1>1. PICK i : i = Winner(pages, h, pr)
  OBVIOUS
<1>2. i = 0 \/ i \in DOMAIN pages
  BY <1>1, WinnerIsFirst
<1>3. \A j \in DOMAIN pages : pages[j].id \in Nat
  <2>1. \A j \in DOMAIN pages : pages[j] \in PageRecs
    OBVIOUS
  <2> QED BY <2>1 DEF PageRecs
<1>4. Candidate(pages, h, pr) = IF i = 0 THEN NoPage ELSE pages[i].id
  BY <1>1 DEF Candidate
<1> QED BY <1>2, <1>3, <1>4 DEF NoPage

IsWorld(w, h, an, ac, pe, se, ma, la, pr, pages, sn, pa) ==
  /\ w = World(h, an, ac, pe, se, ma, la, pr, pages, sn, pa)
  /\ pages \in Seq(PageRecs) /\ sn \in SeenRecs /\ pa \in 1 .. 2
  /\ h \in FrameVectors /\ an \in SUBSET PageKeys /\ ac \in Nat /\ pe \in Nat \cup {Unset}
  /\ se \in BOOLEAN /\ ma \in BOOLEAN /\ la \in BOOLEAN /\ pr \in Profiles

Evaluated(r, h, an, ac, pr, pages, pa, ac2, pe2, se2, ma2, held, pa2) ==
  /\ ac2 \in Nat /\ pe2 \in Nat \cup {Unset} /\ se2 \in BOOLEAN /\ ma2 \in BOOLEAN
  /\ held \in BOOLEAN /\ pa2 \in 1 .. 2
  /\ r = World(h, an, ac2, pe2, se2, ma2, held, pr, pages, Told(h, an, se2, pr, held), pa2)
  /\ pa2 = LayoutFor(ac2, pages) \/ (pa2 = pa /\ ac2 = ac)
  /\ ~held /\ ~ma2 /\ ~se2 => ac2 = Candidate(pages, h, pr) /\ pe2 = Unset
  /\ ~held => ~IsHeldVector(h)
  /\ held => IsHeldVector(h)

LEMMA EvaluateOf ==
  ASSUME NEW w, NEW h, NEW an, NEW ac, NEW pe, NEW se, NEW ma, NEW la, NEW pr, NEW pages, NEW sn,
         NEW pa, NEW kind, IsWorld(w, h, an, ac, pe, se, ma, la, pr, pages, sn, pa)
  PROVE  \E ac2, pe2, se2, ma2, held, pa2 :
           Evaluated(Evaluate_(w, kind), h, an, ac, pr, pages, pa, ac2, pe2, se2, ma2, held, pa2)
<1> DEFINE timed == [w EXCEPT !.t.maxWait = FALSE, !.t.settle = @ /\ kind = "forced"]
           c == Candidate(pages, h, pr)
           decided == IF c = ac THEN [timed EXCEPT !.t.pending = Unset]
                      ELSE IF kind # "forced" \/ pe = c THEN Commit(timed, c)
                      ELSE [timed EXCEPT !.t.pending = c]
           r == Evaluate_(w, kind)
<1>22. /\ w = World(h, an, ac, pe, se, ma, la, pr, pages, sn, pa)
       /\ pages \in Seq(PageRecs) /\ sn \in SeenRecs /\ pa \in 1 .. 2
       /\ h \in FrameVectors /\ an \in SUBSET PageKeys /\ ac \in Nat /\ pe \in Nat \cup {Unset}
       /\ se \in BOOLEAN /\ ma \in BOOLEAN /\ la \in BOOLEAN /\ pr \in Profiles
  BY DEF IsWorld
<1>0. /\ w.t.hashes = h /\ w.t.active = ac /\ w.t.pending = pe /\ w.t.settle = se
      /\ w.t.profile = pr /\ w.pages = pages
  BY <1>22, WorldFields
<1>20. PICK no, yes : no = FALSE /\ yes = TRUE
  OBVIOUS
<1>21. no \in BOOLEAN /\ yes \in BOOLEAN
  BY <1>20
<1>1. c \in Nat
  BY <1>22, CandidateTyped
<1>2. PICK se2 \in BOOLEAN : se2 = (se /\ kind = "forced")
  BY <1>22
<1>3. timed = World(h, an, ac, pe, se2, no, la, pr, pages, sn, pa)
  <2>1. PICK u : u = [w EXCEPT !.t.maxWait = no]
    OBVIOUS
  <2>2. u = World(h, an, ac, pe, se, no, la, pr, pages, sn, pa)
    BY <1>22, <2>1, SetMaxWait
  <2>3. u.t.settle = se
    BY <2>2, WorldFields
  <2>4. timed = [u EXCEPT !.t.settle = se2]
    BY <1>0, <1>2, <1>20, <2>1, <2>3
  <2> QED BY <2>2, <2>4, SetSettle
<1>4. r = IF IsHeldVector(h) THEN Push(timed, yes)
          ELSE Push(IF decided.t.pending # Unset THEN ArmMaxWait(decided) ELSE decided, no)
  <2>1. c = LET i == Winner(w.pages, w.t.hashes, w.t.profile)
            IN  IF i = 0 THEN NoPage ELSE w.pages[i].id
    BY <1>0 DEF Candidate
  <2>2. r = IF IsHeldVector(h) THEN Push(timed, TRUE)
            ELSE Push(IF decided.t.pending # Unset THEN ArmMaxWait(decided) ELSE decided, FALSE)
    <3> HIDE DEF c
    <3> QED BY <1>0, <2>1 DEF Evaluate_
  <2> HIDE DEF r, decided, timed
  <2> QED BY <1>20, <2>2
<1> HIDE DEF timed, c, decided, r
<1>5. CASE IsHeldVector(h)
  <2>1. r = World(h, an, ac, pe, se2, no, yes, pr, pages, Told(h, an, se2, pr, yes), pa)
    BY <1>3, <1>4, <1>5, <1>21, <1>22, PushOf
  <2>2. Evaluated(r, h, an, ac, pr, pages, pa, ac, pe, se2, no, yes, pa)
    BY <1>5, <1>20, <1>21, <1>22, <2>1 DEF Evaluated
  <2> QED BY <2>2 DEF r
<1>6. CASE ~IsHeldVector(h)
  <2>1. r = Push(IF decided.t.pending # Unset THEN ArmMaxWait(decided) ELSE decided, no)
    BY <1>4, <1>6
  <2>2. CASE c = ac
    <3>1. decided = World(h, an, ac, Unset, se2, no, la, pr, pages, sn, pa)
      BY <1>3, <2>2, SetPending DEF decided
    <3>2. decided.t.pending = Unset
      BY <3>1, WorldFields
    <3>3. r = World(h, an, ac, Unset, se2, no, no, pr, pages, Told(h, an, se2, pr, no), pa)
      BY <2>1, <3>1, <3>2, <1>21, <1>22, PushOf
    <3>4. Evaluated(r, h, an, ac, pr, pages, pa, ac, Unset, se2, no, no, pa)
      BY <1>6, <1>20, <1>21, <1>22, <2>2, <3>3 DEF Evaluated, c
    <3> QED BY <3>4 DEF r
  <2>3. CASE c # ac /\ (kind # "forced" \/ pe = c)
    <3>1. decided = World(h, an, c, Unset, se2, no, la, pr, pages, sn, LayoutFor(c, pages))
      BY <1>3, <2>3, CommitOf DEF decided
    <3>2. decided.t.pending = Unset
      BY <3>1, WorldFields
    <3>3. r = World(h, an, c, Unset, se2, no, no, pr, pages, Told(h, an, se2, pr, no),
                    LayoutFor(c, pages))
      BY <2>1, <3>1, <3>2, <1>21, <1>22, PushOf
    <3>4. LayoutFor(c, pages) \in 1 .. 2
      BY <1>22, LayoutForTyped
    <3>5. Evaluated(r, h, an, ac, pr, pages, pa, c, Unset, se2, no, no, LayoutFor(c, pages))
      BY <1>1, <1>6, <1>20, <1>21, <1>22, <3>3, <3>4 DEF Evaluated, c
    <3> QED BY <3>5 DEF r
  <2>4. CASE c # ac /\ ~(kind # "forced" \/ pe = c)
    <3>1. decided = World(h, an, ac, c, se2, no, la, pr, pages, sn, pa)
      BY <1>3, <2>4, SetPending DEF decided
    <3>2. decided.t.pending # Unset
      BY <1>1, <3>1, WorldFields DEF Unset
    <3>3. ArmMaxWait(decided) = World(h, an, ac, c, se2, yes, la, pr, pages, sn, pa)
      <4>1. ArmMaxWait(decided) = [decided EXCEPT !.t.maxWait = yes]
        BY <1>20 DEF ArmMaxWait
      <4> QED BY <3>1, <4>1, SetMaxWait
    <3>4. r = World(h, an, ac, c, se2, yes, no, pr, pages, Told(h, an, se2, pr, no), pa)
      BY <2>1, <3>2, <3>3, <1>21, <1>22, PushOf
    <3>5. Evaluated(r, h, an, ac, pr, pages, pa, ac, c, se2, yes, no, pa)
      BY <1>1, <1>6, <1>20, <1>21, <1>22, <3>4 DEF Evaluated
    <3> QED BY <3>5 DEF r
  <2> QED BY <2>2, <2>3, <2>4
<1> QED BY <1>5, <1>6

(* A world just evaluated is right, but for what is painted. *)
IsRight(w) == w \in WorldRecs /\ Verdict(w) /\ CopyIsCurrent(w)

LEMMA VerdictOf ==
  ASSUME NEW h, NEW an, NEW ac, NEW pe, NEW se, NEW ma, NEW la, NEW pr, NEW pages, NEW sn, NEW pa,
         ~se /\ ~ma /\ ~IsHeldVector(h) =>
            ac = Candidate(pages, h, pr) /\ pe = Unset /\ sn.hashes = h
  PROVE  Verdict(World(h, an, ac, pe, se, ma, la, pr, pages, sn, pa))
<1>1. PICK w : w = World(h, an, ac, pe, se, ma, la, pr, pages, sn, pa)
  OBVIOUS
<1>2. /\ w.t.hashes = h /\ w.t.active = ac /\ w.t.pending = pe /\ w.t.settle = se /\ w.t.maxWait = ma
      /\ w.t.profile = pr /\ w.pages = pages /\ w.seen = sn
  BY <1>1, WorldFields
<1>3. Verdict(w)
  BY <1>2 DEF Verdict, Candidate
<1> QED BY <1>1, <1>3

LEMMA EvaluateIsRight ==
  ASSUME NEW w \in WorldRecs, NEW kind
  PROVE  LET r == Evaluate_(w, kind)
         IN  /\ IsRight(r) /\ r.pages = w.pages
             /\ IsPainted(r) \/ (r.painted = w.painted /\ r.t.active = w.t.active)
<1>1. PICK h, an, ac, pe, se, ma, la, pr, pages, sn, pa :
        /\ h = w.t.hashes /\ an = w.t.animated /\ ac = w.t.active /\ pe = w.t.pending
        /\ se = w.t.settle /\ ma = w.t.maxWait /\ la = w.t.lastHeld /\ pr = w.t.profile
        /\ pages = w.pages /\ sn = w.seen /\ pa = w.painted
  OBVIOUS
<1>12. /\ w = World(h, an, ac, pe, se, ma, la, pr, pages, sn, pa)
       /\ pages \in Seq(PageRecs) /\ sn \in SeenRecs /\ pa \in 1 .. 2
       /\ h \in FrameVectors /\ an \in SUBSET PageKeys /\ ac \in Nat /\ pe \in Nat \cup {Unset}
       /\ se \in BOOLEAN /\ ma \in BOOLEAN /\ la \in BOOLEAN /\ pr \in Profiles
  BY <1>1, FieldsOfWorld
<1>13. PICK ac2, pe2, se2, ma2, held, pa2 :
         Evaluated(Evaluate_(w, kind), h, an, ac, pr, pages, pa, ac2, pe2, se2, ma2, held, pa2)
  <2>1. IsWorld(w, h, an, ac, pe, se, ma, la, pr, pages, sn, pa)
    BY <1>12 DEF IsWorld
  <2> QED BY <2>1, EvaluateOf
<1>2. /\ Evaluate_(w, kind) = World(h, an, ac2, pe2, se2, ma2, held, pr, pages,
                                    Told(h, an, se2, pr, held), pa2)
      /\ pa2 = LayoutFor(ac2, pages) \/ (pa2 = pa /\ ac2 = ac)
      /\ ~held => ~IsHeldVector(h)
      /\ held => IsHeldVector(h)
      /\ ~held /\ ~ma2 /\ ~se2 => ac2 = Candidate(pages, h, pr) /\ pe2 = Unset
      /\ ac2 \in Nat /\ pe2 \in Nat \cup {Unset} /\ se2 \in BOOLEAN /\ ma2 \in BOOLEAN
      /\ held \in BOOLEAN /\ pa2 \in 1 .. 2
  BY <1>13 DEF Evaluated
<1>3. PICK sn2 : sn2 = Told(h, an, se2, pr, held)
  OBVIOUS
<1>4. PICK r : r = Evaluate_(w, kind)
  OBVIOUS
<1>5. r = World(h, an, ac2, pe2, se2, ma2, held, pr, pages, sn2, pa2)
  BY <1>2, <1>3, <1>4
<1>6. sn2 \in SeenRecs /\ sn2.hashes = h
  BY <1>2, <1>3, <1>12, PushOf DEF Told
<1>7. r \in WorldRecs
  BY <1>2, <1>5, <1>6, <1>12, WorldTyped
<1>8. Verdict(r)
  BY <1>2, <1>5, <1>6, VerdictOf
<1>9. CopyIsCurrent(r)
  BY <1>2, <1>3, <1>5, CopyAfterPush
<1>10. r.pages = w.pages /\ r.painted = pa2 /\ w.painted = pa /\ r.t.active = ac2 /\ w.t.active = ac
  BY <1>1, <1>5, WorldFields
<1>11. IsPainted(r) <=> pa2 = LayoutFor(ac2, pages)
  BY <1>5, LayoutOfActive
<1> QED BY <1>2, <1>4, <1>7, <1>8, <1>9, <1>10, <1>11 DEF IsRight

(* A world as its fields, and the fields of that world. *)
LEMMA WorldOf ==
  ASSUME NEW w \in WorldRecs
  PROVE  \E h, an, ac, pe, se, ma, la, pr, pages, sn, pa :
           IsWorld(w, h, an, ac, pe, se, ma, la, pr, pages, sn, pa)
<1>1. PICK h, an, ac, pe, se, ma, la, pr, pages, sn, pa :
        /\ h = w.t.hashes /\ an = w.t.animated /\ ac = w.t.active /\ pe = w.t.pending
        /\ se = w.t.settle /\ ma = w.t.maxWait /\ la = w.t.lastHeld /\ pr = w.t.profile
        /\ pages = w.pages /\ sn = w.seen /\ pa = w.painted
  OBVIOUS
<1>2. IsWorld(w, h, an, ac, pe, se, ma, la, pr, pages, sn, pa)
  BY <1>1, FieldsOfWorld DEF IsWorld
<1> QED BY <1>2

LEMMA WorldHas ==
  ASSUME NEW w, NEW h, NEW an, NEW ac, NEW pe, NEW se, NEW ma, NEW la, NEW pr, NEW pages, NEW sn,
         NEW pa, IsWorld(w, h, an, ac, pe, se, ma, la, pr, pages, sn, pa)
  PROVE  /\ w \in WorldRecs
         /\ w.t.hashes = h /\ w.t.animated = an /\ w.t.active = ac /\ w.t.pending = pe
         /\ w.t.settle = se /\ w.t.maxWait = ma /\ w.t.lastHeld = la /\ w.t.profile = pr
         /\ w.pages = pages /\ w.seen = sn /\ w.painted = pa
         /\ IsPainted(w) <=> pa = LayoutFor(ac, pages)
         /\ CopyIsCurrent(w) <=>
              (sn.known =>
                 /\ sn.settling = se
                 /\ ~sn.settling /\ ~sn.held => \A k \in PageKeys \ an : sn.hashes[k] = h[k])
<1>1. w = World(h, an, ac, pe, se, ma, la, pr, pages, sn, pa)
  BY DEF IsWorld
<1>2. w \in WorldRecs
  BY <1>1, WorldTyped DEF IsWorld
<1>3. /\ w.t.hashes = h /\ w.t.animated = an /\ w.t.active = ac /\ w.t.pending = pe
      /\ w.t.settle = se /\ w.t.maxWait = ma /\ w.t.lastHeld = la /\ w.t.profile = pr
      /\ w.pages = pages /\ w.seen = sn /\ w.painted = pa
  BY <1>1, WorldFields
<1>4. IsPainted(w) <=> pa = LayoutFor(ac, pages)
  BY <1>1, LayoutOfActive
<1> QED BY <1>2, <1>3, <1>4 DEF CopyIsCurrent

(* A frame: the verdict is open again. *)

LEMMA FrameIsRight ==
  ASSUME NEW w, IsRight(w), IsPainted(w), NEW key \in PageKeys, NEW hash \in Nat,
         NEW close \in BOOLEAN
  PROVE  LET r == NoteFrame(w, key, hash, close)
         IN  IsRight(r) /\ IsPainted(r) /\ r.pages = w.pages
<1>1. PICK h, an, ac, pe, se, ma, la, pr, pages, sn, pa :
        IsWorld(w, h, an, ac, pe, se, ma, la, pr, pages, sn, pa)
  BY WorldOf DEF IsRight
<1>2. /\ w = World(h, an, ac, pe, se, ma, la, pr, pages, sn, pa)
      /\ pages \in Seq(PageRecs) /\ sn \in SeenRecs /\ pa \in 1 .. 2
      /\ h \in FrameVectors /\ an \in SUBSET PageKeys /\ ac \in Nat /\ pe \in Nat \cup {Unset}
      /\ se \in BOOLEAN /\ ma \in BOOLEAN /\ la \in BOOLEAN /\ pr \in Profiles
  BY <1>1 DEF IsWorld
<1>3. /\ w.t.hashes = h /\ w.t.animated = an /\ w.t.settle = se /\ w.t.lastHeld = la
      /\ pa = LayoutFor(ac, pages) /\ w.pages = pages
      /\ sn.known => /\ sn.settling = se
                     /\ ~sn.settling /\ ~sn.held => \A k \in PageKeys \ an : sn.hashes[k] = h[k]
  BY <1>1, WorldHas DEF IsRight
<1>4. PICK no, yes : no = FALSE /\ yes = TRUE
  OBVIOUS
<1>5. no \in BOOLEAN /\ yes \in BOOLEAN
  BY <1>4
<1>6. PICK h2 : h2 = [h EXCEPT ![key] = hash]
  OBVIOUS
<1>7. PICK an2 : an2 = IF close THEN an \cup {key} ELSE an \ {key}
  OBVIOUS
<1>8. h2 \in FrameVectors /\ an2 \in SUBSET PageKeys /\ \A k \in PageKeys \ {key} : h2[k] = h[k]
  BY <1>2, <1>6, <1>7 DEF FrameVectors
<1>9. PICK u : u = [w EXCEPT !.t.hashes = h2]
  OBVIOUS
<1>10. u = World(h2, an, ac, pe, se, ma, la, pr, pages, sn, pa)
  BY <1>2, <1>9, SetHashes
<1>11. PICK noted : noted = [u EXCEPT !.t.animated = an2]
  OBVIOUS
<1>12. noted = World(h2, an2, ac, pe, se, ma, la, pr, pages, sn, pa)
  BY <1>10, <1>11, SetAnimated
<1>13. [w EXCEPT !.t.hashes[key] = hash, !.t.animated = IF close THEN @ \cup {key} ELSE @ \ {key}] = noted
  <2>1. [w EXCEPT !.t.hashes[key] = hash] = u
    BY <1>3, <1>6, <1>9
  <2>2. u.t.animated = an
    BY <1>10, WorldFields
  <2>3. an2 = IF close THEN u.t.animated \cup {key} ELSE u.t.animated \ {key}
    BY <1>7, <2>2
  <2>4. PICK f : f = [w EXCEPT !.t.hashes[key] = hash]
    OBVIOUS
  <2>5. [w EXCEPT !.t.hashes[key] = hash, !.t.animated = IF close THEN @ \cup {key} ELSE @ \ {key}]
          = [f EXCEPT !.t.animated = IF close THEN f.t.animated \cup {key} ELSE f.t.animated \ {key}]
    BY <2>4
  <2> QED BY <1>11, <2>1, <2>3, <2>4, <2>5
<1>14. PICK r : r = NoteFrame(w, key, hash, close)
  OBVIOUS
<1>15. r = ArmMaxWait(IF close \/ w.t.settle THEN noted
                      ELSE Push([noted EXCEPT !.t.settle = yes], w.t.lastHeld))
  <2> DEFINE both == [w EXCEPT !.t.hashes[key] = hash,
                               !.t.animated = IF close THEN @ \cup {key} ELSE @ \ {key}]
  <2>1. NoteFrame(w, key, hash, close)
          = ArmMaxWait(IF close \/ w.t.settle THEN both
                       ELSE Push([both EXCEPT !.t.settle = TRUE], w.t.lastHeld))
    BY Zenon DEF NoteFrame
  <2>2. both = noted
    BY <1>13
  <2> HIDE DEF both
  <2> QED BY <1>4, <1>14, <2>1, <2>2
<1>16. CASE close \/ se
  <2>1. r = [noted EXCEPT !.t.maxWait = yes]
    BY <1>3, <1>4, <1>15, <1>16 DEF ArmMaxWait
  <2>2. r = World(h2, an2, ac, pe, se, yes, la, pr, pages, sn, pa)
    BY <1>12, <2>1, SetMaxWait
  <2>3. IsWorld(r, h2, an2, ac, pe, se, yes, la, pr, pages, sn, pa)
    BY <1>2, <1>5, <1>8, <2>2 DEF IsWorld
  <2>4. sn.known => /\ sn.settling = se
                    /\ ~sn.settling /\ ~sn.held => \A k \in PageKeys \ an2 : sn.hashes[k] = h2[k]
    BY <1>3, <1>7, <1>8, <1>16
  <2>5. Verdict(r)
    BY <1>4, <2>2, VerdictOf
  <2> QED BY <1>3, <1>14, <2>3, <2>4, <2>5, WorldHas DEF IsRight
<1>17. CASE ~(close \/ se)
  <2>1. PICK v : v = [noted EXCEPT !.t.settle = yes]
    OBVIOUS
  <2>2. v = World(h2, an2, ac, pe, yes, ma, la, pr, pages, sn, pa)
    BY <1>12, <2>1, SetSettle
  <2>3. PICK sn2 : sn2 = Told(h2, an2, yes, pr, la)
    OBVIOUS
  <2>4. sn2 \in SeenRecs /\ Push(v, la) = World(h2, an2, ac, pe, yes, ma, la, pr, pages, sn2, pa)
    BY <1>2, <1>5, <1>8, <2>2, <2>3, PushOf
  <2>5. r = ArmMaxWait(Push(v, la))
    BY <1>3, <1>15, <1>17, <2>1
  <2>6. r = [Push(v, la) EXCEPT !.t.maxWait = yes]
    BY <1>4, <2>5 DEF ArmMaxWait
  <2>7. r = World(h2, an2, ac, pe, yes, yes, la, pr, pages, sn2, pa)
    BY <2>4, <2>6, SetMaxWait
  <2>8. IsWorld(r, h2, an2, ac, pe, yes, yes, la, pr, pages, sn2, pa)
    BY <1>2, <1>5, <1>8, <2>4, <2>7 DEF IsWorld
  <2>9. CopyIsCurrent(r)
    BY <1>5, <2>3, <2>7, CopyAfterPush
  <2>10. Verdict(r)
    BY <1>4, <2>7, VerdictOf
  <2> QED BY <1>3, <1>14, <2>8, <2>9, <2>10, WorldHas DEF IsRight
<1> QED BY <1>16, <1>17

(* No frames: nothing to match. *)
LEMMA NothingIsHeld == NoFrames \in FrameVectors /\ IsHeldVector(NoFrames)
<1>1. NoFrames \in FrameVectors
  BY DEF NoFrames, FrameVectors
<1>2. {NoFrames[k] : k \in PageKeys} \ {0} = {}
  BY DEF NoFrames
<1>3. Cardinality({NoFrames[k] : k \in PageKeys} \ {0}) = 0
  BY <1>2, FS_EmptySet
<1> QED BY <1>1, <1>3 DEF IsHeldVector

(* The frames are forgotten. *)

LEMMA ResetIsRight ==
  ASSUME NEW w \in WorldRecs, IsPainted(w)
  PROVE  LET r == Reset(w) IN IsRight(r) /\ IsPainted(r) /\ r.pages = w.pages
<1>1. PICK h, an, ac, pe, se, ma, la, pr, pages, sn, pa :
        IsWorld(w, h, an, ac, pe, se, ma, la, pr, pages, sn, pa)
  BY WorldOf
<1>2. /\ w = World(h, an, ac, pe, se, ma, la, pr, pages, sn, pa)
      /\ pages \in Seq(PageRecs) /\ sn \in SeenRecs /\ pa \in 1 .. 2
      /\ h \in FrameVectors /\ an \in SUBSET PageKeys /\ ac \in Nat /\ pe \in Nat \cup {Unset}
      /\ se \in BOOLEAN /\ ma \in BOOLEAN /\ la \in BOOLEAN /\ pr \in Profiles
  BY <1>1 DEF IsWorld
<1>3. pa = LayoutFor(ac, pages) /\ w.pages = pages
  BY <1>1, WorldHas
<1>4. PICK no, yes : no = FALSE /\ yes = TRUE
  OBVIOUS
<1>5. no \in BOOLEAN /\ yes \in BOOLEAN
  BY <1>4
<1>6. PICK a : a = [w EXCEPT !.t.settle = no]
  OBVIOUS
<1>7. PICK b : b = [a EXCEPT !.t.maxWait = no]
  OBVIOUS
<1>8. PICK c : c = [b EXCEPT !.t.hashes = NoFrames]
  OBVIOUS
<1>9. PICK d : d = [c EXCEPT !.t.animated = {}]
  OBVIOUS
<1>10. PICK forgot : forgot = [d EXCEPT !.t.pending = Unset]
  OBVIOUS
<1>11. a = World(h, an, ac, pe, no, ma, la, pr, pages, sn, pa)
  BY <1>2, <1>6, SetSettle
<1>12. b = World(h, an, ac, pe, no, no, la, pr, pages, sn, pa)
  BY <1>7, <1>11, SetMaxWait
<1>13. c = World(NoFrames, an, ac, pe, no, no, la, pr, pages, sn, pa)
  BY <1>8, <1>12, SetHashes
<1>14. d = World(NoFrames, {}, ac, pe, no, no, la, pr, pages, sn, pa)
  BY <1>9, <1>13, SetAnimated
<1>15. forgot = World(NoFrames, {}, ac, Unset, no, no, la, pr, pages, sn, pa)
  BY <1>10, <1>14, SetPending
<1>16. [ClearTimers(w) EXCEPT !.t.hashes = NoFrames, !.t.animated = {}, !.t.pending = Unset] = forgot
  <2>1. ClearTimers(w) = b
    BY <1>4, <1>6, <1>7 DEF ClearTimers
  <2> QED BY <1>8, <1>9, <1>10, <2>1
<1>17. PICK r : r = Reset(w)
  OBVIOUS
<1>18. \E ac2 \in Nat, pa2 \in 1 .. 2 :
          /\ r = Push(World(NoFrames, {}, ac2, Unset, no, no, la, pr, pages, sn, pa2), yes)
          /\ pa2 = LayoutFor(ac2, pages)
  <2>1. r = Push(forgot, yes) \/ r = Push(Commit(forgot, NoPage), yes)
    BY <1>4, <1>16, <1>17 DEF Reset
  <2>2. Commit(forgot, NoPage)
          = World(NoFrames, {}, NoPage, Unset, no, no, la, pr, pages, sn, LayoutFor(NoPage, pages))
    BY <1>15, CommitOf
  <2>3. NoPage \in Nat /\ LayoutFor(NoPage, pages) \in 1 .. 2
    BY <1>2, LayoutForTyped DEF NoPage
  <2>4. CASE r = Push(forgot, yes)
    BY <1>2, <1>3, <1>15, <2>4
  <2>5. CASE r = Push(Commit(forgot, NoPage), yes)
    BY <2>2, <2>3, <2>5
  <2> QED BY <2>1, <2>4, <2>5
<1>19. PICK ac2 \in Nat, pa2 \in 1 .. 2 :
          /\ r = Push(World(NoFrames, {}, ac2, Unset, no, no, la, pr, pages, sn, pa2), yes)
          /\ pa2 = LayoutFor(ac2, pages)
  BY <1>18
<1>20. PICK sn2 : sn2 = Told(NoFrames, {}, no, pr, yes)
  OBVIOUS
<1>21. sn2 \in SeenRecs /\ r = World(NoFrames, {}, ac2, Unset, no, no, yes, pr, pages, sn2, pa2)
  BY <1>2, <1>5, <1>19, <1>20, NothingIsHeld, PushOf
<1>22. IsWorld(r, NoFrames, {}, ac2, Unset, no, no, yes, pr, pages, sn2, pa2)
  BY <1>2, <1>5, <1>19, <1>21, NothingIsHeld DEF IsWorld
<1>23. CopyIsCurrent(r)
  BY <1>5, <1>20, <1>21, CopyAfterPush
<1>24. Verdict(r)
  BY <1>21, NothingIsHeld, VerdictOf
<1> QED BY <1>3, <1>17, <1>19, <1>22, <1>23, <1>24, WorldHas DEF IsRight

(* The widgets are repainted. *)

LEMMA RepaintIsRight ==
  ASSUME NEW w, IsRight(w)
  PROVE  LET r == Repaint(w) IN IsRight(r) /\ IsPainted(r) /\ r.pages = w.pages
<1>1. PICK h, an, ac, pe, se, ma, la, pr, pages, sn, pa :
        IsWorld(w, h, an, ac, pe, se, ma, la, pr, pages, sn, pa)
  BY WorldOf DEF IsRight
<1>2. /\ w = World(h, an, ac, pe, se, ma, la, pr, pages, sn, pa)
      /\ pages \in Seq(PageRecs)
  BY <1>1 DEF IsWorld
<1>3. PICK pa2 : pa2 = LayoutFor(ac, pages)
  OBVIOUS
<1>4. pa2 \in 1 .. 2
  BY <1>2, <1>3, LayoutForTyped
<1>5. LayoutOf(w.t, w.pages) = pa2
  BY <1>2, <1>3, LayoutOfActive
<1>6. PICK r : r = Repaint(w)
  OBVIOUS
<1>7. r = [w EXCEPT !.painted = pa2]
  BY <1>5, <1>6 DEF Repaint
<1>8. r = World(h, an, ac, pe, se, ma, la, pr, pages, sn, pa2)
  BY <1>2, <1>7, SetPainted
<1>9. IsWorld(r, h, an, ac, pe, se, ma, la, pr, pages, sn, pa2)
  BY <1>1, <1>4, <1>8 DEF IsWorld
<1>10. /\ r \in WorldRecs /\ IsPainted(r) /\ r.t.hashes = h /\ r.t.animated = an /\ r.t.active = ac
       /\ r.t.pending = pe /\ r.t.settle = se /\ r.t.maxWait = ma /\ r.t.profile = pr
       /\ r.pages = pages /\ r.seen = sn
  BY <1>3, <1>9, WorldHas
<1>11. /\ w.t.hashes = h /\ w.t.animated = an /\ w.t.active = ac /\ w.t.pending = pe
       /\ w.t.settle = se /\ w.t.maxWait = ma /\ w.t.profile = pr /\ w.pages = pages /\ w.seen = sn
  BY <1>1, WorldHas
<1>12. Verdict(r) /\ CopyIsCurrent(r)
  <2>1. Verdict(w) /\ CopyIsCurrent(w)
    BY DEF IsRight
  <2>2. Verdict(r)
    BY <1>10, <1>11, <2>1 DEF Verdict
  <2>3. CopyIsCurrent(r)
    BY <1>10, <1>11, <2>1 DEF CopyIsCurrent
  <2> QED BY <2>2, <2>3
<1> QED BY <1>6, <1>10, <1>11, <1>12 DEF IsRight

(* The list was edited: whatever the verdict was, the dock's reload gives the right one for the new
   list and paints it, unless the page is still settling. *)

LEMMA ReloadIsRight ==
  ASSUME NEW w \in WorldRecs, CopyIsCurrent(w)
  PROVE  LET r == ReloadDock(w) IN IsRight(r) /\ IsPainted(r) /\ r.pages = w.pages
<1>1. PICK h, an, ac, pe, se, ma, la, pr, pages, sn, pa :
        IsWorld(w, h, an, ac, pe, se, ma, la, pr, pages, sn, pa)
  BY WorldOf
<1>2. /\ w = World(h, an, ac, pe, se, ma, la, pr, pages, sn, pa)
      /\ pages \in Seq(PageRecs) /\ sn \in SeenRecs /\ pa \in 1 .. 2
      /\ h \in FrameVectors /\ an \in SUBSET PageKeys /\ ac \in Nat /\ pe \in Nat \cup {Unset}
      /\ se \in BOOLEAN /\ ma \in BOOLEAN /\ la \in BOOLEAN /\ pr \in Profiles
  BY <1>1 DEF IsWorld
<1>3. /\ w.t.active = ac /\ w.t.settle = se /\ w.pages = pages
      /\ sn.known => /\ sn.settling = se
                     /\ ~sn.settling /\ ~sn.held => \A k \in PageKeys \ an : sn.hashes[k] = h[k]
  BY <1>1, WorldHas
<1>4. PICK fresh : fresh = [w EXCEPT !.t.pending = Unset]
  OBVIOUS
<1>5. fresh = World(h, an, ac, Unset, se, ma, la, pr, pages, sn, pa)
  BY <1>2, <1>4, SetPending
<1>6. IsWorld(fresh, h, an, ac, Unset, se, ma, la, pr, pages, sn, pa)
  BY <1>2, <1>5 DEF IsWorld
<1>7. PICK gone : gone = Commit(fresh, NoPage)
  OBVIOUS
<1>8. IsWorld(gone, h, an, NoPage, Unset, se, ma, la, pr, pages, sn, LayoutFor(NoPage, pages))
  <2>1. gone = World(h, an, NoPage, Unset, se, ma, la, pr, pages, sn, LayoutFor(NoPage, pages))
    BY <1>5, <1>7, CommitOf
  <2>2. NoPage \in Nat /\ LayoutFor(NoPage, pages) \in 1 .. 2
    BY <1>2, LayoutForTyped DEF NoPage
  <2> QED BY <1>2, <2>1, <2>2 DEF IsWorld
<1>9. PICK r : r = TrackerReload(w)
  OBVIOUS
<1>10. \/ se /\ r = fresh
       \/ ~se /\ (r = Evaluate_(fresh, "reload") \/ r = Evaluate_(gone, "reload"))
  BY <1>3, <1>4, <1>7, <1>9 DEF TrackerReload
<1>11. ReloadDock(w) = IF r.t.active = ac THEN Repaint(r) ELSE r
  BY <1>3, <1>9 DEF ReloadDock
<1>12. IsRight(r) /\ r.pages = pages /\ (IsPainted(r) \/ r.t.active = ac)
  <2>1. CASE se /\ r = fresh
    <3>1. /\ r \in WorldRecs /\ r.t.active = ac /\ r.t.settle = se /\ r.pages = pages
          /\ CopyIsCurrent(r)
      <4>1. IsWorld(r, h, an, ac, Unset, se, ma, la, pr, pages, sn, pa)
        BY <1>6, <2>1
      <4>2. r \in WorldRecs /\ r.t.active = ac /\ r.t.settle = se /\ r.pages = pages
        BY <4>1, WorldHas
      <4>3. CopyIsCurrent(r) <=>
              (sn.known =>
                 /\ sn.settling = se
                 /\ ~sn.settling /\ ~sn.held => \A k \in PageKeys \ an : sn.hashes[k] = h[k])
        BY <4>1, WorldHas
      <4> QED BY <1>3, <4>2, <4>3
    <3>2. Verdict(r)
      BY <2>1, <3>1 DEF Verdict
    <3> QED BY <3>1, <3>2 DEF IsRight
  <2>2. CASE ~se /\ r = Evaluate_(fresh, "reload")
    <3>1. fresh \in WorldRecs /\ fresh.t.active = ac /\ fresh.pages = pages
      BY <1>6, WorldHas
    <3> QED BY <2>2, <3>1, EvaluateIsRight
  <2>3. CASE ~se /\ r = Evaluate_(gone, "reload")
    <3>1. /\ gone \in WorldRecs /\ gone.t.active = NoPage /\ gone.pages = pages
          /\ gone.painted = LayoutFor(NoPage, pages)
      BY <1>8, WorldHas
    <3>2. /\ IsRight(r) /\ r.pages = pages
          /\ IsPainted(r) \/ (r.painted = LayoutFor(NoPage, pages) /\ r.t.active = NoPage)
      BY <2>3, <3>1, EvaluateIsRight
    <3>3. r.painted = LayoutFor(NoPage, pages) /\ r.t.active = NoPage => IsPainted(r)
      <4>1. PICK h1, an1, ac1, pe1, se1, ma1, la1, pr1, pages1, sn1, pa1 :
              IsWorld(r, h1, an1, ac1, pe1, se1, ma1, la1, pr1, pages1, sn1, pa1)
        BY <3>2, WorldOf DEF IsRight
      <4>2. /\ r.pages = pages1 /\ r.t.active = ac1 /\ r.painted = pa1
            /\ IsPainted(r) <=> pa1 = LayoutFor(ac1, pages1)
        BY <4>1, WorldHas
      <4> QED BY <3>2, <4>2
    <3> QED BY <3>2, <3>3
  <2> QED BY <1>10, <2>1, <2>2, <2>3
<1> QED BY <1>3, <1>11, <1>12, RepaintIsRight

(* What a handler leaves behind is the new state. *)

LEMMA BecomeKeeps ==
  ASSUME NEW r, IsRight(r), IsPainted(r), Become(r)
  PROVE  PagesInv'
<1>1. r = [t |-> r.t, pages |-> r.pages, seen |-> r.seen, painted |-> r.painted]
  BY DEF IsRight, WorldRecs
<1>2. Now(saved)' = r
  BY <1>1 DEF Now, Become
<1> QED BY <1>2 DEF PagesInv, IsRight

LEMMA NowRight ==
  ASSUME PagesInv
  PROVE  /\ IsRight(Now(saved)) /\ IsPainted(Now(saved))
         /\ saved \in Seq(PageRecs) /\ tracker \in TrackerRecs /\ seen \in SeenRecs
         /\ painted \in 1 .. 2
<1>1. IsRight(Now(saved)) /\ IsPainted(Now(saved))
  BY DEF PagesInv, IsRight
<1>2. Now(saved) \in WorldRecs
  BY <1>1 DEF IsRight
<1> QED BY <1>1, <1>2 DEF Now, WorldRecs

LEMMA PersistKeeps ==
  ASSUME PagesInv, NEW pages \in Seq(PageRecs), Persist(pages)
  PROVE  PagesInv'
<1>1. PICK w : w = Now(pages)
  OBVIOUS
<1>2. w \in WorldRecs
  BY <1>1, NowRight DEF Now, WorldRecs
<1>3. CopyIsCurrent(w)
  <2>1. CopyIsCurrent(Now(saved))
    BY DEF PagesInv
  <2> QED BY <1>1, <2>1 DEF CopyIsCurrent, Now
<1>4. PICK r : r = ReloadDock(w)
  OBVIOUS
<1>5. IsRight(r) /\ IsPainted(r)
  BY <1>2, <1>3, <1>4, ReloadIsRight
<1>6. Become(r)
  BY <1>1, <1>4 DEF Persist
<1> QED BY <1>5, <1>6, BecomeKeeps

(* Every action goes through one of the handlers above. *)
LEMMA PagesStart == PagesInit => PagesInv
<1> SUFFICES ASSUME PagesInit PROVE PagesInv
  OBVIOUS
<1>1. PICK no, yes : no = FALSE /\ yes = TRUE
  OBVIOUS
<1>2. tracker = TrackerOf(NoFrames, {}, NoPage, Unset, no, no, yes, 1)
  BY <1>1 DEF PagesInit, TrackerOf
<1>3. tracker.profile = 1
  BY <1>2 DEF TrackerOf
<1>4. /\ seen = [known |-> no, profile |-> 1, hashes |-> NoFrames, suggested |-> {},
                 settling |-> no, held |-> yes]
      /\ saved = <<>> /\ painted = DefaultLayout
  BY <1>1, <1>3 DEF PagesInit
<1>5. seen \in SeenRecs /\ saved \in Seq(PageRecs) /\ painted \in 1 .. 2
  <2>1. seen \in SeenRecs
    BY <1>1, <1>4, NothingIsHeld, PagesAssumption DEF SeenRecs
  <2>2. saved \in Seq(PageRecs)
    BY <1>4
  <2> QED BY <1>4, <2>1, <2>2 DEF DefaultLayout
<1>6. PICK w : w = Now(saved)
  OBVIOUS
<1>7. w = World(NoFrames, {}, NoPage, Unset, no, no, yes, 1, saved, seen, painted)
  BY <1>2, <1>6 DEF Now, World
<1>8. IsWorld(w, NoFrames, {}, NoPage, Unset, no, no, yes, 1, saved, seen, painted)
  BY <1>1, <1>5, <1>7, NothingIsHeld, PagesAssumption DEF IsWorld, NoPage
<1>9. Verdict(w)
  BY <1>7, NothingIsHeld, VerdictOf
<1>10. PagesNamed(saved, NoPage) = {}
  BY <1>4 DEF PagesNamed
<1>11. LayoutFor(NoPage, saved) = painted
  BY <1>4, <1>10 DEF LayoutFor
<1>12. seen.known = no
  BY <1>4
<1>13. w \in WorldRecs /\ IsPainted(w)
  BY <1>8, <1>11, WorldHas
<1>14. w.seen = seen
  BY <1>8, WorldHas
<1>15. CopyIsCurrent(w)
  BY <1>1, <1>12, <1>14 DEF CopyIsCurrent
<1> QED BY <1>6, <1>9, <1>13, <1>15 DEF PagesInv

LEMMA FrameKeeps == PagesInv /\ Frame => PagesInv'
<1> SUFFICES ASSUME PagesInv, Frame PROVE PagesInv'
  OBVIOUS
<1>1. PICK f \in PageFrames, close \in BOOLEAN : Become(NoteFrame(Now(saved), f[1], f[2], close))
  BY DEF Frame
<1>2. f[1] \in PageKeys /\ f[2] \in Nat
  BY PagesAssumption
<1>3. PICK r : r = NoteFrame(Now(saved), f[1], f[2], close)
  OBVIOUS
<1>4. IsRight(r) /\ IsPainted(r)
  BY <1>2, <1>3, NowRight, FrameIsRight
<1> QED BY <1>1, <1>3, <1>4, BecomeKeeps

LEMMA TimersKeep == PagesInv /\ (SettleTimer \/ MaxWaitTimer) => PagesInv'
<1> SUFFICES ASSUME PagesInv, SettleTimer \/ MaxWaitTimer PROVE PagesInv'
  OBVIOUS
<1>1. PICK w : w = Now(saved)
  OBVIOUS
<1>2. IsRight(w) /\ IsPainted(w)
  BY <1>1, NowRight
<1>3. PICK kind : Become(Evaluate_(w, kind))
  BY <1>1 DEF SettleTimer, MaxWaitTimer
<1>4. PICK r : r = Evaluate_(w, kind)
  OBVIOUS
<1>5. /\ IsRight(r) /\ r.pages = w.pages
      /\ IsPainted(r) \/ (r.painted = w.painted /\ r.t.active = w.t.active)
  BY <1>2, <1>4, EvaluateIsRight DEF IsRight
<1>6. IsPainted(r)
  <2> SUFFICES ASSUME r.painted = w.painted, r.t.active = w.t.active PROVE IsPainted(r)
    BY <1>5
  <2>1. LayoutOf(r.t, r.pages) = LayoutOf(w.t, w.pages)
    BY <1>5 DEF LayoutOf
  <2> QED BY <1>2, <2>1 DEF IsPainted
<1> QED BY <1>3, <1>4, <1>5, <1>6, BecomeKeeps

LEMMA AppLeavesKeeps == PagesInv /\ AppLeaves => PagesInv'
<1> SUFFICES ASSUME PagesInv, AppLeaves PROVE PagesInv'
  OBVIOUS
<1>1. PICK r : r = Reset(Now(saved))
  OBVIOUS
<1>2. IsRight(r) /\ IsPainted(r)
  BY <1>1, NowRight, ResetIsRight DEF IsRight
<1>3. Become(r)
  BY <1>1 DEF AppLeaves
<1> QED BY <1>2, <1>3, BecomeKeeps

LEMMA ModelChangeKeeps == PagesInv /\ ModelChange => PagesInv'
<1> SUFFICES ASSUME PagesInv, ModelChange PROVE PagesInv'
  OBVIOUS
<1>1. PICK p \in Profiles : Become(Reset([Now(saved) EXCEPT !.t.profile = p]))
  BY DEF ModelChange
<1>2. PICK h, an, ac, pe, se, ma, la, pr, pages, sn, pa :
        IsWorld(Now(saved), h, an, ac, pe, se, ma, la, pr, pages, sn, pa)
  BY NowRight, WorldOf DEF IsRight
<1>3. PICK w : w = [Now(saved) EXCEPT !.t.profile = p]
  OBVIOUS
<1>4. Now(saved) = World(h, an, ac, pe, se, ma, la, pr, pages, sn, pa)
  BY <1>2 DEF IsWorld
<1>5. w = World(h, an, ac, pe, se, ma, la, p, pages, sn, pa)
  BY <1>3, <1>4, SetProfile
<1>6. IsWorld(w, h, an, ac, pe, se, ma, la, p, pages, sn, pa)
  BY <1>2, <1>5 DEF IsWorld
<1>7. pa = LayoutFor(ac, pages)
  BY <1>2, NowRight, WorldHas
<1>8. w \in WorldRecs /\ IsPainted(w)
  BY <1>6, <1>7, WorldHas
<1>9. PICK r : r = Reset(w)
  OBVIOUS
<1>10. IsRight(r) /\ IsPainted(r)
  BY <1>8, <1>9, ResetIsRight
<1> QED BY <1>1, <1>3, <1>9, <1>10, BecomeKeeps

LEMMA SnapshotKeeps == PagesInv /\ TrySnapshot => PagesInv'
<1> SUFFICES ASSUME PagesInv, TrySnapshot PROVE PagesInv'
  OBVIOUS
<1>1. PICK page : /\ page = [id |-> NextPageId(saved), profile |-> seen.profile, hashes |-> seen.hashes,
                             ignore |-> seen.suggested, minMatch |-> 80, layout |-> 0]
                  /\ Persist(Append(saved, page))
  BY DEF TrySnapshot
<1>2. saved \in Seq(PageRecs) /\ seen \in SeenRecs
  BY NowRight
<1>3. NextPageId(saved) \in Nat
  BY <1>2, NextIsFresh
<1>4. page \in PageRecs
  BY <1>1, <1>2, <1>3 DEF PageRecs, SeenRecs
<1>5. Append(saved, page) \in Seq(PageRecs)
  BY <1>2, <1>4
<1> QED BY <1>1, <1>5, PersistKeeps

(* An edit in place of one page. *)

LEMMA ReplacedTyped ==
  ASSUME NEW pages \in Seq(PageRecs), NEW i \in DOMAIN pages, NEW page \in PageRecs
  PROVE  [pages EXCEPT ![i] = page] \in Seq(PageRecs)
OBVIOUS

LEMMA UpdateKeeps == PagesInv /\ TryUpdate => PagesInv'
<1> SUFFICES ASSUME PagesInv, TryUpdate PROVE PagesInv'
  OBVIOUS
<1>1. PICK i \in DOMAIN saved, m \in MinMatches, ignore \in {{}} \cup {{k} : k \in PageKeys} :
        Persist([saved EXCEPT ![i] = [saved[i] EXCEPT !.minMatch = m, !.ignore = ignore]])
  BY DEF TryUpdate, Replace
<1>2. saved \in Seq(PageRecs) /\ saved[i] \in PageRecs
  BY NowRight
<1>3. [saved[i] EXCEPT !.minMatch = m, !.ignore = ignore] \in PageRecs
  BY <1>2, PagesAssumption DEF PageRecs
<1>4. [saved EXCEPT ![i] = [saved[i] EXCEPT !.minMatch = m, !.ignore = ignore]] \in Seq(PageRecs)
  BY <1>2, <1>3, ReplacedTyped
<1> QED BY <1>1, <1>4, PersistKeeps

LEMMA RecaptureKeeps == PagesInv /\ TryRecapture => PagesInv'
<1> SUFFICES ASSUME PagesInv, TryRecapture PROVE PagesInv'
  OBVIOUS
<1>1. PICK i \in DOMAIN saved :
        Persist([saved EXCEPT ![i] = [saved[i] EXCEPT !.profile = seen.profile, !.hashes = seen.hashes]])
  BY DEF TryRecapture, Replace
<1>2. saved \in Seq(PageRecs) /\ saved[i] \in PageRecs /\ seen \in SeenRecs
  BY NowRight
<1>3. [saved[i] EXCEPT !.profile = seen.profile, !.hashes = seen.hashes] \in PageRecs
  BY <1>2 DEF PageRecs, SeenRecs
<1>4. [saved EXCEPT ![i] = [saved[i] EXCEPT !.profile = seen.profile, !.hashes = seen.hashes]]
        \in Seq(PageRecs)
  BY <1>2, <1>3, ReplacedTyped
<1> QED BY <1>1, <1>4, PersistKeeps

(* A page with another layout is a page. *)
LEMMA RelaidTyped ==
  ASSUME NEW page \in PageRecs, NEW x \in 0 .. 2
  PROVE  [page EXCEPT !.layout = x] \in PageRecs
BY DEF PageRecs

LEMMA LayoutsKeep == PagesInv /\ (TrySetLayout \/ TryEditLayout) => PagesInv'
<1> SUFFICES ASSUME PagesInv, TrySetLayout \/ TryEditLayout PROVE PagesInv'
  OBVIOUS
<1>1. CASE TrySetLayout
  <2>1. PICK i \in DOMAIN saved :
          Persist([saved EXCEPT ![i].layout = IF @ = 0 THEN DefaultLayout ELSE 0])
    BY <1>1 DEF TrySetLayout
  <2>2. saved \in Seq(PageRecs) /\ saved[i] \in PageRecs
    BY NowRight
  <2>3. PICK x : x = IF saved[i].layout = 0 THEN DefaultLayout ELSE 0
    OBVIOUS
  <2>4. [saved[i] EXCEPT !.layout = x] \in PageRecs
    <3>1. x \in 0 .. 2
      BY <2>3 DEF DefaultLayout
    <3> QED BY <2>2, <3>1, RelaidTyped
  <2>5. [saved EXCEPT ![i].layout = IF @ = 0 THEN DefaultLayout ELSE 0]
          = [saved EXCEPT ![i] = [saved[i] EXCEPT !.layout = x]]
    BY <2>3
  <2>6. [saved EXCEPT ![i] = [saved[i] EXCEPT !.layout = x]] \in Seq(PageRecs)
    BY <2>2, <2>4, ReplacedTyped
  <2> QED BY <2>1, <2>5, <2>6, PersistKeeps
<1>2. CASE TryEditLayout
  <2>1. PICK i \in DOMAIN saved :
          saved[i].layout # 0 /\ Persist([saved EXCEPT ![i].layout = 3 - @])
    BY <1>2 DEF TryEditLayout
  <2>2. saved \in Seq(PageRecs) /\ saved[i] \in PageRecs
    BY NowRight
  <2>3. PICK x : x = 3 - saved[i].layout
    OBVIOUS
  <2>4. [saved[i] EXCEPT !.layout = x] \in PageRecs
    <3>1. saved[i].layout \in 0 .. 2
      BY <2>2 DEF PageRecs
    <3>2. x \in 0 .. 2
      BY <2>1, <2>3, <3>1
    <3> QED BY <2>2, <3>2, RelaidTyped
  <2>5. [saved EXCEPT ![i].layout = 3 - @]
          = [saved EXCEPT ![i] = [saved[i] EXCEPT !.layout = x]]
    BY <2>3
  <2>6. [saved EXCEPT ![i] = [saved[i] EXCEPT !.layout = x]] \in Seq(PageRecs)
    BY <2>2, <2>4, ReplacedTyped
  <2> QED BY <2>1, <2>5, <2>6, PersistKeeps
<1> QED BY <1>1, <1>2

LEMMA DeleteKeeps == PagesInv /\ TryDelete => PagesInv'
<1> SUFFICES ASSUME PagesInv, TryDelete PROVE PagesInv'
  OBVIOUS
<1>1. PICK i \in DOMAIN saved :
        Persist([j \in 1..(Len(saved) - 1) |-> saved[IF j < i THEN j ELSE j + 1]])
  BY DEF TryDelete
<1> DEFINE left == [j \in 1..(Len(saved) - 1) |-> saved[IF j < i THEN j ELSE j + 1]]
<1>2. saved \in Seq(PageRecs) /\ Len(saved) \in Nat /\ DOMAIN saved = 1 .. Len(saved)
  BY NowRight
<1>3. Len(saved) - 1 \in Nat
  BY <1>2
<1>4. \A j \in 1..(Len(saved) - 1) : saved[IF j < i THEN j ELSE j + 1] \in PageRecs
  BY <1>2
<1>5. left \in Seq(PageRecs)
  BY <1>3, <1>4
<1> QED BY <1>1, <1>5, PersistKeeps

(* The composition. *)
LEMMA PagesKeep == PagesInv /\ [PagesNext]_pageVars => PagesInv'
<1> SUFFICES ASSUME PagesInv, [PagesNext]_pageVars PROVE PagesInv'
  OBVIOUS
<1>1. CASE PagesNext
  BY <1>1, FrameKeeps, TimersKeep, AppLeavesKeeps, ModelChangeKeeps, SnapshotKeeps, UpdateKeeps,
     RecaptureKeeps, LayoutsKeep, DeleteKeeps DEF PagesNext
<1>2. CASE UNCHANGED pageVars
  <2>1. Now(saved)' = Now(saved)
    BY <1>2 DEF pageVars, Now
  <2> QED BY <2>1 DEF PagesInv
<1> QED BY <1>1, <1>2

LEMMA PagesFollow == PagesInv => LayoutFollowsPanel
<1> SUFFICES ASSUME PagesInv PROVE LayoutFollowsPanel
  OBVIOUS
<1>1. PICK w : w = Now(saved)
  OBVIOUS
<1>2. Verdict(w) /\ CopyIsCurrent(w) /\ IsPainted(w)
  BY <1>1 DEF PagesInv
<1>3. w.t = tracker /\ w.pages = saved /\ w.seen = seen /\ w.painted = painted
  BY <1>1 DEF Now
<1>4. QuietPageIsTheWinner
  BY <1>2, <1>3 DEF QuietPageIsTheWinner, Verdict
<1>5. CapturableIsCurrent
  BY <1>2, <1>3 DEF CapturableIsCurrent, CopyIsCurrent, Capturable
<1>6. LayoutIsCurrent
  BY <1>2, <1>3 DEF LayoutIsCurrent, IsPainted
<1> QED BY <1>4, <1>5, <1>6 DEF LayoutFollowsPanel

(* In every reachable state, once both timers of the tracker have run out the page shown is the
   winner of the frames on the deck, what a snapshot would take is what the deck shows, and the
   side-key widgets are painted in the layout in force (page-tracker.ts, dock-pages.ts,
   pages-controller.ts): through bursts, edits, lost apps and changes of the model. *)
THEOREM LayoutStaysRight == PagesSpec => []LayoutFollowsPanel
BY PagesStart, PagesKeep, PagesFollow, PTL DEF PagesSpec

-----------------------------------------------------------------------------
(* Standby: the controller, the panel, and the two together, by type. *)
Waits == {"none", "afterSleep", "repaint"}
Grids == {"app", "clock", "blank", "lost"}
Displays == [effective : Nat, state : {"off", "standby", "dimmed", "night", "active"}]
ControllerRecs ==
  [requested : Nat, res : Displays, tick : BOOLEAN, debounce : BOOLEAN, exit : BOOLEAN, wake : Waits,
   attached : BOOLEAN, sessionSeen : BOOLEAN, detachedGone : BOOLEAN, silent : BOOLEAN,
   companion : BOOLEAN, off : BOOLEAN, sleeping : BOOLEAN, lastApplied : Nat \cup {Undefined},
   inStandby : BOOLEAN, painted : BOOLEAN, swallowed : SUBSET StandbyKeys, wakePending : BOOLEAN, held : BOOLEAN]
PanelRecs == [level : Nat, asleep : BOOLEAN, grid : Grids, hook : {"none", "sleep", "wake"}]
DeckRecs == [s : ControllerRecs, p : PanelRecs]
AroundRecs ==
  [cfg : StandbyConfigs, panel : StandbyPanels, client : BOOLEAN, linkQuiet : BOOLEAN, idle : 0 .. 2,
   night : BOOLEAN, graceOver : BOOLEAN, hostSlept : BOOLEAN, pairedBefore : BOOLEAN]

(* The off state is hardware sleep. *)
SleepsWhenOff(a) == a.panel.sleep /\ a.cfg.offAuto

(* What apply() relies on: the controller knows whether the panel sleeps and, unless this call forces
   a write, its level; a clock on the grid is painted; a lost grid will be drawn again. *)
Ready(d, a, force) ==
  /\ d \in DeckRecs
  /\ d.p.asleep => d.s.sleeping /\ d.p.grid = "lost"
  /\ d.s.sleeping => d.s.off
  /\ ~force => /\ d.s.sleeping => d.p.asleep
               /\ ~d.s.sleeping => d.p.level = d.s.lastApplied
  /\ d.s.painted => d.s.inStandby
  /\ d.s.inStandby /\ ~d.s.painted => d.s.off \/ d.s.wake # "none"
  /\ d.p.grid = "clock" => d.s.painted \/ d.s.held
  /\ d.p.grid = "lost" => /\ d.s.sleeping \/ d.s.wake = "afterSleep" \/ d.s.held
                          /\ d.s.off => d.s.sleeping
                          /\ SleepsWhenOff(a)
  /\ d.p.hook = "sleep" => d.s.wakePending

(* What it leaves. *)
Settled(d, a) ==
  /\ Ready(d, a, FALSE)
  /\ d.s.off <=> d.s.res.state = "off"
  /\ ~d.s.sleeping => d.s.lastApplied = d.s.res.effective
  /\ d.s.held => d.s.res.state = "active" /\ ~d.s.inStandby
  /\ d.s.res.state = "standby" => d.s.inStandby
  /\ d.s.wakePending => d.s.off \/ d.s.wake # "none"

(* A controller without a device has nothing under way. *)
Away(s) == ~s.inStandby /\ ~s.painted /\ ~s.held /\ s.wake = "none" /\ s.swallowed = {}

(* Presses: the app holds the keys that the user holds and that were not swallowed. *)
PressesFit(pr, swallowed) ==
  /\ pr \in [StandbyKeys -> [user : BOOLEAN, app : {"up", "down"}]]
  /\ \A k \in StandbyKeys : pr[k].app = "down" <=> pr[k].user /\ k \notin swallowed

StandbyInvOf(s, p, a, pr) ==
  /\ s \in ControllerRecs /\ p \in PanelRecs /\ a \in AroundRecs
  /\ s.attached => Settled([s |-> s, p |-> p], a)
  /\ ~s.attached => Away(s)
  /\ p.hook = "sleep" => s.wakePending
  /\ PressesFit(pr, s.swallowed)

StandbyInv == StandbyInvOf(standby, lit, around, press)

LEMMA LeastOfFour ==
  ASSUME NEW u \in Nat, NEW v \in Nat, NEW x \in Nat, NEW y \in Nat
  PROVE  MinOf({u, v, x, y}) \in Nat
<1> DEFINE S == {u, v, x, y}
<1>1. \E m \in S : \A n \in S : m <= n
  OBVIOUS
<1>2. MinOf(S) \in S
  <2> HIDE DEF S
  <2> QED BY <1>1 DEF MinOf
<1> QED BY <1>2

(* The display asked for: the standby state is shown only while the clock is wanted. *)
LEMMA DisplayTyped ==
  ASSUME NEW requested \in Nat, NEW idle, NEW offIdle, NEW nightActive, NEW appGone, NEW cfg
  PROVE  LET r == ComputeDisplay(requested, idle, offIdle, nightActive, appGone, cfg)
         IN  r \in Displays /\ (r.state = "standby" => appGone = "clock")
<1> DEFINE capNight == IF nightActive THEN NightLevel ELSE FullLevel
           capIdle == IF offIdle \/ (idle /\ nightActive /\ cfg.nightOffWhenIdle) THEN 0
                      ELSE IF idle /\ cfg.idleDim THEN IdleLevel ELSE FullLevel
           capStandby == CASE appGone = "clock" -> ClockLevel
                           [] appGone = "off" -> 0
                           [] OTHER -> FullLevel
           effective == MinOf({requested, capIdle, capNight, capStandby})
           state == CASE effective = 0 /\ requested > 0 -> "off"
                      [] appGone = "clock" -> "standby"
                      [] capIdle < requested /\ capIdle < capNight -> "dimmed"
                      [] nightActive -> "night"
                      [] OTHER -> "active"
<1>1. capNight \in Nat /\ capIdle \in Nat
  BY StandbyAssumption
<1>2. capStandby \in Nat
  BY StandbyAssumption
<1>3. effective \in Nat
  <2> HIDE DEF capNight, capIdle, capStandby
  <2> QED BY <1>1, <1>2, LeastOfFour
<1>4. /\ state \in {"off", "standby", "dimmed", "night", "active"}
      /\ state = "standby" => appGone = "clock"
  <2> HIDE DEF capNight, capIdle, effective
  <2> QED OBVIOUS
<1>5. ComputeDisplay(requested, idle, offIdle, nightActive, appGone, cfg)
        = [effective |-> effective, state |-> state]
  BY Zenon DEF ComputeDisplay
<1> HIDE DEF effective, state
<1> QED BY <1>3, <1>4, <1>5 DEF Displays

LEMMA DisplayOf ==
  ASSUME NEW s \in ControllerRecs, NEW a
  PROVE  LET r == Evaluate(s, a)
         IN  /\ r \in Displays
             /\ s.held => r.state = "active"
             /\ r.state = "standby" => WantStandby(s, a)
             /\ WantStandby(s, a) => ~s.held
             /\ WantStandby(s, a) \in BOOLEAN
<1>1. s.requested \in Nat
  BY DEF ControllerRecs
<1>2. CASE s.held
  <2>1. Evaluate(s, a) = [effective |-> s.requested, state |-> "active"]
    BY <1>2 DEF Evaluate
  <2> QED BY <1>1, <1>2, <2>1 DEF Displays, WantStandby
<1>3. CASE ~s.held
  <2>1. PICK act : act = ActionInForce(s, a)
    OBVIOUS
  <2>2. PICK idle, offIdle, nightActive :
          Evaluate(s, a) = ComputeDisplay(s.requested, idle, offIdle, nightActive, act, a.cfg)
    BY <1>3, <2>1 DEF Evaluate
  <2> QED BY <1>1, <1>3, <2>1, <2>2, DisplayTyped DEF WantStandby
<1> QED BY <1>2, <1>3

(* What each part of apply() does, field by field.  Kept is what none of them touches. *)
Kept(s, t) ==
  /\ t \in ControllerRecs
  /\ t.attached = s.attached /\ t.swallowed = s.swallowed /\ t.held = s.held /\ t.res = s.res

Exited(d, want, e) ==
  /\ e \in DeckRecs /\ Kept(d.s, e.s)
  /\ e.s.off = d.s.off /\ e.s.sleeping = d.s.sleeping /\ e.s.wake = d.s.wake
  /\ e.s.lastApplied = d.s.lastApplied /\ e.s.wakePending = d.s.wakePending
  /\ e.p.level = d.p.level /\ e.p.asleep = d.p.asleep /\ e.p.hook = d.p.hook
  /\ (want \/ ~d.s.inStandby) => e = d
  /\ (~want /\ d.s.inStandby) =>
       /\ ~e.s.inStandby /\ ~e.s.painted
       /\ e.p.grid = IF d.s.painted /\ ~d.s.held /\ ~d.p.asleep THEN "app" ELSE d.p.grid

LEMMA ExitStandbyOf ==
  ASSUME NEW d \in DeckRecs, NEW want \in BOOLEAN
  PROVE  Exited(d, want, ExitStandby(d, want))
<1>1. d.s \in ControllerRecs /\ d.p \in PanelRecs
  BY DEF DeckRecs
<1>2. CASE want \/ ~d.s.inStandby
  <2>1. ExitStandby(d, want) = d
    BY <1>2 DEF ExitStandby
  <2> QED BY <1>1, <1>2, <2>1 DEF Kept, Exited
<1>3. CASE ~want /\ d.s.inStandby
  <2> DEFINE t == [d.s EXCEPT !.inStandby = FALSE, !.painted = FALSE]
             q == IF d.s.painted /\ ~d.s.held THEN Draw(d.p, "app") ELSE d.p
  <2>1. ExitStandby(d, want) = [s |-> t, p |-> q]
    BY <1>3 DEF ExitStandby
  <2>2. /\ t \in ControllerRecs /\ Kept(d.s, t)
        /\ t.off = d.s.off /\ t.sleeping = d.s.sleeping /\ t.wake = d.s.wake
        /\ t.lastApplied = d.s.lastApplied /\ t.wakePending = d.s.wakePending
        /\ ~t.inStandby /\ ~t.painted
    BY <1>1 DEF ControllerRecs, Kept
  <2>3. /\ q \in PanelRecs /\ q.level = d.p.level /\ q.asleep = d.p.asleep /\ q.hook = d.p.hook
        /\ q.grid = IF d.s.painted /\ ~d.s.held /\ ~d.p.asleep THEN "app" ELSE d.p.grid
    BY <1>1 DEF Draw, PanelRecs, Grids
  <2> HIDE DEF t, q
  <2> QED BY <1>3, <2>1, <2>2, <2>3 DEF DeckRecs, Exited
<1> QED BY <1>2, <1>3

Applied(s, b, x) == [s EXCEPT !.sleeping = b, !.lastApplied = x]

LEMMA AppliedOf ==
  ASSUME NEW s \in ControllerRecs, NEW b \in BOOLEAN, NEW x \in Nat \cup {Undefined}
  PROVE  LET t == Applied(s, b, x)
         IN  /\ t \in ControllerRecs /\ Kept(s, t) /\ t.off = s.off /\ t.wake = s.wake
             /\ t.wakePending = s.wakePending /\ t.inStandby = s.inStandby
             /\ t.painted = s.painted /\ t.sleeping = b /\ t.lastApplied = x
<1> DEFINE t == Applied(s, b, x)
<1>1. t \in ControllerRecs
  BY DEF ControllerRecs, Applied
<1>2. /\ t.off = s.off /\ t.wake = s.wake
      /\ t.wakePending = s.wakePending /\ t.inStandby = s.inStandby
      /\ t.painted = s.painted /\ t.sleeping = b /\ t.lastApplied = x
      /\ t.attached = s.attached /\ t.swallowed = s.swallowed /\ t.held = s.held /\ t.res = s.res
  BY DEF ControllerRecs, Applied
<1> QED BY <1>1, <1>2 DEF Kept

Wrote(d, a, level, isOff, force, e) ==
  LET sleeps == isOff /\ SleepsWhenOff(a)
  IN  /\ e \in DeckRecs /\ Kept(d.s, e.s)
      /\ e.s.off = d.s.off /\ e.s.wake = d.s.wake /\ e.s.wakePending = d.s.wakePending
      /\ e.s.inStandby = d.s.inStandby /\ e.s.painted = d.s.painted /\ e.p.hook = d.p.hook
      /\ e.s.sleeping <=> sleeps
      /\ sleeps => /\ e.s.lastApplied = 0 /\ e.p.level = d.p.level
                   /\ (~d.s.sleeping \/ force) => e.p.asleep /\ e.p.grid = "lost"
                   /\ ~(~d.s.sleeping \/ force) => e.p = d.p
      /\ ~sleeps => /\ e.s.lastApplied = level
                    /\ e.p.level = IF force \/ d.s.sleeping \/ level # d.s.lastApplied
                                   THEN level ELSE d.p.level
                    /\ e.p.asleep <=> d.p.asleep /\ ~d.s.sleeping
                    /\ e.p.grid = d.p.grid

LEMMA WriteBacklightOf ==
  ASSUME NEW d \in DeckRecs, NEW a, NEW level \in Nat, NEW isOff \in BOOLEAN, NEW force \in BOOLEAN
  PROVE  Wrote(d, a, level, isOff, force, WriteBacklight(d, a, level, isOff, force))
<1>1. d.s \in ControllerRecs /\ d.p \in PanelRecs /\ d = [s |-> d.s, p |-> d.p]
  BY DEF DeckRecs
<1> DEFINE wantSleep == isOff /\ a.panel.sleep /\ a.cfg.offAuto
           waking == d.s.sleeping /\ ~wantSleep
           awake == IF waking THEN SetSleep(d.p, FALSE) ELSE d.p
<1>2. wantSleep <=> isOff /\ SleepsWhenOff(a)
  BY DEF SleepsWhenOff
<1>3. awake \in PanelRecs /\ (awake.asleep <=> d.p.asleep /\ ~waking) /\ awake.grid = d.p.grid
      /\ awake.level = d.p.level /\ awake.hook = d.p.hook
  BY <1>1 DEF SetSleep, PanelRecs
<1>4. PICK yes, no, zero : yes = TRUE /\ no = FALSE /\ zero = 0
  OBVIOUS
<1>5. yes \in BOOLEAN /\ no \in BOOLEAN /\ zero \in Nat \cup {Undefined} /\ level \in Nat \cup {Undefined}
  <2> HIDE DEF wantSleep, waking, awake
  <2>1. zero \in Nat
    BY <1>4
  <2>2. yes \in BOOLEAN /\ no \in BOOLEAN
    BY <1>4
  <2> QED BY <2>1, <2>2 DEF Wrote
<1>6. PICK e : e = WriteBacklight(d, a, level, isOff, force)
  OBVIOUS
<1>7. CASE wantSleep
  <2> DEFINE q == IF ~d.s.sleeping \/ force THEN SetSleep(d.p, TRUE) ELSE d.p
  <2>1. PICK t : t = Applied(d.s, yes, zero)
    OBVIOUS
  <2>2. e = [s |-> t, p |-> q]
    BY <1>4, <1>6, <1>7, <2>1 DEF WriteBacklight, Applied
  <2>3. /\ t \in ControllerRecs /\ Kept(d.s, t) /\ t.off = d.s.off /\ t.wake = d.s.wake
        /\ t.wakePending = d.s.wakePending /\ t.inStandby = d.s.inStandby
        /\ t.painted = d.s.painted /\ t.sleeping = yes /\ t.lastApplied = zero
    BY <1>1, <1>5, <2>1, AppliedOf
  <2>4. /\ q \in PanelRecs /\ q.level = d.p.level /\ q.hook = d.p.hook
        /\ (~d.s.sleeping \/ force) => q.asleep /\ q.grid = "lost"
        /\ ~(~d.s.sleeping \/ force) => q = d.p
    BY <1>1 DEF SetSleep, PanelRecs, Grids
  <2> HIDE DEF q, wantSleep, awake, waking
  <2>5. e.s = t /\ e.p = q /\ e \in DeckRecs
    BY <2>2, <2>3, <2>4 DEF DeckRecs
  <2> QED BY <1>2, <1>4, <1>6, <1>7, <2>3, <2>4, <2>5 DEF Wrote
<1>8. CASE ~wantSleep /\ (force \/ waking \/ level # d.s.lastApplied)
  <2> DEFINE q == [awake EXCEPT !.level = level]
  <2>1. PICK t : t = Applied(d.s, no, level)
    OBVIOUS
  <2>2. e = [s |-> t, p |-> q]
    BY <1>4, <1>6, <1>8, <2>1 DEF WriteBacklight, Applied
  <2>3. /\ t \in ControllerRecs /\ Kept(d.s, t) /\ t.off = d.s.off /\ t.wake = d.s.wake
        /\ t.wakePending = d.s.wakePending /\ t.inStandby = d.s.inStandby
        /\ t.painted = d.s.painted /\ t.sleeping = no /\ t.lastApplied = level
    BY <1>1, <1>5, <2>1, AppliedOf
  <2>4. /\ q \in PanelRecs /\ q.level = level /\ q.hook = d.p.hook
        /\ q.asleep = awake.asleep /\ q.grid = d.p.grid
    <3> HIDE DEF awake
    <3> QED BY <1>3 DEF PanelRecs
  <2>5. waking <=> d.s.sleeping
    BY <1>8
  <2> HIDE DEF q, wantSleep, awake, waking
  <2>6. e.s = t /\ e.p = q /\ e \in DeckRecs
    BY <2>2, <2>3, <2>4 DEF DeckRecs
  <2> QED BY <1>2, <1>3, <1>4, <1>6, <1>8, <2>3, <2>4, <2>5, <2>6 DEF Wrote
<1>9. CASE ~wantSleep /\ ~(force \/ waking \/ level # d.s.lastApplied)
  <2>1. e = [d EXCEPT !.p = awake]
    BY <1>6, <1>9 DEF WriteBacklight
  <2>2. awake = d.p
    BY <1>9
  <2>3. [d EXCEPT !.p = awake] = d
    BY <1>1, <2>2
  <2>4. ~d.s.sleeping /\ level = d.s.lastApplied /\ ~force
    BY <1>9
  <2>5. Kept(d.s, d.s)
    BY <1>1 DEF Kept
  <2> HIDE DEF wantSleep, awake, waking
  <2> QED BY <1>2, <1>6, <1>9, <2>1, <2>3, <2>4, <2>5 DEF Wrote
<1> QED BY <1>7, <1>8, <1>9

Fell(d, isOff, quiet, e) ==
  LET falls == isOff /\ ~d.s.off /\ ~quiet
  IN  /\ e \in DeckRecs /\ Kept(d.s, e.s)
      /\ e.s.off = isOff /\ e.s.wake = d.s.wake /\ e.s.sleeping = d.s.sleeping
      /\ e.s.lastApplied = d.s.lastApplied
      /\ e.s.inStandby = d.s.inStandby /\ e.s.painted = d.s.painted
      /\ e.s.wakePending <=> d.s.wakePending \/ falls
      /\ e.p.level = d.p.level /\ e.p.asleep = d.p.asleep /\ e.p.grid = d.p.grid
      /\ e.p.hook = IF falls THEN "sleep" ELSE d.p.hook

LEMMA GoOffOf ==
  ASSUME NEW d \in DeckRecs, NEW isOff \in BOOLEAN, NEW quiet \in BOOLEAN
  PROVE  Fell(d, isOff, quiet, GoOff(d, isOff, quiet))
<1>1. d.s \in ControllerRecs /\ d.p \in PanelRecs
  BY DEF DeckRecs
<1> DEFINE falls == isOff /\ ~d.s.off /\ ~quiet
           t == [d.s EXCEPT !.off = isOff, !.wakePending = @ \/ falls]
           q == IF falls THEN [d.p EXCEPT !.hook = "sleep"] ELSE d.p
<1>2. GoOff(d, isOff, quiet) = [s |-> t, p |-> q]
  BY DEF GoOff
<1>3. /\ t \in ControllerRecs /\ Kept(d.s, t) /\ t.off = isOff /\ t.wake = d.s.wake
      /\ t.sleeping = d.s.sleeping /\ t.lastApplied = d.s.lastApplied
      /\ t.inStandby = d.s.inStandby /\ t.painted = d.s.painted
      /\ t.wakePending <=> d.s.wakePending \/ falls
  <2>1. falls \in BOOLEAN
    OBVIOUS
  <2> HIDE DEF falls
  <2> QED BY <1>1, <2>1, ZenonT(40) DEF ControllerRecs, Kept, Fell
<1>4. /\ q \in PanelRecs /\ q.level = d.p.level /\ q.asleep = d.p.asleep /\ q.grid = d.p.grid
      /\ q.hook = IF falls THEN "sleep" ELSE d.p.hook
  <2> HIDE DEF falls
  <2> QED BY <1>1 DEF PanelRecs, Fell
<1> HIDE DEF t, q
<1> QED BY <1>2, <1>3, <1>4 DEF DeckRecs, Fell

Entered(d, want, e) ==
  LET enters == want /\ ~d.s.inStandby
      paints == enters /\ d.s.res.state # "off"
  IN  /\ e \in DeckRecs /\ Kept(d.s, e.s)
      /\ e.s.off = d.s.off /\ e.s.wake = d.s.wake /\ e.s.sleeping = d.s.sleeping
      /\ e.s.lastApplied = d.s.lastApplied /\ e.s.wakePending = d.s.wakePending
      /\ e.s.inStandby <=> d.s.inStandby \/ enters
      /\ e.s.painted <=> d.s.painted \/ paints
      /\ e.p.level = d.p.level /\ e.p.asleep = d.p.asleep /\ e.p.hook = d.p.hook
      /\ e.p.grid = IF paints /\ ~d.p.asleep THEN "clock" ELSE d.p.grid

LEMMA EnterStandbyOf ==
  ASSUME NEW d \in DeckRecs, NEW want \in BOOLEAN
  PROVE  Entered(d, want, EnterStandby(d, want))
<1>1. d.s \in ControllerRecs /\ d.p \in PanelRecs /\ d = [s |-> d.s, p |-> d.p]
  BY DEF DeckRecs
<1>2. CASE ~want \/ d.s.inStandby
  <2>1. EnterStandby(d, want) = d
    BY <1>2 DEF EnterStandby
  <2> QED BY <1>1, <1>2, <2>1 DEF Kept, Entered
<1>3. CASE want /\ ~d.s.inStandby /\ d.s.res.state = "off"
  <2> DEFINE t == [d.s EXCEPT !.inStandby = TRUE]
  <2>1. EnterStandby(d, want) = [d EXCEPT !.s.inStandby = TRUE]
    BY <1>3 DEF EnterStandby
  <2>2. [d EXCEPT !.s.inStandby = TRUE] = [d EXCEPT !.s = t]
    BY <1>1
  <2>3. /\ t \in ControllerRecs /\ Kept(d.s, t) /\ t.off = d.s.off /\ t.wake = d.s.wake
        /\ t.sleeping = d.s.sleeping /\ t.lastApplied = d.s.lastApplied
        /\ t.wakePending = d.s.wakePending /\ t.inStandby /\ t.painted = d.s.painted
    BY <1>1 DEF ControllerRecs, Kept
  <2> HIDE DEF t
  <2>4. [d EXCEPT !.s = t] = [s |-> t, p |-> d.p]
    BY <1>1
  <2> QED BY <1>1, <1>3, <2>1, <2>2, <2>3, <2>4, ZenonT(40) DEF DeckRecs, Entered
<1>4. CASE want /\ ~d.s.inStandby /\ d.s.res.state # "off"
  <2> DEFINE t == [d.s EXCEPT !.inStandby = TRUE, !.painted = TRUE]
             q == Draw(d.p, "clock")
  <2>1. EnterStandby(d, want) = [s |-> t, p |-> q]
    BY <1>4 DEF EnterStandby
  <2>2. /\ t \in ControllerRecs /\ Kept(d.s, t) /\ t.off = d.s.off /\ t.wake = d.s.wake
        /\ t.sleeping = d.s.sleeping /\ t.lastApplied = d.s.lastApplied
        /\ t.wakePending = d.s.wakePending /\ t.inStandby /\ t.painted
    BY <1>1 DEF ControllerRecs, Kept
  <2>3. /\ q \in PanelRecs /\ q.level = d.p.level /\ q.asleep = d.p.asleep /\ q.hook = d.p.hook
        /\ q.grid = IF ~d.p.asleep THEN "clock" ELSE d.p.grid
    BY <1>1 DEF Draw, PanelRecs, Grids
  <2>4. t.inStandby = TRUE /\ t.painted = TRUE
    BY <1>1 DEF ControllerRecs
  <2> HIDE DEF t, q
  <2>5. PICK e : e = EnterStandby(d, want)
    OBVIOUS
  <2>6. e.s = t /\ e.p = q
    BY <2>1, <2>5
  <2>7. e \in DeckRecs
    BY <2>1, <2>2, <2>3, <2>5 DEF DeckRecs
  <2> QED BY <1>4, <2>2, <2>3, <2>4, <2>5, <2>6, <2>7 DEF Entered
<1> QED BY <1>2, <1>3, <1>4

Scheduled(d, before, e) ==
  LET wakes == before.off /\ ~d.s.off
  IN  /\ e \in DeckRecs /\ Kept(d.s, e.s) /\ e.p = d.p
      /\ e.s.off = d.s.off /\ e.s.sleeping = d.s.sleeping
      /\ e.s.lastApplied = d.s.lastApplied /\ e.s.wakePending = d.s.wakePending
      /\ e.s.inStandby = d.s.inStandby /\ e.s.painted = d.s.painted
      /\ ~wakes => e.s.wake = d.s.wake
      /\ wakes => e.s.wake = IF before.sleeping THEN "afterSleep" ELSE "repaint"

LEMMA ScheduleWakeOf ==
  ASSUME NEW d \in DeckRecs, NEW before
  PROVE  Scheduled(d, before, ScheduleWake(d, before))
<1>1. d.s \in ControllerRecs /\ d.p \in PanelRecs /\ d = [s |-> d.s, p |-> d.p]
  BY DEF DeckRecs
<1>2. CASE ~(before.off /\ ~d.s.off)
  <2>1. ScheduleWake(d, before) = d
    BY <1>2 DEF ScheduleWake
  <2> QED BY <1>1, <1>2, <2>1 DEF Kept, Scheduled
<1>3. CASE before.off /\ ~d.s.off
  <2>1. PICK x : x = IF before.sleeping THEN "afterSleep" ELSE "repaint"
    OBVIOUS
  <2>2. PICK t : t = [d.s EXCEPT !.wake = x]
    OBVIOUS
  <2>3. ScheduleWake(d, before) = [d EXCEPT !.s.wake = x]
    BY <1>3, <2>1 DEF ScheduleWake
  <2>4. [d EXCEPT !.s.wake = x] = [d EXCEPT !.s = t]
    BY <1>1, <2>2
  <2>5. x \in Waits
    BY <2>1 DEF Waits
  <2>6. /\ t \in ControllerRecs /\ Kept(d.s, t) /\ t.wake = x
        /\ t.off = d.s.off /\ t.sleeping = d.s.sleeping
        /\ t.lastApplied = d.s.lastApplied /\ t.wakePending = d.s.wakePending
        /\ t.inStandby = d.s.inStandby /\ t.painted = d.s.painted
    BY <1>1, <2>2, <2>5 DEF ControllerRecs, Kept
  <2>7. [d EXCEPT !.s = t] = [s |-> t, p |-> d.p]
    BY <1>1
  <2> QED BY <1>1, <1>3, <2>1, <2>3, <2>4, <2>6, <2>7 DEF DeckRecs, Scheduled
<1> QED BY <1>2, <1>3

Ran(d, e) ==
  LET runs == d.s.wakePending /\ ~d.s.off /\ d.s.wake = "none"
  IN  /\ e \in DeckRecs /\ Kept(d.s, e.s)
      /\ e.s.off = d.s.off /\ e.s.sleeping = d.s.sleeping /\ e.s.wake = d.s.wake
      /\ e.s.lastApplied = d.s.lastApplied
      /\ e.s.inStandby = d.s.inStandby /\ e.s.painted = d.s.painted
      /\ e.p.level = d.p.level /\ e.p.asleep = d.p.asleep /\ e.p.grid = d.p.grid
      /\ e.s.wakePending <=> d.s.wakePending /\ ~runs
      /\ e.p.hook = IF runs THEN "wake" ELSE d.p.hook

LEMMA RunPendingWakeOf ==
  ASSUME NEW d \in DeckRecs
  PROVE  Ran(d, RunPendingWake(d))
<1>1. d.s \in ControllerRecs /\ d.p \in PanelRecs /\ d = [s |-> d.s, p |-> d.p]
  BY DEF DeckRecs
<1>2. CASE ~d.s.wakePending \/ d.s.off \/ d.s.wake # "none"
  <2>1. RunPendingWake(d) = d
    BY <1>2 DEF RunPendingWake
  <2> QED BY <1>1, <1>2, <2>1 DEF Kept, Ran
<1>3. CASE d.s.wakePending /\ ~d.s.off /\ d.s.wake = "none"
  <2> DEFINE t == [d.s EXCEPT !.wakePending = FALSE]
             q == [d.p EXCEPT !.hook = "wake"]
  <2>1. PICK e : e = RunPendingWake(d)
    OBVIOUS
  <2>2. e = [s |-> t, p |-> q]
    BY <1>3, <2>1 DEF RunPendingWake
  <2>3. /\ t \in ControllerRecs /\ Kept(d.s, t) /\ t.wake = d.s.wake
        /\ t.off = d.s.off /\ t.sleeping = d.s.sleeping
        /\ t.lastApplied = d.s.lastApplied /\ t.wakePending = FALSE
        /\ t.inStandby = d.s.inStandby /\ t.painted = d.s.painted
    BY <1>1 DEF ControllerRecs, Kept
  <2>4. /\ q \in PanelRecs /\ q.level = d.p.level /\ q.asleep = d.p.asleep /\ q.grid = d.p.grid
        /\ q.hook = "wake"
    BY <1>1 DEF PanelRecs
  <2> HIDE DEF t, q
  <2>5. e.s = t /\ e.p = q /\ e \in DeckRecs
    BY <2>2, <2>3, <2>4 DEF DeckRecs
  <2> QED BY <1>3, <2>1, <2>3, <2>4, <2>5 DEF Ran
<1> QED BY <1>2, <1>3

(* recompute() starts with the display it is about to show. *)
LEMMA DisplayedOf ==
  ASSUME NEW d \in DeckRecs, NEW r \in Displays
  PROVE  LET e == [d EXCEPT !.s.res = r]
         IN  /\ e \in DeckRecs /\ e.p = d.p /\ e.s.res = r
             /\ e.s.attached = d.s.attached /\ e.s.swallowed = d.s.swallowed
             /\ e.s.held = d.s.held /\ e.s.off = d.s.off /\ e.s.sleeping = d.s.sleeping
             /\ e.s.wake = d.s.wake /\ e.s.lastApplied = d.s.lastApplied
             /\ e.s.wakePending = d.s.wakePending /\ e.s.inStandby = d.s.inStandby
             /\ e.s.painted = d.s.painted
<1>1. d.s \in ControllerRecs /\ d.p \in PanelRecs /\ d = [s |-> d.s, p |-> d.p]
  BY DEF DeckRecs
<1>2. PICK t : t = [d.s EXCEPT !.res = r]
  OBVIOUS
<1>3. PICK e : e = [d EXCEPT !.s.res = r]
  OBVIOUS
<1>4. e = [d EXCEPT !.s = t]
  BY <1>1, <1>2, <1>3
<1>5. /\ t \in ControllerRecs /\ t.res = r
      /\ t.attached = d.s.attached /\ t.swallowed = d.s.swallowed
      /\ t.held = d.s.held /\ t.off = d.s.off /\ t.sleeping = d.s.sleeping
      /\ t.wake = d.s.wake /\ t.lastApplied = d.s.lastApplied
      /\ t.wakePending = d.s.wakePending /\ t.inStandby = d.s.inStandby
      /\ t.painted = d.s.painted
  BY <1>1, <1>2 DEF ControllerRecs
<1>6. e.s = t /\ e.p = d.p /\ e \in DeckRecs
  BY <1>1, <1>4, <1>5 DEF DeckRecs
<1> QED BY <1>3, <1>5, <1>6

(* Whatever the controller was told, once it has recomputed an attached panel they agree. *)
LEMMA RecomputeSettles ==
  ASSUME NEW d, NEW a, NEW force \in BOOLEAN, NEW quiet \in BOOLEAN, Ready(d, a, force),
         d.s.attached
  PROVE  LET e == Recompute(d, a, force, quiet)
         IN  Settled(e, a) /\ e.s.attached /\ e.s.swallowed = d.s.swallowed
<1>1. d \in DeckRecs /\ d.s \in ControllerRecs /\ d.p \in PanelRecs
  BY DEF Ready, DeckRecs
<1>2. PICK r : r = Evaluate(d.s, a)
  OBVIOUS
<1>3. PICK want : want = WantStandby(d.s, a)
  OBVIOUS
<1>4. /\ r \in Displays /\ want \in BOOLEAN
      /\ d.s.held => r.state = "active" /\ ~want
      /\ r.state = "standby" => want
  BY <1>1, <1>2, <1>3, DisplayOf
<1>5. r.effective \in Nat
  BY <1>4 DEF Displays
<1>6. PICK isOff : isOff = (r.state = "off")
  OBVIOUS
<1>7. isOff \in BOOLEAN
  BY <1>6
<1>8. PICK d0 : d0 = [d EXCEPT !.s.res = r]
  OBVIOUS
<1>9. /\ d0 \in DeckRecs /\ d0.p = d.p /\ d0.s.res = r
      /\ d0.s.attached = d.s.attached /\ d0.s.swallowed = d.s.swallowed
      /\ d0.s.held = d.s.held /\ d0.s.off = d.s.off /\ d0.s.sleeping = d.s.sleeping
      /\ d0.s.wake = d.s.wake /\ d0.s.lastApplied = d.s.lastApplied
      /\ d0.s.wakePending = d.s.wakePending /\ d0.s.inStandby = d.s.inStandby
      /\ d0.s.painted = d.s.painted
  BY <1>1, <1>4, <1>8, DisplayedOf, ZenonT(40)
<1>10. WantStandby(d0.s, a) = want
  <2>1. PICK t : t = [d.s EXCEPT !.res = r]
    OBVIOUS
  <2>2. d = [s |-> d.s, p |-> d.p]
    BY <1>1 DEF DeckRecs
  <2>3. d0.s = t
    BY <1>8, <2>1, <2>2
  <2>4. /\ t.held = d.s.held /\ t.attached = d.s.attached /\ t.detachedGone = d.s.detachedGone
        /\ t.silent = d.s.silent /\ t.sessionSeen = d.s.sessionSeen
    BY <1>1, <2>1 DEF ControllerRecs
  <2> QED BY <1>3, <2>3, <2>4 DEF WantStandby, ActionInForce
<1>11. PICK d1 : d1 = ExitStandby(d0, want)
  OBVIOUS
<1>12. PICK d2 : d2 = WriteBacklight(d1, a, r.effective, isOff, force)
  OBVIOUS
<1>13. PICK d3 : d3 = GoOff(d2, isOff, quiet)
  OBVIOUS
<1>14. PICK d4 : d4 = EnterStandby(d3, want)
  OBVIOUS
<1>15. PICK d5 : d5 = ScheduleWake(d4, d0.s)
  OBVIOUS
<1>16. PICK d6 : d6 = RunPendingWake(d5)
  OBVIOUS
<1>17. d6 = Recompute(d, a, force, quiet)
  <2>1. Apply(d0, a, r, force, quiet) = d5
    BY <1>6, <1>10, <1>11, <1>12, <1>13, <1>14, <1>15 DEF Apply
  <2>2. Recompute(d, a, force, quiet) = RunPendingWake(Apply(d0, a, r, force, quiet))
    BY <1>2, <1>8, <1>9 DEF Recompute
  <2> QED BY <1>16, <2>1, <2>2
<1>21. /\ d1 \in DeckRecs /\ Kept(d0.s, d1.s)
       /\ d1.s.off = d0.s.off /\ d1.s.sleeping = d0.s.sleeping /\ d1.s.wake = d0.s.wake
       /\ d1.s.lastApplied = d0.s.lastApplied /\ d1.s.wakePending = d0.s.wakePending
       /\ d1.p.level = d0.p.level /\ d1.p.asleep = d0.p.asleep /\ d1.p.hook = d0.p.hook
       /\ (want \/ ~d0.s.inStandby) => d1 = d0
       /\ (~want /\ d0.s.inStandby) =>
             /\ ~d1.s.inStandby /\ ~d1.s.painted
             /\ d1.p.grid = IF d0.s.painted /\ ~d0.s.held /\ ~d0.p.asleep THEN "app" ELSE d0.p.grid
  <2>1. Exited(d0, want, d1)
    BY <1>4, <1>9, <1>11, ExitStandbyOf
  <2> QED BY <2>1 DEF Exited
<1>22. /\ d2 \in DeckRecs /\ Kept(d1.s, d2.s)
       /\ d2.s.off = d1.s.off /\ d2.s.wake = d1.s.wake /\ d2.s.wakePending = d1.s.wakePending
       /\ d2.s.inStandby = d1.s.inStandby /\ d2.s.painted = d1.s.painted /\ d2.p.hook = d1.p.hook
       /\ d2.s.sleeping <=> isOff /\ SleepsWhenOff(a)
       /\ d2.s.sleeping =>
            /\ d2.s.lastApplied = 0 /\ d2.p.level = d1.p.level
            /\ (~d1.s.sleeping \/ force) => d2.p.asleep /\ d2.p.grid = "lost"
            /\ ~(~d1.s.sleeping \/ force) => d2.p = d1.p
       /\ ~d2.s.sleeping =>
            /\ d2.s.lastApplied = r.effective
            /\ d2.p.level = IF force \/ d1.s.sleeping \/ r.effective # d1.s.lastApplied
                            THEN r.effective ELSE d1.p.level
            /\ d2.p.asleep <=> d1.p.asleep /\ ~d1.s.sleeping
            /\ d2.p.grid = d1.p.grid
  <2>1. d1 \in DeckRecs
    BY <1>21
  <2>2. PICK level : level = r.effective
    OBVIOUS
  <2>3. level \in Nat /\ d2 = WriteBacklight(d1, a, level, isOff, force)
    BY <1>5, <1>12, <2>2
  <2>4. Wrote(d1, a, level, isOff, force, d2)
    BY <1>7, <2>1, <2>3, WriteBacklightOf
  <2> QED BY <2>2, <2>4 DEF Wrote
<1>23. /\ d3 \in DeckRecs /\ Kept(d2.s, d3.s)
       /\ d3.s.off = isOff /\ d3.s.wake = d2.s.wake /\ d3.s.sleeping = d2.s.sleeping
       /\ d3.s.lastApplied = d2.s.lastApplied
       /\ d3.s.inStandby = d2.s.inStandby /\ d3.s.painted = d2.s.painted
       /\ d3.s.wakePending <=> d2.s.wakePending \/ (isOff /\ ~d2.s.off /\ ~quiet)
       /\ d3.p.level = d2.p.level /\ d3.p.asleep = d2.p.asleep /\ d3.p.grid = d2.p.grid
       /\ d3.p.hook = IF isOff /\ ~d2.s.off /\ ~quiet THEN "sleep" ELSE d2.p.hook
  <2>1. d2 \in DeckRecs
    BY <1>22
  <2>2. Fell(d2, isOff, quiet, d3)
    BY <1>7, <1>13, <2>1, GoOffOf
  <2> QED BY <2>2 DEF Fell
<1>24. /\ d4 \in DeckRecs /\ Kept(d3.s, d4.s)
       /\ d4.s.off = d3.s.off /\ d4.s.wake = d3.s.wake /\ d4.s.sleeping = d3.s.sleeping
       /\ d4.s.lastApplied = d3.s.lastApplied /\ d4.s.wakePending = d3.s.wakePending
       /\ d4.s.inStandby <=> d3.s.inStandby \/ (want /\ ~d3.s.inStandby)
       /\ d4.s.painted <=> d3.s.painted \/ (want /\ ~d3.s.inStandby /\ d3.s.res.state # "off")
       /\ d4.p.level = d3.p.level /\ d4.p.asleep = d3.p.asleep /\ d4.p.hook = d3.p.hook
       /\ d4.p.grid = IF want /\ ~d3.s.inStandby /\ d3.s.res.state # "off" /\ ~d3.p.asleep
                      THEN "clock" ELSE d3.p.grid
  <2>1. Entered(d3, want, d4)
    BY <1>4, <1>14, <1>23, EnterStandbyOf
  <2> QED BY <2>1 DEF Entered
<1>25. /\ d5 \in DeckRecs /\ Kept(d4.s, d5.s) /\ d5.p = d4.p
       /\ d5.s.off = d4.s.off /\ d5.s.sleeping = d4.s.sleeping
       /\ d5.s.lastApplied = d4.s.lastApplied /\ d5.s.wakePending = d4.s.wakePending
       /\ d5.s.inStandby = d4.s.inStandby /\ d5.s.painted = d4.s.painted
       /\ ~(d0.s.off /\ ~d4.s.off) => d5.s.wake = d4.s.wake
       /\ d0.s.off /\ ~d4.s.off => d5.s.wake = IF d0.s.sleeping THEN "afterSleep" ELSE "repaint"
  <2>1. d4 \in DeckRecs
    BY <1>24
  <2>2. PICK before : before = d0.s
    OBVIOUS
  <2>3. d5 = ScheduleWake(d4, before)
    BY <1>15, <2>2
  <2>4. Scheduled(d4, before, d5)
    BY <2>1, <2>3, ScheduleWakeOf
  <2> QED BY <2>2, <2>4 DEF Scheduled
<1>26. /\ d6 \in DeckRecs /\ Kept(d5.s, d6.s)
       /\ d6.s.off = d5.s.off /\ d6.s.sleeping = d5.s.sleeping /\ d6.s.wake = d5.s.wake
       /\ d6.s.lastApplied = d5.s.lastApplied
       /\ d6.s.inStandby = d5.s.inStandby /\ d6.s.painted = d5.s.painted
       /\ d6.p.level = d5.p.level /\ d6.p.asleep = d5.p.asleep /\ d6.p.grid = d5.p.grid
       /\ d6.s.wakePending <=> d5.s.wakePending /\ ~(d5.s.wakePending /\ ~d5.s.off /\ d5.s.wake = "none")
       /\ d6.p.hook = IF d5.s.wakePending /\ ~d5.s.off /\ d5.s.wake = "none" THEN "wake" ELSE d5.p.hook
  <2>1. Ran(d5, d6)
    BY <1>16, <1>25, RunPendingWakeOf
  <2> QED BY <2>1 DEF Ran
<1>27. /\ d6.s.attached = d.s.attached /\ d6.s.swallowed = d.s.swallowed /\ d6.s.held = d.s.held
       /\ d6.s.res = r /\ d3.s.res = r
  BY <1>9, <1>21, <1>22, <1>23, <1>24, <1>25, <1>26 DEF Kept
<1>28. /\ d.p.asleep => d.s.sleeping /\ d.p.grid = "lost"
       /\ d.s.sleeping => d.s.off
       /\ ~force => /\ d.s.sleeping => d.p.asleep
                    /\ ~d.s.sleeping => d.p.level = d.s.lastApplied
       /\ d.s.painted => d.s.inStandby
       /\ d.s.inStandby /\ ~d.s.painted => d.s.off \/ d.s.wake # "none"
       /\ d.p.grid = "clock" => d.s.painted \/ d.s.held
       /\ d.p.grid = "lost" => /\ d.s.sleeping \/ d.s.wake = "afterSleep" \/ d.s.held
                               /\ d.s.off => d.s.sleeping
                               /\ SleepsWhenOff(a)
       /\ d.p.hook = "sleep" => d.s.wakePending
  BY DEF Ready
<1>29. d6.s.off <=> isOff
  BY <1>23, <1>24, <1>25, <1>26
<1>30. d6.s.sleeping <=> isOff /\ SleepsWhenOff(a)
  BY <1>22, <1>23, <1>24, <1>25, <1>26
<1>31. d6.p.asleep <=> d6.s.sleeping
  BY <1>9, <1>21, <1>22, <1>23, <1>24, <1>25, <1>26, <1>28
<1>32. d1.p.grid = d.p.grid \/ (d1.p.grid = "app" /\ ~d.p.asleep)
  BY <1>9, <1>21
<1>33. d6.p.asleep => d6.p.grid = "lost"
  <2> SUFFICES ASSUME d6.p.asleep PROVE d6.p.grid = "lost"
    OBVIOUS
  <2>1. d2.s.sleeping /\ d3.p.asleep /\ d2.p.asleep
    BY <1>22, <1>23, <1>24, <1>25, <1>26, <1>31
  <2>2. d2.p.grid = "lost"
    <3>1. CASE ~d1.s.sleeping \/ force
      BY <1>22, <2>1, <3>1
    <3>2. CASE ~(~d1.s.sleeping \/ force)
      BY <1>9, <1>21, <1>22, <1>28, <1>32, <2>1, <3>2
    <3> QED BY <3>1, <3>2
  <2> QED BY <1>23, <1>24, <1>25, <1>26, <2>1, <2>2
<1>34. ~d6.s.sleeping => d6.s.lastApplied = r.effective /\ d6.p.level = r.effective
  BY <1>9, <1>21, <1>22, <1>23, <1>24, <1>25, <1>26, <1>28
<1>35. d6.s.inStandby <=> want
  BY <1>4, <1>9, <1>21, <1>22, <1>23, <1>24, <1>25, <1>26
<1>36. d6.s.painted => d6.s.inStandby
  BY <1>4, <1>9, <1>21, <1>22, <1>23, <1>24, <1>25, <1>26, <1>28
<1>37. d6.s.inStandby /\ ~d6.s.painted => d6.s.off \/ d6.s.wake # "none"
  <2> SUFFICES ASSUME d6.s.inStandby, ~d6.s.painted, ~isOff, d6.s.wake = "none" PROVE FALSE
    BY <1>29
  <2>1. want /\ r.state # "off"
    BY <1>6, <1>35
  <2>2. d1 = d0
    BY <1>21, <2>1
  <2>3. d3.s.inStandby = d.s.inStandby /\ d3.s.painted = d.s.painted
    BY <1>9, <1>22, <1>23, <2>2
  <2>4. ~d4.s.painted
    BY <1>25, <1>26
  <2>5. d3.s.inStandby /\ ~d3.s.painted
    BY <1>24, <1>27, <2>1, <2>4
  <2>6. d.s.inStandby /\ ~d.s.painted
    BY <2>3, <2>5
  <2>7. d.s.off \/ d.s.wake # "none"
    BY <1>28, <2>6
  <2>8. d4.s.off = isOff /\ d4.s.wake = d.s.wake
    BY <1>9, <1>22, <1>23, <1>24, <2>2
  <2>9. d5.s.wake = "none"
    BY <1>26
  <2>10. CASE d.s.off
    BY <1>9, <1>25, <2>8, <2>9, <2>10
  <2>11. CASE ~d.s.off
    BY <1>9, <1>25, <2>7, <2>8, <2>9, <2>11
  <2> QED BY <2>10, <2>11
<1>38. d6.p.grid = "clock" => d6.s.painted \/ d6.s.held
  BY <1>4, <1>9, <1>21, <1>22, <1>23, <1>24, <1>25, <1>26, <1>27, <1>28
<1>39. d6.p.grid = "lost" /\ ~d6.s.sleeping => d.p.grid = "lost"
  BY <1>22, <1>23, <1>24, <1>25, <1>26, <1>32
<1>40. d6.p.grid = "lost" => /\ d6.s.sleeping \/ d6.s.wake = "afterSleep" \/ d6.s.held
                             /\ d6.s.off => d6.s.sleeping
                             /\ SleepsWhenOff(a)
  <2>1. CASE d6.s.sleeping
    BY <1>30, <2>1
  <2>2. CASE d6.p.grid = "lost" /\ ~d6.s.sleeping
    <3>1. /\ d.s.sleeping \/ d.s.wake = "afterSleep" \/ d.s.held
          /\ d.s.off => d.s.sleeping
          /\ SleepsWhenOff(a)
      BY <1>28, <1>39, <2>2
    <3>2. ~isOff
      BY <1>30, <2>2, <3>1
    <3>3. d4.s.off = FALSE
      BY <1>23, <1>24, <1>7, <3>2
    <3>4. CASE d.s.off
      <4>1. d5.s.wake = "afterSleep"
        BY <1>9, <1>25, <3>1, <3>3, <3>4
      <4> QED BY <1>26, <1>29, <3>1, <3>2, <4>1
    <3>5. CASE ~d.s.off
      <4>1. d5.s.wake = d.s.wake /\ ~d.s.sleeping
        BY <1>9, <1>21, <1>22, <1>23, <1>24, <1>25, <1>28, <3>5
      <4> QED BY <1>26, <1>27, <1>29, <3>1, <3>2, <4>1
    <3> QED BY <3>4, <3>5
  <2> QED BY <2>1, <2>2
<1>41. d6.p.hook = "sleep" => d6.s.wakePending
  BY <1>9, <1>21, <1>22, <1>23, <1>24, <1>25, <1>26, <1>28
<1>42. d6.s.wakePending => d6.s.off \/ d6.s.wake # "none"
  BY <1>26
<1>43. d6.s.held => d6.s.res.state = "active" /\ ~d6.s.inStandby
  BY <1>4, <1>27, <1>35
<1>44. d6.s.res.state = "standby" => d6.s.inStandby
  BY <1>4, <1>27, <1>35
<1>45. d6.s.sleeping => d6.s.off
  BY <1>29, <1>30
<1>46. Ready(d6, a, FALSE)
  BY <1>26, <1>31, <1>33, <1>34, <1>36, <1>37, <1>38, <1>40, <1>41, <1>45 DEF Ready
<1>47. Settled(d6, a)
  BY <1>6, <1>27, <1>29, <1>34, <1>42, <1>43, <1>44, <1>46 DEF Settled
<1> QED BY <1>17, <1>27, <1>47

(* A recompute keeps the invariant. *)
LEMMA RecomputeKeeps ==
  ASSUME NEW d \in DeckRecs, NEW a \in AroundRecs, NEW pr, NEW force \in BOOLEAN, NEW quiet \in BOOLEAN,
         d.s.attached => Ready(d, a, force), ~d.s.attached => Away(d.s),
         d.p.hook = "sleep" => d.s.wakePending, PressesFit(pr, d.s.swallowed),
         NEW e, e = Recompute(d, a, force, quiet)
  PROVE  StandbyInvOf(e.s, e.p, a, pr)
<1>1. CASE d.s.attached
  <2>1. Settled(e, a) /\ e.s.attached /\ e.s.swallowed = d.s.swallowed
    BY <1>1, RecomputeSettles
  <2>2. e \in DeckRecs /\ (e.p.hook = "sleep" => e.s.wakePending)
    BY <2>1 DEF Settled, Ready
  <2>3. e.s \in ControllerRecs /\ e.p \in PanelRecs /\ e = [s |-> e.s, p |-> e.p]
    BY <2>2 DEF DeckRecs
  <2> QED BY <2>1, <2>2, <2>3 DEF StandbyInvOf
<1>2. CASE ~d.s.attached
  <2>1. PICK r : r = Evaluate(d.s, a)
    OBVIOUS
  <2>2. d.s \in ControllerRecs /\ d.p \in PanelRecs /\ d = [s |-> d.s, p |-> d.p]
    BY DEF DeckRecs
  <2>3. r \in Displays
    BY <2>1, <2>2, DisplayOf
  <2>4. PICK u : u = [d EXCEPT !.s.res = r]
    OBVIOUS
  <2>5. /\ u \in DeckRecs /\ u.p = d.p
        /\ u.s.attached = d.s.attached /\ u.s.swallowed = d.s.swallowed
        /\ u.s.held = d.s.held /\ u.s.off = d.s.off /\ u.s.sleeping = d.s.sleeping
        /\ u.s.wake = d.s.wake /\ u.s.lastApplied = d.s.lastApplied
        /\ u.s.wakePending = d.s.wakePending /\ u.s.inStandby = d.s.inStandby
        /\ u.s.painted = d.s.painted
    BY <2>3, <2>4, DisplayedOf
  <2>6. e = u
    BY <1>2, <2>1, <2>4, <2>5 DEF Recompute
  <2>7. e.s \in ControllerRecs /\ e.p \in PanelRecs
    BY <2>5, <2>6 DEF DeckRecs
  <2>8. Away(e.s)
    BY <1>2, <2>5, <2>6 DEF Away
  <2> QED BY <1>2, <2>5, <2>6, <2>7, <2>8 DEF StandbyInvOf
<1> QED BY <1>1, <1>2

(* What the settling of a panel does not depend on may change. *)
Alike(s, t) ==
  /\ s \in ControllerRecs /\ t \in ControllerRecs
  /\ t.wake = s.wake /\ t.attached = s.attached /\ t.off = s.off /\ t.sleeping = s.sleeping
  /\ t.lastApplied = s.lastApplied /\ t.inStandby = s.inStandby /\ t.painted = s.painted
  /\ t.wakePending = s.wakePending /\ t.held = s.held
  /\ t.swallowed = s.swallowed \/ s.attached

LEMMA AlikeRecomputed ==
  ASSUME NEW s, NEW p, NEW a0, NEW pr0, StandbyInvOf(s, p, a0, pr0),
         NEW t, Alike(s, t), NEW a \in AroundRecs,
         s.attached /\ p.grid = "lost" => SleepsWhenOff(a) = SleepsWhenOff(a0),
         NEW pr, PressesFit(pr, t.swallowed), NEW force \in BOOLEAN, NEW quiet \in BOOLEAN,
         NEW e, e = Recompute([s |-> t, p |-> p], a, force, quiet)
  PROVE  StandbyInvOf(e.s, e.p, a, pr)
<1>1. PICK d, d0 : d = [s |-> t, p |-> p] /\ d0 = [s |-> s, p |-> p]
  OBVIOUS
<1>2. d.s = t /\ d.p = p /\ d0.s = s /\ d0.p = p
  BY <1>1
<1>3. d \in DeckRecs
  BY <1>1 DEF Alike, StandbyInvOf, DeckRecs
<1>4. ASSUME t.attached PROVE Ready(d, a, force)
  <2>1. Ready(d0, a0, FALSE)
    BY <1>1, <1>4 DEF Alike, StandbyInvOf, Settled
  <2>2. p.grid = "lost" => SleepsWhenOff(a0)
    BY <1>2, <2>1 DEF Ready
  <2>3. p.grid = "lost" => SleepsWhenOff(a)
    BY <1>4, <2>2 DEF Alike
  <2> QED BY <1>2, <1>3, <2>1, <2>3 DEF Alike, Ready
<1>5. ASSUME ~t.attached PROVE Away(t)
  BY <1>5 DEF Alike, StandbyInvOf, Away
<1>6. p.hook = "sleep" => t.wakePending
  BY DEF Alike, StandbyInvOf
<1> QED BY <1>1, <1>2, <1>3, <1>4, <1>5, <1>6, RecomputeKeeps

LEMMA AlikeKept ==
  ASSUME NEW s, NEW p, NEW a0, NEW pr0, StandbyInvOf(s, p, a0, pr0),
         NEW t, Alike(s, t), t.res = s.res,
         NEW a \in AroundRecs, s.attached /\ p.grid = "lost" => SleepsWhenOff(a) = SleepsWhenOff(a0),
         NEW pr, PressesFit(pr, t.swallowed)
  PROVE  StandbyInvOf(t, p, a, pr)
<1>1. PICK d, d0 : d = [s |-> t, p |-> p] /\ d0 = [s |-> s, p |-> p]
  OBVIOUS
<1>2. d.s = t /\ d.p = p /\ d0.s = s /\ d0.p = p
  BY <1>1
<1>3. d \in DeckRecs
  BY <1>1 DEF Alike, StandbyInvOf, DeckRecs
<1>4. ASSUME t.attached PROVE Settled(d, a)
  <2>1. Settled(d0, a0)
    BY <1>1, <1>4 DEF Alike, StandbyInvOf
  <2>2. Ready(d0, a0, FALSE)
    BY <2>1 DEF Settled
  <2>3. p.grid = "lost" => SleepsWhenOff(a0)
    BY <1>2, <2>2 DEF Ready
  <2>4. p.grid = "lost" => SleepsWhenOff(a)
    BY <1>4, <2>3 DEF Alike
  <2>5. Ready(d, a, FALSE)
    BY <1>2, <1>3, <2>2, <2>4 DEF Alike, Ready
  <2> QED BY <1>2, <2>1, <2>5 DEF Alike, Settled
<1>5. ASSUME ~t.attached PROVE Away(t)
  BY <1>5 DEF Alike, StandbyInvOf, Away
<1> QED BY <1>1, <1>4, <1>5 DEF Alike, StandbyInvOf

(* Settings do not change what `off' means while the panel's images are lost to a hardware sleep. *)
OffKept ==
  standby.attached /\ lit.grid = "lost" => around'.cfg.offAuto = around.cfg.offAuto

LEMMA BecomesInv ==
  ASSUME NEW e, Becomes(e), StandbyInvOf(e.s, e.p, around', press')
  PROVE  StandbyInv'
<1>1. standby' = e.s /\ lit' = e.p
  BY DEF Becomes
<1> QED BY <1>1 DEF StandbyInv

LEMMA SetRequestedKeeps ==
  ASSUME StandbyInv, NEW level \in StandbyLevels, SetRequested(level)
  PROVE  StandbyInv'
<1>1. StandbyInvOf(standby, lit, around, press)
  BY DEF StandbyInv
<1>2. standby \in ControllerRecs /\ around \in AroundRecs /\ PressesFit(press, standby.swallowed)
  BY <1>1 DEF StandbyInvOf
<1>3. PICK t : t = [standby EXCEPT !.requested = level]
  OBVIOUS
<1>4. level \in Nat
  <2>1. FullLevel \in Nat
    BY StandbyAssumption
  <2>2. level \in 0 .. FullLevel
    BY StandbyAssumption
  <2> QED BY <2>1, <2>2
<1>5. Alike(standby, t) /\ t.swallowed = standby.swallowed
  BY <1>2, <1>3, <1>4 DEF ControllerRecs, Alike
<1>6. PICK force \in BOOLEAN : Becomes(Recompute([s |-> t, p |-> lit], around, force, FALSE))
  BY <1>3 DEF SetRequested
<1>7. around' = around /\ press' = press
  BY DEF SetRequested
<1>8. PICK e : e = Recompute([s |-> t, p |-> lit], around, force, FALSE)
  OBVIOUS
<1>9. StandbyInvOf(e.s, e.p, around, press)
  BY <1>1, <1>2, <1>5, <1>8, AlikeRecomputed
<1> QED BY <1>6, <1>7, <1>8, <1>9, BecomesInv

LEMMA NoteActivityKeeps == StandbyInv /\ NoteActivity => StandbyInv'
<1> SUFFICES ASSUME StandbyInv, NoteActivity PROVE StandbyInv'
  OBVIOUS
<1>1. StandbyInvOf(standby, lit, around, press)
  BY DEF StandbyInv
<1>2. standby \in ControllerRecs /\ around \in AroundRecs /\ PressesFit(press, standby.swallowed)
  BY <1>1 DEF StandbyInvOf
<1>3. around' \in AroundRecs /\ SleepsWhenOff(around') = SleepsWhenOff(around)
  BY <1>2 DEF NoteActivity, AroundRecs, SleepsWhenOff
<1>4. Alike(standby, standby)
  BY <1>2 DEF Alike
<1>5. PICK e : e = Recompute([s |-> standby, p |-> lit], around', FALSE, FALSE)
  OBVIOUS
<1>6. StandbyInvOf(e.s, e.p, around', press)
  BY <1>1, <1>2, <1>3, <1>4, <1>5, AlikeRecomputed
<1>7. Becomes(e) /\ press' = press
  BY <1>5 DEF NoteActivity, Here
<1> QED BY <1>6, <1>7, BecomesInv

(* Flags that only say why the app is missed are set without moving the rest. *)
Unmoved(s, t) ==
  /\ Alike(s, t) /\ t.swallowed = s.swallowed /\ t.res = s.res

LEMMA ClearGoneOf ==
  ASSUME NEW s \in ControllerRecs
  PROVE  Unmoved(s, ClearGone(s))
<1> DEFINE t == [s EXCEPT !.debounce = FALSE, !.detachedGone = FALSE, !.silent = FALSE]
<1>1. t \in ControllerRecs
  BY DEF ControllerRecs
<1>2. /\ t.wake = s.wake /\ t.attached = s.attached /\ t.off = s.off /\ t.sleeping = s.sleeping
      /\ t.lastApplied = s.lastApplied /\ t.inStandby = s.inStandby /\ t.painted = s.painted
      /\ t.wakePending = s.wakePending /\ t.held = s.held
      /\ t.swallowed = s.swallowed /\ t.res = s.res
  BY DEF ControllerRecs
<1>3. ClearGone(s) = t
  BY DEF ClearGone
<1> HIDE DEF t
<1> QED BY <1>1, <1>2, <1>3 DEF Alike, Unmoved

LEMMA SyncTimersOf ==
  ASSUME NEW s \in ControllerRecs, NEW a
  PROVE  Unmoved(s, SyncTimers(s, a))
<1>1. PICK on : on = FeaturesOn(a.cfg)
  OBVIOUS
<1>2. on \in BOOLEAN
  BY <1>1 DEF FeaturesOn
<1>3. PICK t : t = [s EXCEPT !.tick = on]
  OBVIOUS
<1>4. Unmoved(s, t)
  BY <1>2, <1>3 DEF ControllerRecs, Alike, Unmoved
<1>5. t \in ControllerRecs
  BY <1>4 DEF Unmoved, Alike
<1>6. PICK u : u = ClearGone(t)
  OBVIOUS
<1>7. Unmoved(t, u)
  BY <1>5, <1>6, ClearGoneOf
<1>8. PICK v : v = [t EXCEPT !.debounce = TRUE]
  OBVIOUS
<1>9. Unmoved(t, v)
  BY <1>5, <1>8 DEF ControllerRecs, Alike, Unmoved
<1>10. SyncTimers(s, a) \in {t, u, v}
  BY <1>1, <1>3, <1>6, <1>8 DEF SyncTimers
<1> QED BY <1>4, <1>7, <1>9, <1>10 DEF Alike, Unmoved

LEMMA ReloadKeeps ==
  ASSUME OffKept, StandbyInv, NEW c \in StandbyConfigs, Reload(c)
  PROVE  StandbyInv'
<1>1. StandbyInvOf(standby, lit, around, press)
  BY DEF StandbyInv
<1>2. standby \in ControllerRecs /\ around \in AroundRecs /\ PressesFit(press, standby.swallowed)
  BY <1>1 DEF StandbyInvOf
<1>3. around' = [around EXCEPT !.idle = 0, !.cfg = c] /\ press' = press
  BY DEF Reload
<1>4. around' \in AroundRecs /\ around'.panel = around.panel
  <2>1. PICK x \in 0 .. 2 : x = 0
    OBVIOUS
  <2>2. around' = [around EXCEPT !.idle = x, !.cfg = c]
    BY <1>3, <2>1
  <2> QED BY <1>2, <2>2 DEF AroundRecs
<1>5. standby.attached /\ lit.grid = "lost" => SleepsWhenOff(around') = SleepsWhenOff(around)
  BY <1>4 DEF OffKept, SleepsWhenOff
<1>6. PICK t : t = SyncTimers(standby, around')
  OBVIOUS
<1>7. Alike(standby, t) /\ t.swallowed = standby.swallowed
  BY <1>2, <1>6, SyncTimersOf DEF Unmoved
<1>8. PICK e : e = Recompute([s |-> t, p |-> lit], around', FALSE, FALSE)
  OBVIOUS
<1>9. StandbyInvOf(e.s, e.p, around', press)
  BY <1>1, <1>2, <1>4, <1>5, <1>7, <1>8, AlikeRecomputed
<1>10. Becomes(e)
  BY <1>6, <1>8 DEF Reload
<1> QED BY <1>3, <1>9, <1>10, BecomesInv

LEMMA AppAttachedKeeps == StandbyInv /\ OnAppAttached => StandbyInv'
<1> SUFFICES ASSUME StandbyInv, OnAppAttached PROVE StandbyInv'
  OBVIOUS
<1>1. StandbyInvOf(standby, lit, around, press)
  BY DEF StandbyInv
<1>2. standby \in ControllerRecs /\ around \in AroundRecs /\ PressesFit(press, standby.swallowed)
  BY <1>1 DEF StandbyInvOf
<1>3. around' = [around EXCEPT !.client = TRUE, !.linkQuiet = FALSE] /\ press' = press
  BY DEF OnAppAttached
<1>4. around' \in AroundRecs /\ SleepsWhenOff(around') = SleepsWhenOff(around)
  BY <1>2, <1>3 DEF AroundRecs, SleepsWhenOff
<1>5. PICK t : t = [standby EXCEPT !.companion = FALSE, !.sessionSeen = TRUE]
  OBVIOUS
<1>6. Unmoved(standby, t)
  BY <1>2, <1>5 DEF ControllerRecs, Alike, Unmoved
<1>7. PICK u : u = ClearGone(t)
  OBVIOUS
<1>8. Unmoved(t, u)
  BY <1>6, <1>7, ClearGoneOf DEF Alike, Unmoved
<1>9. Alike(standby, u) /\ u.swallowed = standby.swallowed
  BY <1>6, <1>8 DEF Alike, Unmoved
<1>10. PICK e : e = Recompute([s |-> u, p |-> lit], around', FALSE, FALSE)
  OBVIOUS
<1>11. StandbyInvOf(e.s, e.p, around', press)
  BY <1>1, <1>2, <1>4, <1>9, <1>10, AlikeRecomputed
<1>12. Becomes(e)
  BY <1>5, <1>7, <1>10 DEF OnAppAttached
<1> QED BY <1>3, <1>11, <1>12, BecomesInv

LEMMA DeferredExitKeeps == StandbyInv /\ DeferredExit => StandbyInv'
<1> SUFFICES ASSUME StandbyInv, DeferredExit PROVE StandbyInv'
  OBVIOUS
<1>1. StandbyInvOf(standby, lit, around, press)
  BY DEF StandbyInv
<1>2. standby \in ControllerRecs /\ around \in AroundRecs /\ PressesFit(press, standby.swallowed)
  BY <1>1 DEF StandbyInvOf
<1>3. around' = around /\ press' = press
  BY DEF DeferredExit
<1>5. PICK t : t = [standby EXCEPT !.exit = FALSE]
  OBVIOUS
<1>6. Unmoved(standby, t)
  BY <1>2, <1>5 DEF ControllerRecs, Alike, Unmoved
<1>7. PICK u : u = ClearGone(t)
  OBVIOUS
<1>8. Unmoved(t, u)
  BY <1>6, <1>7, ClearGoneOf DEF Alike, Unmoved
<1>9. Alike(standby, u) /\ u.swallowed = standby.swallowed
  BY <1>6, <1>8 DEF Alike, Unmoved
<1>10. PICK e : e = Recompute([s |-> u, p |-> lit], around, FALSE, FALSE)
  OBVIOUS
<1>11. StandbyInvOf(e.s, e.p, around, press)
  BY <1>1, <1>2, <1>9, <1>10, AlikeRecomputed
<1>12. Becomes(e)
  BY <1>5, <1>7, <1>10 DEF DeferredExit
<1> QED BY <1>3, <1>11, <1>12, BecomesInv

(* The tick may have found the app silent, and forces a write after the host slept. *)
LEMMA SilentOf ==
  ASSUME NEW s \in ControllerRecs, NEW a,
         NEW t, t = [s EXCEPT !.silent = /\ a.cfg.appGone # "none" /\ ~s.companion
                                         /\ a.client /\ a.linkQuiet]
  PROVE  Unmoved(s, t)
<1>1. PICK x \in BOOLEAN : x = (/\ a.cfg.appGone # "none" /\ ~s.companion /\ a.client /\ a.linkQuiet)
  OBVIOUS
<1>2. t = [s EXCEPT !.silent = x]
  BY <1>1
<1> QED BY <1>2 DEF ControllerRecs, Alike, Unmoved

LEMMA TickKeeps == StandbyInv /\ Tick => StandbyInv'
<1> SUFFICES ASSUME StandbyInv, Tick PROVE StandbyInv'
  OBVIOUS
<1>1. StandbyInvOf(standby, lit, around, press)
  BY DEF StandbyInv
<1>2. standby \in ControllerRecs /\ around \in AroundRecs /\ PressesFit(press, standby.swallowed)
  BY <1>1 DEF StandbyInvOf
<1>3. /\ around' = [around EXCEPT !.hostSlept = FALSE,
                                  !.idle = IF around.hostSlept THEN 0 ELSE around.idle]
      /\ press' = press
  BY <1>2 DEF Tick, AroundRecs
<1>4. PICK x \in 0 .. 2 : around' = [around EXCEPT !.hostSlept = FALSE, !.idle = x]
  <2>1. PICK x : x = IF around.hostSlept THEN 0 ELSE around.idle
    OBVIOUS
  <2>2. x \in 0 .. 2
    BY <1>2, <2>1 DEF AroundRecs
  <2> QED BY <1>3, <2>1, <2>2
<1>5. around' \in AroundRecs /\ SleepsWhenOff(around') = SleepsWhenOff(around)
  BY <1>2, <1>4 DEF AroundRecs, SleepsWhenOff
<1>6. PICK t : t = [standby EXCEPT !.silent = /\ around.cfg.appGone # "none" /\ ~standby.companion
                                              /\ around.client /\ around.linkQuiet]
  OBVIOUS
<1>7. Alike(standby, t) /\ t.swallowed = standby.swallowed
  BY <1>2, <1>6, SilentOf DEF Unmoved
<1>8. PICK force : force = around.hostSlept
  OBVIOUS
<1>9. force \in BOOLEAN
  BY <1>2, <1>8 DEF AroundRecs
<1>10. PICK e : e = Recompute([s |-> t, p |-> lit], around', force, FALSE)
  OBVIOUS
<1>11. StandbyInvOf(e.s, e.p, around', press)
  BY <1>1, <1>2, <1>5, <1>7, <1>9, <1>10, AlikeRecomputed
<1>12. Becomes(e)
  BY <1>6, <1>8, <1>10 DEF Tick
<1> QED BY <1>3, <1>11, <1>12, BecomesInv

LEMMA DebounceKeeps == StandbyInv /\ Debounce => StandbyInv'
<1> SUFFICES ASSUME StandbyInv, Debounce PROVE StandbyInv'
  OBVIOUS
<1>1. StandbyInvOf(standby, lit, around, press)
  BY DEF StandbyInv
<1>2. standby \in ControllerRecs /\ around \in AroundRecs /\ PressesFit(press, standby.swallowed)
  BY <1>1 DEF StandbyInvOf
<1>3. around' = around /\ press' = press
  BY DEF Debounce
<1>4. PICK t : t = [standby EXCEPT !.debounce = FALSE]
  OBVIOUS
<1>5. Unmoved(standby, t)
  BY <1>2, <1>4 DEF ControllerRecs, Alike, Unmoved
<1>6. CASE around.client
  <2>1. standby' = t /\ lit' = lit
    BY <1>4, <1>6 DEF Debounce
  <2>2. StandbyInvOf(t, lit, around, press)
    BY <1>1, <1>2, <1>5, AlikeKept DEF Unmoved
  <2> QED BY <1>3, <2>1, <2>2 DEF StandbyInv
<1>7. CASE ~around.client
  <2>1. PICK u : u = [t EXCEPT !.detachedGone = TRUE]
    OBVIOUS
  <2>2. Unmoved(t, u)
    BY <1>5, <2>1 DEF ControllerRecs, Alike, Unmoved
  <2>3. Alike(standby, u) /\ u.swallowed = standby.swallowed
    BY <1>5, <2>2 DEF Alike, Unmoved
  <2>4. PICK e : e = Recompute([s |-> u, p |-> lit], around, FALSE, FALSE)
    OBVIOUS
  <2>5. StandbyInvOf(e.s, e.p, around, press)
    BY <1>1, <1>2, <2>3, <2>4, AlikeRecomputed
  <2>6. Becomes(e)
    BY <1>4, <1>7, <2>1, <2>4 DEF Debounce
  <2> QED BY <1>3, <2>5, <2>6, BecomesInv
<1> QED BY <1>6, <1>7

(* What noteInput() swallows is not sent, in either half of a press. *)
SwallowedAfter(sw, k, state, swallow) ==
  IF state = "up" THEN sw \ {k} ELSE IF swallow THEN (sw \ {k}) \cup {k} ELSE sw \ {k}

LEMMA PressFits ==
  ASSUME NEW pr, NEW sw \in SUBSET StandbyKeys, PressesFit(pr, sw), NEW k \in StandbyKeys,
         NEW state \in {"down", "up"}, pr[k].user = (state = "up"), NEW swallow \in BOOLEAN,
         state = "up" => (swallow <=> k \in sw),
         NEW pr2, pr2 = [pr EXCEPT ![k] = [user |-> state # "up",
                                           app |-> IF swallow THEN @.app ELSE AppSees(@.app, state)]]
  PROVE  PressesFit(pr2, SwallowedAfter(sw, k, state, swallow))
<1> DEFINE W == SwallowedAfter(sw, k, state, swallow)
<1>1. pr \in [StandbyKeys -> [user : BOOLEAN, app : {"up", "down"}]]
  BY DEF PressesFit
<1>2. pr[k].app = "down" <=> pr[k].user /\ k \notin sw
  BY DEF PressesFit
<1>3. pr[k].app \in {"up", "down"} /\ pr[k].user \in BOOLEAN
  BY <1>1
<1>4. PICK x : x = IF swallow THEN pr[k].app ELSE AppSees(pr[k].app, state)
  OBVIOUS
<1>5. PICK u : u = (state # "up")
  OBVIOUS
<1>6. x \in {"up", "down"} /\ (x = "down" <=> state = "down" /\ ~swallow)
  <2>1. CASE state = "up"
    BY <1>2, <1>3, <1>4, <2>1 DEF AppSees
  <2>2. CASE state = "down"
    BY <1>2, <1>3, <1>4, <2>2 DEF AppSees
  <2> QED BY <2>1, <2>2
<1>7. u \in BOOLEAN /\ (u <=> state = "down")
  BY <1>5
<1>8. pr2 = [pr EXCEPT ![k] = [user |-> u, app |-> x]]
  BY <1>4, <1>5
<1>9. pr2 \in [StandbyKeys -> [user : BOOLEAN, app : {"up", "down"}]]
  BY <1>1, <1>6, <1>7, <1>8
<1>10. pr2[k].user = u /\ pr2[k].app = x
  BY <1>1, <1>8
<1>11. ASSUME NEW j \in StandbyKeys PROVE pr2[j].app = "down" <=> pr2[j].user /\ j \notin W
  <2>1. CASE j = k
    <3>1. k \in W <=> state = "down" /\ swallow
      BY DEF SwallowedAfter
    <3> QED BY <1>6, <1>7, <1>10, <2>1, <3>1
  <2>2. CASE j # k
    <3>1. pr2[j] = pr[j]
      BY <1>1, <1>8, <2>2
    <3>2. j \in W <=> j \in sw
      BY <2>2 DEF SwallowedAfter
    <3> QED BY <3>1, <3>2 DEF PressesFit
  <2> QED BY <2>1, <2>2
<1> QED BY <1>9, <1>11 DEF PressesFit

LEMMA NoteInputKeeps ==
  ASSUME StandbyInv, NEW k \in StandbyKeys, NEW state \in {"down", "up"}, NoteInput(k, state)
  PROVE  StandbyInv'
<1>1. StandbyInvOf(standby, lit, around, press)
  BY DEF StandbyInv
<1>2. /\ standby \in ControllerRecs /\ around \in AroundRecs /\ PressesFit(press, standby.swallowed)
      /\ standby.swallowed \in SUBSET StandbyKeys
  BY <1>1 DEF StandbyInvOf, ControllerRecs
<1>3. standby.attached /\ press[k].user = (state = "up") /\ around' = [around EXCEPT !.idle = 0]
  BY DEF NoteInput
<1>4. around' \in AroundRecs /\ SleepsWhenOff(around') = SleepsWhenOff(around)
  BY <1>2, <1>3 DEF AroundRecs, SleepsWhenOff
<1> DEFINE isUp == state = "up"
           cleared == IF isUp THEN standby.swallowed ELSE standby.swallowed \ {k}
           fresh == [around EXCEPT !.idle = 0]
           waking == ~isUp /\ Evaluate(standby, fresh).effective > Evaluate(standby, around).effective
           swallow == IF isUp THEN k \in cleared
                      ELSE FeaturesOn(around.cfg) /\ waking /\ around.cfg.swallow
           W == IF isUp THEN cleared \ {k} ELSE IF swallow THEN cleared \cup {k} ELSE cleared
           s == [standby EXCEPT !.swallowed = W]
<1>5. /\ Becomes(IF FeaturesOn(around.cfg) THEN Recompute([s |-> s, p |-> lit], fresh, FALSE, FALSE)
                 ELSE [s |-> s, p |-> lit])
      /\ press' = [press EXCEPT ![k] = [user |-> ~isUp,
                                        app |-> IF swallow THEN @.app ELSE AppSees(@.app, state)]]
  BY Zenon DEF NoteInput
<1>6. PICK x \in BOOLEAN : (x <=> swallow)
  <2> HIDE DEF swallow
  <2>1. TRUE \in BOOLEAN /\ FALSE \in BOOLEAN
    OBVIOUS
  <2> QED BY <2>1
<1>7. /\ W = SwallowedAfter(standby.swallowed, k, state, x)
      /\ isUp => (x <=> k \in standby.swallowed)
  <2>1. CASE isUp
    BY <1>6, <2>1 DEF SwallowedAfter
  <2>2. CASE ~isUp
    <3>1. cleared = standby.swallowed \ {k}
      BY <2>2
    <3> HIDE DEF swallow, cleared
    <3> QED BY <1>6, <2>2, <3>1 DEF SwallowedAfter
  <2> QED BY <2>1, <2>2
<1>8. press' = [press EXCEPT ![k] = [user |-> state # "up",
                                     app |-> IF x THEN @.app ELSE AppSees(@.app, state)]]
  <2> HIDE DEF swallow
  <2>1. CASE x
    BY <1>5, <1>6, <2>1
  <2>2. CASE ~x
    BY <1>5, <1>6, <2>2
  <2> QED BY <2>1, <2>2
<1>9. PICK t, w : w = W /\ t = [standby EXCEPT !.swallowed = w]
  OBVIOUS
<1>10. t = s
  BY <1>9
<1> HIDE DEF W, s, swallow
<1>11. w \in SUBSET StandbyKeys
  BY <1>2, <1>7, <1>9 DEF SwallowedAfter
<1>12. Alike(standby, t) /\ t.swallowed = w /\ t.res = standby.res
  BY <1>2, <1>3, <1>9, <1>11 DEF ControllerRecs, Alike
<1>13. PressesFit(press', t.swallowed)
  <2>1. PICK pr : pr = press'
    OBVIOUS
  <2>2. PressesFit(pr, SwallowedAfter(standby.swallowed, k, state, x))
    BY <1>2, <1>3, <1>6, <1>7, <1>8, <2>1, PressFits
  <2> QED BY <1>7, <1>9, <1>12, <2>1, <2>2
<1>14. fresh = around'
  BY <1>3
<1> HIDE DEF fresh
<1>15. CASE FeaturesOn(around.cfg)
  <2>1. PICK e : e = Recompute([s |-> t, p |-> lit], around', FALSE, FALSE)
    OBVIOUS
  <2>2. StandbyInvOf(e.s, e.p, around', press')
    BY <1>1, <1>4, <1>12, <1>13, <2>1, AlikeRecomputed
  <2>3. Becomes(e)
    BY <1>5, <1>10, <1>14, <1>15, <2>1
  <2> QED BY <2>2, <2>3, BecomesInv
<1>16. CASE ~FeaturesOn(around.cfg)
  <2>1. PICK e : e = [s |-> t, p |-> lit]
    OBVIOUS
  <2>2. e.s = t /\ e.p = lit
    BY <2>1
  <2>3. Becomes(e)
    BY <1>5, <1>10, <1>16, <2>1
  <2>4. StandbyInvOf(e.s, e.p, around', press')
    BY <1>1, <1>4, <1>12, <1>13, <2>2, AlikeKept
  <2> QED BY <2>3, <2>4, BecomesInv
<1> QED BY <1>15, <1>16

LEMMA LoseReleaseKeeps ==
  ASSUME StandbyInv, NEW k \in StandbyKeys, LoseRelease(k)
  PROVE  StandbyInv'
<1>1. StandbyInvOf(standby, lit, around, press)
  BY DEF StandbyInv
<1>2. PressesFit(press, standby.swallowed)
  BY <1>1 DEF StandbyInvOf
<1>3. /\ press \in [StandbyKeys -> [user : BOOLEAN, app : {"up", "down"}]]
      /\ \A j \in StandbyKeys : press[j].app = "down" <=> press[j].user /\ j \notin standby.swallowed
  BY <1>2 DEF PressesFit
<1>4. PICK r : r = [press[k] EXCEPT !.user = FALSE]
  OBVIOUS
<1>5. r \in [user : BOOLEAN, app : {"up", "down"}] /\ r.user = FALSE /\ r.app = press[k].app
  BY <1>3, <1>4
<1>6. press' = [press EXCEPT ![k] = r] /\ k \in standby.swallowed
  BY <1>4 DEF LoseRelease
<1>7. press' \in [StandbyKeys -> [user : BOOLEAN, app : {"up", "down"}]]
  BY <1>3, <1>5, <1>6
<1>8. ASSUME NEW j \in StandbyKeys
      PROVE  press'[j].app = "down" <=> press'[j].user /\ j \notin standby.swallowed
  <2>1. CASE j = k
    BY <1>3, <1>5, <1>6, <2>1
  <2>2. CASE j # k
    BY <1>3, <1>6, <2>2
  <2> QED BY <2>1, <2>2
<1>9. PressesFit(press', standby.swallowed)
  BY <1>7, <1>8 DEF PressesFit
<1>10. standby' = standby /\ lit' = lit /\ around' = around
  BY DEF LoseRelease
<1> QED BY <1>1, <1>9, <1>10 DEF StandbyInv, StandbyInvOf

LEMMA AppDetachedKeeps == StandbyInv /\ OnAppDetached => StandbyInv'
<1> SUFFICES ASSUME StandbyInv, OnAppDetached PROVE StandbyInv'
  OBVIOUS
<1>1. StandbyInvOf(standby, lit, around, press)
  BY DEF StandbyInv
<1>2. standby \in ControllerRecs /\ around \in AroundRecs /\ PressesFit(press, standby.swallowed)
  BY <1>1 DEF StandbyInvOf
<1>3. /\ around' = [around EXCEPT !.client = FALSE, !.linkQuiet = FALSE]
      /\ press' = press /\ lit' = lit
  BY DEF OnAppDetached
<1>4. around' \in AroundRecs /\ SleepsWhenOff(around') = SleepsWhenOff(around)
  BY <1>2, <1>3 DEF AroundRecs, SleepsWhenOff
<1>5. PICK x \in BOOLEAN : standby' = [standby EXCEPT !.companion = FALSE, !.debounce = x]
  <2>1. PICK x : x = (standby.debounce \/ around.cfg.appGone # "none")
    OBVIOUS
  <2>2. x \in BOOLEAN
    BY <2>1
  <2>3. standby' = [standby EXCEPT !.companion = FALSE, !.debounce = x]
    BY <1>2, <2>1 DEF OnAppDetached, ControllerRecs
  <2> QED BY <2>2, <2>3
<1>6. PICK t : t = standby'
  OBVIOUS
<1>7. Unmoved(standby, t)
  BY <1>2, <1>5, <1>6 DEF ControllerRecs, Alike, Unmoved
<1>8. StandbyInvOf(t, lit, around', press)
  BY <1>1, <1>2, <1>4, <1>7, AlikeKept DEF Unmoved
<1> QED BY <1>3, <1>6, <1>8 DEF StandbyInv

LEMMA ClientAppKeeps ==
  ASSUME StandbyInv, NEW b \in BOOLEAN, OnClientApp(b)
  PROVE  StandbyInv'
<1>1. StandbyInvOf(standby, lit, around, press)
  BY DEF StandbyInv
<1>2. standby \in ControllerRecs /\ around \in AroundRecs /\ PressesFit(press, standby.swallowed)
  BY <1>1 DEF StandbyInvOf
<1>3. PICK t : t = [standby EXCEPT !.companion = b]
  OBVIOUS
<1>4. Unmoved(standby, t)
  BY <1>2, <1>3 DEF ControllerRecs, Alike, Unmoved
<1>5. StandbyInvOf(t, lit, around, press)
  BY <1>1, <1>2, <1>4, AlikeKept DEF Unmoved
<1> QED BY <1>3, <1>5 DEF StandbyInv, OnClientApp

LEMMA TimeKeeps == StandbyInv /\ TimePasses => StandbyInv'
<1> SUFFICES ASSUME StandbyInv, TimePasses PROVE StandbyInv'
  OBVIOUS
<1>1. StandbyInvOf(standby, lit, around, press)
  BY DEF StandbyInv
<1>2. standby \in ControllerRecs /\ around \in AroundRecs /\ PressesFit(press, standby.swallowed)
  BY <1>1 DEF StandbyInvOf
<1>3. /\ around' \in AroundRecs
      /\ around'.cfg = around.cfg /\ around'.panel = around.panel
  <2>1. CASE IdleGrows
    <3>1. around.idle + 1 \in 0 .. 2
      BY <1>2, <2>1 DEF AroundRecs, IdleGrows
    <3>2. PICK x : x = around.idle + 1
      OBVIOUS
    <3>3. around' = [around EXCEPT !.idle = x]
      BY <2>1, <3>2 DEF IdleGrows
    <3> QED BY <1>2, <3>1, <3>2, <3>3 DEF AroundRecs
  <2>2. CASE NightTurns
    BY <1>2, <2>2 DEF AroundRecs, NightTurns
  <2>3. CASE GraceEnds
    BY <1>2, <2>3 DEF AroundRecs, GraceEnds
  <2>4. CASE LinkQuiets
    BY <1>2, <2>4 DEF AroundRecs, LinkQuiets
  <2>5. CASE HostSleeps
    <3>1. PICK x \in 0 .. 2 : x = 2
      OBVIOUS
    <3>2. around' = [around EXCEPT !.hostSlept = TRUE, !.idle = x]
      BY <2>5, <3>1 DEF HostSleeps
    <3> QED BY <1>2, <3>2 DEF AroundRecs
  <2> QED BY <2>1, <2>2, <2>3, <2>4, <2>5 DEF TimePasses
<1>4. SleepsWhenOff(around') = SleepsWhenOff(around)
  BY <1>3 DEF SleepsWhenOff
<1>5. Unmoved(standby, standby)
  BY <1>2 DEF Alike, Unmoved
<1>6. StandbyInvOf(standby, lit, around', press)
  BY <1>1, <1>2, <1>3, <1>4, <1>5, AlikeKept DEF Unmoved
<1> QED BY <1>6 DEF StandbyInv, TimePasses

LEMMA DrawOf ==
  ASSUME NEW p \in PanelRecs, NEW what \in Grids
  PROVE  LET q == Draw(p, what)
         IN  /\ q \in PanelRecs /\ q.level = p.level /\ q.asleep = p.asleep /\ q.hook = p.hook
             /\ p.asleep => q = p
             /\ ~p.asleep => q.grid = what
BY DEF Draw, PanelRecs

(* Drawing the app's images, or the clock where it is painted, unsettles nothing. *)
LEMMA DrawnSettles ==
  ASSUME NEW s, NEW p, NEW a, Settled([s |-> s, p |-> p], a), NEW q \in PanelRecs,
         q.level = p.level, q.asleep = p.asleep, q.hook = p.hook,
         \/ q.grid = p.grid
         \/ ~p.asleep /\ q.grid = "app"
         \/ ~p.asleep /\ q.grid = "clock" /\ s.painted
  PROVE  Settled([s |-> s, p |-> q], a)
<1>1. PICK d, e : d = [s |-> s, p |-> p] /\ e = [s |-> s, p |-> q]
  OBVIOUS
<1>2. d.s = s /\ d.p = p /\ e.s = s /\ e.p = q
  BY <1>1
<1>3. Ready(d, a, FALSE)
  BY <1>1 DEF Settled
<1>4. e \in DeckRecs
  BY <1>1, <1>2, <1>3 DEF Ready, DeckRecs
<1>5. Ready(e, a, FALSE)
  BY <1>2, <1>3, <1>4 DEF Ready
<1>6. Settled(d, a)
  BY <1>1
<1>7. Settled(e, a)
  BY <1>2, <1>5, <1>6 DEF Settled
<1> QED BY <1>1, <1>7

LEMMA TrafficKeeps == StandbyInv /\ NoteAppTraffic => StandbyInv'
<1> SUFFICES ASSUME StandbyInv, NoteAppTraffic PROVE StandbyInv'
  OBVIOUS
<1>1. StandbyInvOf(standby, lit, around, press)
  BY DEF StandbyInv
<1>2. /\ standby \in ControllerRecs /\ around \in AroundRecs /\ PressesFit(press, standby.swallowed)
      /\ lit \in PanelRecs
  BY <1>1 DEF StandbyInvOf
<1>3. around' = [around EXCEPT !.linkQuiet = FALSE] /\ press' = press
  BY DEF NoteAppTraffic
<1>4. around' \in AroundRecs /\ SleepsWhenOff(around') = SleepsWhenOff(around)
  BY <1>2, <1>3 DEF AroundRecs, SleepsWhenOff
<1>5. PICK x : x = (standby.exit \/ standby.detachedGone \/ standby.silent)
  OBVIOUS
<1>6. PICK t : t = [standby EXCEPT !.exit = x]
  OBVIOUS
<1>7. standby' = t
  BY <1>2, <1>5, <1>6 DEF NoteAppTraffic, ControllerRecs
<1>8. Unmoved(standby, t)
  BY <1>2, <1>5, <1>6 DEF ControllerRecs, Alike, Unmoved
<1>9. StandbyInvOf(t, lit, around', press)
  BY <1>1, <1>2, <1>4, <1>8, AlikeKept DEF Unmoved
<1>10. CASE lit' = lit
  BY <1>3, <1>7, <1>9, <1>10 DEF StandbyInv
<1>11. CASE standby.attached /\ lit.grid = "blank" /\ lit' = Draw(lit, "app")
  <2>1. PICK q : q = Draw(lit, "app")
    OBVIOUS
  <2>2. /\ q \in PanelRecs /\ q.level = lit.level /\ q.asleep = lit.asleep /\ q.hook = lit.hook
        /\ lit.asleep => q = lit
        /\ ~lit.asleep => q.grid = "app"
    BY <1>2, <2>1, DrawOf DEF Grids
  <2>3. t.attached /\ Settled([s |-> t, p |-> lit], around')
    BY <1>8, <1>9, <1>11 DEF StandbyInvOf, Alike, Unmoved
  <2>4. Settled([s |-> t, p |-> q], around')
    BY <2>2, <2>3, DrawnSettles
  <2>5. StandbyInvOf(t, q, around', press)
    BY <1>9, <2>2, <2>3, <2>4 DEF StandbyInvOf
  <2> QED BY <1>3, <1>7, <1>11, <2>1, <2>5 DEF StandbyInv
<1> QED BY <1>10, <1>11 DEF NoteAppTraffic

LEMMA TickPaintsKeeps == StandbyInv /\ TickPaints => StandbyInv'
<1> SUFFICES ASSUME StandbyInv, TickPaints PROVE StandbyInv'
  OBVIOUS
<1>1. StandbyInvOf(standby, lit, around, press)
  BY DEF StandbyInv
<1>2. standby \in ControllerRecs /\ around \in AroundRecs /\ PressesFit(press, standby.swallowed)
  BY <1>1 DEF StandbyInvOf
<1>3. around' = around /\ press' = press
  BY DEF TickPaints
<1>4. PICK t : t = [standby EXCEPT !.silent = /\ around.cfg.appGone # "none" /\ ~standby.companion
                                              /\ around.client /\ around.linkQuiet]
  OBVIOUS
<1>5. Alike(standby, t) /\ t.swallowed = standby.swallowed
  BY <1>2, <1>4, SilentOf DEF Unmoved
<1>6. PICK e : e = Recompute([s |-> t, p |-> lit], around, FALSE, FALSE)
  OBVIOUS
<1>7. StandbyInvOf(e.s, e.p, around, press)
  BY <1>1, <1>2, <1>5, <1>6, AlikeRecomputed
<1>8. CASE Becomes(e)
  BY <1>3, <1>7, <1>8, BecomesInv
<1>9. CASE e.s.painted /\ Becomes([e EXCEPT !.p = Draw(e.p, "clock")])
  <2>1. e.s.attached /\ Settled([s |-> e.s, p |-> e.p], around) /\ e.p \in PanelRecs
    BY <1>7, <1>9 DEF StandbyInvOf, Away
  <2>2. standby.attached
    <3>1. standby.painted
      BY DEF TickPaints
    <3> QED BY <1>1, <3>1 DEF StandbyInvOf, Away
  <2>3. e \in DeckRecs
    <3>1. PICK d, d0 : d = [s |-> t, p |-> lit] /\ d0 = [s |-> standby, p |-> lit]
      OBVIOUS
    <3>2. d \in DeckRecs /\ d.s = t /\ d.p = lit /\ d0.s = standby /\ d0.p = lit
      BY <1>1, <1>5, <3>1 DEF Alike, StandbyInvOf, DeckRecs
    <3>3. Ready(d0, around, FALSE)
      BY <1>1, <2>2, <3>1 DEF StandbyInvOf, Settled
    <3>4. Ready(d, around, FALSE) /\ d.s.attached
      BY <1>5, <2>2, <3>2, <3>3 DEF Ready, Alike
    <3>5. Settled(e, around)
      BY <1>6, <3>1, <3>4, RecomputeSettles
    <3> QED BY <3>5 DEF Settled, Ready
  <2>4. PICK q : q = Draw(e.p, "clock")
    OBVIOUS
  <2>5. /\ q \in PanelRecs /\ q.level = e.p.level /\ q.asleep = e.p.asleep /\ q.hook = e.p.hook
        /\ e.p.asleep => q = e.p
        /\ ~e.p.asleep => q.grid = "clock"
    BY <2>1, <2>4, DrawOf DEF Grids
  <2>6. Settled([s |-> e.s, p |-> q], around)
    <3>1. PICK s, p : s = e.s /\ p = e.p
      OBVIOUS
    <3>2. Settled([s |-> s, p |-> q], around)
      BY <1>9, <2>1, <2>5, <3>1, DrawnSettles
    <3> QED BY <3>1, <3>2
  <2>7. standby' = e.s /\ lit' = q
    <3>1. e = [s |-> e.s, p |-> e.p]
      BY <2>3 DEF DeckRecs
    <3>2. [e EXCEPT !.p = q].s = e.s /\ [e EXCEPT !.p = q].p = q
      BY <3>1
    <3> QED BY <1>9, <2>4, <3>2 DEF Becomes
  <2>8. StandbyInvOf(e.s, q, around, press)
    BY <1>7, <2>1, <2>5, <2>6 DEF StandbyInvOf
  <2> QED BY <1>3, <2>7, <2>8 DEF StandbyInv
<1>10. Becomes(e) \/ (e.s.painted /\ Becomes([e EXCEPT !.p = Draw(e.p, "clock")]))
  BY <1>4, <1>6 DEF TickPaints
<1> QED BY <1>8, <1>9, <1>10

LEMMA DeferredWakeKeeps == StandbyInv /\ DeferredWake => StandbyInv'
<1> SUFFICES ASSUME StandbyInv, DeferredWake PROVE StandbyInv'
  OBVIOUS
<1>1. StandbyInvOf(standby, lit, around, press)
  BY DEF StandbyInv
<1>2. /\ standby \in ControllerRecs /\ around \in AroundRecs /\ PressesFit(press, standby.swallowed)
      /\ lit \in PanelRecs
  BY <1>1 DEF StandbyInvOf
<1>3. standby.wake # "none" /\ around' = around /\ press' = press
  BY DEF DeferredWake
<1>4. standby.attached /\ Settled([s |-> standby, p |-> lit], around)
  BY <1>1, <1>3 DEF StandbyInvOf, Away
<1> DEFINE framesBack == standby.wake = "afterSleep" /\ standby.res.state # "standby" /\ ~standby.held
           p1 == IF framesBack THEN Draw(lit, "app") ELSE lit
           p2 == IF standby.inStandby THEN Draw(p1, "clock") ELSE p1
<1>5. PICK x : x = (standby.painted \/ standby.inStandby)
  OBVIOUS
<1>6. PICK t : t = [standby EXCEPT !.wake = "none", !.wakePending = FALSE, !.painted = x]
  OBVIOUS
<1>7. standby' = t /\ lit' = [p2 EXCEPT !.hook = "wake"]
  BY <1>2, <1>5, <1>6 DEF DeferredWake, ControllerRecs
<1>8. /\ t \in ControllerRecs /\ t.wake = "none" /\ t.wakePending = FALSE
      /\ t.painted <=> standby.painted \/ standby.inStandby
      /\ t.attached = standby.attached /\ t.off = standby.off /\ t.sleeping = standby.sleeping
      /\ t.lastApplied = standby.lastApplied /\ t.inStandby = standby.inStandby
      /\ t.held = standby.held /\ t.swallowed = standby.swallowed /\ t.res = standby.res
  BY <1>2, <1>5, <1>6, ZenonT(40) DEF ControllerRecs, Waits
<1>9. /\ p1 \in PanelRecs /\ p1.level = lit.level /\ p1.asleep = lit.asleep
      /\ p1.grid = IF framesBack /\ ~lit.asleep THEN "app" ELSE lit.grid
  <2>1. PICK q : q = Draw(lit, "app")
    OBVIOUS
  <2>2. /\ q \in PanelRecs /\ q.level = lit.level /\ q.asleep = lit.asleep
        /\ lit.asleep => q = lit
        /\ ~lit.asleep => q.grid = "app"
    BY <1>2, <2>1, DrawOf DEF Grids
  <2> HIDE DEF framesBack
  <2> QED BY <1>2, <2>1, <2>2
<1>10. /\ p2 \in PanelRecs /\ p2.level = lit.level /\ p2.asleep = lit.asleep
       /\ p2.grid = IF standby.inStandby /\ ~lit.asleep THEN "clock" ELSE p1.grid
  <2> HIDE DEF p1
  <2>1. PICK q : q = Draw(p1, "clock")
    OBVIOUS
  <2>2. /\ q \in PanelRecs /\ q.level = p1.level /\ q.asleep = p1.asleep
        /\ p1.asleep => q = p1
        /\ ~p1.asleep => q.grid = "clock"
    BY <1>9, <2>1, DrawOf DEF Grids
  <2> QED BY <1>9, <2>1, <2>2
<1>11. PICK q : q = lit'
  OBVIOUS
<1>12. /\ q \in PanelRecs /\ q.level = lit.level /\ q.asleep = lit.asleep /\ q.hook = "wake"
       /\ q.grid = p2.grid
  <2> HIDE DEF p2
  <2> QED BY <1>7, <1>10, <1>11 DEF PanelRecs
<1> HIDE DEF p2, p1
<1>13. PICK d, e : d = [s |-> standby, p |-> lit] /\ e = [s |-> t, p |-> q]
  OBVIOUS
<1>14. d.s = standby /\ d.p = lit /\ e.s = t /\ e.p = q /\ e \in DeckRecs /\ Settled(d, around)
  BY <1>4, <1>8, <1>12, <1>13 DEF DeckRecs
<1>15. /\ lit.asleep => standby.sleeping /\ lit.grid = "lost"
       /\ standby.sleeping => standby.off /\ lit.asleep
       /\ ~standby.sleeping => lit.level = standby.lastApplied
       /\ standby.painted => standby.inStandby
       /\ lit.grid = "clock" => standby.painted \/ standby.held
       /\ lit.grid = "lost" => /\ standby.sleeping \/ standby.wake = "afterSleep" \/ standby.held
                               /\ standby.off => standby.sleeping
                               /\ SleepsWhenOff(around)
  BY <1>14 DEF Settled, Ready
<1>16. /\ standby.res.state = "standby" => standby.inStandby
       /\ standby.off <=> standby.res.state = "off"
       /\ ~standby.sleeping => standby.lastApplied = standby.res.effective
       /\ standby.held => standby.res.state = "active" /\ ~standby.inStandby
  BY <1>14 DEF Settled
<1>17. q.grid = "clock" => t.painted \/ t.held
  BY <1>8, <1>9, <1>10, <1>12, <1>15
<1>18. q.grid = "lost" => lit.grid = "lost" /\ (t.sleeping \/ t.held)
  BY <1>8, <1>9, <1>10, <1>12, <1>15, <1>16
<1>19. q.asleep => t.sleeping /\ q.grid = "lost"
  BY <1>8, <1>9, <1>10, <1>12, <1>15
<1>20. Ready(e, around, FALSE)
  BY <1>8, <1>12, <1>14, <1>15, <1>17, <1>18, <1>19 DEF Ready
<1>21. Settled(e, around)
  BY <1>8, <1>14, <1>16, <1>20 DEF Settled
<1>22. StandbyInvOf(t, q, around, press)
  BY <1>2, <1>4, <1>8, <1>12, <1>13, <1>21 DEF StandbyInvOf
<1> QED BY <1>3, <1>7, <1>11, <1>22 DEF StandbyInv

(* A fresh open is awake at the level asked for. *)
LEMMA DriverAttachedKeeps ==
  ASSUME StandbyInv, NEW panel \in StandbyPanels, OnDriverAttached(panel)
  PROVE  StandbyInv'
<1>1. StandbyInvOf(standby, lit, around, press)
  BY DEF StandbyInv
<1>2. /\ standby \in ControllerRecs /\ around \in AroundRecs /\ PressesFit(press, standby.swallowed)
      /\ lit \in PanelRecs /\ (lit.hook = "sleep" => standby.wakePending)
  BY <1>1 DEF StandbyInvOf
<1>3. Away(standby)
  BY <1>1 DEF OnDriverAttached, StandbyInvOf
<1>4. around' \in AroundRecs /\ press' = press
  <2>1. PICK x \in 0 .. 2 : x = 0
    OBVIOUS
  <2>2. around' = [around EXCEPT !.panel = panel, !.idle = x]
    BY <2>1 DEF OnDriverAttached
  <2>3. around' \in AroundRecs
    BY <1>2, <2>2 DEF AroundRecs
  <2> QED BY <2>3 DEF OnDriverAttached
<1>5. PICK req : req = standby.requested
  OBVIOUS
<1>6. PICK last \in Nat \cup {Undefined} : last = req
  BY <1>2, <1>5 DEF ControllerRecs
<1>7. PICK t : t = [standby EXCEPT !.attached = TRUE, !.off = FALSE, !.sleeping = FALSE,
                                   !.lastApplied = last]
  OBVIOUS
<1>8. PICK q : q = [lit EXCEPT !.level = req, !.asleep = FALSE, !.grid = "app"]
  OBVIOUS
<1>9. /\ t \in ControllerRecs /\ t.attached /\ ~t.off /\ ~t.sleeping /\ t.lastApplied = req
      /\ t.wake = standby.wake /\ t.inStandby = standby.inStandby /\ t.painted = standby.painted
      /\ t.wakePending = standby.wakePending /\ t.held = standby.held
      /\ t.swallowed = standby.swallowed
  BY <1>2, <1>6, <1>7 DEF ControllerRecs
<1>10. req \in Nat
  BY <1>2, <1>5 DEF ControllerRecs
<1>11. /\ q \in PanelRecs /\ q.level = req /\ ~q.asleep /\ q.grid = "app" /\ q.hook = lit.hook
  BY <1>2, <1>8, <1>10 DEF PanelRecs, Grids
<1>12. PICK u : u = SyncTimers(t, around')
  OBVIOUS
<1>13. Alike(t, u) /\ u.swallowed = t.swallowed
  BY <1>9, <1>12, SyncTimersOf DEF Unmoved
<1>14. PICK d : d = [s |-> u, p |-> q]
  OBVIOUS
<1>15. d.s = u /\ d.p = q /\ d \in DeckRecs
  BY <1>11, <1>13, <1>14 DEF DeckRecs, Alike
<1>16. Ready(d, around', FALSE)
  BY <1>2, <1>3, <1>9, <1>11, <1>13, <1>15 DEF Ready, Alike, Away
<1>17. PICK e : e = Recompute(d, around', FALSE, TRUE)
  OBVIOUS
<1>18. d.s.attached /\ (d.p.hook = "sleep" => d.s.wakePending) /\ d.s.swallowed = standby.swallowed
  BY <1>2, <1>9, <1>11, <1>13, <1>15 DEF Alike
<1>19. StandbyInvOf(e.s, e.p, around', press)
  BY <1>2, <1>4, <1>15, <1>16, <1>17, <1>18, RecomputeKeeps
<1>20. Becomes(e)
  BY <1>5, <1>6, <1>7, <1>8, <1>12, <1>14, <1>17 DEF OnDriverAttached
<1> QED BY <1>4, <1>19, <1>20, BecomesInv

LEMMA DriverDetachedKeeps == StandbyInv /\ OnDriverDetached => StandbyInv'
<1> SUFFICES ASSUME StandbyInv, OnDriverDetached PROVE StandbyInv'
  OBVIOUS
<1>1. StandbyInvOf(standby, lit, around, press)
  BY DEF StandbyInv
<1>2. /\ standby \in ControllerRecs /\ around \in AroundRecs
      /\ lit \in PanelRecs /\ (lit.hook = "sleep" => standby.wakePending)
  BY <1>1 DEF StandbyInvOf
<1>3. /\ lit' = lit /\ around' = around
      /\ press' = [k \in StandbyKeys |-> [user |-> FALSE, app |-> "up"]]
  BY DEF OnDriverDetached
<1>4. PICK last \in Nat \cup {Undefined} : last = Undefined
  OBVIOUS
<1>5. PICK t : t = [standby EXCEPT !.attached = FALSE, !.sleeping = FALSE,
                                !.lastApplied = last, !.inStandby = FALSE,
                                !.painted = FALSE, !.swallowed = {}, !.wake = "none",
                                !.held = FALSE]
  OBVIOUS
<1>6. /\ t \in ControllerRecs /\ ~t.attached /\ ~t.inStandby /\ ~t.painted /\ t.swallowed = {}
      /\ t.wake = "none" /\ ~t.held /\ t.wakePending = standby.wakePending
  BY <1>2, <1>5, ZenonT(40) DEF ControllerRecs, Waits
<1>7. PICK r : r = Evaluate(t, around)
  OBVIOUS
<1>8. r \in Displays
  BY <1>6, <1>7, DisplayOf
<1>9. PICK u : u = [t EXCEPT !.res = r]
  OBVIOUS
<1>10. standby' = u
  BY <1>4, <1>5, <1>7, <1>9 DEF OnDriverDetached
<1>11. /\ u \in ControllerRecs /\ ~u.attached /\ ~u.inStandby /\ ~u.painted /\ u.swallowed = {}
       /\ u.wake = "none" /\ ~u.held /\ u.wakePending = standby.wakePending
  BY <1>6, <1>8, <1>9 DEF ControllerRecs
<1>12. PressesFit(press', {})
  <2>1. press' \in [StandbyKeys -> [user : BOOLEAN, app : {"up", "down"}]]
    BY <1>3
  <2>2. \A k \in StandbyKeys : press'[k].user = FALSE /\ press'[k].app = "up"
    BY <1>3
  <2> QED BY <2>1, <2>2 DEF PressesFit
<1>13. StandbyInvOf(u, lit, around, press')
  BY <1>2, <1>11, <1>12 DEF StandbyInvOf, Away
<1> QED BY <1>3, <1>10, <1>13 DEF StandbyInv

LEMMA DeviceReinitKeeps == StandbyInv /\ OnDeviceReinit => StandbyInv'
<1> SUFFICES ASSUME StandbyInv, OnDeviceReinit PROVE StandbyInv'
  OBVIOUS
<1>1. StandbyInvOf(standby, lit, around, press)
  BY DEF StandbyInv
<1>2. /\ standby \in ControllerRecs /\ around \in AroundRecs /\ PressesFit(press, standby.swallowed)
      /\ lit \in PanelRecs /\ (lit.hook = "sleep" => standby.wakePending)
  BY <1>1 DEF StandbyInvOf
<1>3. standby.attached /\ around' = around /\ press' = press
  BY DEF OnDeviceReinit
<1>4. PICK full : full = FullLevel
  OBVIOUS
<1>5. full \in Nat
  BY <1>4, StandbyAssumption
<1>6. PICK q : q = [lit EXCEPT !.level = full, !.asleep = FALSE, !.grid = "blank"]
  OBVIOUS
<1>7. q \in PanelRecs /\ ~q.asleep /\ q.grid = "blank" /\ q.hook = lit.hook
  BY <1>2, <1>5, <1>6 DEF PanelRecs, Grids
<1>8. PICK d, d0, yes : d = [s |-> standby, p |-> q] /\ d0 = [s |-> standby, p |-> lit] /\ yes = TRUE
  OBVIOUS
<1>9. d.s = standby /\ d.p = q /\ d0.s = standby /\ d0.p = lit /\ d \in DeckRecs /\ yes \in BOOLEAN
  BY <1>2, <1>7, <1>8 DEF DeckRecs
<1>10. Ready(d0, around, FALSE)
  BY <1>1, <1>3, <1>8 DEF StandbyInvOf, Settled
<1>11. Ready(d, around, yes)
  BY <1>7, <1>8, <1>9, <1>10 DEF Ready
<1>12. PICK e : e = Recompute(d, around, yes, FALSE)
  OBVIOUS
<1>13. d.s.attached /\ (d.p.hook = "sleep" => d.s.wakePending) /\ PressesFit(press, d.s.swallowed)
  BY <1>2, <1>3, <1>7, <1>9
<1>14. StandbyInvOf(e.s, e.p, around, press)
  BY <1>2, <1>9, <1>11, <1>12, <1>13, RecomputeKeeps
<1>15. Becomes(e)
  BY <1>4, <1>6, <1>8, <1>12 DEF OnDeviceReinit
<1> QED BY <1>3, <1>14, <1>15, BecomesInv

(* A held deck is awake, so what its release repaints is drawn. *)
LEMMA SetHeldKeeps ==
  ASSUME StandbyInv, NEW on \in BOOLEAN, SetHeld(on)
  PROVE  StandbyInv'
<1>1. StandbyInvOf(standby, lit, around, press)
  BY DEF StandbyInv
<1>2. /\ standby \in ControllerRecs /\ around \in AroundRecs /\ PressesFit(press, standby.swallowed)
      /\ lit \in PanelRecs /\ (lit.hook = "sleep" => standby.wakePending)
  BY <1>1 DEF StandbyInvOf
<1>3. standby.attached /\ standby.held # on /\ around' = around /\ press' = press
  BY DEF SetHeld
<1>4. PICK t : t = [standby EXCEPT !.held = on]
  OBVIOUS
<1>5. /\ t \in ControllerRecs /\ t.held = on /\ t.attached = standby.attached
      /\ t.wake = standby.wake /\ t.off = standby.off /\ t.sleeping = standby.sleeping
      /\ t.lastApplied = standby.lastApplied /\ t.inStandby = standby.inStandby
      /\ t.painted = standby.painted /\ t.wakePending = standby.wakePending
      /\ t.swallowed = standby.swallowed
  BY <1>2, <1>4 DEF ControllerRecs
<1>6. PICK q : q = IF on THEN lit ELSE Draw(lit, "app")
  OBVIOUS
<1>7. PICK d, d0 : d = [s |-> t, p |-> q] /\ d0 = [s |-> standby, p |-> lit]
  OBVIOUS
<1>8. d.s = t /\ d.p = q /\ d0.s = standby /\ d0.p = lit
  BY <1>7
<1>9. Settled(d0, around) /\ Ready(d0, around, FALSE)
  BY <1>1, <1>3, <1>7 DEF StandbyInvOf, Settled
<1>10. d \in DeckRecs /\ Ready(d, around, FALSE) /\ q.hook = lit.hook
  <2>1. CASE on
    <3>1. q = lit
      BY <1>6, <2>1
    <3>2. d \in DeckRecs
      BY <1>2, <1>5, <1>7, <3>1 DEF DeckRecs
    <3> QED BY <1>5, <1>8, <1>9, <2>1, <3>1, <3>2 DEF Ready
  <2>2. CASE ~on
    <3>1. q = Draw(lit, "app")
      BY <1>6, <2>2
    <3>2. standby.held
      BY <1>2, <1>3, <2>2 DEF ControllerRecs
    <3>3. ~standby.inStandby /\ ~standby.off
      BY <1>8, <1>9, <3>2 DEF Settled
    <3>4. ~lit.asleep /\ ~standby.sleeping
      BY <1>8, <1>9, <3>3 DEF Ready
    <3>5. /\ q \in PanelRecs /\ q.level = lit.level /\ q.asleep = lit.asleep /\ q.hook = lit.hook
          /\ q.grid = "app"
      BY <1>2, <3>1, <3>4, DrawOf DEF Grids
    <3>6. d \in DeckRecs
      BY <1>5, <1>7, <3>5 DEF DeckRecs
    <3> QED BY <1>5, <1>8, <1>9, <2>2, <3>3, <3>4, <3>5, <3>6 DEF Ready
  <2> QED BY <2>1, <2>2
<1>11. PICK e : e = Recompute(d, around, FALSE, FALSE)
  OBVIOUS
<1>12. d.s.attached /\ (d.p.hook = "sleep" => d.s.wakePending) /\ PressesFit(press, d.s.swallowed)
  BY <1>2, <1>3, <1>5, <1>8, <1>10
<1>13. StandbyInvOf(e.s, e.p, around, press)
  BY <1>2, <1>10, <1>11, <1>12, RecomputeKeeps
<1>14. Becomes(e)
  BY <1>4, <1>6, <1>7, <1>11 DEF SetHeld
<1> QED BY <1>3, <1>13, <1>14, BecomesInv

LEMMA StandbyStart == StandbyInit => StandbyInv
<1> SUFFICES ASSUME StandbyInit PROVE StandbyInv
  OBVIOUS
<1> DEFINE r0 == [effective |-> FullLevel, state |-> "active"]
           s0 == [requested |-> FullLevel, res |-> r0,
                  tick |-> FALSE, debounce |-> FALSE, exit |-> FALSE, wake |-> "none",
                  attached |-> FALSE, sessionSeen |-> FALSE, detachedGone |-> FALSE,
                  silent |-> FALSE, companion |-> FALSE, off |-> FALSE, sleeping |-> FALSE,
                  lastApplied |-> Undefined, inStandby |-> FALSE, painted |-> FALSE,
                  swallowed |-> {}, wakePending |-> FALSE, held |-> FALSE]
<1>1. FullLevel \in Nat /\ PairedBefore \in BOOLEAN
  BY StandbyAssumption
<1>2. r0 \in Displays
  BY <1>1 DEF Displays
<1>3. PICK u : u = s0
  OBVIOUS
<1>4. /\ u \in ControllerRecs /\ ~u.attached /\ ~u.inStandby /\ ~u.painted /\ u.swallowed = {}
      /\ u.wake = "none" /\ ~u.held
  <2>1. u = s0
    BY <1>3
  <2>2. PICK last \in Nat \cup {Undefined} : last = Undefined
    OBVIOUS
  <2> HIDE DEF r0
  <2> QED BY <1>1, <1>2, <2>1, <2>2 DEF ControllerRecs, Waits
<1>5. standby = SyncTimers(u, around)
  BY <1>3 DEF StandbyInit
<1>6. PICK t : t = standby
  OBVIOUS
<1>7. Alike(u, t) /\ t.swallowed = u.swallowed
  BY <1>4, <1>5, <1>6, SyncTimersOf DEF Unmoved
<1>8. t \in ControllerRecs /\ Away(t) /\ ~t.attached
  BY <1>4, <1>7 DEF Alike, Away
<1>9. lit \in PanelRecs /\ lit.hook = "none"
  BY <1>1 DEF StandbyInit, PanelRecs, Grids
<1>10. around \in AroundRecs
  <2>1. {FALSE} \subseteq BOOLEAN /\ {0} \subseteq 0 .. 2 /\ {PairedBefore} \subseteq BOOLEAN
    BY <1>1
  <2>2. PICK c, f, z, b : c = {FALSE} /\ f = {PairedBefore} /\ z = {0} /\ b = BOOLEAN
    OBVIOUS
  <2>3. around \in [cfg : StandbyConfigs, panel : StandbyPanels, client : c, linkQuiet : c, idle : z,
                    night : c, graceOver : c, hostSlept : c, pairedBefore : f]
    BY <2>2 DEF StandbyInit
  <2>4. c \subseteq b /\ f \subseteq b /\ z \subseteq 0 .. 2
    BY <2>1, <2>2
  <2>5. around \in [cfg : StandbyConfigs, panel : StandbyPanels, client : b, linkQuiet : b, idle : 0 .. 2,
                    night : b, graceOver : b, hostSlept : b, pairedBefore : b]
    BY <2>3, <2>4
  <2> QED BY <2>2, <2>5 DEF AroundRecs
<1>11. PressesFit(press, {})
  <2>1. press = [k \in StandbyKeys |-> [user |-> FALSE, app |-> "up"]]
    BY DEF StandbyInit
  <2>2. press \in [StandbyKeys -> [user : BOOLEAN, app : {"up", "down"}]]
    BY <2>1
  <2>3. \A k \in StandbyKeys : press[k].user = FALSE /\ press[k].app = "up"
    BY <2>1
  <2> QED BY <2>2, <2>3 DEF PressesFit
<1>12. StandbyInvOf(t, lit, around, press)
  BY <1>4, <1>7, <1>8, <1>9, <1>10, <1>11 DEF StandbyInvOf
<1> QED BY <1>6, <1>12 DEF StandbyInv

LEMMA StandbyKeeps ==
  ASSUME [OffKept]_standbyVars, StandbyInv, [StandbyNext]_standbyVars
  PROVE  StandbyInv'
<1>1. CASE \E l \in StandbyLevels : SetRequested(l)
  BY <1>1, SetRequestedKeeps
<1>2. CASE NoteActivity
  BY <1>2, NoteActivityKeeps
<1>3. CASE \E c \in StandbyConfigs : Reload(c)
  <2>1. CASE OffKept
    BY <1>3, <2>1, ReloadKeeps
  <2>2. CASE UNCHANGED standbyVars
    BY <2>2 DEF standbyVars, StandbyInv
  <2> QED BY <2>1, <2>2
<1>4. CASE \E k \in StandbyKeys, st \in {"down", "up"} : NoteInput(k, st)
  BY <1>4, NoteInputKeeps
<1>5. CASE \E k \in StandbyKeys : LoseRelease(k)
  BY <1>5, LoseReleaseKeeps
<1>6. CASE OnAppAttached \/ OnAppDetached \/ NoteAppTraffic
  BY <1>6, AppAttachedKeeps, AppDetachedKeeps, TrafficKeeps
<1>7. CASE \E b \in BOOLEAN : OnClientApp(b)
  BY <1>7, ClientAppKeeps
<1>8. CASE \E p \in StandbyPanels : OnDriverAttached(p)
  BY <1>8, DriverAttachedKeeps
<1>9. CASE OnDriverDetached \/ OnDeviceReinit
  BY <1>9, DriverDetachedKeeps, DeviceReinitKeeps
<1>10. CASE \E b \in BOOLEAN : SetHeld(b)
  BY <1>10, SetHeldKeeps
<1>11. CASE Tick \/ TickPaints \/ Debounce \/ DeferredExit \/ DeferredWake
  BY <1>11, TickKeeps, TickPaintsKeeps, DebounceKeeps, DeferredExitKeeps, DeferredWakeKeeps
<1>12. CASE TimePasses
  BY <1>12, TimeKeeps
<1>13. CASE UNCHANGED standbyVars
  BY <1>13 DEF standbyVars, StandbyInv
<1> QED BY <1>1, <1>2, <1>3, <1>4, <1>5, <1>6, <1>7, <1>8, <1>9, <1>10, <1>11, <1>12, <1>13
        DEF StandbyNext

LEMMA StandbyFaithful == StandbyInv => StandbyIsFaithful
<1> SUFFICES ASSUME StandbyInv PROVE StandbyIsFaithful
  OBVIOUS
<1>1. StandbyInvOf(standby, lit, around, press)
  BY DEF StandbyInv
<1>2. ASSUME standby.attached PROVE PanelFollowsStandby
  <2>1. PICK d : d = [s |-> standby, p |-> lit]
    OBVIOUS
  <2>2. d.s = standby /\ d.p = lit /\ Settled(d, around)
    BY <1>1, <1>2, <2>1 DEF StandbyInvOf
  <2>3. Ready(d, around, FALSE)
    BY <2>2 DEF Settled
  <2>4. standby \in ControllerRecs /\ lit \in PanelRecs
    BY <1>1 DEF StandbyInvOf
  <2>5. LevelIsTrue
    BY <2>2, <2>3, <2>4 DEF Ready, Settled, LevelIsTrue, ControllerRecs, PanelRecs
  <2>6. GridIsRight
    <3>1. lit.grid \in Grids /\ standby.inStandby \in BOOLEAN /\ standby.painted \in BOOLEAN
      BY <2>4 DEF ControllerRecs, PanelRecs
    <3>2. lit.grid = "clock" => standby.inStandby \/ standby.held
      BY <2>2, <2>3 DEF Ready
    <3>3. ~standby.off /\ standby.wake = "none" => standby.inStandby = standby.painted
      BY <2>2, <2>3, <3>1 DEF Ready
    <3>4. ~standby.off /\ standby.wake = "none" /\ ~standby.held => lit.grid # "lost"
      BY <2>2, <2>3 DEF Ready
    <3>5. ~standby.off /\ standby.wake = "none" /\ standby.inStandby => lit.grid # "lost"
      BY <2>2, <2>3, <3>4 DEF Settled
    <3> QED BY <3>1, <3>2, <3>3, <3>4, <3>5 DEF GridIsRight, Grids
  <2>7. HooksSettled
    BY <2>2, <2>3 DEF Ready, Settled, HooksSettled
  <2> QED BY <2>5, <2>6, <2>7 DEF PanelFollowsStandby
<1>3. PanelFollowsStandby
  BY <1>2 DEF PanelFollowsStandby, LevelIsTrue, GridIsRight, HooksSettled
<1>4. PressesStayWhole
  <2>1. PressesFit(press, standby.swallowed)
    BY <1>1 DEF StandbyInvOf
  <2>2. \A k \in StandbyKeys : press[k].app \in {"up", "down"}
    BY <2>1 DEF PressesFit
  <2> QED BY <2>1, <2>2 DEF PressesFit, PressesStayWhole
<1> QED BY <1>3, <1>4 DEF StandbyIsFaithful

(* In every reachable state the panel is where the controller believes it is, the hooks were told,
   and every press reaches the app whole or wakes the deck (DockStandby.apply(), noteInput()), through
   any sequence of settings, inputs, sessions, plugs, holds and timers in which no setting turns
   hardware sleep on or off while a plugged panel has lost its images to one. *)
THEOREM StandbyStaysFaithful ==
  StandbySpec /\ [][OffKept]_standbyVars => []StandbyIsFaithful
<1>1. StandbyInv /\ [StandbyNext]_standbyVars /\ [OffKept]_standbyVars => StandbyInv'
  BY StandbyKeeps
<1> QED BY <1>1, StandbyStart, StandbyFaithful, PTL DEF StandbySpec

=============================================================================
