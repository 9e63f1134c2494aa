---------------------------- MODULE DockDiscovery ----------------------------
(***************************************************************************)
(* How USB units become docks.  DriverManager (main/driver-manager.ts)     *)
(* probes for the unit of dock 0 and DockScanner (main/dock-scanner.ts)    *)
(* gives every further unit a dock of its own, at an index drawn from a    *)
(* pool.  Both open units on worker-backed drivers they share through      *)
(* WorkerPool, both read the snapshot of one shared USB scan, and both     *)
(* pause at awaits: the scan, the open of a unit, the bind of a scanned    *)
(* dock's ports, the close of a driver.  Meanwhile units are plugged and   *)
(* unplugged, the user switches multi-deck on and off, chooses decks and   *)
(* reloads device tuning, and the application shuts down.                  *)
(*                                                                         *)
(* A step runs from one await to the next.  Continuations of a resolved    *)
(* promise run before any timer or message, so they belong to the step     *)
(* that resolved it.  Units are numbered in the order of their HID paths,  *)
(* models in registry order.  The mock mode of the test build, the         *)
(* browser deck's reserved index (beyond the cap of two decks) and the     *)
(* probe's back-off (a matter of time only) are left out.                  *)
(***************************************************************************)
EXTENDS Integers, FiniteSets, FiniteSetsExt

CONSTANTS
    Units,        \* USB units, by HID path
    ModelOf,      \* the model of each unit
    Drivers,      \* WorkerHidDriver objects, reused once closed
    Cap,          \* docks allowed with multi-deck on
    MaxPlugs,     \* bound: units plugged or unplugged
    MaxEdits,     \* bound: settings the user changes
    OpenMayFail,  \* may the open of a plugged unit fail?
    ScanMayFail,  \* may the scan worker fail?
    SlowOpen      \* may an open outlast the reconnect interval?

ASSUME DiscoveryAssumption ==
    /\ IsFiniteSet(Units) /\ Units \subseteq Nat \ {0}
    /\ ModelOf \in [Units -> Nat \ {0}]
    /\ IsFiniteSet(Drivers) /\ Drivers \subseteq Nat \ {0}
    /\ Cap \in 2 .. 4 /\ MaxPlugs \in Nat /\ MaxEdits \in Nat
    /\ OpenMayFail \in BOOLEAN /\ ScanMayFail \in BOOLEAN /\ SlowOpen \in BOOLEAN

None == 0
Models == {ModelOf[u] : u \in Units}
Indices == 1 .. Cap - 1
TaskKinds == {"reload", "choose"}

VARIABLES
    plugged,      \* units on the bus
    snapshot,     \* discovery snapshot: units of the last scan
    detected,     \* DeckSelection.detected
    selected,     \* DeckSelection.selected, as units
    multi,        \* multi-deck: DeckSelection.multiDeck, DockScanner.maxDocks > 1
    drv,          \* driver -> its life cycle state and its unit
    dead,         \* open drivers whose unit was unplugged since
    mail,         \* ... of which the worker's 'disconnect' is still on its way
    primary,      \* dock 0's driver
    probe,        \* tryRealConnect: program counter, driver, models not yet tried
    timer,        \* ProbePacer: a reconnect is pending
    parked,       \* WorkerPool.idle: model -> driver
    create,       \* scanForDocks and createDock
    units,        \* DockScanner.units: index -> driver
    up,           \* indices whose dock has attached its driver
    free,         \* DockScanner.freeIndices
    shutdown,     \* getShuttingDown()
    tasks,        \* reloadDeviceTuning and setActiveDecks under way
    plugs, edits  \* how often the bounded actions happened

usbVars == <<plugged, plugs>>
choiceVars == <<selected, multi, edits>>
driverVars == <<drv, dead, mail>>
scannerVars == <<create, units, up, free>>
vars == <<usbVars, snapshot, detected, choiceVars, driverVars, primary, probe, timer,
          parked, scannerVars, shutdown, tasks>>

NoProbe == [pc |-> "idle", d |-> None, left |-> {}]
NoCreate == [pc |-> "idle", d |-> None, idx |-> None, stale |-> FALSE, stopped |-> FALSE]
NoTask == [pc |-> "idle", d |-> None, left |-> {}, models |-> {}]
Unused == [st |-> "free", path |-> None]

Held == {i \in Indices : units[i] # None}
ClaimedPaths == {drv[units[i]].path : i \in Held}

(* DeckSelection.keyAllowed: a choice that names no detected deck is ignored. *)
Allowed(u, sel, det) == multi /\ sel \cap det # {} => u \in sel

(* WorkerPool.acquire: the driver parked for the model, else a fresh one. *)
Acquired(m) ==
    IF parked[m] # None THEN parked[m] ELSE Min({d \in Drivers : drv[d].st = "free"})
CanAcquire(m) == parked[m] # None \/ \E d \in Drivers : drv[d].st = "free"

Closing(dv, ds) == [d \in Drivers |-> IF d \in ds THEN [dv[d] EXCEPT !.st = "closing"] ELSE dv[d]]

(* ProbePacer.schedule; shutdown has cancelled the pacer. *)
ScheduleReconnect == timer' = ~shutdown

TypeOK ==
    /\ plugged \subseteq Units /\ snapshot \subseteq Units /\ detected \subseteq Units
    /\ selected \subseteq Units /\ multi \in BOOLEAN /\ shutdown \in BOOLEAN
    /\ drv \in [Drivers -> [st : {"free", "opening", "open", "parked", "closing"},
                            path : Units \cup {None}]]
    /\ mail \subseteq dead /\ dead \subseteq Drivers
    /\ primary \in Drivers \cup {None} /\ timer \in BOOLEAN
    /\ probe \in [pc : {"idle", "scan", "open", "close"}, d : Drivers \cup {None},
                  left : SUBSET Models]
    /\ parked \in [Models -> Drivers \cup {None}]
    /\ create \in [pc : {"idle", "scan", "open", "start", "close"}, d : Drivers \cup {None},
                   idx : Indices \cup {None}, stale : BOOLEAN, stopped : BOOLEAN]
    /\ units \in [Indices -> Drivers \cup {None}]
    /\ up \subseteq Held /\ free \subseteq Indices
    /\ tasks \in [TaskKinds -> [pc : {"idle", "docks", "primary"}, d : Drivers \cup {None},
                                left : SUBSET Indices, models : SUBSET Models]]
    /\ plugs \in 0 .. MaxPlugs /\ edits \in 0 .. MaxEdits

(* Startup: the first probe runs, and the settings give multi-deck. *)
Init ==
    /\ plugged \in SUBSET Units /\ snapshot = {} /\ detected = {} /\ selected = {}
    /\ multi \in BOOLEAN /\ shutdown = FALSE
    /\ drv = [d \in Drivers |-> Unused] /\ dead = {} /\ mail = {}
    /\ primary = None /\ timer = FALSE
    /\ probe = [NoProbe EXCEPT !.pc = "scan", !.left = Models]
    /\ parked = [m \in Models |-> None]
    /\ create = NoCreate /\ units = [i \in Indices |-> None] /\ up = {}
    /\ free = IF multi THEN Indices ELSE {}
    /\ tasks = [k \in TaskKinds |-> NoTask] /\ plugs = 0 /\ edits = 0

-----------------------------------------------------------------------------
(* The USB bus. *)

Plug(u) ==
    /\ plugs < MaxPlugs /\ u \notin plugged
    /\ plugged' = plugged \cup {u} /\ plugs' = plugs + 1
    /\ UNCHANGED <<snapshot, detected, choiceVars, driverVars, primary, probe, timer,
                   parked, scannerVars, shutdown, tasks>>

(* The worker that has the unit open notices and posts 'disconnect'. *)
Unplug(u) ==
    LET lost == {d \in Drivers : drv[d].st = "open" /\ drv[d].path = u} \ dead IN
    /\ plugs < MaxPlugs /\ u \in plugged
    /\ plugged' = plugged \ {u} /\ plugs' = plugs + 1
    /\ dead' = dead \cup lost /\ mail' = mail \cup lost
    /\ UNCHANGED <<snapshot, detected, choiceVars, drv, primary, probe, timer,
                   parked, scannerVars, shutdown, tasks>>

-----------------------------------------------------------------------------
(* The primary probe. *)

(* The first model of ms that has a usable path, and those paths. *)
Usable(m, snap, det) ==
    {u \in snap \ ClaimedPaths : ModelOf[u] = m /\ Allowed(u, selected, det)}
Promising(ms, snap, det) == {m \in ms : Usable(m, snap, det) # {}}

(* A variant that schedules the next probe only when it parked a worker. *)
ProbeModelsGivingUp(ms, snap, det, dv, pk) ==
    IF Promising(ms, snap, det) # {}
    THEN LET m == Min(Promising(ms, snap, det))
             d == IF pk[m] # None THEN pk[m] ELSE Min({e \in Drivers : dv[e].st = "free"})
         IN  /\ pk[m] # None \/ \E e \in Drivers : dv[e].st = "free"
             /\ \E u \in Usable(m, snap, det) :
                    drv' = [dv EXCEPT ![d] = [st |-> "opening", path |-> u]]
             /\ parked' = [pk EXCEPT ![m] = None]
             /\ probe' = [pc |-> "open", d |-> d, left |-> {k \in ms : k > m}]
             /\ UNCHANGED timer
    ELSE /\ probe' = NoProbe /\ drv' = dv /\ parked' = pk
         /\ timer' = (~shutdown /\ \E m \in Models : pk[m] # None)

(* probeAndOpen's loop over the models ms; dv and pk are the drivers and the pool as the
   failed open left them.  Out of models, the probe schedules the next one; after a
   shutdown its owner sweeps the pool instead. *)
ProbeModels(ms, snap, det, dv, pk) ==
    IF Promising(ms, snap, det) # {}
    THEN LET m == Min(Promising(ms, snap, det))
             d == IF pk[m] # None THEN pk[m] ELSE Min({e \in Drivers : dv[e].st = "free"})
         IN  /\ pk[m] # None \/ \E e \in Drivers : dv[e].st = "free"
             /\ \E u \in Usable(m, snap, det) :
                    drv' = [dv EXCEPT ![d] = [st |-> "opening", path |-> u]]
             /\ parked' = [pk EXCEPT ![m] = None]
             /\ probe' = [pc |-> "open", d |-> d, left |-> {k \in ms : k > m}]
             /\ UNCHANGED timer
    ELSE /\ probe' = NoProbe
         /\ ScheduleReconnect
         /\ drv' = IF shutdown THEN Closing(dv, {pk[m] : m \in Models} \ {None}) ELSE dv
         /\ parked' = IF shutdown THEN [m \in Models |-> None] ELSE pk

(* tryRealConnect from the timer.  An open that is not slow settles within the interval. *)
ReconnectTimer ==
    /\ timer /\ (~SlowOpen => create.pc # "open")
    /\ timer' = FALSE
    /\ probe' = IF ~shutdown /\ primary = None /\ probe.pc = "idle"
                THEN [NoProbe EXCEPT !.pc = "scan", !.left = Models] ELSE probe
    /\ UNCHANGED <<usbVars, snapshot, detected, choiceVars, driverVars, primary,
                   parked, scannerVars, shutdown, tasks>>

(* The open the probe waits for succeeds: dock 0 attaches, unless the application is
   shutting down. *)
ProbeOpened ==
    /\ probe.pc = "open" /\ drv[probe.d].path \in plugged
    /\ IF shutdown
       THEN /\ drv' = Closing(drv, {probe.d} \cup ({parked[m] : m \in Models} \ {None}))
            /\ parked' = [m \in Models |-> None]
            /\ UNCHANGED primary
       ELSE /\ drv' = [drv EXCEPT ![probe.d].st = "open"]
            /\ primary' = probe.d
            /\ UNCHANGED parked
    /\ probe' = NoProbe
    /\ UNCHANGED <<usbVars, snapshot, detected, choiceVars, dead, mail, timer,
                   scannerVars, shutdown, tasks>>

OpenCanFail(u) == OpenMayFail \/ u \notin plugged

(* It fails: the worker is parked for the next attempt (closed during a shutdown) and the
   probe goes on with the next model. *)
ProbeOpenFails ==
    /\ probe.pc = "open" /\ OpenCanFail(drv[probe.d].path)
    /\ IF shutdown
       THEN /\ drv' = Closing(drv, {probe.d})
            /\ probe' = [probe EXCEPT !.pc = "close"]
            /\ UNCHANGED <<parked, timer>>
       ELSE ProbeModels(probe.left, snapshot, detected,
                        [drv EXCEPT ![probe.d] = [st |-> "parked", path |-> None]],
                        [parked EXCEPT ![ModelOf[drv[probe.d].path]] = probe.d])
    /\ UNCHANGED <<usbVars, snapshot, detected, choiceVars, dead, mail, primary,
                   scannerVars, shutdown, tasks>>

-----------------------------------------------------------------------------
(* The dock scanner. *)

(* scanTarget: is there any reason to scan? *)
ScanTarget == multi /\ ~shutdown /\ probe.pc = "idle" /\ primary # None

ScanTick ==
    /\ create.pc = "idle" /\ ScanTarget
    /\ create' = [NoCreate EXCEPT !.pc = "scan"]
    /\ UNCHANGED <<usbVars, snapshot, detected, choiceVars, driverVars, primary, probe,
                   timer, parked, units, up, free, shutdown, tasks>>

(* pickUnclaimedPath. *)
Pickable(snap) ==
    {u \in snap \ (ClaimedPaths \cup {drv[primary].path}) : Allowed(u, selected, snap)}

(* The scanner resumes after a scan: re-check the target, publish the units, then open the
   lowest unclaimed one. *)
ScannerResumes(snap) ==
    /\ detected' = IF ScanTarget THEN snap ELSE detected
    /\ IF ScanTarget /\ free # {} /\ Pickable(snap) # {}
       THEN LET u == Min(Pickable(snap))  d == Acquired(ModelOf[u]) IN
            /\ CanAcquire(ModelOf[u])
            /\ drv' = [drv EXCEPT ![d] = [st |-> "opening", path |-> u]]
            /\ parked' = [parked EXCEPT ![ModelOf[u]] = None]
            /\ create' = [NoCreate EXCEPT !.pc = "open", !.d = d]
       ELSE /\ create' = NoCreate
            /\ UNCHANGED <<drv, parked>>

(* The scan the probe and the scanner share ends.  A failed scan, and one that shutdown
   rejects, leaves an empty snapshot.  A scanner that shared it with a probe finds the probe
   still running and gives up. *)
ScanResult(snap) ==
    /\ snap = (IF shutdown THEN {} ELSE plugged) \/ (ScanMayFail /\ snap = {})
    /\ snapshot' = snap
    /\ \/ /\ probe.pc = "scan"
          /\ detected' = snap
          /\ ProbeModels(probe.left, snap, snap, drv, parked)
          /\ create' = IF create.pc = "scan" THEN NoCreate ELSE create
       \/ /\ probe.pc # "scan" /\ create.pc = "scan"
          /\ ScannerResumes(snap)
          /\ UNCHANGED <<probe, timer>>
    /\ UNCHANGED <<usbVars, choiceVars, dead, mail, primary, units, up, free, shutdown, tasks>>

(* DockScanner.stale *)
Stale == create.stale \/ shutdown

(* A variant that registers the dock without asking whether it is stale. *)
CreateOpenedWhateverHappened ==
    /\ create.pc = "open" /\ drv[create.d].path \in plugged /\ free # {}
    /\ drv' = [drv EXCEPT ![create.d].st = "open"]
    /\ create' = [create EXCEPT !.pc = "start", !.idx = Min(free)]
    /\ units' = [units EXCEPT ![Min(free)] = create.d]
    /\ free' = free \ {Min(free)}
    /\ UNCHANGED <<usbVars, snapshot, detected, choiceVars, dead, mail, primary, probe,
                   timer, parked, up, shutdown, tasks>>

(* createDock after a good open: a stale creation closes its driver; otherwise the dock gets
   the lowest free index and starts binding its ports. *)
CreateOpened ==
    /\ create.pc = "open" /\ drv[create.d].path \in plugged
    /\ IF Stale \/ free = {}
       THEN /\ drv' = Closing(drv, {create.d})
            /\ create' = [create EXCEPT !.pc = "close"]
            /\ UNCHANGED <<units, free>>
       ELSE /\ drv' = [drv EXCEPT ![create.d].st = "open"]
            /\ create' = [create EXCEPT !.pc = "start", !.idx = Min(free)]
            /\ units' = [units EXCEPT ![Min(free)] = create.d]
            /\ free' = free \ {Min(free)}
    /\ UNCHANGED <<usbVars, snapshot, detected, choiceVars, dead, mail, primary, probe,
                   timer, parked, up, shutdown, tasks>>

(* A variant that drops the worker of a failed open. *)
CreateOpenFailsUnparked ==
    /\ create.pc = "open" /\ OpenCanFail(drv[create.d].path)
    /\ create' = NoCreate
    /\ UNCHANGED <<usbVars, snapshot, detected, choiceVars, driverVars, primary, probe, parked,
                   timer, units, up, free, shutdown, tasks>>

(* A failed open parks the worker, unless the creation is stale. *)
CreateOpenFails ==
    /\ create.pc = "open" /\ OpenCanFail(drv[create.d].path)
    /\ IF Stale
       THEN /\ drv' = Closing(drv, {create.d})
            /\ create' = [create EXCEPT !.pc = "close"]
            /\ UNCHANGED parked
       ELSE /\ drv' = [drv EXCEPT ![create.d] = [st |-> "parked", path |-> None]]
            /\ parked' = [parked EXCEPT ![ModelOf[drv[create.d].path]] = create.d]
            /\ create' = NoCreate
    /\ UNCHANGED <<usbVars, snapshot, detected, choiceVars, dead, mail, primary, probe,
                   timer, units, up, free, shutdown, tasks>>

(* Dock.start binds the ports and attaches the driver. *)
CreateStarted ==
    /\ create.pc = "start" /\ ~create.stopped
    /\ up' = up \cup {create.idx}
    /\ create' = NoCreate
    /\ UNCHANGED <<usbVars, snapshot, detected, choiceVars, driverVars, primary, probe,
                   timer, parked, units, free, shutdown, tasks>>

(* A variant that does not give the index back. *)
CreateStartFailsKeepingIndex ==
    /\ create.pc = "start"
    /\ units' = [units EXCEPT ![create.idx] = None]
    /\ drv' = Closing(drv, {create.d})
    /\ create' = [create EXCEPT !.pc = "close"]
    /\ UNCHANGED <<usbVars, snapshot, detected, choiceVars, dead, mail, primary, probe,
                   timer, parked, up, free, shutdown, tasks>>

(* The bind fails, or the dock was stopped meanwhile: forget the dock, close the driver. *)
CreateStartFails ==
    /\ create.pc = "start"
    /\ units' = [units EXCEPT ![create.idx] = None]
    /\ free' = free \cup {create.idx}
    /\ drv' = Closing(drv, {create.d})
    /\ create' = [create EXCEPT !.pc = "close"]
    /\ UNCHANGED <<usbVars, snapshot, detected, choiceVars, dead, mail, primary, probe,
                   timer, parked, up, shutdown, tasks>>

-----------------------------------------------------------------------------
(* Closing and disconnecting. *)

(* teardownDock(i): forget the dock and stop it.  A dock that is up closes its driver; one
   that still starts is marked, and its creation closes the driver. *)
TeardownDock(i, dv) ==
    /\ units' = [units EXCEPT ![i] = None]
    /\ free' = free \cup {i}
    /\ up' = up \ {i}
    /\ drv' = IF i \in up THEN Closing(dv, {units[i]}) ELSE dv
    /\ create' = IF i \in up THEN create ELSE [create EXCEPT !.stopped = TRUE]

(* stopScannedDocks: forget every dock, reset the pool, make a creation under way stale. *)
StopScannedDocks(dv, pool) ==
    /\ units' = [i \in Indices |-> None] /\ up' = {}
    /\ free' = pool
    /\ drv' = Closing(dv, {units[i] : i \in up})
    /\ create' = [create EXCEPT !.stale = create.pc \in {"open", "start", "close"},
                                !.stopped = create.pc = "start"]

(* The worker's 'disconnect'.  Dock 0 keeps running and probes again; a scanned dock stops.
   A dock that has not attached its driver yet has no listener on it. *)
Disconnect(d) ==
    /\ d \in mail /\ drv[d].st = "open"
    /\ mail' = mail \ {d}
    /\ \/ /\ d = primary
          /\ primary' = None /\ ScheduleReconnect
          /\ drv' = [drv EXCEPT ![d] = Unused] /\ dead' = dead \ {d}
          /\ UNCHANGED scannerVars
       \/ \E i \in up :
          /\ units[i] = d
          /\ units' = [units EXCEPT ![i] = None] /\ up' = up \ {i} /\ free' = free \cup {i}
          /\ drv' = [drv EXCEPT ![d] = Unused] /\ dead' = dead \ {d}
          /\ UNCHANGED <<create, primary, timer>>
       \/ /\ d = create.d
          /\ UNCHANGED <<drv, dead, primary, timer, scannerVars>>
    /\ UNCHANGED <<usbVars, snapshot, detected, choiceVars, probe, parked, shutdown, tasks>>

AwaitedBy(d) == {k \in TaskKinds : tasks[k].pc # "idle" /\ tasks[k].d = d}

(* The close of d settles.  The probe and the creation that awaited it resume; the tasks
   that do so have an action of their own. *)
Closed(d) ==
    /\ drv[d].st = "closing" /\ AwaitedBy(d) = {}
    /\ dead' = dead \ {d} /\ mail' = mail \ {d}
    /\ create' = IF create.pc = "close" /\ create.d = d THEN NoCreate ELSE create
    /\ IF probe.pc = "close" /\ probe.d = d
       THEN ProbeModels(probe.left, snapshot, detected, [drv EXCEPT ![d] = Unused], parked)
       ELSE drv' = [drv EXCEPT ![d] = Unused] /\ UNCHANGED <<probe, timer, parked>>
    /\ UNCHANGED <<usbVars, snapshot, detected, choiceVars, primary, units, up, free,
                   shutdown, tasks>>

-----------------------------------------------------------------------------
(* The user's settings. *)

Edit == ~shutdown /\ edits < MaxEdits /\ edits' = edits + 1

(* DriverManager.setMultiDeck, DockScanner.setMaxDocks *)
SetMultiDeck ==
    /\ Edit
    /\ multi' = ~multi
    /\ IF multi THEN StopScannedDocks(drv, {})
                ELSE free' = Indices \ Held /\ UNCHANGED <<drv, create, units, up>>
    /\ UNCHANGED <<usbVars, snapshot, detected, selected, dead, mail, primary, probe, timer,
                   parked, shutdown, tasks>>

(* Does task t of kind k have to stop what runs on driver d? *)
MustStop(k, ms, sel, d) ==
    IF k = "choose" THEN ~Allowed(drv[d].path, sel, detected) ELSE ModelOf[drv[d].path] \in ms

(* setActiveDecks and reloadDeviceTuning from one await to the next: stop the next scanned
   dock of left that must stop, and after the last one dock 0's driver.  A reload judged the
   docks of left when it began, a choice judges each one when its turn comes. *)
TaskStep(k, left, ms, sel, dv) ==
    LET stop == {i \in left : /\ units[i] # None
                              /\ k = "choose" => MustStop(k, ms, sel, units[i])} IN
    IF stop # {}
    THEN LET i == Min(stop) IN
         /\ TeardownDock(i, dv)
         /\ tasks' = [tasks EXCEPT ![k] =
                [pc |-> "docks", d |-> IF i \in up THEN units[i] ELSE None,
                 left |-> {j \in left : j > i}, models |-> ms]]
         /\ UNCHANGED primary
    ELSE /\ IF primary # None /\ MustStop(k, ms, sel, primary)
            THEN /\ primary' = None
                 /\ drv' = Closing(dv, {primary})
                 /\ tasks' = [tasks EXCEPT ![k] = [NoTask EXCEPT !.pc = "primary", !.d = primary]]
            ELSE /\ drv' = dv
                 /\ tasks' = [tasks EXCEPT ![k] = NoTask]
                 /\ UNCHANGED primary
         /\ UNCHANGED scannerVars

SetActiveDecks(sel) ==
    /\ Edit /\ tasks["choose"].pc = "idle"
    /\ selected' = sel
    /\ TaskStep("choose", Held, {}, sel, drv)
    /\ UNCHANGED <<usbVars, snapshot, detected, multi, dead, mail, probe, timer, parked,
                   shutdown>>

(* reloadDeviceTuning for the models ms: one model, or all of them. *)
ReloadDeviceTuning(ms) ==
    /\ Edit /\ tasks["reload"].pc = "idle"
    /\ TaskStep("reload", {i \in Held : ModelOf[drv[units[i]].path] \in ms}, ms, selected, drv)
    /\ UNCHANGED <<usbVars, snapshot, detected, selected, multi, dead, mail, probe, timer,
                   parked, shutdown>>

(* A variant that leaves the next probe to the disconnect handler, which the close detached. *)
TaskResumesUnscheduled(k) ==
    LET t == tasks[k]
        dv == IF t.d = None THEN drv ELSE [drv EXCEPT ![t.d] = Unused]
    IN  /\ t.pc # "idle"
        /\ dead' = dead \ {t.d} /\ mail' = mail \ {t.d}
        /\ \/ /\ t.pc = "docks"
              /\ TaskStep(k, t.left, t.models, selected, dv)
           \/ /\ t.pc = "primary"
              /\ drv' = dv
              /\ tasks' = [tasks EXCEPT ![k] = NoTask]
              /\ UNCHANGED <<primary, scannerVars>>
        /\ UNCHANGED <<usbVars, snapshot, detected, choiceVars, probe, timer, parked, shutdown>>

(* The stop a task awaits settles.  With dock 0's driver closed, the probe runs again. *)
TaskResumes(k) ==
    LET t == tasks[k]
        dv == IF t.d = None THEN drv ELSE [drv EXCEPT ![t.d] = Unused]
    IN  /\ t.pc # "idle"
        /\ dead' = dead \ {t.d} /\ mail' = mail \ {t.d}
        /\ \/ /\ t.pc = "docks"
              /\ TaskStep(k, t.left, t.models, selected, dv)
              /\ UNCHANGED timer
           \/ /\ t.pc = "primary"
              /\ drv' = dv
              /\ tasks' = [tasks EXCEPT ![k] = NoTask]
              /\ ScheduleReconnect
              /\ UNCHANGED <<primary, scannerVars>>
        /\ UNCHANGED <<usbVars, snapshot, detected, choiceVars, probe, parked, shutdown>>

(* Application shutdown, up to its first await: no reconnect, no scan, every dock stops,
   the parked workers close. *)
Shutdown ==
    /\ ~shutdown
    /\ shutdown' = TRUE /\ timer' = FALSE
    /\ primary' = None
    /\ parked' = [m \in Models |-> None]
    /\ StopScannedDocks(Closing(drv, ({primary} \cup {parked[m] : m \in Models}) \ {None}),
                        IF multi THEN Indices ELSE {})
    /\ UNCHANGED <<usbVars, snapshot, detected, choiceVars, dead, mail, probe, tasks>>

-----------------------------------------------------------------------------
Next ==
    \/ \E u \in Units : Plug(u) \/ Unplug(u)
    \/ ReconnectTimer \/ ProbeOpened \/ ProbeOpenFails
    \/ ScanTick \/ \E snap \in {plugged, {}} : ScanResult(snap)
    \/ CreateOpened \/ CreateOpenFails \/ CreateStarted \/ CreateStartFails
    \/ \E d \in Drivers : Disconnect(d) \/ Closed(d)
    \/ SetMultiDeck \/ \E sel \in SUBSET Units : SetActiveDecks(sel)
    \/ \E ms \in {Models} \cup {{m} : m \in Models} : ReloadDeviceTuning(ms)
    \/ \E k \in TaskKinds : TaskResumes(k)
    \/ Shutdown

Spec == Init /\ [][Next]_vars

-----------------------------------------------------------------------------
(* Properties. *)

(* The owners of a driver: the probe, dock 0, the creation under way, scanned docks, the pool. *)
OwnersOf(d) ==
    {o \in {"probe"} : probe.pc = "open" /\ probe.d = d}
    \cup {o \in {"dock 0"} : primary = d}
    \cup {o \in {"creation"} : create.pc \in {"open", "start"} /\ create.d = d}
    \cup {<<"dock", i>> : i \in {j \in up : units[j] = d}}
    \cup {<<"pool", m>> : m \in {n \in Models : parked[n] = d}}

(* Every driver in use has exactly one owner, and one that closes has none: a driver nobody
   owns keeps its worker thread and HID handle for good, one with two is closed under a
   running dock.  (acquire, park, attach and the stale paths of createDock and the probe.) *)
DriverHasOneOwner ==
    \A d \in Drivers :
        Cardinality(OwnersOf(d)) = IF drv[d].st \in {"free", "closing"} THEN 0 ELSE 1

Attached == ({primary} \ {None}) \cup {units[i] : i \in up}

(* No two docks serve one USB unit (claimedPaths, pickUnclaimedPath). *)
OneDockPerUnit ==
    \A d, e \in Attached \ dead : d # e => drv[d].path # drv[e].path

(* The index pool neither loses nor duplicates an index, whatever is torn down while a dock
   is being created (allocIndex, releaseIndex, setMaxDocks, stopScannedDocks). *)
IndexPoolConserved ==
    /\ free \cap Held = {}
    /\ multi /\ ~shutdown => free \cup Held = Indices

(* With multi-deck off, and after a shutdown, no scanned dock is registered or running: a
   creation that was under way registers nothing (DockScanner.stale). *)
NoDockAfterTeardown == ~multi \/ shutdown => Held = {} /\ up = {}

(* While dock 0 has no driver, a probe runs, is scheduled, or follows the close a task awaits
   (scheduleReconnect): nothing else would ever look for a unit again. *)
ReconnectPending ==
    primary = None /\ ~shutdown =>
        timer \/ probe.pc # "idle" \/ \E k \in TaskKinds : tasks[k].pc = "primary"

(* When dock 0's unit goes away its disconnect is on the way to it: it never sits on a dead
   driver (acquireRealDriver, attach and onPrimaryDisconnect). *)
UnplugReachesPrimary == primary \in dead => primary \in mail

(* Types, an index pool that adds up, and docks that go away when they must. *)
PoolConsistent ==
    TypeOK /\ IndexPoolConserved /\ NoDockAfterTeardown /\ UnplugReachesPrimary

(* Drivers and units are never shared. *)
NothingIsShared == DriverHasOneOwner /\ OneDockPerUnit

(* What the program does by itself: timers fire, scans, opens, binds and closes settle.  The
   user, the bus and the decision to shut down are not fair. *)
Progress ==
    /\ WF_vars(ReconnectTimer) /\ WF_vars(ProbeOpened \/ ProbeOpenFails)
    /\ WF_vars(ScanTick) /\ WF_vars(\E snap \in {plugged, {}} : ScanResult(snap))
    /\ WF_vars(CreateOpened \/ CreateOpenFails)
    /\ WF_vars(CreateStarted \/ CreateStartFails)
    /\ \A d \in Drivers : WF_vars(Disconnect(d)) /\ WF_vars(Closed(d))
    /\ \A k \in TaskKinds : WF_vars(TaskResumes(k))

FairSpec == Spec /\ Progress

(* A unit that stays on the bus, free for dock 0 and allowed, ends dock 0's search: the probe
   keeps coming back until it opens one. *)
PrimaryRecovers ==
    \A u \in Units :
        [](u \in plugged \ ClaimedPaths /\ primary = None /\ Allowed(u, selected, snapshot)
             => <>(\/ primary # None \/ shutdown
                  \/ u \notin plugged \ ClaimedPaths \/ ~Allowed(u, selected, snapshot)))

(* After a shutdown every driver is closed, whatever was under way. *)
ShutdownCompletes == shutdown ~> \A d \in Drivers : drv[d].st = "free"

(* Indexes, docks and drivers add up, and dock 0 is always being looked for when it is gone. *)
DiscoveryConsistent == PoolConsistent /\ ReconnectPending

(* The search for dock 0 and a shutdown both reach their end. *)
DiscoveryProgresses == PrimaryRecovers /\ ShutdownCompletes
=============================================================================
