----------------------------- MODULE AppProcess -----------------------------
(***************************************************************************)
(* The process around the docks (main/app.ts): the awaited start against a *)
(* quit that may come at any await of it, the tray sidecar                 *)
(* (infra/tray.ts), and the tasks that run in the background with child    *)
(* processes: the update check (infra/update-check.ts) and the daily ping  *)
(* (infra/daily-ping.ts).  Their children belong to infra/owned-spawn.ts,  *)
(* which a quit stops.                                                     *)
(*                                                                         *)
(* A task is at the child it waits for.  The settings it writes are saved  *)
(* some time later, and a crash loses what was not (SettingsShutdown has   *)
(* the writes themselves).                                                 *)
(***************************************************************************)
EXTENDS Integers, Sequences, FiniteSets

CONSTANTS
  AppStates,      \* what the tray can be told to show, of Nat \ {0}
  MaxDays,        \* bound: days
  AppSetups       \* is there a tray; bounds: background tasks at a time, changes and
                  \* dismissals in a process, processes one after another, days up to MaxDays

ASSUME AppAssumption ==
  /\ AppStates \subseteq Nat \ {0} /\ AppStates # {} /\ MaxDays \in Nat \ {0}
  /\ AppSetups \subseteq [tray : BOOLEAN, tasks : Nat, changes : Nat, runs : Nat, days : 1 .. MaxDays]

VARIABLES
  app,    \* start step, quit stage, what shutdown waits for, timers and the tray's dedupe
  kept,   \* settings in memory and on disk: ping day, dismissed release, survey notified
  tasks,  \* background tasks in flight
  tray,   \* TrayProcess and the sidecar
  told    \* ghosts: beacons per day, marks a crash lost, dismissals, notifications; bounds

appVars == <<app, kept, tasks, tray, told>>

NoTray == [st |-> "none", alive |-> FALSE, signalled |-> FALSE, writer |-> FALSE, writing |-> 0,
           pending |-> 0, shown |-> 0, failed |-> FALSE, closed |-> FALSE]
NothingKept == [day |-> 0, dismissed |-> 0, notified |-> FALSE, cache |-> "never"]

\* "webui", "traybin" and "cora" are awaits of the start, which only the tray depends on; the
\* timers are set before them
FreshApp(run, setup) ==
  [run |-> run, setup |-> setup, up |-> TRUE, step |-> IF setup.tray THEN "webui" ELSE "started",
   quit |-> "no", stopped |-> FALSE, waits |-> {}, writers |-> {}, ok |-> TRUE, handle |-> FALSE, truth |-> CHOOSE x \in AppStates : TRUE,
   pushed |-> 0, dwelt |-> FALSE, changes |-> 0]

AppInit ==
  /\ \E s \in AppSetups : app = FreshApp(1, s)
  /\ kept = [mem |-> NothingKept, disk |-> NothingKept, closed |-> FALSE]
  /\ tasks = {}
  /\ tray = NoTray
  /\ told = [today |-> 1, beacons |-> [d \in 1..MaxDays |-> 0], lost |-> {}, dismissed |-> 0,
             raced |-> FALSE, notices |-> 0]

AppRunning == app.up
Changed == app.changes < app.setup.changes
Owned(stage) == stage # "elgato"   \* the version probe of os-utils.ts is not spawnOwned

-----------------------------------------------------------------------------
(* The tray.                                                               *)

\* push(): newest wins; _send() starts unless a write is under way
Pushed(t, v) ==
  IF t.writer /\ t.writing = 0 THEN [t EXCEPT !.writing = v, !.pending = 0, !.failed = FALSE]
  ELSE [t EXCEPT !.pending = v, !.failed = FALSE]

\* pushTrayState(): only a state that differs from the last one
PushTrayState(a, t) ==
  IF a.handle /\ a.truth # a.pushed
    THEN /\ app' = [a EXCEPT !.pushed = a.truth] /\ tray' = Pushed(t, a.truth)
    ELSE app' = a /\ tray' = t

\* close(): SIGTERM before its first await
TrayClosed(t) ==
  [t EXCEPT !.closed = TRUE, !.writer = FALSE, !.pending = 0, !.writing = 0, !.signalled = t.alive]

\* a dock, the client or the update state changes
StateChanges(v) ==
  /\ AppRunning /\ Changed /\ app.setup.tray /\ v # app.truth
  /\ PushTrayState([app EXCEPT !.truth = v, !.changes = @ + 1], tray)
  /\ UNCHANGED <<kept, tasks, told>>

\* 'ready' names the port: tjs.connect
TrayReady ==
  /\ AppRunning /\ tray.st = "spawned" /\ tray.alive
  /\ tray' = [tray EXCEPT !.st = "connecting"]
  /\ UNCHANGED <<app, kept, tasks, told>>

\* the socket is there: closed at once when close() came first
TrayConnected ==
  /\ AppRunning /\ tray.st = "connecting"
  /\ tray' = IF tray.closed THEN [tray EXCEPT !.st = "gone"] ELSE [tray EXCEPT !.st = "opening"]
  /\ UNCHANGED <<app, kept, tasks, told>>

\* ... and open: what waits is sent
TrayOpened ==
  /\ AppRunning /\ tray.st = "opening" /\ ~tray.closed
  /\ tray' = [tray EXCEPT !.st = "open", !.writer = TRUE, !.writing = tray.pending, !.pending = 0]
  /\ UNCHANGED <<app, kept, tasks, told>>

\* Mutant: the state pushed during a write is taken for written
TrayWroteOnce ==
  /\ AppRunning /\ tray.writing # 0 /\ tray.alive
  /\ tray' = [tray EXCEPT !.shown = tray.writing, !.writing = 0, !.pending = 0]
  /\ UNCHANGED <<app, kept, tasks, told>>

\* _send(): a line is out; what was pushed meanwhile follows
TrayWrote ==
  /\ AppRunning /\ tray.writing # 0 /\ tray.alive
  /\ tray' = [tray EXCEPT !.shown = tray.writing, !.writing = tray.pending, !.pending = 0,
                        !.failed = FALSE]
  /\ UNCHANGED <<app, kept, tasks, told>>

\* ... or was refused, which is only logged
TrayWriteFails ==
  /\ AppRunning /\ tray.writing # 0
  /\ tray' = [tray EXCEPT !.failed = TRUE, !.writing = tray.pending, !.pending = 0]
  /\ UNCHANGED <<app, kept, tasks, told>>

\* the sidecar ends, by itself or because of a signal
TrayExits ==
  /\ tray.alive
  /\ tray' = [tray EXCEPT !.alive = FALSE]
  /\ UNCHANGED <<app, kept, tasks, told>>

-----------------------------------------------------------------------------
(* Background tasks.                                                       *)

Settled(t) == tasks' = tasks \ {t}
CanStart == AppRunning /\ app.quit = "no" /\ Cardinality(tasks) < app.setup.tasks
Fresh == CHOOSE n \in 1..app.setup.tasks : \A t \in tasks : t.n # n

Dwells ==
  /\ AppRunning /\ ~app.dwelt
  /\ app' = [app EXCEPT !.dwelt = TRUE]
  /\ UNCHANGED <<kept, tasks, tray, told>>

\* Mutant: the day is marked when the beacon has gone out
StartPingUnmarked ==
  /\ CanStart /\ app.dwelt /\ kept.mem.day # told.today
  /\ tasks' = tasks \cup {[n |-> Fresh, k |-> "ping", stage |-> "os", day |-> told.today, old |-> 0,
                           tracked |-> TRUE, child |-> "runs"]}
  /\ UNCHANGED <<app, kept, tray, told>>

\* runPing(): past the dwell gate, not yet today; the day is marked before anything is awaited
StartPing ==
  /\ CanStart /\ app.dwelt /\ kept.mem.day # told.today
  /\ kept' = [kept EXCEPT !.mem.day = told.today]
  /\ tasks' = tasks \cup {[n |-> Fresh, k |-> "ping", stage |-> "os", day |-> told.today, old |-> 0,
                           tracked |-> TRUE, child |-> "runs"]}
  /\ UNCHANGED <<app, tray, told>>

\* check(): unless the cache is warm and no page forces it; the state is read before the fetch;
\* only a timer's check is a tracked writer
StartCheck(force) ==
  /\ CanStart
  /\ force \/ kept.mem.cache # "warm"
  /\ tasks' = tasks \cup {[n |-> Fresh, k |-> "check", stage |-> "curl", day |-> 0,
                           old |-> kept.mem.dismissed, tracked |-> ~force, child |-> "runs"]}
  /\ UNCHANGED <<app, kept, tray, told>>

ChildExits(t) ==
  /\ AppRunning /\ t.child # "none"
  /\ tasks' = (tasks \ {t}) \cup {[t EXCEPT !.child = "none"]}
  /\ UNCHANGED <<app, kept, tray, told>>

\* the next child, unless spawnOwned throws: then the step is skipped ("os": version and locale)
NextStage(t) ==
  CASE t.k = "ping" /\ t.stage = "os"     -> "elgato"
    [] t.k = "ping" /\ t.stage = "elgato" -> "curl"
    [] OTHER                              -> "done"

TaskMovesOn(t) ==
  /\ AppRunning /\ t.child = "none" /\ NextStage(t) # "done"
  /\ LET s     == NextStage(t)
         spawn == ~Owned(s) \/ ~app.stopped
     IN  /\ tasks' = (tasks \ {t}) \cup {[t EXCEPT !.stage = s, !.child = IF spawn THEN "runs" ELSE @]}
         /\ told' = IF t.k = "ping" /\ s = "curl" /\ spawn
                      THEN [told EXCEPT !.beacons[t.day] = @ + 1] ELSE told
  /\ UNCHANGED <<app, kept, tray>>

\* the last child is done: a check that got an answer writes the state, with the dismissal it
\* read before the fetch (what the tray is told of it is one of StateChanges)
TaskEnds(t) ==
  /\ AppRunning /\ t.child = "none" /\ NextStage(t) = "done"
  /\ Settled(t)
  /\ \/ UNCHANGED <<kept, told>>
     \/ /\ t.k = "check"
        /\ kept' = [kept EXCEPT !.mem.cache = "warm", !.mem.dismissed = t.old]
        /\ told' = [told EXCEPT !.raced = @ \/ t.old # kept.mem.dismissed]
  /\ UNCHANGED <<app, tray>>

\* dismiss(): the user closes the badge
Dismiss ==
  /\ AppRunning /\ Changed /\ app.quit = "no"
  /\ kept' = [kept EXCEPT !.mem.dismissed = told.dismissed + 1,
                         !.mem.cache = IF @ = "never" THEN "warm" ELSE @]
  /\ told' = [told EXCEPT !.dismissed = @ + 1, !.raced = FALSE]
  /\ app' = [app EXCEPT !.changes = @ + 1]
  /\ UNCHANGED <<tasks, tray>>

\* notifyTick(): with a tray, once per survey version, marked first; the tray's last state is
\* pushed again to carry it
NotifySurvey ==
  /\ AppRunning /\ app.quit = "no" /\ app.handle /\ app.dwelt /\ ~kept.mem.notified
  /\ kept' = [kept EXCEPT !.mem.notified = TRUE]
  /\ told' = [told EXCEPT !.notices = @ + 1]
  /\ tray' = Pushed(tray, app.pushed)
  /\ UNCHANGED <<app, tasks>>

-----------------------------------------------------------------------------
(* Start, shutdown, the next process.                                      *)

\* a queued settings write reaches the disk
SaveSettings ==
  /\ AppRunning /\ ~kept.closed /\ kept.disk # kept.mem
  /\ kept' = [kept EXCEPT !.disk = kept.mem]
  /\ UNCHANGED <<app, tasks, tray, told>>

\* Mutant: the sidecar that a quit overtook is left alone
StartStepForgetting ==
  /\ AppRunning
  /\ \/ /\ app.step = "webui"
        /\ app' = [app EXCEPT !.step = "traybin"] /\ UNCHANGED tray
     \/ /\ app.step = "traybin" /\ app.setup.tray
        /\ LET t == [NoTray EXCEPT !.st = "spawned", !.alive = TRUE]
           IN  PushTrayState([app EXCEPT !.step = "cora", !.handle = TRUE], t)
  /\ UNCHANGED <<kept, tasks, told>>

\* an await of the start is over; the tray is spawned whether or not a quit has begun,
\* and closed at once if it has
StartStep ==
  /\ AppRunning
  /\ \/ /\ app.step = "webui"
        /\ app' = [app EXCEPT !.step = "traybin"] /\ UNCHANGED tray
     \/ /\ app.step = "traybin"                      \* --headless, no binary, or it did not start
        /\ app' = [app EXCEPT !.step = "cora"] /\ UNCHANGED tray
     \/ /\ app.step = "traybin" /\ app.setup.tray
        /\ LET t == [NoTray EXCEPT !.st = "spawned", !.alive = TRUE]
           IN  IF app.quit = "no"
                 THEN PushTrayState([app EXCEPT !.step = "cora", !.handle = TRUE], t)
                 ELSE app' = [app EXCEPT !.step = "cora"] /\ tray' = TrayClosed(t)
     \/ /\ app.step = "cora"
        /\ app' = [app EXCEPT !.step = "started"] /\ UNCHANGED tray
  /\ UNCHANGED <<kept, tasks, told>>

\* a signal, the tray's Quit or an unhandled rejection: quiesce() and every owner's close,
\* stopSpawns() among them
RequestQuit ==
  /\ AppRunning /\ app.quit = "no"
  /\ app' = [app EXCEPT !.quit = "closing", !.stopped = TRUE, !.writers = {t.n : t \in {x \in tasks : x.tracked}},
                        !.waits = {"spawns", "writers"} \cup (IF app.handle THEN {"tray"} ELSE {})]
  /\ tray' = IF app.handle THEN TrayClosed(tray) ELSE tray
  /\ tasks' = {IF t.child = "runs" /\ Owned(t.stage) THEN [t EXCEPT !.child = "signalled"] ELSE t :
                 t \in tasks}
  /\ UNCHANGED <<kept, told>>

\* an owner's close resolves: the children are gone, or were killed and the ceiling passed
CloseSettles(o) ==
  /\ AppRunning /\ app.quit = "closing" /\ o \in app.waits
  /\ o = "writers" => {t.n : t \in tasks} \cap app.writers = {}
  /\ app' = [app EXCEPT !.waits = @ \ {o}]
  /\ UNCHANGED <<kept, tasks, tray, told>>

\* all owners are closed or their budget is spent: settings.close() writes for the last time
PersistLast ==
  /\ AppRunning /\ app.quit = "closing"
  /\ app' = [app EXCEPT !.quit = "persisted", !.ok = app.waits = {}]
  /\ kept' = [kept EXCEPT !.closed = TRUE, !.disk = kept.mem]
  /\ UNCHANGED <<tasks, tray, told>>

ProcessExits ==
  /\ AppRunning /\ app.quit = "persisted"
  /\ app' = [app EXCEPT !.up = FALSE]
  /\ UNCHANGED <<kept, tasks, tray, told>>

\* the process dies with what was not saved
ProcessCrashes ==
  /\ AppRunning /\ app.quit = "no" /\ app.run < app.setup.runs
  /\ app' = [app EXCEPT !.up = FALSE]
  /\ told' = [told EXCEPT !.lost = IF kept.disk.day # kept.mem.day THEN @ \cup {kept.mem.day} ELSE @,
                          !.notices = IF kept.mem.notified /\ ~kept.disk.notified THEN @ - 1 ELSE @,
                          !.dismissed = kept.disk.dismissed]
  /\ UNCHANGED <<kept, tasks, tray>>

\* the next process takes the instance lock and loads the file
StartProcess ==
  /\ ~app.up /\ app.run < app.setup.runs
  /\ app' = FreshApp(app.run + 1, app.setup)
  /\ kept' = [mem |-> kept.disk, disk |-> kept.disk, closed |-> FALSE]
  /\ tasks' = {} /\ tray' = NoTray
  /\ UNCHANGED told

DayPasses ==
  /\ AppRunning /\ told.today < app.setup.days
  /\ told' = [told EXCEPT !.today = @ + 1]
  /\ kept' = [kept EXCEPT !.mem.cache = IF @ = "warm" THEN "stale" ELSE @]
  /\ UNCHANGED <<app, tasks, tray>>

AppNext ==
  \/ \E v \in AppStates : StateChanges(v)
  \/ TrayReady \/ TrayConnected \/ TrayOpened \/ TrayWrote \/ TrayWriteFails \/ TrayExits
  \/ Dwells \/ StartPing \/ Dismiss \/ NotifySurvey
  \/ \E f \in BOOLEAN : StartCheck(f)
  \/ \E t \in tasks : ChildExits(t) \/ TaskMovesOn(t) \/ TaskEnds(t)
  \/ SaveSettings \/ StartStep \/ RequestQuit \/ PersistLast
  \/ ProcessExits \/ ProcessCrashes \/ StartProcess \/ DayPasses
  \/ \E o \in {"spawns", "tray", "writers"} : CloseSettles(o)

AppSpec == AppInit /\ [][AppNext]_appVars

-----------------------------------------------------------------------------
(* Properties.                                                             *)

\* One beacon a UTC day over every timer, restart and slow collector, except for a day whose
\* mark a crash took before it was saved; one survey notice in the same sense.
OnceOnly ==
  /\ \A d \in 1..MaxDays : d \notin told.lost => told.beacons[d] <= 1
  /\ told.notices <= 1

\* A release the user dismissed stays dismissed unless a check was under way meanwhile.
DismissalKept == AppRunning /\ ~told.raced => kept.mem.dismissed = told.dismissed

\* After an exit every sidecar and every owned child that still runs was told to go, and after
\* a clean one no task that could write settings is left.
NothingIsOrphaned ==
  ~AppRunning /\ app.quit = "persisted" =>
    /\ tray.alive => tray.signalled
    /\ \A t \in tasks : Owned(t.stage) => t.child # "runs"
    /\ app.ok => {t.n : t \in tasks} \cap app.writers = {}

\* While it is connected and nothing is being written the tray shows the current state, unless
\* the last write failed.
TrayShowsState ==
  AppRunning /\ tray.alive /\ tray.st = "open" /\ ~tray.closed /\ tray.writing = 0 /\ ~tray.failed
    => tray.shown = app.truth /\ tray.pending = 0

\* The process keeps its promises to the user and leaves nothing behind.
ProcessIsTidy == OnceOnly /\ DismissalKept /\ NothingIsOrphaned /\ TrayShowsState
=============================================================================
