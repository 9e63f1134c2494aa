------------------------------ MODULE Standby ------------------------------
(***************************************************************************)
(* The standby and burn-in controller of one dock (main/dock-standby.ts,   *)
(* main/standby-policy.ts, the painter of main/standby-clock.ts).  It sits *)
(* between the level the user or the app asks for and the panel: idle,     *)
(* night and app-gone caps lower the level, screen-off is hardware sleep   *)
(* or level 0, the standby clock replaces the app's images, and the press  *)
(* that wakes a dark deck may be kept from the app.                        *)
(*                                                                         *)
(* Every method runs to its end on the main thread, so it is a function    *)
(* from the controller's state to the next one; what interleaves is the    *)
(* events: inputs, the app's connects, frames and disconnects, plug and    *)
(* unplug, the wizard's hold, settings, and the four timers.               *)
(***************************************************************************)
EXTENDS Integers, FiniteSets

CONSTANTS
    StandbyConfigs,    \* the settings a user may choose among (records)
    StandbyPanels,     \* kinds of device: [sleep, clock] what they can do
    StandbyLevels,     \* levels a user or the app may request
    StandbyKeys,       \* keys that go down and up
    IdleLevel, ClockLevel, NightLevel, FullLevel,
    PairedBefore,      \* was the deck paired in an earlier run of the program?
    TrafficMayRace     \* may the socket close between a frame and its deferred exit?

ASSUME StandbyAssumption ==
    /\ {IdleLevel, ClockLevel, NightLevel, FullLevel} \subseteq Nat \ {0}
    /\ StandbyLevels \subseteq 0..FullLevel
    /\ PairedBefore \in BOOLEAN /\ TrafficMayRace \in BOOLEAN

VARIABLES
    standby,    \* the fields of DockStandby (a timer is TRUE while it is armed)
    lit,        \* what the device does: level, hardware sleep, what the grid shows
    around,     \* what the controller reads: settings, link, time, the device
    press       \* each key: held down by the user, and as the app sees it

standbyVars == <<standby, lit, around, press>>

Undefined == -1
MinOf(S) == CHOOSE x \in S : \A y \in S : x <= y

-----------------------------------------------------------------------------
(* standby-policy.ts *)

(* The caps and the state they are reported as.  i.appGone is the action in force. *)
ComputeDisplay(requested, idle, offIdle, nightActive, appGone, cfg) ==
    LET capNight == IF nightActive THEN NightLevel ELSE FullLevel
        capIdle == IF offIdle \/ (idle /\ nightActive /\ cfg.nightOffWhenIdle) THEN 0
                   ELSE IF idle /\ cfg.idleDim THEN IdleLevel ELSE FullLevel
        capStandby == CASE appGone = "clock" -> ClockLevel
                        [] appGone = "off" -> 0
                        [] OTHER -> FullLevel
        effective == MinOf({requested, capIdle, capNight, capStandby})
    IN  [effective |-> effective,
         state |-> CASE effective = 0 /\ requested > 0 -> "off"
                     [] appGone = "clock" -> "standby"
                     [] capIdle < requested /\ capIdle < capNight -> "dimmed"
                     [] nightActive -> "night"
                     [] OTHER -> "active"]

FeaturesOn(cfg) == cfg.idleDim \/ cfg.offWhenIdle \/ cfg.appGone # "none" \/ cfg.night

-----------------------------------------------------------------------------
(* DockStandby.  `d' is its state together with the panel's: [s |-> standby, p |-> lit]. *)

ActionInForce(s, a) ==
    IF \/ a.cfg.appGone = "none" \/ ~s.attached \/ ~(s.detachedGone \/ s.silent)
       \/ ~s.sessionSeen /\ ~a.pairedBefore
       \/ ~a.graceOver
    THEN "none"
    ELSE IF a.cfg.appGone = "clock" /\ ~a.panel.clock THEN "off" ELSE a.cfg.appGone

Evaluate(s, a) ==
    IF s.held THEN [effective |-> s.requested, state |-> "active"]
    ELSE ComputeDisplay(s.requested, a.idle >= 1, a.cfg.offWhenIdle /\ a.idle >= 2,
                        a.cfg.night /\ a.night, ActionInForce(s, a), a.cfg)

WantStandby(s, a) == ~s.held /\ ActionInForce(s, a) = "clock"

(* The sink: a sleeping panel loses its grid, and what is drawn on it is lost too. *)
Draw(p, what) == IF p.asleep THEN p ELSE [p EXCEPT !.grid = what]
SetSleep(p, on) ==
    [p EXCEPT !.asleep = on, !.grid = IF on THEN "lost" ELSE @]

ExitStandby(d, want) ==
    IF want \/ ~d.s.inStandby THEN d
    ELSE [s |-> [d.s EXCEPT !.inStandby = FALSE, !.painted = FALSE],
          p |-> IF d.s.painted /\ ~d.s.held THEN Draw(d.p, "app") ELSE d.p]

(* Mutant: the light goes up on a panel that was never told to wake. *)
WriteBacklightWithoutWaking(d, a, level, isOff, force) ==
    IF isOff /\ a.panel.sleep /\ a.cfg.offAuto
    THEN [s |-> [d.s EXCEPT !.sleeping = TRUE, !.lastApplied = 0],
          p |-> IF ~d.s.sleeping \/ force THEN SetSleep(d.p, TRUE) ELSE d.p]
    ELSE [s |-> [d.s EXCEPT !.sleeping = FALSE, !.lastApplied = level],
          p |-> [d.p EXCEPT !.level = level]]

WriteBacklight(d, a, level, isOff, force) ==
    LET wantSleep == isOff /\ a.panel.sleep /\ a.cfg.offAuto
        waking == d.s.sleeping /\ ~wantSleep
        awake == IF waking THEN SetSleep(d.p, FALSE) ELSE d.p
    IN  IF wantSleep
        THEN [s |-> [d.s EXCEPT !.sleeping = TRUE, !.lastApplied = 0],
              p |-> IF ~d.s.sleeping \/ force THEN SetSleep(d.p, TRUE) ELSE d.p]
        ELSE IF force \/ waking \/ level # d.s.lastApplied
        THEN [s |-> [d.s EXCEPT !.sleeping = FALSE, !.lastApplied = level],
              p |-> [awake EXCEPT !.level = level]]
        ELSE [d EXCEPT !.p = awake]

GoOff(d, isOff, quiet) ==
    LET falls == isOff /\ ~d.s.off /\ ~quiet
    IN  [s |-> [d.s EXCEPT !.off = isOff, !.wakePending = @ \/ falls],
         p |-> IF falls THEN [d.p EXCEPT !.hook = "sleep"] ELSE d.p]

EnterStandby(d, want) ==
    IF ~want \/ d.s.inStandby THEN d
    ELSE IF d.s.res.state = "off" THEN [d EXCEPT !.s.inStandby = TRUE]
    ELSE [s |-> [d.s EXCEPT !.inStandby = TRUE, !.painted = TRUE], p |-> Draw(d.p, "clock")]

ScheduleWake(d, before) ==
    IF before.off /\ ~d.s.off
    THEN [d EXCEPT !.s.wake = IF before.sleeping THEN "afterSleep" ELSE "repaint"]
    ELSE d

(* An awake panel that never went through the wake path (quiet re-attach) owes the hook. *)
RunPendingWake(d) ==
    IF ~d.s.wakePending \/ d.s.off \/ d.s.wake # "none" THEN d
    ELSE [s |-> [d.s EXCEPT !.wakePending = FALSE], p |-> [d.p EXCEPT !.hook = "wake"]]

(* apply(): frames back before the light goes up, the clock drawn after it went down. *)
Apply(d, a, r, force, quiet) ==
    LET isOff == r.state = "off"
        want == WantStandby(d.s, a)
    IN  ScheduleWake(
            EnterStandby(
                GoOff(WriteBacklight(ExitStandby(d, want), a, r.effective, isOff, force),
                      isOff, quiet),
                want),
            d.s)

Recompute(d, a, force, quiet) ==
    LET r == Evaluate(d.s, a)
        now == [d EXCEPT !.s.res = r]
    IN  IF d.s.attached THEN RunPendingWake(Apply(now, a, r, force, quiet)) ELSE now

ClearGone(s) == [s EXCEPT !.debounce = FALSE, !.detachedGone = FALSE, !.silent = FALSE]

SyncTimers(s, a) ==
    LET ticking == [s EXCEPT !.tick = FeaturesOn(a.cfg)]
    IN  IF a.cfg.appGone = "none" THEN ClearGone(ticking)
        ELSE IF ~a.client /\ ~s.detachedGone THEN [ticking EXCEPT !.debounce = TRUE]
        ELSE ticking

Here == [s |-> standby, p |-> lit]
Becomes(d) == standby' = d.s /\ lit' = d.p

-----------------------------------------------------------------------------
StandbyInit ==
    /\ around \in [cfg : StandbyConfigs, panel : StandbyPanels, client : {FALSE},
                   linkQuiet : {FALSE}, idle : {0}, night : {FALSE}, graceOver : {FALSE},
                   hostSlept : {FALSE}, pairedBefore : {PairedBefore}]
    /\ LET s0 == [requested |-> FullLevel,
                  res |-> [effective |-> FullLevel, state |-> "active"],
                  tick |-> FALSE, debounce |-> FALSE, exit |-> FALSE, wake |-> "none",
                  attached |-> FALSE, sessionSeen |-> FALSE, detachedGone |-> FALSE,
                  silent |-> FALSE, companion |-> FALSE, off |-> FALSE, sleeping |-> FALSE,
                  lastApplied |-> Undefined, inStandby |-> FALSE, painted |-> FALSE,
                  swallowed |-> {}, wakePending |-> FALSE, held |-> FALSE]
       IN  standby = SyncTimers(s0, around)
    /\ lit = [level |-> FullLevel, asleep |-> FALSE, grid |-> "app", hook |-> "none"]
    /\ press = [k \in StandbyKeys |-> [user |-> FALSE, app |-> "up"]]

(* --- the dock's callers ------------------------------------------------- *)

(* setRequested(): an uncapped explicit set is written through. *)
SetRequested(level) ==
    /\ LET s == [standby EXCEPT !.requested = level]
           r == Evaluate(s, around)
       IN  Becomes(Recompute([s |-> s, p |-> lit], around,
                             r.effective = level /\ r.state # "off", FALSE))
    /\ UNCHANGED <<around, press>>

(* The web UI: slider or click-to-press (never swallowed). *)
NoteActivity ==
    /\ around' = [around EXCEPT !.idle = 0]
    /\ Becomes(Recompute(Here, around', FALSE, FALSE))
    /\ UNCHANGED press

(* A new configuration: settings were posted or imported. *)
Reload(cfg) ==
    /\ around' = [around EXCEPT !.idle = 0, !.cfg = cfg]
    /\ Becomes(Recompute([s |-> SyncTimers(standby, around'), p |-> lit], around',
                         FALSE, FALSE))
    /\ UNCHANGED press

AppSees(app, state) ==
    CASE state = "down" -> "down"
      [] app = "down" -> "up"
      [] OTHER -> "released twice"

(* Mutant: the release of a swallowed press goes to the app. *)
NoteInputPassingReleases(k, state) ==
    /\ standby.attached
    /\ press[k].user = (state = "up")
    /\ LET fresh == [around EXCEPT !.idle = 0]
           swallow == /\ state = "down" /\ around.cfg.swallow
                      /\ Evaluate(standby, fresh).effective > Evaluate(standby, around).effective
       IN  /\ around' = fresh
           /\ Becomes(Recompute(Here, fresh, FALSE, FALSE))
           /\ press' = [press EXCEPT
                  ![k] = [user |-> state = "down",
                          app |-> IF swallow THEN @.app ELSE AppSees(@.app, state)]]

(* noteInput() for a key and wireDriver's choke point: what is swallowed is not sent. *)
NoteInput(k, state) ==
    /\ standby.attached
    /\ press[k].user = (state = "up")
    /\ LET isUp == state = "up"
           cleared == IF isUp THEN standby.swallowed ELSE standby.swallowed \ {k}
           before == Evaluate(standby, around).effective
           fresh == [around EXCEPT !.idle = 0]
           waking == ~isUp /\ Evaluate(standby, fresh).effective > before
           swallow == IF isUp THEN k \in cleared
                      ELSE FeaturesOn(around.cfg) /\ waking /\ around.cfg.swallow
           s == [standby EXCEPT !.swallowed = IF isUp THEN cleared \ {k}
                                              ELSE IF swallow THEN cleared \cup {k} ELSE cleared]
       IN  /\ around' = fresh
           /\ Becomes(IF FeaturesOn(around.cfg)
                      THEN Recompute([s |-> s, p |-> lit], fresh, FALSE, FALSE)
                      ELSE [s |-> s, p |-> lit])
           /\ press' = [press EXCEPT
                  ![k] = [user |-> ~isUp,
                          app |-> IF swallow THEN @.app ELSE AppSees(@.app, state)]]

(* The device loses the release of a key (and the app with it). *)
LoseRelease(k) ==
    /\ press[k].user /\ k \in standby.swallowed
    /\ press' = [press EXCEPT ![k].user = FALSE]
    /\ UNCHANGED <<standby, lit, around>>

(* --- the app's session --------------------------------------------------- *)

OnAppAttached ==
    /\ ~around.client
    /\ around' = [around EXCEPT !.client = TRUE, !.linkQuiet = FALSE]
    /\ LET s == ClearGone([standby EXCEPT !.companion = FALSE, !.sessionSeen = TRUE])
       IN  Becomes(Recompute([s |-> s, p |-> lit], around', FALSE, FALSE))
    /\ UNCHANGED press

OnAppDetached ==
    /\ around.client
    /\ TrafficMayRace \/ ~standby.exit
    /\ around' = [around EXCEPT !.client = FALSE, !.linkQuiet = FALSE]
    /\ standby' = [standby EXCEPT !.companion = FALSE,
                                  !.debounce = @ \/ around.cfg.appGone # "none"]
    /\ UNCHANGED <<lit, press>>

(* clientAppDetected: Companion's cadence is unknown, so it is never called silent. *)
OnClientApp(isCompanion) ==
    /\ around.client
    /\ standby' = [standby EXCEPT !.companion = isCompanion]
    /\ UNCHANGED <<lit, around, press>>

(* A CORA frame: drawn (unless the wizard holds the panel), and the app is alive. *)
NoteAppTraffic ==
    /\ around.client
    /\ around' = [around EXCEPT !.linkQuiet = FALSE]
    /\ standby' = [standby EXCEPT !.exit = @ \/ standby.detachedGone \/ standby.silent]
    /\ lit' = IF standby.attached /\ ~standby.held /\ lit.grid = "blank"
              THEN Draw(lit, "app") ELSE lit
    /\ UNCHANGED press

(* --- the device ----------------------------------------------------------- *)

(* Dock.attach(): the level is pushed, splash and frames drawn, then the controller is
   told.  A fresh open is awake, so no hook runs. *)
OnDriverAttached(panel) ==
    /\ ~standby.attached
    /\ around' = [around EXCEPT !.panel = panel, !.idle = 0]
    /\ LET s == [standby EXCEPT !.attached = TRUE, !.off = FALSE, !.sleeping = FALSE,
                                !.lastApplied = standby.requested]
           p == [lit EXCEPT !.level = standby.requested, !.asleep = FALSE, !.grid = "app"]
       IN  Becomes(Recompute([s |-> SyncTimers(s, around'), p |-> p], around', FALSE, TRUE))
    /\ UNCHANGED press

(* Dock.detach(): a wizard session ends with its device. *)
OnDriverDetached ==
    /\ standby.attached
    /\ LET s == [standby EXCEPT !.attached = FALSE, !.sleeping = FALSE,
                                !.lastApplied = Undefined, !.inStandby = FALSE,
                                !.painted = FALSE, !.swallowed = {}, !.wake = "none",
                                !.held = FALSE]
       IN  standby' = [s EXCEPT !.res = Evaluate(s, around)]
    /\ press' = [k \in StandbyKeys |-> [user |-> FALSE, app |-> "up"]]
    /\ UNCHANGED <<lit, around>>

(* Mirabox reinit: the init sequence set the default level and wiped the panel. *)
OnDeviceReinit ==
    /\ standby.attached
    /\ LET p == [lit EXCEPT !.level = FullLevel, !.asleep = FALSE, !.grid = "blank"]
       IN  Becomes(Recompute([s |-> standby, p |-> p], around, TRUE, FALSE))
    /\ UNCHANGED <<around, press>>

(* Dock.setVerifyHold(): hold first, then standby; release repaints first. *)
SetHeld(on) ==
    /\ standby.attached /\ standby.held # on
    /\ LET p == IF on THEN lit ELSE Draw(lit, "app")
       IN  Becomes(Recompute([s |-> [standby EXCEPT !.held = on], p |-> p], around,
                             FALSE, FALSE))
    /\ UNCHANGED <<around, press>>

(* --- the timers ------------------------------------------------------------ *)

(* The tick: a frozen host's return counts as activity, then silence is judged. *)
Tick ==
    /\ standby.tick
    /\ around' = [around EXCEPT !.hostSlept = FALSE, !.idle = IF around.hostSlept THEN 0 ELSE @]
    /\ LET s == [standby EXCEPT !.silent = /\ around.cfg.appGone # "none"
                                           /\ ~standby.companion
                                           /\ around.client /\ around.linkQuiet]
           d == Recompute([s |-> s, p |-> lit], around', around.hostSlept, FALSE)
       IN  Becomes(d)
    /\ UNCHANGED press

(* A minute has passed on the clock: the same tick moves the clock pair. *)
TickPaints ==
    /\ standby.tick /\ standby.painted /\ standby.res.effective > 0
    /\ ~around.hostSlept
    /\ LET s == [standby EXCEPT !.silent = /\ around.cfg.appGone # "none"
                                           /\ ~standby.companion
                                           /\ around.client /\ around.linkQuiet]
           d == Recompute([s |-> s, p |-> lit], around, FALSE, FALSE)
       IN  Becomes(IF d.s.painted /\ d.s.res.effective > 0
                   THEN [d EXCEPT !.p = Draw(d.p, "clock")] ELSE d)
    /\ UNCHANGED <<around, press>>

Debounce ==
    /\ standby.debounce
    /\ LET s == [standby EXCEPT !.debounce = FALSE]
       IN  IF around.client THEN standby' = s /\ lit' = lit
           ELSE Becomes(Recompute([s |-> [s EXCEPT !.detachedGone = TRUE], p |-> lit],
                                  around, FALSE, FALSE))
    /\ UNCHANGED <<around, press>>

DeferredExit ==
    /\ standby.exit
    /\ Becomes(Recompute([s |-> ClearGone([standby EXCEPT !.exit = FALSE]), p |-> lit],
                         around, FALSE, FALSE))
    /\ UNCHANGED <<around, press>>

(* The wake timer: repaint, restart the painter, run the hook. *)
DeferredWake ==
    /\ standby.wake # "none"
    /\ LET afterSleep == standby.wake = "afterSleep"
           framesBack == afterSleep /\ standby.res.state # "standby" /\ ~standby.held
           p1 == IF framesBack THEN Draw(lit, "app") ELSE lit
           p2 == IF standby.inStandby THEN Draw(p1, "clock") ELSE p1
       IN  /\ standby' = [standby EXCEPT !.wake = "none", !.wakePending = FALSE,
                                         !.painted = @ \/ standby.inStandby]
           /\ lit' = [p2 EXCEPT !.hook = "wake"]
    /\ UNCHANGED <<around, press>>

(* --- time and the link ------------------------------------------------------ *)

(* Minutes without input: 1 is idleMinutes, 2 is offMinutes. *)
IdleGrows == around.idle < 2 /\ around' = [around EXCEPT !.idle = @ + 1]
NightTurns == around.cfg.night /\ around' = [around EXCEPT !.night = ~@]
GraceEnds == ~around.graceOver /\ around' = [around EXCEPT !.graceOver = TRUE]
LinkQuiets == around.client /\ ~around.linkQuiet /\ around' = [around EXCEPT !.linkQuiet = TRUE]
HostSleeps == ~around.hostSlept /\ around' = [around EXCEPT !.hostSlept = TRUE, !.idle = 2]

TimePasses ==
    /\ IdleGrows \/ NightTurns \/ GraceEnds \/ LinkQuiets \/ HostSleeps
    /\ UNCHANGED <<standby, lit, press>>

StandbyNext ==
    \/ \E l \in StandbyLevels : SetRequested(l)
    \/ NoteActivity
    \/ \E c \in StandbyConfigs : Reload(c)
    \/ \E k \in StandbyKeys, st \in {"down", "up"} : NoteInput(k, st)
    \/ \E k \in StandbyKeys : LoseRelease(k)
    \/ OnAppAttached \/ OnAppDetached \/ NoteAppTraffic
    \/ \E b \in BOOLEAN : OnClientApp(b)
    \/ \E p \in StandbyPanels : OnDriverAttached(p)
    \/ OnDriverDetached \/ OnDeviceReinit
    \/ \E b \in BOOLEAN : SetHeld(b)
    \/ Tick \/ TickPaints \/ Debounce \/ DeferredExit \/ DeferredWake
    \/ TimePasses

StandbySpec == StandbyInit /\ [][StandbyNext]_standbyVars

-----------------------------------------------------------------------------
(* The attached panel shows the level the controller last computed: the backlight or the
   hardware sleep never disagrees with the status the web UI reads (writeBacklight()). *)
LevelIsTrue ==
    standby.attached =>
        /\ lit.asleep = standby.sleeping
        /\ ~lit.asleep => lit.level = standby.res.effective
        /\ lit.asleep => standby.res.state = "off"

(* With every timer run, the grid of an awake panel is the standby clock exactly while
   standby is on, and a grid that a hardware sleep lost has been drawn again. *)
GridIsRight ==
    standby.attached =>
        /\ lit.grid = "clock" => standby.inStandby \/ standby.held
        /\ ~standby.off /\ standby.wake = "none" =>
               /\ standby.inStandby = standby.painted
               /\ standby.inStandby => lit.grid \in {"clock", "blank", "app"}
               /\ ~standby.held => lit.grid # "lost"

(* A sleep hook is paid back: an attached, awake deck whose wake timer has run owes no
   wake hook, also when the deck was unplugged while off (runPendingWake()). *)
HooksSettled ==
    standby.attached /\ ~standby.off /\ standby.wake = "none" =>
        ~standby.wakePending /\ lit.hook # "sleep"

(* What the panel shows, what the controller believes and what the hooks were told agree
   (DockStandby.apply()). *)
PanelFollowsStandby == LevelIsTrue /\ GridIsRight /\ HooksSettled

(* The app sees whole presses: no release without its press, and no key is left down in
   the app once the user let go, whichever part of the press woke the deck or was
   swallowed, and whatever settings changed in between (noteInput()). *)
PressesStayWhole ==
    \A k \in StandbyKeys :
        /\ press[k].app # "released twice"
        /\ ~press[k].user => press[k].app = "up"

(* While the app is away and an action is configured, the controller knows it or is about
   to: the debounce is running (syncTimers(), onAppDetached()). *)
AbsenceNoticed ==
    ~around.client /\ around.cfg.appGone # "none" => standby.detachedGone \/ standby.debounce

(* The user and the app see one deck: its panel is where the controller believes it is, and
   a press wakes it or reaches the app, never half of each. *)
StandbyIsFaithful == PanelFollowsStandby /\ PressesStayWhole
=============================================================================
