---------------------------- MODULE ElgatoRestart ----------------------------
(***************************************************************************)
(* The grace period that restarts the vendor's desktop app for docks it    *)
(* has paired with before (main/elgato-auto-restart.ts), over the one      *)
(* control of that app (infra/elgato-app.ts) it shares with the button and *)
(* the tray item (web/server/elgato-app-controller.ts).                    *)
(*                                                                         *)
(* A round is one grace period.  `checks' are the rounds whose app-running *)
(* question is open, `ends' the expired rounds that are still waiting for  *)
(* an answer or for the restart they asked for.                            *)
(***************************************************************************)
EXTENDS Integers, FiniteSets

CONSTANTS
  PairedDocks,        \* indices of docks that passed wasPaired
  ConnectsOverlap,    \* a dock may connect while an expired round asks if the app runs
  MaxRounds,          \* bound: grace periods
  MaxAppEvents        \* bound: steps of the user, of the app's own and manual restarts

VARIABLES
  auto,      \* ElgatoAutoRestart
  control,   \* ElgatoAppControl: the restart under way, launchesCancelled
  elgato,    \* the app: running, asked to quit, taken down by us
  attachedTo \* docks whose child client is attached now

restartVars == <<auto, control, elgato, attachedTo>>

NoRound == 0

RestartInit ==
  /\ auto = [fired |-> FALSE, timer |-> NoRound, round |-> 0, confirmed |-> FALSE,
             docks |-> {}, checks |-> {}, ends |-> {}, published |-> {},
             restarts |-> 0, disposed |-> FALSE]
  /\ control = [phase |-> "idle", cancelled |-> FALSE, manual |-> "no", gaveUp |-> FALSE]
  /\ elgato \in [up : BOOLEAN, told : {FALSE}, byUs : {FALSE}, events : {0}]
  /\ attachedTo = {}

\* isRunning(): a probe that fails to start counts as not running
Answers == {elgato.up, FALSE}

-----------------------------------------------------------------------------
(* The grace period.                                                       *)

\* finally of the timer: an expired round releases the controls unless a newer
\* round counts down
Released(a) == IF a.timer = NoRound THEN [a EXCEPT !.published = {}] ELSE a

OnDockConnected(d) ==
  /\ ~auto.fired /\ ~auto.disposed
  /\ ConnectsOverlap \/ \A e \in auto.ends : e.at # "checking"
  /\ IF auto.timer # NoRound
       THEN auto' = [auto EXCEPT !.docks = @ \cup {d},
                                 !.published = IF auto.confirmed THEN auto.docks \cup {d} ELSE @]
       ELSE /\ auto.round < MaxRounds
            /\ auto' = [auto EXCEPT !.docks = {d}, !.timer = auto.round + 1,
                                    !.round = @ + 1, !.confirmed = FALSE,
                                    !.checks = @ \cup {auto.round + 1}]
  /\ UNCHANGED <<control, elgato, attachedTo>>

\* a stale answer, of a round that is over, changes nothing
ConfirmAppRunning(r) ==
  /\ \E running \in Answers :
       LET a == [auto EXCEPT !.checks = @ \ {r}]
       IN  auto' = IF r # auto.round \/ auto.timer = NoRound THEN a
                   ELSE IF running THEN [a EXCEPT !.confirmed = TRUE, !.published = auto.docks]
                   ELSE [a EXCEPT !.timer = NoRound, !.docks = {}]
  /\ UNCHANGED <<control, elgato, attachedTo>>

\* the timer fires: skip when every dock attached by itself or the app holds the
\* USB deck, else ask whether the app runs
OnGraceElapsed ==
  /\ auto.timer # NoRound
  /\ \E conflict \in BOOLEAN :
       LET a == [auto EXCEPT !.timer = NoRound]
       IN  auto' = IF auto.docks \subseteq attachedTo \/ conflict THEN Released(a)
                   ELSE [a EXCEPT !.ends = @ \cup {[round |-> auto.timer, at |-> "checking"]}]
  /\ UNCHANGED <<control, elgato, attachedTo>>

\* Mutant: a second call starts over, and finds the app it took down not running
SharedRestartAnew(c) == [c EXCEPT !.phase = "asked"]

\* restart(): a call while one is under way shares it
SharedRestart(c) == IF c.phase # "idle" THEN c ELSE [c EXCEPT !.phase = "asked"]

GraceChecked(e) ==
  /\ e.at = "checking"
  /\ \E running \in Answers :
       LET a == [auto EXCEPT !.ends = @ \ {e}]
       IN  IF ~running THEN auto' = Released(a) /\ UNCHANGED control
           ELSE /\ auto' = [a EXCEPT !.fired = TRUE, !.restarts = @ + 1,
                                     !.ends = @ \cup {[e EXCEPT !.at = "restarting"]}]
                /\ control' = SharedRestart(control)
  /\ UNCHANGED <<elgato, attachedTo>>

\* shutdown: dispose, then cancelLaunches
DisposeRestart ==
  /\ ~auto.disposed
  /\ auto' = [auto EXCEPT !.timer = NoRound, !.published = {}, !.disposed = TRUE]
  /\ control' = [control EXCEPT !.cancelled = TRUE]
  /\ UNCHANGED <<elgato, attachedTo>>

-----------------------------------------------------------------------------
(* doRestart.  Whoever waits for it hears of its end.                      *)

Restarted(gaveUp) ==
  /\ control' = [control EXCEPT !.phase = "idle", !.gaveUp = @ \/ gaveUp,
                                !.manual = IF @ = "waiting" THEN "no" ELSE @]
  /\ auto' = LET a == [auto EXCEPT !.ends = {e \in @ : e.at # "restarting"}]
             IN  IF a.ends = auto.ends THEN auto ELSE Released(a)

RestartAsked ==
  /\ control.phase = "asked"
  /\ \E running \in Answers :
       IF running
         THEN /\ control' = [control EXCEPT !.phase = "quitting", !.gaveUp = FALSE]
              /\ elgato' = [elgato EXCEPT !.told = TRUE]
              /\ UNCHANGED auto
         ELSE Restarted(FALSE) /\ UNCHANGED elgato
  /\ UNCHANGED attachedTo

\* pollUntil(not running): after the deeplink, then after the kill; a probe that
\* fails to start reads as the app's end too
SeenDead ==
  /\ control.phase \in {"quitting", "killing"}
  /\ control' = [control EXCEPT !.phase = "cooling", !.gaveUp = elgato.up]
  /\ UNCHANGED <<auto, elgato, attachedTo>>

QuitTimesOut ==
  /\ control.phase \in {"quitting", "killing"} /\ elgato.up
  /\ IF control.phase = "quitting"
       THEN control' = [control EXCEPT !.phase = "killing"] /\ UNCHANGED auto
       ELSE Restarted(TRUE)
  /\ UNCHANGED <<elgato, attachedTo>>

\* the relaunch delay is over
Cooled ==
  /\ control.phase = "cooling"
  /\ IF control.cancelled THEN Restarted(FALSE)
     ELSE control' = [control EXCEPT !.phase = "launching"] /\ UNCHANGED auto
  /\ UNCHANGED <<elgato, attachedTo>>

\* a process that is still there keeps the quit it was sent
AppUp == [elgato EXCEPT !.up = TRUE, !.told = @ /\ elgato.up, !.byUs = FALSE]

\* the app is seen running, or never appears
LaunchVerified ==
  /\ control.phase = "launching"
  /\ \/ elgato' = AppUp /\ Restarted(FALSE)
     \/ UNCHANGED elgato /\ Restarted(TRUE)
  /\ UNCHANGED attachedTo

-----------------------------------------------------------------------------
(* restartNow: restart the app if it runs, launch it otherwise.            *)

RestartNow ==
  /\ control.manual = "no" /\ elgato.events < MaxAppEvents
  /\ control' = [control EXCEPT !.manual = "asked"]
  /\ elgato' = [elgato EXCEPT !.events = @ + 1]
  /\ UNCHANGED <<auto, attachedTo>>

RestartNowChecked ==
  /\ control.manual = "asked"
  /\ \E running \in Answers :
       control' = IF running THEN [SharedRestart(control) EXCEPT !.manual = "waiting"]
                  ELSE [control EXCEPT !.manual = IF control.cancelled THEN "no" ELSE "launching"]
  /\ UNCHANGED <<auto, elgato, attachedTo>>

RestartNowLaunched ==
  /\ control.manual = "launching"
  /\ control' = [control EXCEPT !.manual = "no"]
  /\ elgato' \in {elgato, AppUp}
  /\ UNCHANGED <<auto, attachedTo>>

-----------------------------------------------------------------------------
(* The app and its user.                                                   *)

AppQuits ==
  /\ elgato.told /\ elgato.up
  /\ elgato' = [elgato EXCEPT !.up = FALSE, !.told = FALSE, !.byUs = TRUE]
  /\ attachedTo' = {}
  /\ UNCHANGED <<auto, control>>

UserTogglesApp ==
  /\ elgato.events < MaxAppEvents
  /\ elgato' = [IF elgato.up THEN [elgato EXCEPT !.up = FALSE, !.told = FALSE] ELSE AppUp
                EXCEPT !.events = @ + 1]
  /\ attachedTo' = IF elgato.up THEN {} ELSE attachedTo
  /\ UNCHANGED <<auto, control>>

\* onElgatoAttached leaves the timer alone: an attach may drop a moment later
AttachToggles(d) ==
  /\ elgato.up
  /\ attachedTo' = IF d \in attachedTo THEN attachedTo \ {d} ELSE attachedTo \cup {d}
  /\ UNCHANGED <<auto, control, elgato>>

RestartNext ==
  \/ \E d \in PairedDocks : OnDockConnected(d) \/ AttachToggles(d)
  \/ \E r \in auto.checks : ConfirmAppRunning(r)
  \/ OnGraceElapsed
  \/ \E e \in auto.ends : GraceChecked(e)
  \/ DisposeRestart
  \/ RestartAsked \/ SeenDead \/ QuitTimesOut \/ Cooled \/ LaunchVerified
  \/ RestartNow \/ RestartNowChecked \/ RestartNowLaunched
  \/ AppQuits \/ UserTogglesApp

RestartSpec == RestartInit /\ [][RestartNext]_restartVars

-----------------------------------------------------------------------------
\* The header's promise: the app is restarted by the grace period at most once
\* per process.
RestartsOnce == auto.restarts <= 1

\* An app that a restart took down is up again when no restart is under way, unless
\* DeckBridge is quitting, or the last restart gave up or took a failed probe for
\* the app's end.
AppComesBack ==
  (elgato.byUs /\ ~elgato.up /\ control.phase = "idle") => control.cancelled \/ control.gaveUp
=============================================================================
