------------------------------ MODULE DockInput ------------------------------
(***************************************************************************)
(* What the app sees of a dock's keys, and whose brightness the dock keeps *)
(* (main/dock.ts, main/dock-status.ts, cora/child-server.ts,               *)
(* cora/child-payload.ts, cora/plus-reports.ts, infra/settings.ts).        *)
(*                                                                         *)
(* A key has two sources: the finger on the unit, whose press standby may  *)
(* swallow, and a click in the web UI, released by a timer.  The child     *)
(* server keeps one state per key of the advertised grid and sends all of  *)
(* them with each change, to whichever app session is open.  A dock's      *)
(* brightness comes from the user, from the app unless the user ignores    *)
(* it, and from settings.json, which follows the status of attached docks; *)
(* dock 0 changes its unit and keeps its brightness variable.              *)
(***************************************************************************)
EXTENDS Integers, FiniteSets

CONSTANTS
    InUnits,       \* USB units
    GridOf,        \* unit -> its advertised keys, a set
    DefaultGrid,   \* keys advertised without a unit
    Knobs,         \* knobs a unit's driver may report
    KnobsOf,       \* unit -> advertised encoders, a set
    InLevels,      \* brightness levels
    FactoryLevel,  \* DEFAULT_BRIGHTNESS
    Nobody,        \* no unit, no saved level
    MaxInActs      \* bound: presses, clicks, sessions, plugs and levels

ASSUME InputAssumption ==
    /\ Nobody \notin InUnits \cup InLevels
    /\ FactoryLevel \in InLevels

VARIABLES
    seat,      \* the attached unit, the unit whose identity the dock has, stopped
    hands,      \* fingers on keys, presses standby swallowed, pending clicks, deck asleep
    child,      \* the child server: app connected, keyStates, advertised keys and knobs
    app,        \* what the app knows of this session: keys down, knob presses seen
    lum,        \* requested level, saved levels, override per unit, resend timer armed
    witness,    \* history: ups lost with a unit, clicks on held keys, own level of each unit
    inActs      \* bounded

inVars == <<seat, hands, child, app, lum, witness, inActs>>

AnyKey == DefaultGrid \cup UNION {GridOf[u] : u \in InUnits}
Silent == [down |-> {}, knobs |-> {}]
NothingSeen == [lost |-> {}, mixed |-> {}, here |-> {}, own |-> [u \in InUnits |-> Nobody]]

InInit ==
    /\ seat = [unit |-> Nobody, owner |-> Nobody, stopped |-> FALSE]
    /\ hands = [fingers |-> {}, swallowed |-> {}, clicks |-> {}, asleep |-> FALSE]
    /\ child = [open |-> FALSE, states |-> {}, keys |-> DefaultGrid, knobs |-> {}]
    /\ app = Silent
    /\ lum = [level |-> FactoryLevel, saved |-> [u \in InUnits |-> Nobody],
              ignore |-> [u \in InUnits |-> TRUE], resend |-> FALSE]
    /\ witness = NothingSeen
    /\ inActs = 0

InAct == inActs < MaxInActs /\ inActs' = inActs + 1

(***************************************************************************)
(* ElgatoChildServer                                                       *)
(***************************************************************************)
\* sendKeyEvent: outside the grid or without an app the event is dropped, else every state is sent
KeyStatesAfter(k, down) ==
    IF k \notin child.keys \/ ~child.open THEN child.states
    ELSE IF down THEN child.states \cup {k} ELSE child.states \ {k}

SendKeyEvent(k, down) ==
    /\ child' = [child EXCEPT !.states = KeyStatesAfter(k, down)]
    /\ app' = IF k \in child.keys /\ child.open
              THEN [app EXCEPT !.down = KeyStatesAfter(k, down)] ELSE app

\* setChildGeometry: the states of the keys both grids have stay; the app, told of the new
\* grid by the capabilities, forgets the keys it lacks
SetChildGeometry(keys, knobs) ==
    /\ child' = [child EXCEPT !.keys = keys, !.knobs = knobs, !.states = @ \cap keys]
    /\ app' = [app EXCEPT !.down = @ \cap keys]

(***************************************************************************)
(* The requested brightness and settings.json                              *)
(***************************************************************************)
\* changed() -> notifyDocks -> syncDockBrightness: the status of attached docks is saved
Saved(l, unit) == IF unit = Nobody THEN l ELSE [l EXCEPT !.saved[unit] = l.level]

\* setRequestedBrightness; own notes whose level it was
Requested(level) ==
    /\ lum' = Saved([lum EXCEPT !.level = level], seat.unit)
    /\ witness' = IF seat.unit = Nobody THEN witness ELSE [witness EXCEPT !.own[seat.unit] = level]

\* seed: the saved level of the identity; without one the dock's level stays
SeededLevel(u) == IF lum.saved[u] # Nobody THEN lum.saved[u] ELSE lum.level

(***************************************************************************)
(* Units                                                                   *)
(***************************************************************************)
\* resolveIdentity, setModel, attach: the splash and the frames are modelled in DockImages
AttachUnit(u) ==
    /\ ~seat.stopped /\ seat.unit = Nobody /\ InAct
    /\ seat' = [seat EXCEPT !.unit = u, !.owner = u]
    /\ SetChildGeometry(GridOf[u], KnobsOf[u])
    /\ hands' = [hands EXCEPT !.asleep = FALSE]
    /\ lum' = Saved([lum EXCEPT !.level = SeededLevel(u)], u)
    /\ witness' = [witness EXCEPT !.own[u] = SeededLevel(u)]

\* onPrimaryDisconnect: detach, then the default model; nobody releases the keys
DetachUnit ==
    /\ seat.unit # Nobody /\ InAct
    /\ seat' = [seat EXCEPT !.unit = Nobody]
    /\ SetChildGeometry(DefaultGrid, {})
    /\ hands' = [hands EXCEPT !.fingers = {}, !.swallowed = {}]
    /\ witness' = [witness EXCEPT !.lost = @ \cup hands.fingers, !.here = {}]
    /\ UNCHANGED lum

\* runStop: timers and clicks are dropped, the servers go with their clients
StopInput ==
    /\ ~seat.stopped
    /\ seat' = [seat EXCEPT !.unit = Nobody, !.stopped = TRUE]
    /\ hands' = [hands EXCEPT !.fingers = {}, !.swallowed = {}, !.clicks = {}]
    /\ child' = [child EXCEPT !.open = FALSE]
    /\ app' = Silent
    /\ lum' = [lum EXCEPT !.resend = FALSE]
    /\ witness' = [witness EXCEPT !.here = {}]
    /\ UNCHANGED inActs

(***************************************************************************)
(* Fingers and clicks                                                      *)
(***************************************************************************)
\* onKey 'down' without dropping the pending click
FingerDownKeepingClick(k) ==
    /\ seat.unit # Nobody /\ k \in GridOf[seat.unit] \ hands.fingers /\ InAct
    /\ hands' = [hands EXCEPT !.fingers = @ \cup {k}, !.swallowed = @ \ {k}]
    /\ SendKeyEvent(k, TRUE)
    /\ witness' = [witness EXCEPT !.lost = @ \ {k}, !.mixed = @ \ {k},
                    !.here = IF child.open THEN @ \cup {k} ELSE @ \ {k}]
    /\ UNCHANGED <<seat, lum>>

\* onKey 'down': a pending click of this key is dropped; standby swallows a waking press
FingerDown(k) ==
    /\ seat.unit # Nobody /\ k \in GridOf[seat.unit] \ hands.fingers /\ InAct
    /\ LET swallow == hands.asleep
       IN  /\ hands' = [fingers |-> hands.fingers \cup {k}, clicks |-> hands.clicks \ {k},
                        swallowed |-> IF swallow THEN hands.swallowed \cup {k}
                                      ELSE hands.swallowed \ {k},
                        asleep |-> FALSE]
           /\ IF swallow THEN UNCHANGED <<child, app>> ELSE SendKeyEvent(k, TRUE)
           /\ witness' = IF swallow THEN [witness EXCEPT !.here = @ \ {k}]
                       ELSE [witness EXCEPT !.lost = @ \ {k}, !.mixed = @ \ {k},
                               !.here = IF child.open THEN @ \cup {k} ELSE @ \ {k}]
    /\ UNCHANGED <<seat, lum>>

\* onKey 'up': it follows the fate of its down
FingerUp(k) ==
    /\ k \in hands.fingers
    /\ hands' = [hands EXCEPT !.fingers = @ \ {k}, !.clicks = @ \ {k}, !.swallowed = @ \ {k}]
    /\ IF k \in hands.swallowed THEN UNCHANGED <<child, app>> ELSE SendKeyEvent(k, FALSE)
    /\ witness' = [witness EXCEPT !.here = @ \ {k}]
    /\ UNCHANGED <<seat, lum, inActs>>

\* simulateKeyPress: one pending click per key; it counts as activity
Click(k) ==
    /\ ~seat.stopped /\ InAct
    /\ k \in (IF seat.unit = Nobody THEN DefaultGrid ELSE GridOf[seat.unit]) \ hands.clicks
    /\ hands' = [hands EXCEPT !.clicks = @ \cup {k}, !.asleep = FALSE]
    /\ SendKeyEvent(k, TRUE)
    /\ witness' = IF k \in hands.fingers THEN [witness EXCEPT !.mixed = @ \cup {k}]
                ELSE [witness EXCEPT !.lost = @ \ {k}]
    /\ UNCHANGED <<seat, lum>>

ClickTimer(k) ==
    /\ k \in hands.clicks
    /\ hands' = [hands EXCEPT !.clicks = @ \ {k}]
    /\ SendKeyEvent(k, FALSE)
    /\ UNCHANGED <<seat, lum, witness, inActs>>

\* onDial press: the driver reports down and up; unadvertised knobs are dropped (sendDial)
DialPress(d) ==
    /\ seat.unit # Nobody /\ InAct
    /\ hands' = [hands EXCEPT !.asleep = FALSE]
    /\ app' = IF ~hands.asleep /\ child.open /\ d \in child.knobs
              THEN [app EXCEPT !.knobs = @ \cup {d}] ELSE app
    /\ UNCHANGED <<seat, child, lum, witness>>

\* standby dims or turns the panel off (modelled in Standby); swallowing is on
FallsAsleep ==
    /\ seat.unit # Nobody /\ ~hands.asleep /\ hands.clicks = {} /\ InAct
    /\ hands' = [hands EXCEPT !.asleep = TRUE]
    /\ UNCHANGED <<seat, child, app, lum, witness>>

(***************************************************************************)
(* The app                                                                 *)
(***************************************************************************)
\* onClientConnected and onElgatoAttached: fresh states, the brightness goes out again in a second
AppJoins ==
    /\ ~seat.stopped /\ ~child.open /\ InAct
    /\ child' = [child EXCEPT !.open = TRUE, !.states = {}]
    /\ app' = Silent
    /\ lum' = Saved([lum EXCEPT !.resend = TRUE], seat.unit)
    /\ witness' = [witness EXCEPT !.lost = {}, !.mixed = {}, !.here = {}]
    /\ UNCHANGED <<seat, hands>>

AppQuits ==
    /\ child.open /\ InAct
    /\ child' = [child EXCEPT !.open = FALSE]
    /\ app' = Silent
    /\ witness' = [witness EXCEPT !.here = {}]
    /\ UNCHANGED <<seat, hands, lum>>

\* handleSendReport, parseChildBrightness, onAppBrightness: DockPrefs.brightnessOverride wins
AppBrightness(level) ==
    /\ child.open /\ InAct
    /\ seat.owner # Nobody /\ ~lum.ignore[seat.owner]
    /\ Requested(level)
    /\ UNCHANGED <<seat, hands, child, app>>

UserBrightness(level) ==
    /\ ~seat.stopped /\ InAct
    /\ Requested(level)
    /\ hands' = [hands EXCEPT !.asleep = FALSE]
    /\ UNCHANGED <<seat, child, app>>

\* setBrightnessOverride of the selected dock; switching it on asserts the dock's level again
UserIgnoresApp ==
    /\ seat.unit # Nobody /\ InAct
    /\ LET toggled == [lum EXCEPT !.ignore[seat.unit] = ~@]
       IN  IF toggled.ignore[seat.unit]
           THEN /\ lum' = Saved(toggled, seat.unit)
                /\ hands' = [hands EXCEPT !.asleep = FALSE]
           ELSE lum' = toggled /\ UNCHANGED hands
    /\ UNCHANGED <<seat, child, app, witness>>

\* scheduleBrightnessResend: the saved level of the unit the dock has when the timer fires
ResendTimer ==
    /\ lum.resend
    /\ LET l == IF seat.owner # Nobody /\ lum.saved[seat.owner] # Nobody
                THEN lum.saved[seat.owner] ELSE lum.level
       IN  /\ lum' = Saved([lum EXCEPT !.resend = FALSE, !.level = l], seat.unit)
           /\ UNCHANGED <<seat, hands, child, app, witness, inActs>>

InNext ==
    \/ \E u \in InUnits : AttachUnit(u)
    \/ DetachUnit \/ StopInput \/ UserIgnoresApp \/ FallsAsleep \/ AppJoins \/ AppQuits \/ ResendTimer
    \/ \E k \in AnyKey : FingerDown(k) \/ FingerUp(k) \/ Click(k) \/ ClickTimer(k)
    \/ \E d \in Knobs : DialPress(d)
    \/ \E l \in InLevels : AppBrightness(l) \/ UserBrightness(l)

InSpec == InInit /\ [][InNext]_inVars

(***************************************************************************)
(* Properties                                                              *)
(***************************************************************************)
\* The app sees a key of the grid down only while a finger or a pending click holds it, through
\* sessions, grids of other sizes, swallowed waking presses and clicks that cross a real press.
\* Left out are a key held when its unit went away (nobody sends its up) and a click on a key
\* a finger holds (simulateKeyPress, onKey).
NoKeyStuck ==
    app.down \cap child.keys \subseteq hands.fingers \cup hands.clicks \cup witness.lost \cup witness.mixed

\* A key pressed in this session and not swallowed stays down in the app until the finger
\* lifts: the release of an earlier click never ends it (wireDriver's onKey drops it).
HeldStaysDown == witness.here \ witness.mixed \subseteq app.down

\* settings.json keeps for each unit the level last requested while that unit was attached, in
\* whatever order units swap, apps pair and the re-push timer fires (syncDockBrightness, seed).
EachKeepsItsLevel ==
    \A u \in InUnits : lum.saved[u] = witness.own[u]

InputIsFaithful == NoKeyStuck /\ HeldStaysDown /\ EachKeepsItsLevel
=============================================================================
