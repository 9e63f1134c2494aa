----------------------------- MODULE DockImages -----------------------------
(***************************************************************************)
(* What one dock puts on its panel (main/dock.ts, main/dock-frames.ts).    *)
(* Three producers share the panel: the Elgato app (CORA key images), the  *)
(* dock itself (splash icons, widgets) and the verify wizard.  The dock    *)
(* records the app's last frames because the app never sends an image      *)
(* twice within a session: the dock must put it back after a replug, after *)
(* an overload, after a wizard session and after a tuning change.          *)
(*                                                                         *)
(* The driver is the contract that HidWorkerHost establishes: a FIFO with  *)
(* room for Capacity images, which refuses CORA images from an overload to *)
(* the app's next session and local images until it has drained.  (That    *)
(* coalescing does not show on the panel is HidWorkQueueSystem's           *)
(* CoalescingIsInvisible.)  An attach, a drain or the end of a wizard      *)
(* session renders a burst of images in one step of the main thread.       *)
(***************************************************************************)
EXTENDS Integers, Sequences, FiniteSets, SequencesExt

CONSTANTS
    Keys,            \* the keys the app draws on
    SplashKeys,      \* the ones the splash covers
    WidgetKey,       \* an extra key that shows a widget
    Models,          \* device models that may be plugged in
    NoModel,
    Capacity,        \* images the driver admits at a time
    ControlReserve,  \* further control messages it admits
    MaxDraws, MaxWidgetChanges, MaxPlugs, MaxHolds, MaxSessions,   \* bounds
    SendsUnplugged   \* may the app send images while no device is attached?

(* The budget a repaint burst and one session's images need together. *)
ASSUME ImagesAssumption ==
    /\ IsFiniteSet(Keys) /\ SplashKeys \subseteq Keys /\ WidgetKey \notin Keys
    /\ NoModel \notin Models
    /\ Capacity \in Nat
    /\ Capacity >= Cardinality(SplashKeys) + 2 * Cardinality(Keys) + 1
    /\ ControlReserve \in Nat

VARIABLES
    model,         \* model of the attached driver, NoModel when detached
    pipe,          \* images and clears the driver has admitted, not yet on the panel
    coraSuspended, localSuspended,
    panel,         \* key -> what the device shows
    frames,        \* LastFrames.frames: key -> the last image of the app
    framesModel,   \* LastFrames.modelId
    verifyKeys,    \* LastFrames.verifyKeys, as a set
    held,          \*   ... which is not null
    widgetWant, widgetCache,  \* the widget's content, and the content last painted
    client,        \* the CORA child's client
    want,          \* key -> the image the app shows on it
    unsent,        \* keys whose image the app has yet to send in this session
    draws, plugs, holds, sessions   \* how often the bounded actions happened

driverVars == <<pipe, coraSuspended, localSuspended>>
frameVars == <<frames, framesModel, verifyKeys, held>>
widgetVars == <<widgetWant, widgetCache>>
appVars == <<want, unsent>>
bounds == <<draws, plugs, holds, sessions>>
vars == <<model, driverVars, panel, frameVars, widgetVars, client, appVars, bounds>>

AllKeys == Keys \cup {WidgetKey}

(* An image: the app's (version v, rendered for model m), the widget's (version v) or
   one of the fixed ones. *)
AppImage(v, m) == [what |-> "app", version |-> v, on |-> m]
WidgetImage(v) == [what |-> "widget", version |-> v, on |-> NoModel]
Fixed(what) == [what |-> what, version |-> 0, on |-> NoModel]
Blank == Fixed("blank")
Pattern == Fixed("pattern")

Init ==
    /\ model = NoModel /\ pipe = << >> /\ coraSuspended = FALSE /\ localSuspended = FALSE
    /\ panel = [k \in AllKeys |-> Blank]
    /\ frames = << >> /\ framesModel = NoModel /\ verifyKeys = {} /\ held = FALSE
    /\ widgetWant = 0 /\ widgetCache = -1
    /\ client = "none" /\ want = [k \in Keys |-> 0] /\ unsent = {}
    /\ draws = 0 /\ plugs = 0 /\ holds = 0 /\ sessions = 0

-----------------------------------------------------------------------------
(* The driver.  Its state during a burst is a record [pipe, cora, local]. *)

Cora(k, img) == [key |-> k, img |-> img, kind |-> "cora"]
Local(k, img) == [key |-> k, img |-> img, kind |-> "local"]
ClearKey(k) == [key |-> k, img |-> Blank, kind |-> "control"]

Driver == [pipe |-> pipe, cora |-> coraSuspended, local |-> localSuspended]
FreshDriver == [pipe |-> << >>, cora |-> FALSE, local |-> FALSE]

(* submit(): refused while suspended, admitted while there is room, else an overload. *)
Render(d, p) ==
    CASE p.kind = "cora" /\ d.cora -> d
      [] p.kind = "local" /\ d.local -> d
      [] OTHER ->
           IF Len(d.pipe) < Capacity + (IF p.kind = "control" THEN ControlReserve ELSE 0)
           THEN [d EXCEPT !.pipe = Append(@, p)]
           ELSE [d EXCEPT !.local = TRUE, !.cora = @ \/ p.kind # "local"]

RenderAll(d, burst) == FoldLeft(Render, d, burst)

(* The driver becomes d.  The first CORA overload drops the app's session. *)
DriverIs(d) ==
    /\ pipe' = d.pipe /\ coraSuspended' = d.cora /\ localSuspended' = d.local
    /\ client' = IF d.cora /\ ~coraSuspended /\ client = "up" THEN "dropping" ELSE client

-----------------------------------------------------------------------------
(* Bursts. *)

Splash == LET s == SetToSeq(SplashKeys) IN [i \in DOMAIN s |-> Local(s[i], Fixed("splash"))]
Widgets == << Local(WidgetKey, WidgetImage(widgetWant)) >>
Frames == LET s == SetToSeq(DOMAIN frames) IN [i \in DOMAIN s |-> Cora(s[i], frames[s[i]])]

(* LastFrames.replay() and repaint(): nothing is drawn during a wizard session. *)
Replay == IF held THEN << >> ELSE Frames

(* LastFrames.release(): blank the keys only the wizard drew on; without any app frame
   bring the splash back; repaint the frames. *)
Release(repaint) ==
    LET orphaned == SetToSeq(verifyKeys \ DOMAIN frames)
    IN  [i \in DOMAIN orphaned |-> ClearKey(orphaned[i])]
          \o (IF frames = << >> THEN Splash ELSE << >>)
          \o (IF repaint THEN Frames ELSE << >>)

-----------------------------------------------------------------------------
(* The device comes and goes. *)

(* Dock.attach() of a freshly opened driver: splash, the last frames if the same model
   came back (otherwise they are forgotten), widgets.  A model other than the one the
   app knew is a new device to the app, which sends all its images. *)
Plug(m) ==
    /\ model = NoModel /\ plugs < MaxPlugs
    /\ model' = m /\ plugs' = plugs + 1
    /\ framesModel' = m
    /\ IF framesModel = m
       THEN /\ DriverIs(RenderAll(FreshDriver, Splash \o Replay \o Widgets))
            /\ UNCHANGED <<frames, unsent>>
       ELSE /\ DriverIs(RenderAll(FreshDriver, Splash \o Widgets))
            /\ frames' = << >>
            /\ unsent' = IF client = "none" THEN {} ELSE Keys
    /\ widgetCache' = widgetWant
    /\ panel' = [k \in AllKeys |-> Blank]
    /\ UNCHANGED <<verifyKeys, held, widgetWant, want, draws, holds, sessions>>

(* 'disconnect' and Dock.detach(): the frames survive, a wizard session ends. *)
Unplug ==
    /\ model # NoModel
    /\ model' = NoModel
    /\ pipe' = << >> /\ coraSuspended' = FALSE /\ localSuspended' = FALSE
    /\ held' = FALSE /\ verifyKeys' = {}
    /\ UNCHANGED <<panel, frames, framesModel, widgetVars, client, appVars, bounds>>

(* The worker writes the next image and acknowledges it.  When that empties a suspended
   driver, 'imagesDrained' repaints everything (Dock.onImagesDrained). *)
Paints ==
    /\ model # NoModel /\ pipe # << >>
    /\ panel' = [panel EXCEPT ![Head(pipe).key] = Head(pipe).img]
    /\ IF Len(pipe) = 1 /\ localSuspended
       THEN /\ DriverIs(RenderAll([Driver EXCEPT !.pipe = << >>, !.local = FALSE],
                                  Splash \o Replay \o Widgets))
            /\ widgetCache' = widgetWant
       ELSE /\ DriverIs([Driver EXCEPT !.pipe = Tail(@)])
            /\ UNCHANGED widgetCache
    /\ UNCHANGED <<model, frameVars, widgetWant, appVars, bounds>>

-----------------------------------------------------------------------------
(* The app. *)

(* The image of a key changes; the app will send it if it is connected. *)
AppDraws(k) ==
    /\ draws < MaxDraws /\ draws' = draws + 1
    /\ want' = [want EXCEPT ![k] = @ + 1]
    /\ unsent' = IF client = "none" THEN {} ELSE unsent \cup {k}
    /\ UNCHANGED <<model, driverVars, panel, frameVars, widgetVars, client, plugs, holds, sessions>>

AppSendsUnrecorded(k) ==
    /\ k \in unsent /\ (model # NoModel \/ SendsUnplugged)
    /\ unsent' = unsent \ {k}
    /\ IF model # NoModel /\ ~held
       THEN DriverIs(Render(Driver, Cora(k, AppImage(want[k], model))))
       ELSE UNCHANGED <<driverVars, client>>
    /\ frames' = IF model = NoModel \/ held THEN frames
                 ELSE [j \in DOMAIN frames \cup {k} |->
                         IF j = k THEN AppImage(want[k], model) ELSE frames[j]]
    /\ UNCHANGED <<model, panel, framesModel, verifyKeys, held, widgetVars, want, bounds>>

(* The 'image' handler of wireDockImages(): render it unless a wizard session holds the
   panel; record it if a device is attached. *)
AppSends(k) ==
    /\ k \in unsent /\ (model # NoModel \/ SendsUnplugged)
    /\ unsent' = unsent \ {k}
    /\ IF model # NoModel /\ ~held
       THEN DriverIs(Render(Driver, Cora(k, AppImage(want[k], model))))
       ELSE UNCHANGED <<driverVars, client>>
    /\ frames' = IF model = NoModel THEN frames
                 ELSE [j \in DOMAIN frames \cup {k} |->
                         IF j = k THEN AppImage(want[k], model) ELSE frames[j]]
    /\ UNCHANGED <<model, panel, framesModel, verifyKeys, held, widgetVars, want, bounds>>

(* A new CORA session: the app sends every image; resumeImages(). *)
ClientConnects ==
    /\ client = "none" /\ sessions < MaxSessions
    /\ sessions' = sessions + 1
    /\ client' = "up" /\ unsent' = Keys /\ coraSuspended' = FALSE
    /\ UNCHANGED <<model, pipe, localSuspended, panel, frameVars, widgetVars, want, draws, plugs,
                   holds>>

(* After a drop the app reconnects however often that takes. *)
ClientReconnects ==
    /\ client = "dropping"
    /\ client' = "up" /\ unsent' = Keys /\ coraSuspended' = FALSE
    /\ UNCHANGED <<model, pipe, localSuspended, panel, frameVars, widgetVars, want, bounds>>

ClientGone ==
    /\ client # "none" /\ sessions < MaxSessions
    /\ client' = "none" /\ unsent' = {}
    /\ UNCHANGED <<model, driverVars, panel, frameVars, widgetVars, want, bounds>>

-----------------------------------------------------------------------------
(* The dock's own producers. *)

WidgetChanges ==
    /\ widgetWant < MaxWidgetChanges
    /\ widgetWant' = widgetWant + 1
    /\ UNCHANGED <<model, driverVars, panel, frameVars, widgetCache, client, appVars, bounds>>

(* The widget tick paints only what changed since it last painted, refused or not. *)
WidgetTick ==
    /\ model # NoModel /\ widgetCache # widgetWant
    /\ widgetCache' = widgetWant
    /\ DriverIs(RenderAll(Driver, Widgets))
    /\ UNCHANGED <<model, panel, frameVars, widgetWant, appVars, bounds>>

(* Dock.setVerifyHold(true). *)
VerifyStart ==
    /\ model # NoModel /\ ~held /\ holds < MaxHolds
    /\ holds' = holds + 1
    /\ held' = TRUE /\ verifyKeys' = {}
    /\ UNCHANGED <<model, driverVars, panel, frames, framesModel, widgetVars, client, appVars, draws,
                   plugs, sessions>>

(* Dock.paintVerify(). *)
VerifyPaint(k) ==
    /\ model # NoModel /\ held /\ k \notin verifyKeys
    /\ verifyKeys' = verifyKeys \cup {k}
    /\ DriverIs(Render(Driver, Cora(k, Pattern)))
    /\ UNCHANGED <<model, panel, frames, framesModel, held, widgetVars, appVars, bounds>>

VerifyEndWithoutRepaint ==
    /\ held
    /\ held' = FALSE /\ verifyKeys' = {}
    /\ DriverIs(RenderAll(Driver, Release(FALSE)))
    /\ UNCHANGED <<model, panel, frames, framesModel, widgetVars, appVars, bounds>>

(* The end of a wizard session, cancelled or expired: setVerifyHold(false, true). *)
VerifyEnd ==
    /\ held
    /\ held' = FALSE /\ verifyKeys' = {}
    /\ DriverIs(RenderAll(Driver, Release(TRUE)))
    /\ UNCHANGED <<model, panel, frames, framesModel, widgetVars, appVars, bounds>>

(* A saved session: setVerifyHold(false, false), then the live tuning swap repaints the
   frames and the widgets (Dock.applyTuning). *)
VerifySave ==
    /\ held
    /\ held' = FALSE /\ verifyKeys' = {}
    /\ DriverIs(RenderAll(Driver, Release(FALSE) \o Frames \o Widgets))
    /\ widgetCache' = widgetWant
    /\ UNCHANGED <<model, panel, frames, framesModel, widgetWant, appVars, bounds>>

-----------------------------------------------------------------------------
Next ==
    \/ \E m \in Models : Plug(m)
    \/ Unplug \/ Paints
    \/ \E k \in Keys : AppDraws(k) \/ AppSends(k) \/ VerifyPaint(k)
    \/ ClientConnects \/ ClientReconnects \/ ClientGone
    \/ WidgetChanges \/ WidgetTick
    \/ VerifyStart \/ VerifyEnd \/ VerifySave

(* The worker works, the app reconnects after a drop and sends what it has to send,
   the widgets tick. *)
Fairness ==
    /\ WF_vars(Paints) /\ WF_vars(ClientReconnects) /\ WF_vars(WidgetTick)
    /\ \A k \in Keys : WF_vars(AppSends(k))

Spec == Init /\ [][Next]_vars /\ Fairness

-----------------------------------------------------------------------------
ImagesTypeOK ==
    /\ model \in Models \cup {NoModel} /\ framesModel \in Models \cup {NoModel}
    /\ Len(pipe) <= Capacity + ControlReserve
    /\ coraSuspended \in BOOLEAN /\ localSuspended \in BOOLEAN /\ held \in BOOLEAN
    /\ DOMAIN panel = AllKeys /\ DOMAIN frames \subseteq Keys
    /\ verifyKeys \subseteq Keys /\ (~held => verifyKeys = {})
    /\ client \in {"none", "up", "dropping"} /\ unsent \subseteq Keys

(* Everything has been delivered and nothing is suspended. *)
Quiet == model # NoModel /\ pipe = << >> /\ ~coraSuspended /\ ~localSuspended

(* Whenever the driver is idle and the app has sent what it had to send, every key shows
   the app's current image: no interleaving of overloads, drains, session drops, replugs
   and wizard sessions leaves a splash, a test pattern, a blank or an older image. *)
PanelShowsApp ==
    Quiet /\ ~held /\ client = "up" /\ unsent = {} =>
      \A k \in Keys : panel[k] = AppImage(want[k], model)

(* Whenever the driver is idle, the widget shows what its cache says it shows, although
   the cache is written before the driver may refuse the image. *)
WidgetCacheIsTrue == Quiet => panel[WidgetKey] = WidgetImage(widgetCache)

(* A frame recorded for one model is never drawn on another. *)
NoForeignFrames ==
    \A i \in DOMAIN pipe :
      pipe[i].kind = "cora" /\ pipe[i].img # Pattern => pipe[i].img.on = model

(* Types, the driver's capacity, and frames only on the model they were made for. *)
FramesConsistent == ImagesTypeOK /\ NoForeignFrames

(* What the program believes the panel shows is what it shows: the app's frames and the
   widget's cache. *)
PanelIsTrue == FramesConsistent /\ WidgetCacheIsTrue /\ PanelShowsApp

(* The app gets its picture: once it stays connected to an attached panel, the panel comes
   to show its images; overloads do not recur for ever. *)
PanelConverges ==
    <>[](model # NoModel /\ ~held /\ client # "none")
      => <>[](\A k \in Keys : panel[k] = AppImage(want[k], model))
=============================================================================
