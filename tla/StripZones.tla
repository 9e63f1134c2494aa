----------------------------- MODULE StripZones -----------------------------
(***************************************************************************)
(* Who draws a touch strip: the widget scheduler of one dock               *)
(* (main/extra-keys.ts, main thread) and the strip canvas of its worker    *)
(* (TouchStripCanvas, transform/image-render.ts), joined by the worker's   *)
(* queue, which keeps the order (HidWorkQueue).  The Elgato app draws      *)
(* frames and patches; widgets own zones under one of three modes.         *)
(*                                                                         *)
(* A picture is <<"app", n>>, <<"widget", v>>, <<"flash", v>> or Black.    *)
(* A widget's text is a number: 0 is nothing to show, -1 the placeholder.  *)
(***************************************************************************)
EXTENDS Integers, Sequences, FiniteSets, SequencesExt

CONSTANTS
  Zones,          \* wire ids of the strip's zones
  SideKeys,       \* wire ids of keys outside the grid, always DeckBridge's
  WidgetValues,   \* texts a widget may show, of Nat
  StripSurface,   \* the model has a full-strip surface (touchStripDisplay)
  MaxAppFrames,   \* bound: frames the app draws
  MaxStripQueue,  \* bound: messages in flight when the user, the app or a source acts
  MaxStripOps     \* bound: changes by the user, the sources and the device

ASSUME StripAssumption ==
  /\ WidgetValues \subseteq Nat /\ StripSurface \in BOOLEAN
  /\ Zones \cap SideKeys = {} /\ IsFiniteSet(Zones) /\ IsFiniteSet(SideKeys)

VARIABLES
  wd,      \* the ExtraKeyWidgets object of the attached driver, with the settings it reads
  sq,      \* messages on their way to the worker
  canvas,  \* the worker's TouchStripCanvas
  panel,   \* what the device shows per id
  hist     \* ghosts: what the app drew since the open, zones drawn on unrecorded; bounds

stripVars == <<wd, sq, canvas, panel, hist>>

Ids == Zones \cup SideKeys
Modes == {"elgato", "deckbridge-ignore", "deckbridge-repaint"}
Widgets == {"none", "plain", "source"}   \* unassigned, shown as it is, run or fetched
Black == <<"black", 0>>
NeverPainted == -2
Placeholder == -1

FreshWidgets(mode, conf, always) ==
  [active |-> FALSE, timer |-> FALSE, mode |-> mode, conf |-> conf, always |-> always,
   lastMask |-> {}, lastPainted |-> [i \in Ids |-> NeverPainted],
   hold |-> [z \in Zones |-> "none"], widgetOnZone |-> {}, refreshing |-> {},
   shown |-> [i \in Ids |-> 0], flashes |-> 0]

EmptyCanvas == [rgb |-> [z \in Zones |-> Black], mask |-> {}, always |-> FALSE]

StripInit ==
  /\ \E m \in Modes, w \in [Ids -> Widgets] :
       wd = FreshWidgets(m, [i \in Ids |-> [widget |-> w[i], value |-> 0]], FALSE)
  /\ sq = << >>
  /\ canvas = EmptyCanvas
  /\ panel = [i \in Ids |-> Black]
  /\ hist = [drawn |-> [z \in Zones |-> Black], unrecorded |-> {}, frames |-> 0, ops |-> 0]

-----------------------------------------------------------------------------
(* The scheduler (main thread).  x is its object; a result is the object   *)
(* afterwards and the messages posted.                                     *)

Owns(x, i) == x.conf[i].widget # "none"

WidgetIds(x) == IF x.mode = "elgato" THEN SideKeys ELSE Ids

StripMask(x) == IF x.mode = "deckbridge-ignore" THEN Zones ELSE {}

\* linesFor(): what the id should show
LinesFor(x, i) ==
  IF i \in x.refreshing THEN Placeholder ELSE IF Owns(x, i) THEN x.conf[i].value ELSE 0

InElgatoHoldOff(x, z) == x.hold[z] = "on"

\* leftToApp(): 'deckbridge-repaint' zones that are unassigned or in a hold-off
LeftToApp(x, i) ==
  x.mode = "deckbridge-repaint" /\ i \in Zones /\ (Owns(x, i) => InElgatoHoldOff(x, i))

\* ownsZoneNow(): the zone shows its widget
OwnsZoneNow(x, z) ==
  x.mode # "elgato" /\ Owns(x, z) /\ (x.mode = "deckbridge-repaint" => ~InElgatoHoldOff(x, z))

PushMask(x, force) ==
  IF x.active /\ Zones # {} /\ (force \/ StripMask(x) # x.lastMask)
    THEN << [x EXCEPT !.lastMask = StripMask(x)], <<[t |-> "mask", ids |-> StripMask(x)]>> >>
    ELSE << x, << >> >>

PaintMessage(x, i) ==
  IF LinesFor(x, i) = 0 THEN [t |-> "clear", ids |-> {i}]
  ELSE [t |-> "paint", ids |-> {i}, pic |-> <<"widget", LinesFor(x, i)>>]

RestoreMessages(x, ids) == IF x.active /\ ids # {} THEN <<[t |-> "restore", ids |-> ids]>> ELSE << >>

\* tick(), past the mask: every id whose content changed
PaintChanged(x) ==
  LET ids     == WidgetIds(x)
      left    == {i \in ids : LeftToApp(x, i)}
      orphan  == {i \in left : ~Owns(x, i)}
      due     == {i \in ids \ left : x.lastPainted[i] # LinesFor(x, i)}
      drawn   == {i \in due : LinesFor(x, i) # 0}
      tracked == IF x.mode = "deckbridge-repaint" THEN drawn \cap Zones ELSE {}
  IN  << [x EXCEPT
            !.lastPainted = [i \in Ids |-> IF i \in orphan THEN NeverPainted
                                           ELSE IF i \in due THEN LinesFor(x, i) ELSE @[i]],
            !.shown = [i \in Ids |-> IF i \in due THEN LinesFor(x, i) ELSE @[i]],
            !.hold = [z \in Zones |->
                        IF x.mode = "deckbridge-repaint" /\ Owns(x, z) /\ @[z] = "over"
                          THEN "none" ELSE @[z]],
            !.widgetOnZone = (@ \ orphan) \cup tracked],
         SetToSeq({[t |-> "restore", ids |-> {i}] : i \in orphan \cap x.widgetOnZone})
           \o SetToSeq({PaintMessage(x, i) : i \in due}) >>

\* one thing after another to the object
FollowedBy(r, s) == << s[1], r[2] \o s[2] >>

StripTick(x) ==
  LET masked == PushMask(x, FALSE) IN FollowedBy(masked, PaintChanged(masked[1]))

\* repaint(): forget what was painted, then tick if the timer runs
Forgotten(x) == [x EXCEPT !.lastPainted = [i \in Ids |-> NeverPainted]]

RepaintStrip(x) ==
  LET masked == PushMask(Forgotten(x), FALSE)
  IN  IF ~x.active THEN << x, << >> >>
      ELSE IF x.timer THEN FollowedBy(masked, StripTick(masked[1])) ELSE masked

\* ensureTicking()
EnsureTicking(x) ==
  IF ~x.active \/ WidgetIds(x) = {} \/ x.timer THEN << x, << >> >>
  ELSE << [StripTick(x)[1] EXCEPT !.timer = TRUE], StripTick(x)[2] >>

\* endPlaceholder()
EndPlaceholder(x, i) ==
  IF i \in x.refreshing THEN RepaintStrip([x EXCEPT !.refreshing = @ \ {i}]) ELSE << x, << >> >>

\* the zones a run of messages clears
ClearedZones(q) == (UNION {q[n].ids : n \in {m \in DOMAIN q : q[m].t = "clear"}}) \cap Zones

\* The scheduler's object becomes r[1] and r[2] is posted.  Ghost: a zone cleared, flashed or
\* thought covered under 'deckbridge-repaint' without being put in widgetOnZone is unrecorded.
StripBecomes(r, more) ==
  LET off == IF r[1].mode = "deckbridge-repaint" THEN ClearedZones(r[2]) \cup more ELSE {}
  IN  /\ wd' = r[1]
      /\ sq' = sq \o r[2]
      /\ hist' = [hist EXCEPT !.unrecorded = IF r[1].mode = "deckbridge-ignore" THEN {}
                                             ELSE (@ \cup off) \ r[1].widgetOnZone,
                              !.ops = IF @ < MaxStripOps THEN @ + 1 ELSE @]

StripBudget == hist.ops < MaxStripOps /\ Len(sq) <= MaxStripQueue

-----------------------------------------------------------------------------
(* Actions of the main thread.                                             *)

\* a driver is attached: the worker resets its canvas, seed() sends the options,
\* start() forces the mask and ticks
Attach(always) ==
  /\ ~wd.active /\ sq = << >> /\ StripBudget
  /\ LET x      == [FreshWidgets(wd.mode, wd.conf, always) EXCEPT !.active = TRUE]
         masked == PushMask(x, TRUE)
         run    == EnsureTicking(masked[1])
     IN  StripBecomes(<<run[1], <<[t |-> "options", ids |-> {}, always |-> always]>> \o masked[2] \o run[2]>>,
                 {})
  /\ canvas' = EmptyCanvas
  /\ panel' = [i \in Ids |-> Black]

\* the driver is gone with what was queued for it: stop()
Detach ==
  /\ wd.active
  /\ wd' = [wd EXCEPT !.active = FALSE, !.timer = FALSE, !.refreshing = {}, !.flashes = 0]
  /\ sq' = << >>
  /\ hist' = [hist EXCEPT !.drawn = [z \in Zones |-> Black], !.unrecorded = {}]
  /\ UNCHANGED <<canvas, panel>>

\* the one-second timer
TimerTick ==
  /\ wd.timer /\ StripTick(wd) # <<wd, << >> >>
  /\ StripBecomes(StripTick(wd), {})
  /\ UNCHANGED <<canvas, panel>>

\* Mutant: leaving an override forgets the zones and puts nothing back
SetTouchStripModeLeaving(m) ==
  /\ m # wd.mode /\ StripBudget
  /\ LET painted == RepaintStrip([wd EXCEPT !.widgetOnZone = {}, !.mode = m])
         ticking == EnsureTicking(painted[1])
     IN  StripBecomes(<<ticking[1], painted[2] \o ticking[2]>>, {})
  /\ UNCHANGED <<canvas, panel>>

\* setTouchStripMode(); while no driver is attached the mode is only stored
SetTouchStripMode(m) ==
  /\ m # wd.mode /\ StripBudget
  /\ LET back    == IF m = "elgato" THEN RestoreMessages(wd, wd.widgetOnZone) ELSE << >>
         painted == RepaintStrip([wd EXCEPT !.widgetOnZone = {}, !.mode = m])
         ticking == EnsureTicking(painted[1])
     IN  StripBecomes(<<ticking[1], back \o painted[2] \o ticking[2]>>, {})
  /\ UNCHANGED <<canvas, panel>>

\* trySet(): a widget is assigned or cleared, and 'extraKeyChanged' repaints
AssignWidget(i, w, v) ==
  /\ wd.conf[i] # [widget |-> w, value |-> v] /\ StripBudget
  /\ StripBecomes(RepaintStrip([wd EXCEPT !.conf[i] = [widget |-> w, value |-> v]]), {})
  /\ UNCHANGED <<canvas, panel>>

\* time passes or a channel is pushed: seen at the next tick, a push ticks now
ValueChanges(i, v, pushed) ==
  /\ wd.conf[i].widget = "plain" /\ v # wd.conf[i].value /\ StripBudget
  /\ LET x == [wd EXCEPT !.conf[i].value = v]
     IN  StripBecomes(IF pushed /\ x.timer THEN StripTick(x) ELSE <<x, << >> >>, {})
  /\ UNCHANGED <<canvas, panel>>

\* a command, fetch or plugin settles: onUpdate repaints, onSettled ends the placeholder
SourceSettles(i, v) ==
  /\ wd.conf[i].widget = "source" /\ (v # wd.conf[i].value \/ i \in wd.refreshing) /\ StripBudget
  /\ LET updated == RepaintStrip([wd EXCEPT !.conf[i].value = v])
     IN  StripBecomes(FollowedBy(updated, EndPlaceholder(updated[1], i)), {})
  /\ UNCHANGED <<canvas, panel>>

\* the placeholder's cap, for a refresh that never reports
PlaceholderCap(i) ==
  /\ i \in wd.refreshing
  /\ StripBecomes(EndPlaceholder(wd, i), {})
  /\ UNCHANGED <<canvas, panel>>

\* refresh(), from a strip tap (only a zone that shows its widget), a knob press or a side
\* key: flash, start the source again, placeholder, repaint
Refresh(i, feedback) ==
  /\ wd.active /\ Owns(wd, i) /\ i \in WidgetIds(wd) /\ StripBudget
  /\ LET visible == i \in Zones => OwnsZoneNow(wd, i)
         flash   == visible /\ feedback.flash
         holder  == visible /\ feedback.placeholder
         busy    == wd.conf[i].widget = "source"
         x       == [wd EXCEPT !.refreshing = IF busy /\ holder THEN @ \cup {i} ELSE @,
                               !.flashes = IF flash THEN @ + 1 ELSE @,
                               !.hold = [z \in Zones |-> IF z = i /\ @[z] = "over" THEN "none" ELSE @[z]]]
         posted  == IF flash THEN <<[t |-> "paint", ids |-> {i}, pic |-> <<"flash", wd.shown[i]>>]>>
                    ELSE << >>
         after   == IF ~flash /\ (~busy \/ holder) THEN RepaintStrip(x) ELSE <<x, << >> >>
     IN  StripBecomes(<<after[1], posted \o after[2]>>, IF flash THEN {i} \cap Zones ELSE {})
  /\ UNCHANGED <<canvas, panel>>

FlashEnds ==
  /\ wd.flashes > 0
  /\ StripBecomes(RepaintStrip([wd EXCEPT !.flashes = @ - 1]), {})
  /\ UNCHANGED <<canvas, panel>>

\* the repaint interval passes with no further frame
HoldOffPasses(z) ==
  /\ wd.hold[z] = "on"
  /\ wd' = [wd EXCEPT !.hold[z] = "over"]
  /\ UNCHANGED <<sq, canvas, panel, hist>>

\* Mutant: the whole-strip upload is taken for the zones of its region
NotedZonesOfRegion(zs) == zs

\* the zones noteTouchFrame() counts as covered
NotedZones(zs) == IF wd.always /\ StripSurface THEN Zones ELSE zs

\* the app draws the zones zs, all of them in a full frame: renderTouchImage, then
\* noteTouchFrame; ok is whether the worker will be able to decode it
AppFrame(zs, ok) ==
  /\ wd.active /\ zs # {} /\ hist.frames < MaxAppFrames /\ Len(sq) <= MaxStripQueue
  /\ LET pic   == <<"app", hist.frames + 1>>
         noted == IF wd.mode = "deckbridge-repaint" THEN NotedZones(zs) ELSE {}
     IN  /\ sq' = Append(sq, [t |-> "frame", ids |-> zs, pic |-> pic, ok |-> ok])
         /\ wd' = [wd EXCEPT !.hold = [z \in Zones |-> IF z \in noted THEN "on" ELSE @[z]],
                             !.lastPainted = [i \in Ids |-> IF i \in noted THEN NeverPainted ELSE @[i]],
                             !.widgetOnZone = @ \ noted]
         /\ hist' = [hist EXCEPT !.frames = @ + 1,
                                 !.drawn = [z \in Zones |-> IF ok /\ z \in zs THEN pic ELSE @[z]],
                                 !.unrecorded = IF ok THEN @ \ NotedZones(zs) ELSE @ \cup noted]
  /\ UNCHANGED <<canvas, panel>>

-----------------------------------------------------------------------------
(* The worker: TouchStripCanvas.                                           *)

ZonesDrawn(c, zs) == [i \in Ids |-> IF i \in zs THEN c.rgb[i] ELSE panel[i]]

\* apply(): draw into the canvas, then send the strip or the zones touched
Applied(m) ==
  LET c    == [canvas EXCEPT !.rgb = [z \in Zones |-> IF z \in m.ids THEN m.pic ELSE @[z]]]
      full == (c.always \/ m.ids = Zones) /\ StripSurface /\ c.mask = {}
  IN  /\ canvas' = c
      /\ panel' = ZonesDrawn(c, IF full THEN Zones ELSE m.ids \ c.mask)

\* the worker handles the next message
StripWorker ==
  /\ sq # << >>
  /\ sq' = Tail(sq)
  /\ LET m == Head(sq)
     IN  \/ m.t = "frame" /\ m.ok /\ Applied(m)
         \/ m.t = "frame" /\ ~m.ok /\ UNCHANGED <<canvas, panel>>
         \/ /\ m.t = "mask"
            /\ canvas' = [canvas EXCEPT !.mask = m.ids]
            /\ panel' = ZonesDrawn(canvas, canvas.mask \ m.ids)
         \/ m.t = "restore" /\ panel' = ZonesDrawn(canvas, m.ids) /\ UNCHANGED canvas
         \/ m.t = "options" /\ canvas' = [canvas EXCEPT !.always = m.always] /\ UNCHANGED panel
         \/ /\ m.t \in {"paint", "clear"}
            /\ panel' = [i \in Ids |-> IF i \notin m.ids THEN panel[i]
                                       ELSE IF m.t = "clear" THEN Black ELSE m.pic]
            /\ UNCHANGED canvas
  /\ UNCHANGED <<wd, hist>>

StripNext ==
  \/ \E a \in BOOLEAN : Attach(a)
  \/ Detach \/ TimerTick \/ FlashEnds \/ StripWorker
  \/ \E m \in Modes : SetTouchStripMode(m)
  \/ \E i \in Ids :
       \/ \E v \in WidgetValues :
            \/ \E w \in Widgets : AssignWidget(i, w, v)
            \/ \E p \in BOOLEAN : ValueChanges(i, v, p)
            \/ SourceSettles(i, v)
       \/ PlaceholderCap(i)
       \/ \E f, p \in BOOLEAN : Refresh(i, [flash |-> f, placeholder |-> p])
  \/ \E z \in Zones : HoldOffPasses(z)
  \/ \E zs \in SUBSET Zones, ok \in BOOLEAN : AppFrame(zs, ok)

StripSpec == StripInit /\ [][StripNext]_stripVars

-----------------------------------------------------------------------------
(* Properties.                                                             *)

\* nothing on its way, no flash up, and a tick now would paint nothing
StripIsQuiet == wd.active /\ sq = << >> /\ wd.flashes = 0 /\ (wd.timer => StripTick(wd)[2] = << >>)

\* what an id ought to show, and whose it is
Rightful(i) ==
  IF i \in Zones /\ (wd.mode = "elgato" \/ LeftToApp(wd, i)) THEN hist.drawn[i]
  ELSE IF LinesFor(wd, i) = 0 THEN Black ELSE <<"widget", LinesFor(wd, i)>>

\* Once the strip is quiet, every zone and side key shows its rightful picture: the app's last
\* drawing where the mode leaves the zone to it, the widget's text elsewhere; the mask, the
\* hold-offs and the paint cache never leave another one up.  Zones that DeckBridge drew on
\* without recording it (see hist.unrecorded) are left out until they are drawn again.
StripShowsOwner ==
  StripIsQuiet => \A i \in Ids \ hist.unrecorded : panel[i] = Rightful(i)
=============================================================================
