------------------------------ MODULE WebMirror ------------------------------
(***************************************************************************)
(* The live mirror of the decks in the browser.  The server caches, per    *)
(* dock, what was last painted (image-channel.ts), pushes the selected     *)
(* dock's paints over one WebSocket and answers GET /api/state from its    *)
(* own state (web-ui-server.ts, status-publisher.ts, dock-registry.ts).    *)
(* The page applies messages in order, decodes strip pictures one at a     *)
(* time, and after a lost connection opens a new socket and fetches the    *)
(* whole state again (ui-ws.ts, hydrate.ts, touch-strip-preview.ts,        *)
(* strip-zone-preview.ts).                                                 *)
(*                                                                         *)
(* Every painted picture is a fresh number, 0 is "nothing".  One key, one  *)
(* widget and one strip zone stand for all: they do not interact.  `pref'  *)
(* stands for the per-device values that are broadcast on change and are   *)
(* in /api/state but not in the status message: brightness override, extra *)
(* keys, pages, strip mode, encoders.                                      *)
(***************************************************************************)
EXTENDS Integers, Sequences, SequencesExt, FiniteSets

CONSTANTS
  UiDocks,          \* dock indices that may exist; 0 is the primary
  TouchWindows,     \* distinct partial windows of the touch strip, positive
  MaxTouchFrames,   \* MAX_TOUCH_FRAMES and MAX_FRAMES: windows kept per dock
  MaxPaints,        \* bound: pictures painted in a behaviour
  MaxUiChanges,     \* bound: selections, plugs, preference changes, unmounts
  MaxBreaks,        \* bound: connections lost
  MaxUiActs         \* bound: paints, changes and breaks together

ASSUME MirrorAssumption ==
  /\ 0 \in UiDocks
  /\ TouchWindows \subseteq (Nat \ {0})
  /\ MaxTouchFrames \in Nat \ {0}

VARIABLES
  mirror,   \* server: selection, live docks, caches, preferences
  link,     \* the WebSocket: known to the server (up), messages on their way
  page,     \* browser: connection marker, store, previews
  fetches,  \* GET /api/state requests under way
  uiUsed    \* counters behind the bounds

mirrorVars == <<mirror, link, page, fetches, uiUsed>>

Nothing == [full |-> 0, slot |-> 0]
EmptyDock == [key |-> 0, touch |-> <<>>, widget |-> 0, strip |-> Nothing]

-----------------------------------------------------------------------------
(* Frames of the touch strip: an ordered list, one frame per window, the   *)
(* whole strip (window 0) restarting it.                                   *)

\* notifyDockTouchImage, applyTouchImage: newest last, the oldest dropped over the bound
WithFrame(frames, f) ==
  LET kept == IF f.w = 0 THEN <<>> ELSE SelectSeq(frames, LAMBDA g : g.w # f.w)
      all  == Append(kept, f)
  IN  IF Len(all) > MaxTouchFrames THEN Tail(all) ELSE all

\* drawImage at the frame's region
Drawn(canvas, f) == [w \in TouchWindows |-> IF f.w \in {0, w} THEN f.v ELSE canvas[w]]

BlankCanvas == [w \in TouchWindows |-> 0]

\* the picture a list of frames paints
PaintedBy(frames) == FoldLeft(Drawn, BlankCanvas, frames)

\* StripMirror, applyStripWrite: a full write covers the slots
StripWritten(s, full, v) == IF full THEN [full |-> v, slot |-> 0] ELSE [s EXCEPT !.slot = v]

-----------------------------------------------------------------------------
(* Messages.  Each carries what its handler reads: v a picture or a dock,  *)
(* w a window.                                                             *)

UiEvent(ev, v, w) == [ev |-> ev, v |-> v, w |-> w]

StatusMsg(s) == UiEvent("status", s.sel, 0)
StripMessages(s) ==
  <<UiEvent("stripClear", 0, 0)>>
  \o (IF s.full # 0 THEN <<UiEvent("stripFull", s.full, 0)>> ELSE <<>>)
  \o (IF s.slot # 0 THEN <<UiEvent("stripSlot", s.slot, 0)>> ELSE <<>>)

\* replay and sendSnapshot: keys, strip frames in paint order, widgets, device strip
Replayed(c) ==
  (IF c.key # 0 THEN <<UiEvent("image", c.key, 0)>> ELSE <<>>)
  \o [i \in DOMAIN c.touch |-> UiEvent("touch", c.touch[i].v, c.touch[i].w)]
  \o (IF c.widget # 0 THEN <<UiEvent("widget", c.widget, 0)>> ELSE <<>>)
  \o StripMessages(c.strip)

PrefMsg(s) == UiEvent("pref", s.pref[s.sel], 0)

\* Broadcaster.broadcast: nothing is sent, nor kept, without a client
Broadcast(msgs) == link' = IF link.up THEN [link EXCEPT !.q = @ \o msgs] ELSE link

\* what GET /api/state answers (fullState)
StateNow == [sel |-> mirror.sel, pref |-> mirror.pref[mirror.sel]]

-----------------------------------------------------------------------------
BlankTouch == [frames |-> <<>>, q |-> <<>>, cur |-> <<>>, on |-> TRUE, shown |-> BlankCanvas]
BlankZone == [want |-> Nothing, dirty |-> FALSE, cur |-> <<>>, shown |-> Nothing]

MirrorInit ==
  /\ mirror = [sel |-> 0, live |-> {0}, cache |-> [d \in UiDocks |-> EmptyDock],
               pref |-> [d \in UiDocks |-> 0]]
  /\ link = [up |-> FALSE, q |-> <<>>]
  /\ page = [phase |-> "boot", conn |-> "live", sel |-> 0, pref |-> 0, key |-> 0, widget |-> 0,
             touch |-> BlankTouch, zone |-> BlankZone, overtaken |-> FALSE]
  /\ fetches = {[id |-> 0, answer |-> <<>>]}
  /\ uiUsed = [paints |-> 0, changes |-> 0, breaks |-> 0, id |-> 0]

-----------------------------------------------------------------------------
(* The server.                                                             *)

Fresh == uiUsed.paints + 1
CanAct == uiUsed.paints + uiUsed.changes + uiUsed.breaks < MaxUiActs
CanPaint(d) == uiUsed.paints < MaxPaints /\ CanAct /\ (d = 0 \/ d \in mirror.live)
Used(k) == uiUsed' = [uiUsed EXCEPT ![k] = @ + 1]

\* Cache a paint of dock d; feed the live channel only when d is selected.
Notify(d, cache, msg) ==
  /\ mirror' = [mirror EXCEPT !.cache[d] = cache]
  /\ IF d = mirror.sel THEN Broadcast(<<msg>>) ELSE UNCHANGED link
  /\ UNCHANGED <<page, fetches>>

NotifyDockImage(d) ==
  /\ CanPaint(d) /\ Used("paints")
  /\ Notify(d, [mirror.cache[d] EXCEPT !.key = Fresh], UiEvent("image", Fresh, 0))

NotifyDockTouchImage(d, w) ==
  /\ CanPaint(d) /\ Used("paints")
  /\ Notify(d, [mirror.cache[d] EXCEPT !.touch = WithFrame(@, [w |-> w, v |-> Fresh])],
            UiEvent("touch", Fresh, w))

\* a widget paint, or null when it is cleared
NotifyDockWidgetPaint(d, cleared) ==
  /\ CanPaint(d) /\ Used("paints")
  /\ LET v == IF cleared THEN 0 ELSE Fresh
     IN  Notify(d, [mirror.cache[d] EXCEPT !.widget = v], UiEvent("widget", v, 0))

NotifyDockStripWrite(d, full) ==
  /\ CanPaint(d) /\ Used("paints")
  /\ Notify(d, [mirror.cache[d] EXCEPT !.strip = StripWritten(@, full, Fresh)],
            UiEvent(IF full THEN "stripFull" ELSE "stripSlot", Fresh, 0))

\* Mutant: selecting a dock tells its values but replays none of its frames
SelectingWithoutReplay(s) == <<StatusMsg(s), PrefMsg(s)>>

\* selectDock's messages: status, the per-device values, then the dock's frames
Selecting(s) == <<StatusMsg(s), PrefMsg(s)>> \o Replayed(s.cache[s.sel])

CanChange == uiUsed.changes < MaxUiChanges /\ CanAct

\* trySelectDock: index 0 is always selectable
SelectDock(d) ==
  /\ CanChange /\ Used("changes")
  /\ d # mirror.sel /\ (d = 0 \/ d \in mirror.live)
  /\ mirror' = [mirror EXCEPT !.sel = d]
  /\ Broadcast(Selecting(mirror'))
  /\ UNCHANGED <<page, fetches>>

\* notifyDocks with a changed list: caches of vanished docks go, and the
\* primary is selected when the selected dock vanished.
DocksAre(s, live) ==
  LET pruned == [s EXCEPT !.live = live,
                          !.cache = [d \in UiDocks |-> IF d \in live THEN @[d] ELSE EmptyDock]]
      lost   == s.sel # 0 /\ s.sel \notin live
      next   == IF lost THEN [pruned EXCEPT !.sel = 0] ELSE pruned
  IN  /\ mirror' = next
      /\ Broadcast(<<StatusMsg(pruned)>> \o IF lost THEN Selecting(next) ELSE <<PrefMsg(next)>>)

UnplugDock(d) ==
  /\ CanChange /\ Used("changes")
  /\ d \in mirror.live
  /\ DocksAre(mirror, mirror.live \ {d})
  /\ UNCHANGED <<page, fetches>>

PlugDock(d) ==
  /\ CanChange /\ Used("changes")
  /\ d \in UiDocks \ (mirror.live \cup {0})
  /\ DocksAre(mirror, mirror.live \cup {d})
  /\ UNCHANGED <<page, fetches>>

\* ImageChannel.reset and resetImages: a selected dock's widgets are cleared one
\* by one, then the strip, then the keys and the touch strip (imagesReset)
ResetMessages(c) ==
  (IF c.widget # 0 THEN <<UiEvent("widget", 0, 0)>> ELSE <<>>)
  \o <<UiEvent("stripClear", 0, 0), UiEvent("imagesReset", 0, 0)>>

\* applyDeviceModel: the primary comes (back) up, possibly as another model
ApplyDeviceModel ==
  /\ CanChange /\ Used("changes")
  /\ LET reset == [mirror EXCEPT !.cache[0] = EmptyDock, !.live = @ \cup {0}]
     IN  /\ mirror' = reset
         /\ Broadcast((IF mirror.sel = 0 THEN ResetMessages(mirror.cache[0]) ELSE <<>>)
                      \o <<StatusMsg(reset), PrefMsg(reset)>>)
  /\ UNCHANGED <<page, fetches>>

\* a request from another page, or a dock's own observation, changes a selected value
ChangePref ==
  /\ CanChange /\ Used("changes")
  /\ mirror' = [mirror EXCEPT !.pref[mirror.sel] = uiUsed.changes + 1]
  /\ Broadcast(<<UiEvent("pref", uiUsed.changes + 1, 0)>>)
  /\ UNCHANGED <<page, fetches>>

FetchAnswered ==
  \E f \in fetches :
    /\ f.answer = <<>>
    /\ fetches' = (fetches \ {f}) \cup {[f EXCEPT !.answer = <<StateNow>>]}
    /\ UNCHANGED <<mirror, link, page, uiUsed>>

-----------------------------------------------------------------------------
(* The page.                                                               *)

ResetTouchStrip(t) ==
  [t EXCEPT !.frames = <<>>, !.q = <<>>, !.shown = BlankCanvas,
            !.cur = IF @ = <<>> THEN @ ELSE <<[@[1] EXCEPT !.stale = TRUE]>>]

ResetStripZones(z) ==
  [z EXCEPT !.want = Nothing, !.dirty = FALSE, !.shown = Nothing,
            !.cur = IF @ = <<>> THEN @ ELSE <<[@[1] EXCEPT !.stale = TRUE]>>]

ResetPreviews(p) == [p EXCEPT !.key = 0, !.touch = ResetTouchStrip(@)]

\* enqueue: a newer live frame replaces a queued one of its window, a full one all
Enqueued_(q, f, target) ==
  Append(IF target THEN q
         ELSE IF f.w = 0 THEN <<>>
         ELSE SelectSeq(q, LAMBDA j : j.target \/ j.w = 0 \/ j.w # f.w),
         [w |-> f.w, v |-> f.v, target |-> target])

ApplyTouchImage(t, f) ==
  [t EXCEPT !.frames = WithFrame(@, f), !.q = IF t.on THEN Enqueued_(@, f, FALSE) ELSE @]

ApplyStripWrite(z, full, v) == [z EXCEPT !.want = StripWritten(@, full, v), !.dirty = TRUE]

\* handlers: what each message does to the page
Handled(p, e) ==
  CASE e.ev = "status" /\ e.v # p.sel ->
         [ResetPreviews(p) EXCEPT !.zone = ResetStripZones(@), !.sel = e.v, !.widget = 0]
    [] e.ev = "status" /\ e.v = p.sel -> p
    [] e.ev = "image" -> [p EXCEPT !.key = e.v]
    [] e.ev = "imagesReset" -> ResetPreviews(p)
    [] e.ev = "touch" -> [p EXCEPT !.touch = ApplyTouchImage(@, [w |-> e.w, v |-> e.v])]
    [] e.ev = "stripClear" -> [p EXCEPT !.zone = ResetStripZones(@)]
    [] e.ev \in {"stripFull", "stripSlot"} ->
         [p EXCEPT !.zone = ApplyStripWrite(@, e.ev = "stripFull", e.v)]
    [] e.ev = "widget" -> [p EXCEPT !.widget = e.v]
    [] e.ev = "pref" -> [p EXCEPT !.pref = e.v]

\* connectWS reaches the server: the client joins, then status and snapshot are sent to it
ConnectWS ==
  /\ page.phase = "connect"
  /\ page' = [page EXCEPT !.phase = "opening"]
  /\ link' = [up |-> TRUE, q |-> <<StatusMsg(mirror)>> \o Replayed(mirror.cache[mirror.sel])]
  /\ UNCHANGED <<mirror, fetches, uiUsed>>

\* the 'open' event: previews of an earlier connection are dropped, and a page
\* marked stale fetches the whole state
Opened ==
  /\ page.phase = "opening"
  /\ page' = [ResetPreviews(page) EXCEPT !.phase = "open", !.overtaken = FALSE]
  /\ IF page.conn = "live" THEN UNCHANGED <<fetches, uiUsed>>
     ELSE /\ fetches' = fetches \cup {[id |-> uiUsed.id + 1, answer |-> <<>>]}
          /\ Used("id")
  /\ UNCHANGED <<mirror, link>>

Receive ==
  /\ page.phase = "open" /\ link.q # <<>>
  /\ page' = Handled(page, Head(link.q))
  /\ link' = [link EXCEPT !.q = Tail(@)]
  /\ UNCHANGED <<mirror, fetches, uiUsed>>

\* the 'close' event: network, server stop, or dropped as too slow; what was on
\* its way is lost
Closed(p) == [p EXCEPT !.conn = "stale", !.phase = "connect"]

Break ==
  /\ uiUsed.breaks < MaxBreaks /\ CanAct /\ Used("breaks")
  /\ page.phase \in {"opening", "open"}
  /\ page' = Closed(page)
  /\ link' = [up |-> FALSE, q |-> <<>>]
  /\ UNCHANGED <<mirror, fetches>>

\* hydrate; the first one also mounts the page and connects
Hydrate(p, a) == [p EXCEPT !.sel = a.sel, !.pref = a.pref, !.conn = "live",
                           !.overtaken = @ \/ a.sel # p.sel]

FetchDelivered ==
  \E f \in fetches :
    /\ f.answer # <<>>
    /\ page' = [Hydrate(page, f.answer[1]) EXCEPT !.phase = IF @ = "boot" THEN "connect" ELSE @]
    /\ fetches' = fetches \ {f}
    /\ UNCHANGED <<mirror, link, uiUsed>>

\* the fetch fails: the boot screen offers a retry, a reconnect closes its own socket
FetchFails ==
  \E f \in fetches :
    /\ uiUsed.breaks < MaxBreaks /\ CanAct /\ Used("breaks")
    /\ IF page.phase = "boot" THEN
         fetches' = {[id |-> 0, answer |-> <<>>]} /\ UNCHANGED <<link, page>>
       ELSE
         /\ fetches' = fetches \ {f}
         /\ IF f.id = uiUsed.id /\ page.phase = "open"
              THEN page' = Closed(page) /\ link' = [up |-> FALSE, q |-> <<>>]
              ELSE UNCHANGED <<link, page>>
    /\ UNCHANGED mirror

\* pump of the touch strip: take a frame, decode it, draw it unless a reset came between
TouchTakes ==
  /\ page.touch.cur = <<>> /\ page.touch.q # <<>>
  /\ LET j == Head(page.touch.q)
     IN  page' = [page EXCEPT !.touch.q = Tail(@),
            !.touch.cur = IF ~page.touch.on THEN <<>>
                          ELSE <<[w |-> j.w, v |-> j.v, target |-> j.target, stale |-> FALSE]>>]
  /\ UNCHANGED <<mirror, link, fetches, uiUsed>>

TouchDecoded ==
  /\ page.touch.cur # <<>>
  /\ LET j == page.touch.cur[1]
     IN  page' = [page EXCEPT !.touch.cur = <<>>,
            !.touch.shown = IF j.stale \/ ~page.touch.on THEN @ ELSE Drawn(@, j)]
  /\ UNCHANGED <<mirror, link, fetches, uiUsed>>

\* the strip's canvas is unmounted, and a new one mounted and painted from the cache
DetachTouchCanvas ==
  /\ CanChange /\ Used("changes")
  /\ page.touch.on
  /\ page' = [page EXCEPT !.touch.on = FALSE, !.touch.shown = BlankCanvas,
       !.touch.q = SelectSeq(@, LAMBDA j : ~j.target),
       !.touch.cur = IF @ # <<>> /\ @[1].target THEN <<[@[1] EXCEPT !.stale = TRUE]>> ELSE @]
  /\ UNCHANGED <<mirror, link, fetches>>

AttachTouchCanvas ==
  /\ ~page.touch.on
  /\ page' = [page EXCEPT !.touch.on = TRUE,
       !.touch.q = FoldLeft(LAMBDA q, f : Enqueued_(q, f, TRUE), @, page.touch.frames)]
  /\ UNCHANGED <<mirror, link, fetches, uiUsed>>

\* pump of the zone canvas: read full, decode it, read the slot, decode it, paint;
\* a write that came between has marked the canvas again
ZoneTakes ==
  /\ page.zone.dirty /\ page.zone.cur = <<>>
  /\ page' = [page EXCEPT !.zone.dirty = FALSE,
       !.zone.cur = <<[full |-> page.zone.want.full, slot |-> -1, stale |-> FALSE]>>]
  /\ UNCHANGED <<mirror, link, fetches, uiUsed>>

ZoneDecoded ==
  /\ page.zone.cur # <<>>
  /\ LET j    == page.zone.cur[1]
         same == ~j.stale /\ j.full = page.zone.want.full
     IN  page' = [page EXCEPT
           !.zone.cur = IF j.slot = -1 /\ same THEN <<[j EXCEPT !.slot = page.zone.want.slot]>>
                        ELSE <<>>,
           !.zone.shown = IF j.slot # -1 /\ same /\ j.slot = page.zone.want.slot
                          THEN [full |-> j.full, slot |-> j.slot] ELSE @]
  /\ UNCHANGED <<mirror, link, fetches, uiUsed>>

-----------------------------------------------------------------------------
MirrorNext ==
  \/ \E d \in UiDocks :
       \/ NotifyDockImage(d)
       \/ \E w \in TouchWindows \cup {0} : NotifyDockTouchImage(d, w)
       \/ \E cleared \in BOOLEAN : NotifyDockWidgetPaint(d, cleared)
       \/ \E full \in BOOLEAN : NotifyDockStripWrite(d, full)
       \/ SelectDock(d)
       \/ UnplugDock(d)
       \/ PlugDock(d)
  \/ ApplyDeviceModel
  \/ ChangePref
  \/ FetchAnswered
  \/ ConnectWS
  \/ Opened
  \/ Receive
  \/ Break
  \/ FetchDelivered
  \/ FetchFails
  \/ TouchTakes
  \/ TouchDecoded
  \/ DetachTouchCanvas
  \/ AttachTouchCanvas
  \/ ZoneTakes
  \/ ZoneDecoded

MirrorSpec == MirrorInit /\ [][MirrorNext]_mirrorVars

-----------------------------------------------------------------------------
\* every message applied, nothing being decoded
Settled ==
  /\ page.phase = "open" /\ link.q = <<>>
  /\ page.touch.q = <<>> /\ page.touch.cur = <<>>
  /\ ~page.zone.dirty /\ page.zone.cur = <<>>

\* Once the page has caught up, its previews are the selected dock's last
\* pictures: never another dock's, never an older one, none missing, whatever
\* order messages, decodes, dock switches, lost connections and mounts came in.
\* Left out are pages on which an /api/state answer crossed a dock switch
\* (`overtaken'): there the status message no longer looks like a change, so the
\* previews of the earlier dock are not dropped.
PreviewsMatchServer ==
  (Settled /\ mirror.sel \in mirror.live /\ ~page.overtaken) =>
    LET c    == mirror.cache[mirror.sel]
        seen == PaintedBy(c.touch)
    IN  /\ page.key = c.key
        /\ page.zone.shown = c.strip
        /\ page.touch.on => \A w \in TouchWindows : seen[w] # 0 => page.touch.shown[w] = seen[w]
=============================================================================
