---------------------------- MODULE VerifyWizard ----------------------------
(***************************************************************************)
(* The verify wizard as its user walks it: the page that asks what the     *)
(* deck shows (web/client/simple/verify-wizard), the requests it has under *)
(* way, the session that serves them (web/server/verify-controller.ts) and *)
(* the panel of a deck whose mounting, wiring, key size and JPEG limits    *)
(* nobody knows.  The user answers what the panel shows.  Its last step,   *)
(* learning which wire each key reports, is simple/keymap-learn.tsx.       *)
(*                                                                         *)
(* An orientation is [rotate, flipH, flipV] in quarter turns; what it does *)
(* to a picture is defined on the picture's four corners, clockwise from   *)
(* the top left, so the page's algebra is checked against pixels.          *)
(***************************************************************************)
EXTENDS Integers, Sequences, FiniteSetsExt, SequencesExt

CONSTANTS
  Boards,          \* decks: [mount, cells, size, bytes, quality, inputs, app, upsets],
                   \* upsets the bound on requests lost and wizards opened again
  WzRows, WzColumns,
  AppFrame,        \* P: how the app turns a picture before sending it
  RegistryImage,   \* the image section in force before
  RegistryMap,     \* coraToWireImage in force before: key -> wire
  SizeRungs,       \* SIZES
  CapRungs, QualityRungs  \* blankStart's caps and qualities, falling

VARIABLES
  board,   \* the deck on the desk, unknown to the code
  wizard,  \* WizardRun's state and refs, and KeymapLearn's
  asks,    \* requests under way
  vhost,   \* the session, the settings of the model, and the WS message under way
  shown    \* the panel: which pattern, in which order, drawn with which image section

wizardVars == <<board, wizard, asks, vhost, shown>>

Keys == 0 .. WzRows * WzColumns - 1
FLOW == <<"intro", "visible", "orient", "colours", "order", "size", "confirm", "real", "buttons", "result">>
SAVE_AT == 7
PATTERN == [s \in {"visible", "orient", "order", "confirm"} |-> "index"]
           @@ [s \in {"colours"} |-> "rgb"] @@ [s \in {"size"} |-> "rings"]

NoToken == 0
NoImage == <<>>
Identity == [k \in Keys |-> k]
NoSub == [at |-> "none"]
NoView == <<>>
NoLearn == [on |-> FALSE, position |-> 0, recorded |-> <<>>, unseen |-> FALSE]
FreshRun == [step |-> "intro", sub |-> NoSub, token |-> NoToken, image |-> RegistryImage, order |-> Identity,
             spec |-> [known |-> FALSE, image |-> RegistryImage, map |-> RegistryMap], size |-> "",
             ended |-> FALSE, saved |-> FALSE, view |-> NoView, learn |-> NoLearn]

WizardInit ==
  /\ board \in Boards
  /\ wizard = FreshRun @@ [open |-> TRUE, run |-> 1]
  /\ asks = <<>>
  /\ vhost = [session |-> NoToken, draft |-> NoImage, image |-> RegistryImage, map |-> RegistryMap,
              splash |-> NoView, inputs |-> NoView, saves |-> 0, notice |-> FALSE, lost |-> 0, crossed |-> FALSE]
  /\ shown = [kind |-> "app", order |-> Identity, image |-> RegistryImage]

-----------------------------------------------------------------------------
(* What an orientation does to the corners: rotate clockwise, flipH, flipV.*)

Upright == [c \in 0 .. 3 |-> c]
Transformed(o, pic) ==
  LET turned == [c \in 0 .. 3 |-> pic[(c + 3 * o.rotate) % 4]]
      acrossH == IF o.flipH THEN [c \in 0 .. 3 |-> turned[(5 - c) % 4]] ELSE turned
  IN  IF o.flipV THEN [c \in 0 .. 3 |-> acrossH[3 - c]] ELSE acrossH

(* verify-math.ts.                                                         *)

ORIENTATIONS == [rotate : 0 .. 3, flipH : BOOLEAN, flipV : {FALSE}]

canonical(o) ==
  IF o.flipV THEN [rotate |-> (o.rotate + 2) % 4, flipH |-> ~o.flipH, flipV |-> FALSE]
  ELSE [rotate |-> o.rotate, flipH |-> o.flipH, flipV |-> FALSE]

\* a after b
compose(a, b) ==
  LET x == canonical(a)  y == canonical(b)
  IN  [rotate |-> (IF y.flipH THEN y.rotate - x.rotate + 4 ELSE x.rotate + y.rotate) % 4,
       flipH |-> x.flipH # y.flipH, flipV |-> FALSE]

invert(a) ==
  LET x == canonical(a) IN IF x.flipH THEN x ELSE [x EXCEPT !.rotate = (4 - x.rotate) % 4]

\* Mutant: the correction is put on the wrong side of the app's own turn
orientationFixOutside(t, p, g) == compose(compose(invert(g), t), compose(p, invert(p)))

orientationFix(t, p, g) == compose(compose(t, p), compose(invert(g), invert(p)))

SameTurn(a, b) == a.rotate = b.rotate /\ a.flipH = b.flipH /\ a.flipV = b.flipV

\* NoView: the splash stays as it is
splashToSave(image, next, p) == IF SameTurn(image, next) THEN NoView ELSE compose(next, p)

\* identity first in the code; the seventh candidate of a square grid is cut off
orderCandidates ==
  LET at(F(_, _)) == [k \in Keys |-> F(k \div WzColumns, k % WzColumns)]
      n == WzRows * WzColumns
      plain(r, c) == r * WzColumns + c
      upsideDown(r, c) == plain(WzRows - 1 - r, c)
      backward(r, c) == plain(r, WzColumns - 1 - c)
      both(r, c) == plain(WzRows - 1 - r, WzColumns - 1 - c)
      transposed(r, c) == c * WzColumns + r
      ahead(r, c) == (plain(r, c) + 1) % n
      behind(r, c) == (plain(r, c) + n - 1) % n
  IN  {at(plain), at(upsideDown), at(backward), at(both), at(ahead)}
      \cup (IF WzRows = WzColumns THEN {at(transposed)} ELSE {at(behind)})

invertOrder(sigma) == [k \in Keys |-> CHOOSE p \in Keys : sigma[p] = k]
applyOrder(base, sigma) == [p \in Keys |-> base[sigma[p]]]

\* taps[n] is the cell tapped for number n - 1
tapOrder(taps) == [p \in Keys |-> (CHOOSE n \in 1 .. Len(taps) : taps[n] = p) - 1]

\* 0: neither 'cut' nor 'gap' answered yet
sizeStart(current) == [at |-> "size", ladder |-> SizeRungs \cup {current}, size |-> current, cut |-> 0, gap |-> 0, result |-> ""]

sizeStep(s, answer) ==
  LET cut == IF answer # "cut" THEN s.cut ELSE IF s.cut = 0 THEN s.size ELSE Min({s.size, s.cut})
      gap == IF answer = "gap" THEN Max({s.size, s.gap}) ELSE s.gap
      next == [s EXCEPT !.cut = cut, !.gap = gap]
      further == {v \in s.ladder : IF answer = "cut" THEN v < s.size ELSE v > s.size}
  IN  CASE answer = "fits" -> [s EXCEPT !.result = "fits"]
        [] answer # "fits" /\ cut # 0 /\ gap # 0 ->
             IF cut - gap > 1 THEN [next EXCEPT !.size = (cut + gap) \div 2]
             ELSE [next EXCEPT !.size = gap, !.result = "gap"]
        [] answer # "fits" /\ (cut = 0 \/ gap = 0) /\ further # {} ->
             [next EXCEPT !.size = IF answer = "cut" THEN Max(further) ELSE Min(further)]
        [] OTHER -> [next EXCEPT !.result = IF answer = "cut" THEN "fail" ELSE "gap"]

blankStart(image) ==
  LET caps == SelectSeq(CapRungs, LAMBDA b : image.maxBytes = 0 \/ b < image.maxBytes)
      last == IF caps = <<>> THEN image.maxBytes ELSE Last(caps)
      lower == SelectSeq(QualityRungs, LAMBDA q : q < image.quality)
      rungs == [i \in 1 .. Len(caps) |-> [maxBytes |-> caps[i], quality |-> image.quality]]
               \o [i \in 1 .. Len(lower) |-> [maxBytes |-> last, quality |-> lower[i]]]
  IN  [at |-> "blank", rungs |-> rungs, i |-> 1, result |-> IF rungs = <<>> THEN "fail" ELSE ""]

blankStep(s, visible) ==
  CASE visible -> [s EXCEPT !.result = "fixed"]
    [] ~visible /\ s.i < Len(s.rungs) -> [s EXCEPT !.i = @ + 1]
    [] OTHER -> [s EXCEPT !.result = "fail"]

-----------------------------------------------------------------------------
(* Partial image sections, as drafts and saves carry them.                 *)

changed(base, next) == [f \in {g \in DOMAIN base : base[g] # next[g]} |-> next[f]]
Over(base, patch) == patch @@ base

(* What the user sees of a panel that shows a pattern.                     *)

Effective == Over(vhost.image, vhost.draft)
Lit(image) == image.quality <= board.quality /\ (board.bytes = 0 \/ (image.maxBytes # 0 /\ image.maxBytes <= board.bytes))
OnGlass(image) == Transformed(board.mount, Transformed(image, Transformed(AppFrame, Upright)))
SeenTurn == CHOOSE g \in ORIENTATIONS : Transformed(g, Upright) = OnGlass(shown.image)
KeyAt(map, p) == CHOOSE k \in Keys : board.cells[map[k]] = p
SeenOrder == [p \in Keys |-> invertOrder(shown.order)[KeyAt(vhost.map, p)]]
SeenRings == CASE shown.image.width > board.size -> "cut"
               [] shown.image.width < board.size -> "gap"
               [] OTHER -> "fits"
NoTurn == [rotate |-> 0, flipH |-> FALSE, flipV |-> FALSE]
LooksRight == Lit(shown.image) /\ SeenTurn = NoTurn /\ SeenOrder = Identity

-----------------------------------------------------------------------------
(* The page: operators on [w |-> wizard, a |-> asks].                      *)

Ask(st, op, body, after) ==
  [st EXCEPT !.a = Append(@, [op |-> op, run |-> st.w.run, token |-> st.w.token, body |-> body,
                              after |-> after, status |-> "sent", got |-> NoView])]

\* run: the questions are disabled while its requests last.  A run inside a run enables
\* them early; the user looks longer than a request takes.
Busy == \E i \in 1 .. Len(asks) : asks[i].op \notin {"keepalive", "end", "learn"}

\* after a request: which question to show; the steps and kinds are those of when it was
\* sent
Showing(sub) == [to |-> "sub", sub |-> sub]
Stay == [to |-> "stay"]
Onward(step) == [to |-> "next", step |-> step]

PaintNow(st, kind, order, after) == Ask(st, "paint", [kind |-> kind, order |-> order], after)

StepNo(s) == CHOOSE i \in 1 .. Len(FLOW) : FLOW[i] = s

go(st, step) ==
  LET at == [st EXCEPT !.w.step = step, !.w.sub = NoSub]
  IN  CASE ~st.w.spec.known -> at
        [] st.w.spec.known /\ step \in DOMAIN PATTERN -> PaintNow(at, PATTERN[step], st.w.order, Stay)
        [] st.w.spec.known /\ StepNo(step) > SAVE_AT + 1 -> Ask(at, "view", NoView, Stay)
        [] OTHER -> at

\* the neighbouring step, 'real' skipped when the app has drawn nothing
target(step, by) ==
  LET i == StepNo(step) + by IN FLOW[IF FLOW[i] = "real" /\ ~board.app THEN i + by ELSE i]

next(st) == go(st, target(st.w.step, 1))

noBack(w) ==
  \/ w.step = "intro" \/ w.ended
  \/ IF w.saved THEN StepNo(target(w.step, -1)) <= SAVE_AT ELSE w.step = "result"

\* retry: the draft if any, the step's pattern again, then the follow-up question
retry(st, patch, after, order) ==
  IF patch = NoImage THEN PaintNow(st, PATTERN[st.w.step], order, after)
  ELSE LET image == Over(st.w.image, patch)
       IN  Ask([st EXCEPT !.w.image = image], "draft", changed(st.w.spec.image, image),
               [to |-> "paint", kind |-> PATTERN[st.w.step], then |-> after, order |-> order])

EndSession(st) == [Ask(st, "end", NoView, Stay) EXCEPT !.w.token = NoToken]

rung(st, s) ==
  CASE s.result = "fixed" -> next(st)
    [] s.result = "" -> retry(st, s.rungs[s.i], Showing(s), st.w.order)
    [] OTHER -> go(EndSession(st), "result")

\* a pick is relative to the order already simulated
reorder(st, sigma) ==
  LET o == applyOrder(st.w.order, sigma)
  IN  retry([st EXCEPT !.w.order = o], NoImage, Showing([at |-> "check"]), o)

Page == [w |-> wizard, a |-> asks]
PageBecomes(st) == wizard' = st.w /\ asks' = st.a
ByUser(st) == PageBecomes(st) /\ UNCHANGED <<board, vhost, shown>>

Upsets == wizard.run - 1 + vhost.lost

\* A question is up, and for the test steps its pattern is on the panel.
Asked(step, sub) ==
  /\ wizard.open /\ wizard.spec.known /\ ~wizard.ended /\ ~Busy
  /\ wizard.step = step /\ wizard.sub.at = sub
  /\ step \in DOMAIN PATTERN => shown.kind = PATTERN[step]

-----------------------------------------------------------------------------
(* The user.                                                               *)

\* start; a session already held goes on
PressStart ==
  /\ wizard.open /\ ~Busy /\ ~wizard.ended /\ wizard.step = "intro"
  /\ ByUser(IF wizard.token # NoToken THEN go(Page, "visible")
            ELSE Ask(Page, "start", NoView, Stay))

AnswerVisible ==
  \/ /\ Asked("visible", "none")
     /\ ByUser(IF Lit(shown.image) THEN next(Page) ELSE rung(Page, blankStart(wizard.image)))
  \/ /\ Asked("visible", "blank")
     /\ ByUser(rung(Page, blankStep(wizard.sub, Lit(shown.image))))

AnswerOrient ==
  \/ /\ Asked("orient", "none")
     /\ ByUser(IF SeenTurn = NoTurn THEN next(Page)
               ELSE retry(Page, orientationFix(wizard.image, AppFrame, SeenTurn), Showing([at |-> "check"]), wizard.order))
  \/ /\ Asked("orient", "check")
     /\ ByUser(IF SeenTurn = NoTurn THEN next(Page) ELSE [Page EXCEPT !.w.sub = NoSub])

\* colours and real are only recorded
AnswerRecorded ==
  /\ Asked("colours", "none") \/ Asked("real", "none")
  /\ ByUser(next(Page))

AnswerOrder ==
  \/ /\ Asked("order", "none")
     /\ ByUser(CASE SeenOrder = Identity -> next(Page)
                 [] SeenOrder # Identity /\ SeenOrder \in orderCandidates -> reorder(Page, SeenOrder)
                 [] OTHER -> [Page EXCEPT !.w.sub = [at |-> "taps", taps |-> <<>>]])
  \/ /\ Asked("order", "check")
     /\ ByUser(IF SeenOrder = Identity THEN next(Page) ELSE [Page EXCEPT !.w.sub = NoSub])

\* Tap where the deck shows the next number; all tapped: continue
TapCell ==
  /\ Asked("order", "taps")
  /\ LET taps == wizard.sub.taps
     IN  ByUser(IF Len(taps) = Cardinality(Keys) THEN reorder(Page, tapOrder(taps))
                ELSE [Page EXCEPT !.w.sub.taps = Append(taps, CHOOSE p \in Keys : SeenOrder[p] = Len(taps))])

StartTapsOver ==
  /\ Asked("order", "taps") /\ wizard.sub.taps # <<>>
  /\ ByUser([Page EXCEPT !.w.sub.taps = <<>>])

\* no size fits: back to the one in force before
AnswerSize ==
  /\ Asked("size", "none") \/ Asked("size", "size")
  /\ LET s == sizeStep(IF wizard.sub.at = "size" THEN wizard.sub ELSE sizeStart(wizard.image.width), SeenRings)
         size == IF s.result = "fail" THEN wizard.spec.image.width ELSE s.size
         patch == IF size = wizard.image.width THEN NoImage ELSE [width |-> size]
         said == [Page EXCEPT !.w.size = IF s.result = "" THEN SeenRings ELSE s.result]
     IN  ByUser(CASE s.result = "" -> retry(said, patch, Showing(s), wizard.order)
                  [] s.result # "" /\ patch # NoImage ->
                       Ask([said EXCEPT !.w.image = Over(@, patch)], "draft",
                           changed(wizard.spec.image, Over(wizard.image, patch)), Onward("size"))
                  [] OTHER -> next(said))

AnswerSizeOther ==
  /\ Asked("size", "none") \/ Asked("size", "size")
  /\ ByUser(next([Page EXCEPT !.w.size = "other"]))

\* coraToWireImage to save, NoView when the order was right
ConfirmedMap == IF wizard.order = Identity THEN NoView ELSE applyOrder(wizard.spec.map, wizard.order)

\* redo: what the user still finds wrong
Wrong(s) ==
  CASE s = "visible" -> ~Lit(shown.image)
    [] s = "orient" -> SeenTurn # NoTurn
    [] s = "order" -> SeenOrder # Identity
    [] s = "size" -> SeenRings # "fits"

AnswerConfirm ==
  \/ /\ Asked("confirm", "none") /\ LooksRight
     /\ ByUser(Ask(Page, "save", [image |-> changed(wizard.spec.image, wizard.image), map |-> ConfirmedMap,
                                 splash |-> splashToSave(wizard.spec.image, wizard.image, AppFrame)], Stay))
  \/ /\ Asked("confirm", "none") /\ ~(LooksRight /\ SeenRings = "fits")
     /\ ByUser([Page EXCEPT !.w.sub = [at |-> "redo"]])
  \/ /\ Asked("confirm", "redo")
     /\ \E s \in {"visible", "orient", "order", "size"} : Wrong(s) /\ ByUser(go(Page, s))

\* buttons: right or skipped, or learn mode
AnswerButtons ==
  /\ Asked("buttons", "none") \/ Asked("buttons", "learn")
  /\ \/ ByUser(next(Page))
     \/ wizard.sub.at = "none" /\ ByUser([Page EXCEPT !.w.sub = [at |-> "learn"], !.w.learn = NoLearn])

PressBack ==
  /\ wizard.open /\ ~Busy /\ ~noBack(wizard)
  /\ ByUser(go(Page, target(wizard.step, -1)))

\* release: cancel, Escape and every other close; the answers of its requests find
\* nobody from now on
PressClose ==
  /\ wizard.open
  /\ ByUser([(IF wizard.token # NoToken THEN EndSession(Page) ELSE Page) EXCEPT !.w.open = FALSE])

\* Opened again, or "Start again" after the session ended; a learned map is not under way
\* for that long
OpenAgain ==
  /\ ~wizard.open \/ wizard.ended
  /\ Upsets < board.upsets
  /\ \A i \in 1 .. Len(asks) : asks[i].op # "learn"
  /\ ByUser([Page EXCEPT !.w = FreshRun @@ [open |-> TRUE, run |-> wizard.run + 1]])

-----------------------------------------------------------------------------
(* Learn mode: press the keys in turn, take the wire each reports.         *)

LearnShown == Asked("buttons", "learn") /\ wizard.view # NoView
Learned(lr) == lr.on /\ lr.position = Cardinality(Keys)

\* start: the newest event of before is not the first key
LearnStart ==
  /\ LearnShown /\ ~wizard.learn.on
  /\ ByUser([Page EXCEPT !.w.learn = [NoLearn EXCEPT !.on = TRUE]])

\* record, for a 'down' not seen before
Recorded(lr, wire) ==
  IF Learned(lr) THEN [lr EXCEPT !.unseen = TRUE]
  ELSE [lr EXCEPT !.recorded = (wire :> lr.position) @@ @, !.position = @ + 1]

\* The prompted key; with the map complete, any
LearnPress ==
  /\ LearnShown /\ wizard.learn.on
  /\ \E p \in Keys :
       /\ Learned(wizard.learn) \/ p = wizard.learn.position
       /\ ByUser([Page EXCEPT !.w.learn = Recorded(@, board.inputs[p])])

LearnCancel ==
  /\ LearnShown /\ wizard.learn.on
  /\ ByUser([Page EXCEPT !.w.learn = NoLearn])

deriveWireInputToCora(recorded) ==
  [w \in 0 .. Max(DOMAIN recorded) |-> IF w \in DOMAIN recorded THEN recorded[w] ELSE -1]

\* save: the override read after the wizard's save, with this direction of the key map
LearnSave ==
  /\ LearnShown /\ Learned(wizard.learn)
  /\ \A i \in 1 .. Len(asks) : asks[i].op # "learn"
  /\ ByUser(Ask(Page, "learn", [wizard.view EXCEPT !.inputs = deriveWireInputToCora(wizard.learn.recorded)], Stay))

-----------------------------------------------------------------------------
(* The session's requests at the server, one at a time.                    *)

Settings(v) == [image |-> v.image, map |-> v.map, splash |-> v.splash, inputs |-> v.inputs]
AppBack == [kind |-> "app", order |-> Identity, image |-> vhost.image]

Answer(i, status, got) == asks' = [asks EXCEPT ![i].status = status, ![i].got = got]

\* save: image fields over the persisted ones; map and splash only when sent
SavedOver(v, body) ==
  [v EXCEPT !.image = Over(@, body.image), !.map = IF body.map = NoView THEN @ ELSE body.map,
            !.splash = IF body.splash = NoView THEN @ ELSE body.splash, !.saves = 1,
            !.session = NoToken, !.draft = NoImage]

Serve(i) ==
  LET c == asks[i]
      live == c.token # NoToken /\ c.token = vhost.session
  IN  /\ c.status = "sent"
      /\ UNCHANGED <<board, wizard>>
      /\ \/ /\ c.op = "start"
            /\ IF vhost.session # NoToken THEN Answer(i, "failed", NoView) /\ UNCHANGED <<vhost, shown>>
               ELSE /\ vhost' = [vhost EXCEPT !.session = c.run, !.draft = NoImage]
                    /\ Answer(i, "ok", [known |-> TRUE, image |-> vhost.image, map |-> vhost.map])
                    /\ UNCHANGED shown
         \/ /\ c.op = "paint" /\ live
            /\ shown' = [kind |-> c.body.kind, order |-> c.body.order, image |-> Effective]
            /\ Answer(i, "ok", NoView) /\ UNCHANGED vhost
         \/ /\ c.op = "draft" /\ live
            /\ vhost' = [vhost EXCEPT !.draft = c.body]
            /\ Answer(i, "ok", NoView) /\ UNCHANGED shown
         \/ /\ c.op = "save" /\ live
            /\ vhost' = SavedOver(vhost, c.body)
            /\ Answer(i, "ok", NoView) /\ shown' = AppBack
         \/ /\ c.op = "keepalive" /\ live
            /\ Answer(i, "ok", NoView) /\ UNCHANGED <<vhost, shown>>
         \/ /\ c.op \in {"paint", "draft", "save", "keepalive"} /\ ~live
            /\ Answer(i, "gone", NoView) /\ UNCHANGED <<vhost, shown>>
         \/ /\ c.op = "end"
            /\ vhost' = IF live THEN [vhost EXCEPT !.session = NoToken, !.draft = NoImage] ELSE vhost
            /\ shown' = IF live THEN AppBack ELSE shown
            /\ asks' = RemoveAt(asks, i)
         \/ /\ c.op = "view"
            /\ Answer(i, "ok", Settings(vhost)) /\ UNCHANGED <<vhost, shown>>
         \/ /\ c.op = "learn"
            /\ vhost' = c.body @@ vhost
            /\ Answer(i, "ok", NoView) /\ UNCHANGED shown

\* A request or its answer is lost
LoseAsk(i) ==
  /\ asks[i].status \in {"sent", "ok"} /\ Upsets < board.upsets
  /\ asks' = IF asks[i].op = "end" THEN RemoveAt(asks, i) ELSE [asks EXCEPT ![i].status = "failed"]
  /\ vhost' = [vhost EXCEPT !.lost = @ + 1]
  /\ UNCHANGED <<board, wizard, shown>>

\* finish by the lease or a vanished dock: told over the WebSocket
SessionLost ==
  /\ vhost.session # NoToken /\ ~vhost.notice
  /\ vhost' = [vhost EXCEPT !.session = NoToken, !.draft = NoImage, !.notice = TRUE]
  /\ shown' = AppBack
  /\ UNCHANGED <<board, wizard, asks>>

\* watchEnded: the message names the dock, not the session
NoticeEnded ==
  /\ vhost.notice
  /\ LET mine == wizard.open /\ wizard.token # NoToken
     IN  /\ vhost' = [vhost EXCEPT !.notice = FALSE,
                                   !.crossed = @ \/ (mine /\ wizard.token = vhost.session)]
         /\ wizard' = IF mine THEN [wizard EXCEPT !.token = NoToken, !.ended = TRUE] ELSE wizard
  /\ UNCHANGED <<board, asks, shown>>

\* One that finds its session only renews the lease; the others matter.
Keepalive ==
  /\ wizard.open /\ wizard.token # NoToken
  /\ wizard.token # vhost.session \/ \E i \in 1 .. Len(asks) : asks[i].op = "save"
  /\ \A i \in 1 .. Len(asks) : asks[i].op # "keepalive"
  /\ ByUser(Ask(Page, "keepalive", NoView, Stay))

-----------------------------------------------------------------------------
(* The page takes an answer.                                               *)

\* Closed while starting: the close had no token to end yet
StartedLate(st, token) ==
  [st EXCEPT !.a = Append(@, [op |-> "end", run |-> token, token |-> token, body |-> NoView,
                              after |-> Stay, status |-> "sent", got |-> NoView])]

Started(st, c) ==
  LET w == [st.w EXCEPT !.token = c.run, !.spec = c.got, !.image = c.got.image]
  IN  go([st EXCEPT !.w = w], "visible")

Continued(st, after) ==
  CASE after.to = "stay" -> st
    [] after.to = "sub" -> [st EXCEPT !.w.sub = after.sub]
    [] after.to = "next" -> go(st, target(after.step, 1))
    [] after.to = "paint" -> PaintNow(st, after.kind, after.order, after.then)

TakeAnswer(i) ==
  LET c == asks[i]
      st == [w |-> wizard, a |-> RemoveAt(asks, i)]
      mine == wizard.open /\ c.run = wizard.run
  IN  /\ c.status # "sent"
      /\ UNCHANGED <<board, vhost, shown>>
      /\ \/ /\ c.status = "ok" /\ ~mine
            /\ PageBecomes(IF c.op = "start" THEN StartedLate(st, c.run) ELSE st)
         \/ /\ c.status = "gone" /\ mine
            /\ PageBecomes([st EXCEPT !.w.token = NoToken, !.w.ended = TRUE])
         \/ /\ c.status = "failed" \/ (c.status = "gone" /\ ~mine)
            /\ PageBecomes(st)
         \/ /\ c.status = "ok" /\ mine
            /\ PageBecomes(CASE c.op = "start" -> Started(st, c)
                       [] c.op \in {"paint", "draft"} -> Continued(st, c.after)
                       [] c.op = "save" -> go([st EXCEPT !.w.token = NoToken, !.w.saved = TRUE], target("confirm", 1))
                       [] c.op = "view" -> [st EXCEPT !.w.view = c.got]
                       [] c.op = "keepalive" -> st
                       [] c.op = "learn" -> go([st EXCEPT !.w.learn = NoLearn], "result"))

WizardNext ==
  \/ PressStart \/ AnswerVisible \/ AnswerOrient \/ AnswerRecorded \/ AnswerOrder \/ TapCell \/ StartTapsOver
  \/ AnswerSize \/ AnswerSizeOther \/ AnswerConfirm \/ AnswerButtons \/ PressBack \/ PressClose \/ OpenAgain
  \/ LearnStart \/ LearnPress \/ LearnCancel \/ LearnSave
  \/ \E i \in 1 .. Len(asks) : Serve(i) \/ LoseAsk(i) \/ TakeAnswer(i)
  \/ SessionLost \/ NoticeEnded \/ Keepalive

WizardSpec == WizardInit /\ [][WizardNext]_wizardVars

-----------------------------------------------------------------------------
\* What is saved draws the app's pictures upright and each on its own key, whichever way
\* the deck is mounted and wired and whichever requests were lost; and a splash that was
\* derived from it is upright too (save of verify-modal.tsx, verify-math.ts).
SavedDrawsRight ==
  vhost.saves > 0 =>
    /\ OnGlass(vhost.image) = Upright
    /\ \A p \in Keys : KeyAt(vhost.map, p) = p
    /\ ~SameTurn(vhost.image, RegistryImage) =>
         vhost.splash # NoView /\ Transformed(board.mount, Transformed(vhost.splash, Upright)) = Upright

\* With no request lost, one pick is enough: when the page asks "upright now?" or "in order
\* now?", it is (orientationFix against the corners, applyOrder against the wiring).
OnePickIsEnough ==
  vhost.lost = 0 =>
    /\ Asked("orient", "check") => SeenTurn = NoTurn
    /\ Asked("order", "check") => SeenOrder = Identity

\* With no request lost, the ladder ends at the key's own size; beyond its ends, at the
\* largest size, or at the one in force before (sizeStep).
SavedFits ==
  (vhost.saves > 0 /\ vhost.lost = 0 /\ wizard.saved /\ wizard.size # "other") =>
    LET before == wizard.spec.image.width
        ladder == SizeRungs \cup {before}
    IN  vhost.image.width = CASE board.size < Min(ladder) -> before
                              [] board.size > Max(ladder) -> Max(ladder)
                              [] OTHER -> board.size

\* A closed wizard gives the deck back: unless a request was lost, or a message about an
\* earlier session took the page off its new one, no session is left behind it (release,
\* start).
ClosedGivesBack ==
  (~wizard.open /\ asks = <<>> /\ vhost.lost = 0 /\ ~vhost.crossed) => vhost.session = NoToken

\* The learned map sends each key's wire to that key and every other wire nowhere
\* (deriveWireInputToCora), also after a key was pressed once too often.
LearnedRight ==
  vhost.inputs # NoView =>
    \A w \in DOMAIN vhost.inputs :
      vhost.inputs[w] = IF \E p \in Keys : board.inputs[p] = w THEN CHOOSE p \in Keys : board.inputs[p] = w ELSE -1

\* The wizard leaves the deck as its user saw it when saying yes, and lets go of it.
WizardKeepsItsWord == SavedDrawsRight /\ OnePickIsEnough /\ SavedFits /\ ClosedGivesBack /\ LearnedRight
=============================================================================
