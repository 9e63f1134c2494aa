------------------------------- MODULE Pages -------------------------------
(***************************************************************************)
(* Layouts that follow the Elgato page (main/page-tracker.ts,              *)
(* main/dock-pages.ts, shared/page-match.ts, shared/page-config.ts,        *)
(* web/server/pages-controller.ts).  The tracker watches the hash of every *)
(* key frame and decides which saved page the deck shows; the user saves,  *)
(* edits and deletes pages from what the tracker last published.           *)
(*                                                                         *)
(* Time is left open: an armed timer may fire at any moment, and a frame   *)
(* that follows another on its key may or may not be close enough to it to *)
(* count as animation, so what holds here holds for every choice of the    *)
(* PAGE_..._MS delays.  A hash is a positive integer, 0 is null.           *)
(***************************************************************************)
EXTENDS Integers, Sequences, FiniteSets

CONSTANTS
    PageKeys,          \* key indices 0 .. keyCount - 1
    PageFrames,        \* <<key, hash>>: the pictures the app may put on a key
    Profiles,          \* advertised CORA models, the first one is 1
    MinMatches,        \* minMatch choices, in percent
    MaxPages,          \* MAX_PAGES
    MaxPageEdits       \* bound on edits and model changes

ASSUME PagesAssumption ==
    /\ PageKeys \subseteq Nat /\ IsFiniteSet(PageKeys)
    /\ PageFrames \subseteq PageKeys \X (Nat \ {0})
    /\ 1 \in Profiles /\ MinMatches \subseteq Nat

VARIABLES
    tracker,     \* the fields of PageTracker
    saved,       \* the device's saved pages, in list order
    seen,        \* the last observation, as PagesController keeps it
    painted,     \* the layout the side-key widgets were last repainted with
    pageEdits    \* edits so far

pageVars == <<tracker, saved, seen, painted, pageEdits>>

NoPage == 0
Unset == -1
DefaultLayout == 1
NoFrames == [k \in PageKeys |-> 0]

-----------------------------------------------------------------------------
(* page-config.ts and page-match.ts *)

Considered(page) == {k \in PageKeys : page.hashes[k] # 0 /\ k \notin page.ignore}
Matched(page, current) == {k \in Considered(page) : current[k] = page.hashes[k]}

RequiredMatches(n, percent) ==
    LET up == (n * percent + 99) \div 100 IN IF up < 1 THEN 1 ELSE up

Eligible(page, profile) == page.profile = profile /\ Considered(page) # {}

(* The place of the best-ranked page that passes its own threshold, 0 when none does. *)
Winner(pages, current, profile) ==
    LET m(i) == Cardinality(Matched(pages[i], current))
        n(i) == Cardinality(Considered(pages[i]))
        passing == {i \in DOMAIN pages : /\ Eligible(pages[i], profile)
                                         /\ m(i) >= RequiredMatches(n(i), pages[i].minMatch)}
        before(i, j) == \/ m(i) * n(j) > m(j) * n(i)
                        \/ m(i) * n(j) = m(j) * n(i) /\ n(i) > n(j)
                        \/ m(i) * n(j) = m(j) * n(i) /\ n(i) = n(j) /\ i < j
    IN  IF passing = {} THEN 0
        ELSE CHOOSE i \in passing : \A j \in passing \ {i} : before(i, j)

IsHeldVector(current) == Cardinality({current[k] : k \in PageKeys} \ {0}) < 2

SuggestIgnore(current, animated) ==
    LET shared == {k \in PageKeys : current[k] # 0
                                    /\ \E j \in PageKeys \ {k} : current[j] = current[k]}
    IN  IF \E k \in PageKeys : current[k] # 0 /\ k \notin shared \cup animated
        THEN shared \cup animated ELSE animated

NextPageId(pages) ==
    LET used == {0} \cup {pages[i].id : i \in DOMAIN pages}
    IN  1 + (CHOOSE n \in used : \A m \in used : m <= n)

PagesNamed(pages, id) == {i \in DOMAIN pages : pages[i].id = id}

(* layoutConfigFor of the active page; a deleted page is the default layout. *)
LayoutOf(t, pages) ==
    LET named == PagesNamed(pages, t.active)
        own == IF named = {} THEN 0 ELSE pages[CHOOSE i \in named : TRUE].layout
    IN  IF own = 0 THEN DefaultLayout ELSE own

-----------------------------------------------------------------------------
(* PageTracker.  `w' is what one call can change: [t, seen, painted]. *)

Now(pages) == [t |-> tracker, pages |-> pages, seen |-> seen, painted |-> painted]

Push(w, held) ==
    [w EXCEPT !.t.lastHeld = held,
              !.seen = [known |-> TRUE, profile |-> w.t.profile, hashes |-> w.t.hashes,
                        suggested |-> SuggestIgnore(w.t.hashes, w.t.animated),
                        settling |-> w.t.settle, held |-> held]]

Repaint(w) == [w EXCEPT !.painted = LayoutOf(w.t, w.pages)]
Commit(w, id) == Repaint([w EXCEPT !.t.active = id, !.t.pending = Unset])
ArmMaxWait(w) == [w EXCEPT !.t.maxWait = TRUE]
ClearTimers(w) == [w EXCEPT !.t.settle = FALSE, !.t.maxWait = FALSE]

Evaluate_(w, kind) ==
    LET timed == [w EXCEPT !.t.maxWait = FALSE, !.t.settle = @ /\ kind = "forced"]
        i == Winner(w.pages, w.t.hashes, w.t.profile)
        candidate == IF i = 0 THEN NoPage ELSE w.pages[i].id
        decided == IF candidate = w.t.active THEN [timed EXCEPT !.t.pending = Unset]
                   ELSE IF kind # "forced" \/ w.t.pending = candidate
                   THEN Commit(timed, candidate)
                   ELSE [timed EXCEPT !.t.pending = candidate]
    IN  IF IsHeldVector(w.t.hashes) THEN Push(timed, TRUE)
        ELSE Push(IF decided.t.pending # Unset THEN ArmMaxWait(decided) ELSE decided, FALSE)

(* `close': the key's previous frame came less than PAGE_ANIMATED_GAP_MS before. *)
NoteFrame(w, key, hash, close) ==
    LET noted == [w EXCEPT !.t.hashes[key] = hash,
                           !.t.animated = IF close THEN @ \cup {key} ELSE @ \ {key}]
        settling == IF close \/ w.t.settle THEN noted
                    ELSE Push([noted EXCEPT !.t.settle = TRUE], w.t.lastHeld)
    IN  ArmMaxWait(settling)

Reset(w) ==
    LET forgot == [ClearTimers(w) EXCEPT !.t.hashes = NoFrames, !.t.animated = {},
                                         !.t.pending = Unset]
        foreign == \E i \in PagesNamed(w.pages, w.t.active) : w.pages[i].profile # w.t.profile
    IN  Push(IF foreign THEN Commit(forgot, NoPage) ELSE forgot, TRUE)

TrackerReload(w) ==
    LET fresh == [w EXCEPT !.t.pending = Unset]
        orphaned == /\ w.t.active # NoPage /\ PagesNamed(w.pages, w.t.active) = {}
                    /\ IsHeldVector(w.t.hashes)
    IN  IF w.t.settle THEN fresh
        ELSE Evaluate_(IF orphaned THEN Commit(fresh, NoPage) ELSE fresh, "reload")

(* Mutant: an edit that keeps the page does not repaint its widgets. *)
ReloadDockUnpainted(w) == TrackerReload(w)

(* DockPages.reload: a reload that keeps the page repaints the widgets itself. *)
ReloadDock(w) ==
    LET r == TrackerReload(w) IN IF r.t.active = w.t.active THEN Repaint(r) ELSE r

Become(w) ==
    tracker' = w.t /\ saved' = w.pages /\ seen' = w.seen /\ painted' = w.painted

-----------------------------------------------------------------------------

PagesInit ==
    /\ tracker = [hashes |-> NoFrames, animated |-> {}, active |-> NoPage, pending |-> Unset,
                  settle |-> FALSE, maxWait |-> FALSE, lastHeld |-> TRUE, profile |-> 1]
    /\ saved = <<>> /\ painted = DefaultLayout /\ pageEdits = 0
    /\ seen = [known |-> FALSE, profile |-> tracker.profile, hashes |-> NoFrames,
               suggested |-> {}, settling |-> FALSE, held |-> TRUE]

Frame ==
    \E f \in PageFrames, close \in BOOLEAN :
        /\ tracker.hashes[f[1]] # f[2]
        /\ close => tracker.hashes[f[1]] # 0
        /\ Become(NoteFrame(Now(saved), f[1], f[2], close))
        /\ UNCHANGED pageEdits

(* A quiet break since it was armed re-arms the timer for the rest of the quiet time. *)
SettleTimer ==
    /\ tracker.settle
    /\ Become(Evaluate_(Now(saved), "quiet"))
    /\ UNCHANGED pageEdits

MaxWaitTimer ==
    /\ tracker.maxWait
    /\ Become(Evaluate_(Now(saved), "forced"))
    /\ UNCHANGED pageEdits

(* The app is gone, or the panel attached again. *)
AppLeaves ==
    /\ tracker.hashes # NoFrames
    /\ Become(Reset(Now(saved)))
    /\ UNCHANGED pageEdits

PageEdit == pageEdits < MaxPageEdits /\ pageEdits' = pageEdits + 1

(* The advertised model changed: dock.setModel resets the tracker. *)
ModelChange ==
    /\ PageEdit
    /\ \E p \in Profiles \ {tracker.profile} :
         Become(Reset([Now(saved) EXCEPT !.t.profile = p]))

(* PagesController: every edit persists the list and has the dock reload it. *)
Persist(pages) == Become(ReloadDock(Now(pages)))
Capturable == seen.known /\ ~seen.settling /\ ~seen.held

TrySnapshot ==
    LET page == [id |-> NextPageId(saved), profile |-> seen.profile, hashes |-> seen.hashes,
                 ignore |-> seen.suggested, minMatch |-> 80, layout |-> 0]
    IN  /\ Capturable /\ Len(saved) < MaxPages /\ Considered(page) # {}
        /\ PageEdit /\ Persist(Append(saved, page))

Replace(i, page) == Considered(page) # {} /\ PageEdit /\ Persist([saved EXCEPT ![i] = page])

TryUpdate ==
    \E i \in DOMAIN saved, m \in MinMatches, ignore \in {{}} \cup {{k} : k \in PageKeys} :
        Replace(i, [saved[i] EXCEPT !.minMatch = m, !.ignore = ignore])

TryRecapture ==
    /\ Capturable
    /\ \E i \in DOMAIN saved :
         Replace(i, [saved[i] EXCEPT !.profile = seen.profile, !.hashes = seen.hashes])

(* 'own' copies the default layout unless there is one, 'default' drops it; an edit of an own layout. *)
TrySetLayout ==
    \E i \in DOMAIN saved :
        /\ PageEdit
        /\ Persist([saved EXCEPT ![i].layout = IF @ = 0 THEN DefaultLayout ELSE 0])

TryEditLayout ==
    \E i \in DOMAIN saved :
        /\ saved[i].layout # 0
        /\ PageEdit /\ Persist([saved EXCEPT ![i].layout = 3 - @])

TryDelete ==
    \E i \in DOMAIN saved :
        PageEdit /\ Persist([j \in 1..(Len(saved) - 1) |-> saved[IF j < i THEN j ELSE j + 1]])

PagesNext ==
    \/ Frame \/ SettleTimer \/ MaxWaitTimer \/ AppLeaves \/ ModelChange
    \/ TrySnapshot \/ TryUpdate \/ TryRecapture \/ TrySetLayout \/ TryEditLayout \/ TryDelete

PagesSpec == PagesInit /\ [][PagesNext]_pageVars

-----------------------------------------------------------------------------
(* Properties *)

(* Once both timers have run out, the active page is the one the frames on the deck match now: *)
(* a forced mid-burst verdict never stays unconfirmed, and an edit during a burst is not lost. *)
QuietPageIsTheWinner ==
    ~tracker.settle /\ ~tracker.maxWait /\ ~IsHeldVector(tracker.hashes)
        => LET i == Winner(saved, tracker.hashes, tracker.profile)
           IN  /\ tracker.active = IF i = 0 THEN NoPage ELSE saved[i].id
               /\ tracker.pending = Unset
               /\ seen.hashes = tracker.hashes

(* What a snapshot would save is what the deck shows, except on keys that animate: the *)
(* controller's copy says it is settling from the first frame of a page change on.     *)
CapturableIsCurrent ==
    seen.known => /\ seen.settling = tracker.settle
                  /\ Capturable => \A k \in PageKeys \ tracker.animated :
                                      seen.hashes[k] = tracker.hashes[k]

(* The widgets show the layout in force after every edit, also one made while the page is      *)
(* settling or of a page that is not the active one (push, ReloadDock).                        *)
LayoutIsCurrent == painted = LayoutOf(tracker, saved)

(* The layout follows the deck: the verdict, what a snapshot takes and what is painted agree   *)
(* with the frames of the app, through bursts, edits, replugs and lost sessions.               *)
LayoutFollowsPanel == QuietPageIsTheWinner /\ CapturableIsCurrent /\ LayoutIsCurrent
=============================================================================
