----------------------------- MODULE BrowserDeck -----------------------------
(***************************************************************************)
(* The browser deck: the lifecycle of the dock without a USB device        *)
(* (main/virtual-deck/virtual-dock.ts), its panel state                    *)
(* (virtual-deck-driver.ts), the hub of connected pages with their send    *)
(* windows and held keys (web/server/virtual-deck/deck-hub.ts,             *)
(* frame-queue.ts, held-keys.ts), and the page: its socket and its         *)
(* pointers (web/client/deck/deck-socket.ts, press-tracker.ts).            *)
(*                                                                         *)
(* A session is one socket, with the messages under way in each direction. *)
(* Pictures are numbers, newest highest; the token exchange is one answer, *)
(* yes or no.                                                              *)
(***************************************************************************)
EXTENDS Integers, Sequences, SequencesExt, FiniteSets

CONSTANTS
  DeckPages,       \* browser pages
  DeckKeys,        \* keys of the layout
  DeckProfiles,    \* layouts the setting may name
  MaxDeckWindow,   \* DECK_MAX_IN_FLIGHT
  MaxDeckClients,  \* DECK_MAX_CLIENTS
  MaxDeckSockets,  \* bound: sockets ever opened
  MaxDeckActs      \* bound: pictures, clears, presses and changes of the setting

ASSUME DeckAssumption ==
  /\ IsFiniteSet(DeckKeys) /\ DeckKeys \subseteq Nat
  /\ DeckProfiles # {} /\ 0 \notin DeckProfiles
  /\ MaxDeckWindow \in Nat \ {0}

VARIABLES
  vdock,     \* VirtualDock, its settings entry and the driver's screen
  deckSess,  \* DeckHub.sessions, by socket
  holders,   \* HeldKeys
  keyDown,   \* keys the dock was told are down
  deckPage,  \* DeckSocket and PressTracker of each page
  deckSpent  \* counter behind the bound

deckVars == <<vdock, deckSess, holders, keyDown, deckPage, deckSpent>>

Blank == 0
NoSock == 0
NoItem == -1

DeckInit ==
  /\ LET p == CHOOSE q \in DeckProfiles : TRUE IN
       vdock = [enabled |-> FALSE, profile |-> p, running |-> Blank, phase |-> "idle",
                target |-> Blank, syncs |-> 0, failed |-> FALSE, screen |-> [k \in DeckKeys |-> Blank]]
  /\ deckSess = <<>>
  /\ holders = [k \in DeckKeys |-> {}]
  /\ keyDown = {}
  /\ deckPage = [p \in DeckPages |-> [sock |-> NoSock, live |-> FALSE, frames |-> 0,
                   images |-> [k \in DeckKeys |-> Blank], pressed |-> {}, stopped |-> FALSE]]
  /\ deckSpent = 0

-----------------------------------------------------------------------------
(* A session's send window.                                                *)

LiveSessions == {s \in DOMAIN deckSess : deckSess[s].state = "live"}

\* one turn of drain's loop: a frame needs room in the window, a clear does not
DrainOne(acc, k) ==
  IF acc.pending[k] = NoItem \/ (acc.pending[k] # Blank /\ acc.sent - acc.acked >= MaxDeckWindow)
    THEN acc
    ELSE [acc EXCEPT !.down = Append(@, [t |-> "key", k |-> k, image |-> acc.pending[k]]),
                     !.sent = IF acc.pending[k] = Blank THEN @ ELSE @ + 1,
                     !.pending[k] = NoItem]

\* drain: the keys in ascending order, the highest last
Drain(q) == MapThenFoldSet(LAMBDA k, acc : DrainOne(acc, k), q, LAMBDA k : k, Max, DeckKeys)

\* push: a newer item for the key replaces the one that waits
PushItem(q, k, image) == Drain([q EXCEPT !.pending[k] = image])

AckFrames(q, n) ==
  LET m == IF n < q.sent THEN n ELSE q.sent
  IN  Drain([q EXCEPT !.acked = IF m > @ THEN m ELSE @])

-----------------------------------------------------------------------------
(* The driver: a picture or a clear of one key, to every live page.        *)

Paint(k, image) ==
  /\ vdock.phase # "idle" \/ vdock.running # Blank   \* the dock exists
  /\ deckSpent < MaxDeckActs
  /\ deckSpent' = deckSpent + 1
  /\ vdock' = [vdock EXCEPT !.screen[k] = image]
  /\ deckSess' = [s \in DOMAIN deckSess |->
                    IF s \in LiveSessions THEN PushItem(deckSess[s], k, image) ELSE deckSess[s]]
  /\ UNCHANGED <<holders, keyDown, deckPage>>

RenderCoraImage(k) == Paint(k, deckSpent + 1)
ClearKey(k) == vdock.screen[k] # Blank /\ Paint(k, Blank)

-----------------------------------------------------------------------------
(* The hub: sessions and keys.                                             *)

\* releaseSession: the keys this session alone held become free
ReleasedBy(S) == [k \in DeckKeys |-> holders[k] \ S]
FreedBy(S) == {k \in DeckKeys : holders[k] # {} /\ holders[k] \subseteq S}

Release(S) ==
  /\ holders' = ReleasedBy(S)
  /\ keyDown' = keyDown \ FreedBy(S)

NewSession == [state |-> "awaiting-hello", open |-> TRUE, up |-> <<[t |-> "hello"]>>, down |-> <<>>,
               pending |-> [k \in DeckKeys |-> NoItem], sent |-> 0, acked |-> 0]
ForgottenSession == [NewSession EXCEPT !.state = "closed", !.open = FALSE, !.up = <<>>]

\* bye, then drop: the page, if its socket is still there, is told why
DroppedSession(q, terminal) ==
  [ForgottenSession EXCEPT !.down = IF q.open THEN Append(q.down, [t |-> "bye", terminal |-> terminal])
                                    ELSE <<>>]

\* Mutant: a session goes without letting go of its keys
ByeHoldingKeys(S, terminal) ==
  /\ deckSess' = [s \in DOMAIN deckSess |->
                    IF s \in S /\ deckSess[s].state # "closed"
                      THEN DroppedSession(deckSess[s], terminal) ELSE deckSess[s]]
  /\ UNCHANGED <<holders, keyDown>>

Bye(S, terminal) ==
  /\ deckSess' = [s \in DOMAIN deckSess |->
                    IF s \in S /\ deckSess[s].state # "closed"
                      THEN DroppedSession(deckSess[s], terminal) ELSE deckSess[s]]
  /\ Release(S)

\* the pushes for a page that is let in: in ascending order into a window nothing was sent
\* through yet, they send what one drain of them all sends
LetIn(q, screen) ==
  Drain([q EXCEPT !.state = "live", !.down = Append(@, [t |-> "welcome"]),
                  !.pending = [k \in DeckKeys |-> IF screen[k] = Blank THEN NoItem ELSE screen[k]]])

\* hello answered by verify: a page beyond the limit or without a token is sent away
HelloVerified(s) ==
  /\ deckSess[s].state = "authenticating"
  /\ \E known \in BOOLEAN :
       IF ~known THEN Bye({s}, TRUE)
       ELSE IF Cardinality(LiveSessions) >= MaxDeckClients THEN Bye({s}, FALSE)
       ELSE /\ deckSess' = [deckSess EXCEPT ![s] = LetIn(@, vdock.screen)]
            /\ UNCHANGED <<holders, keyDown>>
  /\ UNCHANGED <<vdock, deckPage, deckSpent>>

\* key down: dropped when it is late; forwarded when the key was free
KeyDown(s, k) ==
  \/ UNCHANGED <<holders, keyDown>>
  \/ /\ holders' = [holders EXCEPT ![k] = @ \cup {s}]
     /\ keyDown' = IF holders[k] = {} THEN keyDown \cup {k} ELSE keyDown

\* key up: forwarded when the last holder let go; of a key it does not hold, ignored
KeyUp(s, k) ==
  /\ holders' = [holders EXCEPT ![k] = @ \ {s}]
  /\ keyDown' = IF holders[k] = {s} THEN keyDown \ {k} ELSE keyDown

\* DeckHub.message
HubMessage(s) ==
  LET q == deckSess[s]
      m == Head(q.up)
      read == [q EXCEPT !.up = Tail(@)]
  IN  /\ q.state # "closed" /\ q.up # <<>>
      /\ CASE m.t = "hello" ->
                /\ deckSess' = [deckSess EXCEPT ![s] = [read EXCEPT !.state = "authenticating"]]
                /\ UNCHANGED <<holders, keyDown>>
           [] m.t = "ack" ->
                /\ deckSess' = [deckSess EXCEPT ![s] = AckFrames(read, m.n)]
                /\ UNCHANGED <<holders, keyDown>>
           [] m.t = "releaseAll" -> deckSess' = [deckSess EXCEPT ![s] = read] /\ Release({s})
           [] m.t = "down" -> deckSess' = [deckSess EXCEPT ![s] = read] /\ KeyDown(s, m.k)
           [] m.t = "up" -> deckSess' = [deckSess EXCEPT ![s] = read] /\ KeyUp(s, m.k)
      /\ UNCHANGED <<vdock, deckPage, deckSpent>>

\* the socket's close event, after what the page had sent; or tick finds a session
\* silent for too long
HubClose(s) ==
  /\ deckSess[s].state # "closed"
  /\ deckSess[s].open \/ deckSess[s].up = <<>>
  /\ Bye({s}, FALSE)
  /\ UNCHANGED <<vdock, deckPage, deckSpent>>

-----------------------------------------------------------------------------
(* The page.                                                               *)

Listening == vdock.running # Blank \/ vdock.phase = "stopping"

SendTo(s, m) ==
  deckSess' = IF deckSess[s].open /\ deckSess[s].state # "closed"
                THEN [deckSess EXCEPT ![s].up = Append(@, m)] ELSE deckSess

\* connect, and onOpen: nothing pressed before survives, then hello
PageConnects(p) ==
  /\ deckPage[p].sock = NoSock /\ ~deckPage[p].stopped /\ Listening
  /\ Len(deckSess) < MaxDeckSockets
  /\ deckSess' = Append(deckSess, NewSession)
  /\ deckPage' = [deckPage EXCEPT ![p].sock = Len(deckSess) + 1, ![p].frames = 0, ![p].pressed = {}]
  /\ UNCHANGED <<vdock, holders, keyDown, deckSpent>>

\* onMessage: a frame is acknowledged before it is decoded
GotPage(pg, m) ==
  CASE m.t = "welcome" -> [pg EXCEPT !.live = TRUE]
    [] m.t = "bye" -> [pg EXCEPT !.stopped = @ \/ m.terminal]
    [] m.t = "key" -> [pg EXCEPT !.images[m.k] = m.image, !.frames = IF m.image = Blank THEN @ ELSE @ + 1]

PageReceives(p) ==
  LET s == deckPage[p].sock
      m == Head(deckSess[s].down)
      read == [deckSess EXCEPT ![s].down = Tail(@)]
      ack == [t |-> "ack", n |-> deckPage[p].frames + 1]
  IN  /\ s # NoSock /\ deckSess[s].down # <<>>
      /\ deckSess' = IF m.t = "key" /\ m.image # Blank /\ deckSess[s].open
                       THEN [read EXCEPT ![s].up = Append(@, ack)] ELSE read
      /\ deckPage' = [deckPage EXCEPT ![p] = GotPage(@, m)]
      /\ UNCHANGED <<vdock, holders, keyDown, deckSpent>>

DetachedPage(pg) == [pg EXCEPT !.sock = NoSock, !.live = FALSE]

\* the page's close event
PageClosed(p) ==
  LET s == deckPage[p].sock
  IN  /\ s # NoSock /\ ~deckSess[s].open /\ deckSess[s].down = <<>>
      /\ deckPage' = [deckPage EXCEPT ![p] = DetachedPage(@)]
      /\ UNCHANGED <<vdock, deckSess, holders, keyDown, deckSpent>>

\* the page is hidden or loses focus: releaseAll, then the socket is closed
Suspend(p) ==
  LET s == deckPage[p].sock
      q == deckSess[s]
  IN  /\ s # NoSock
      /\ deckPage' = [deckPage EXCEPT ![p] = [DetachedPage(@) EXCEPT !.pressed = {}]]
      /\ deckSess' = [deckSess EXCEPT ![s] =
           IF q.state = "closed" THEN ForgottenSession
           ELSE [q EXCEPT !.open = FALSE, !.down = <<>>,
                          !.up = IF deckPage[p].live /\ q.open THEN Append(@, [t |-> "releaseAll"]) ELSE @]]
      /\ UNCHANGED <<vdock, holders, keyDown, deckSpent>>

\* the network takes the socket and what was under way on it
NetworkCut(s) ==
  /\ deckSess[s].open
  /\ deckSess' = [deckSess EXCEPT ![s].open = FALSE, ![s].up = <<>>, ![s].down = <<>>]
  /\ UNCHANGED <<vdock, holders, keyDown, deckPage, deckSpent>>

\* a pointer goes down on a key no other holds, or the last one lifts; input is sent
\* on a live socket and never queued
Press(p, k) ==
  /\ k \notin deckPage[p].pressed /\ deckSpent < MaxDeckActs
  /\ deckSpent' = deckSpent + 1
  /\ deckPage' = [deckPage EXCEPT ![p].pressed = @ \cup {k}]
  /\ IF deckPage[p].live THEN SendTo(deckPage[p].sock, [t |-> "down", k |-> k]) ELSE UNCHANGED deckSess
  /\ UNCHANGED <<vdock, holders, keyDown>>

Lift(p, k) ==
  /\ k \in deckPage[p].pressed
  /\ deckPage' = [deckPage EXCEPT ![p].pressed = @ \ {k}]
  /\ IF deckPage[p].live THEN SendTo(deckPage[p].sock, [t |-> "up", k |-> k]) ELSE UNCHANGED deckSess
  /\ UNCHANGED <<vdock, holders, keyDown, deckSpent>>

-----------------------------------------------------------------------------
(* VirtualDock: start and stop never overlap.                              *)

\* the setting changes: one more reconcile joins the chain
SetConfig(on, profile) ==
  /\ deckSpent < MaxDeckActs
  /\ <<on, profile>> # <<vdock.enabled, vdock.profile>>
  /\ deckSpent' = deckSpent + 1
  /\ vdock' = [vdock EXCEPT !.enabled = on, !.profile = profile, !.failed = FALSE,
                            !.syncs = @ + 1]
  /\ UNCHANGED <<deckSess, holders, keyDown, deckPage>>

WantedNow == IF vdock.enabled THEN vdock.profile ELSE Blank

\* reconcile: the setting is read once; stop first, then start
Reconcile ==
  /\ vdock.phase = "idle" /\ vdock.syncs > 0
  /\ IF vdock.running # Blank /\ vdock.running # WantedNow THEN
       /\ vdock' = [vdock EXCEPT !.phase = "stopping", !.running = Blank, !.target = WantedNow]
       /\ Bye(DOMAIN deckSess, WantedNow # Blank)
     ELSE
       /\ vdock' = IF WantedNow # vdock.running
                     THEN [vdock EXCEPT !.phase = "starting", !.target = WantedNow]
                     ELSE [vdock EXCEPT !.syncs = @ - 1]
       /\ UNCHANGED <<deckSess, holders, keyDown>>
  /\ UNCHANGED <<deckPage, deckSpent>>

\* stop, past the wait that flushes the byes: listener, driver and dock are gone
DeckStopped ==
  /\ vdock.phase = "stopping"
  /\ vdock' = [vdock EXCEPT !.phase = IF vdock.target # Blank THEN "starting" ELSE "idle",
                            !.syncs = IF vdock.target # Blank THEN @ ELSE @ - 1,
                            !.screen = [k \in DeckKeys |-> Blank]]
  /\ deckSess' = [s \in DOMAIN deckSess |-> IF deckSess[s].open THEN ForgottenSession ELSE deckSess[s]]
  /\ holders' = [k \in DeckKeys |-> {}]
  /\ keyDown' = {}
  /\ UNCHANGED <<deckPage, deckSpent>>

\* start: the dock, then the listener; a port that is taken unwinds both
DeckStarted ==
  /\ vdock.phase = "starting"
  /\ \E ok \in BOOLEAN :
       vdock' = [vdock EXCEPT !.phase = "idle", !.syncs = @ - 1, !.failed = ~ok,
                              !.running = IF ok THEN vdock.target ELSE Blank,
                              !.screen = IF ok THEN @ ELSE [k \in DeckKeys |-> Blank]]
  /\ UNCHANGED <<deckSess, holders, keyDown, deckPage, deckSpent>>

DeckNext ==
  \/ \E k \in DeckKeys : RenderCoraImage(k) \/ ClearKey(k)
  \/ \E s \in DOMAIN deckSess : HelloVerified(s) \/ HubMessage(s) \/ HubClose(s) \/ NetworkCut(s)
  \/ \E p \in DeckPages : PageConnects(p) \/ PageReceives(p) \/ PageClosed(p) \/ Suspend(p)
                            \/ \E k \in DeckKeys : Press(p, k) \/ Lift(p, k)
  \/ \E on \in BOOLEAN, profile \in DeckProfiles : SetConfig(on, profile)
  \/ Reconcile \/ DeckStopped \/ DeckStarted

DeckSpec == DeckInit /\ [][DeckNext]_deckVars

-----------------------------------------------------------------------------
\* the page's socket is up and nothing is under way on it
Quiet(p) ==
  LET s == deckPage[p].sock
  IN  s # NoSock /\ deckPage[p].live /\ deckSess[s].open /\ deckSess[s].state = "live"
        /\ deckSess[s].up = <<>> /\ deckSess[s].down = <<>>

\* The dock sees a key down exactly while a connected page holds it, one down and one
\* up for mirrored pages; a page that lifted, left or was cut off leaves no key down
\* once its socket is quiet or gone.
HeldKeysAreReleased ==
  /\ keyDown = {k \in DeckKeys : holders[k] # {}}
  /\ \A k \in DeckKeys : holders[k] \subseteq LiveSessions
  /\ \A p \in DeckPages, k \in DeckKeys :
       (Quiet(p) /\ deckPage[p].sock \in holders[k]) => k \in deckPage[p].pressed

\* A page whose socket is quiet has nothing waiting in its send window and shows
\* the picture of every key that has one.
PagesShowScreen ==
  \A p \in DeckPages : Quiet(p) =>
    \A k \in DeckKeys :
      /\ deckSess[deckPage[p].sock].pending[k] = NoItem
      /\ vdock.screen[k] # Blank => deckPage[p].images[k] = vdock.screen[k]

\* Once the chain is idle the deck runs what the setting asks for, or its last start
\* failed.
DeckFollowsSetting ==
  (vdock.phase = "idle" /\ vdock.syncs = 0) =>
    \/ vdock.running = WantedNow
    \/ vdock.failed /\ vdock.running = Blank

\* The browser deck is a faithful deck: presses come in pairs, pages show what the
\* dock drew, and the listener runs what the setting asks for.
DeckIsFaithful == HeldKeysAreReleased /\ PagesShowScreen /\ DeckFollowsSetting
=============================================================================
