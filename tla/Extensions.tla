----------------------------- MODULE Extensions -----------------------------
(***************************************************************************)
(* One extension: its switch and folder (web/server/extensions-            *)
(* controller.ts), its host and worker (extension/extension-host.ts,       *)
(* extension/extension-worker.ts) and the deck events it is fed            *)
(* (main/extension-events-wiring.ts).  Reading the folder is asynchronous, *)
(* so rescans and switching on overlap with edits of the files, with       *)
(* switching off and with each other; the worker may hang or crash.        *)
(*                                                                         *)
(* A folder is its digest, 0 when it is missing or invalid.                *)
(***************************************************************************)
EXTENDS Integers, Sequences, FiniteSets

CONSTANTS
    MaxPlugs,           \* attachments of a deck to the dock, each a number of its own
    Digests,            \* contents the folder may have
    MaxQueuedEvents, MaxPendingRequests, MaxKills, MaxMissed,
    MaxFolderEdits, MaxReads, MaxExtEvents, MaxAsked, MaxMsgs     \* bounds of the instance

VARIABLES
    extc,       \* ExtensionsController, and the folder on disk
    exth,       \* ExtensionHost (on = there is one)
    extw,       \* the worker: has it loaded, the decks it was told of, hung
    extIn,      \* messages to the worker
    extOut,     \* messages to the host
    attachedDecks,  \* ExtensionEventWiring.attached (of dock 0)
    blind       \* an input of an attached deck reached a worker that never saw its attach

extVars == <<extc, exth, extw, extIn, extOut, attachedDecks, blind>>

NoWorker == [loaded |-> FALSE, knows |-> {}, hung |-> FALSE]
NoHost == [on |-> FALSE, state |-> "none", worker |-> FALSE, queue |-> <<>>, flush |-> FALSE,
           awaiting |-> FALSE, missed |-> 0, kills |-> 0, dropped |-> FALSE, pending |-> {}]
Event(type, d) == [type |-> type, deck |-> d]

-----------------------------------------------------------------------------
(* ExtensionHost.  `c' is the host and what it posted; fresh: to a new worker. *)

(* Mutant: a worker starts without the decks that are attached already. *)
SpawnExtUninformed(h) ==
    [h |-> [h EXCEPT !.worker = TRUE, !.awaiting = FALSE, !.missed = 0, !.state = "loading"],
     post |-> <<[type |-> "load"]>>, fresh |-> TRUE]

SpawnExt(h) ==
    LET initial == [i \in 1..Cardinality(attachedDecks) |->
                        Event("deckAttached", CHOOSE d \in attachedDecks : TRUE)]
    IN  [h |-> [h EXCEPT !.worker = TRUE, !.awaiting = FALSE, !.missed = 0,
                         !.queue = initial \o @, !.state = "loading"],
         post |-> <<[type |-> "load"]>>, fresh |-> TRUE]

(* Every pending request is answered with 503. *)
TeardownExt(h) == [h EXCEPT !.worker = FALSE, !.awaiting = FALSE, !.flush = FALSE, !.pending = {}]

FailExt(h) == [h |-> [TeardownExt(h) EXCEPT !.queue = <<>>, !.state = "error"],
               post |-> <<>>, fresh |-> FALSE]

ExtWorkerDead(h) ==
    LET killed == [h EXCEPT !.kills = @ + 1]
    IN  IF killed.kills >= MaxKills THEN FailExt(killed) ELSE SpawnExt(TeardownExt(killed))

FlushExt(h) == [h EXCEPT !.flush = FALSE, !.queue = <<>>]
EventsMsg(h) == IF h.queue = <<>> THEN <<>> ELSE <<[type |-> "events", list |-> h.queue]>>

EmitExt(h, e) ==
    IF ~h.on \/ h.state = "error" THEN h
    ELSE IF Len(h.queue) >= MaxQueuedEvents THEN [h EXCEPT !.dropped = TRUE]
    ELSE [h EXCEPT !.queue = Append(@, e), !.flush = @ \/ h.state = "running"]

(* What a host call does to the two threads' queues. *)
ExtBecomes(c) ==
    /\ exth' = c.h
    /\ extw' = IF c.fresh \/ ~c.h.worker THEN NoWorker ELSE extw
    /\ extIn' = IF ~c.h.worker THEN <<>> ELSE IF c.fresh THEN c.post ELSE extIn \o c.post
    /\ extOut' = IF c.fresh \/ ~c.h.worker THEN <<>> ELSE extOut  \* late messages are ignored

StopExt == ExtBecomes([h |-> NoHost, post |-> <<>>, fresh |-> FALSE])
StartExt == ExtBecomes(SpawnExt([NoHost EXCEPT !.on = TRUE]))
KeepExt == UNCHANGED <<exth, extw, extIn, extOut>>

-----------------------------------------------------------------------------
(* ExtensionsController *)

Runnable(found, grant) == found # 0 /\ grant = found

ExtInit ==
    /\ \E d \in Digests : extc = [disk |-> d, found |-> 0, grant |-> 0, scanSeq |-> 0,
                                  scans |-> {}, enabling |-> <<>>, disposed |-> FALSE,
                                  edits |-> 0, reads |-> 0, events |-> 0, asked |-> 0, plugs |-> 0]
    /\ exth = NoHost /\ extw = NoWorker /\ extIn = <<>> /\ extOut = <<>>
    /\ attachedDecks = {} /\ blind = FALSE

Folder == UNCHANGED <<attachedDecks, blind>>

(* The user edits, removes or breaks the extension's files. *)
FolderChanges ==
    /\ extc.edits < MaxFolderEdits
    /\ \E d \in (Digests \cup {0}) \ {extc.disk} :
         extc' = [extc EXCEPT !.disk = d, !.edits = @ + 1]
    /\ KeepExt /\ Folder

(* rescan(): the folder is read now, the result is applied later. *)
RescanReads ==
    /\ extc.reads < MaxReads
    /\ extc' = [extc EXCEPT !.scanSeq = @ + 1, !.reads = @ + 1,
                            !.scans = @ \cup {[seq |-> extc.scanSeq + 1, found |-> extc.disk]}]
    /\ KeepExt /\ Folder

(* Overlapping rescans: only the newest applies; it stops what no longer runs and starts what may. *)
RescanApplies ==
    /\ \E s \in extc.scans :
        LET newest == ~extc.disposed /\ s.seq = extc.scanSeq
            ends == [extc EXCEPT !.scans = @ \ {s}]
        IN  IF ~newest THEN extc' = ends /\ KeepExt
            ELSE /\ extc' = [ends EXCEPT !.found = s.found]
                 /\ IF Runnable(s.found, extc.grant)
                    THEN IF exth.on THEN KeepExt ELSE StartExt
                    ELSE StopExt
    /\ Folder

(* setEnabled(true): the folder is read again before the grant pins its digest. *)
SwitchOnReads ==
    /\ extc.reads < MaxReads /\ extc.found # 0
    /\ extc' = [extc EXCEPT !.reads = @ + 1, !.enabling = Append(@, extc.disk)]
    /\ KeepExt /\ Folder

(* Mutant: a switch-on that was reading when the program shut down starts a worker. *)
SwitchOnEndsAfterDispose ==
    /\ extc.enabling # <<>>
    /\ LET fresh == Head(extc.enabling)
           ends == [extc EXCEPT !.enabling = Tail(@)]
       IN  IF fresh = 0 THEN extc' = [ends EXCEPT !.found = 0] /\ StopExt
           ELSE extc' = [ends EXCEPT !.found = fresh, !.grant = fresh] /\ StartExt
    /\ Folder

SwitchOnEnds ==
    /\ extc.enabling # <<>>
    /\ LET fresh == Head(extc.enabling)
           ends == [extc EXCEPT !.enabling = Tail(@)]
       IN  IF extc.disposed THEN extc' = ends /\ KeepExt
           ELSE IF fresh = 0 THEN extc' = [ends EXCEPT !.found = 0] /\ StopExt
           ELSE extc' = [ends EXCEPT !.found = fresh, !.grant = fresh] /\ StartExt
    /\ Folder

SwitchOff ==
    /\ extc.grant # 0
    /\ extc' = [extc EXCEPT !.grant = 0]
    /\ StopExt /\ Folder

DisposeExt ==
    /\ ~extc.disposed
    /\ extc' = [extc EXCEPT !.disposed = TRUE]
    /\ StopExt /\ Folder

-----------------------------------------------------------------------------
(* Deck events, timers and the worker's messages *)

OneMoreEvent == extc.events < MaxExtEvents /\ extc' = [extc EXCEPT !.events = @ + 1]
HostOnly == UNCHANGED <<extw, extIn, extOut>>

(* The dock's `attached' entry is replaced: one deck at a time is attached to it. *)
DeckAttached ==
    /\ extc.plugs < MaxPlugs /\ extc' = [extc EXCEPT !.plugs = @ + 1]
    /\ attachedDecks' = {extc.plugs + 1}
    /\ exth' = EmitExt(exth, Event("deckAttached", extc.plugs + 1))
    /\ HostOnly /\ UNCHANGED blind

DeckForgotten ==
    /\ attachedDecks # {} /\ attachedDecks' = {}
    /\ KeepExt /\ UNCHANGED <<extc, blind>>

DeckInput ==
    /\ OneMoreEvent
    /\ \E d \in attachedDecks : exth' = EmitExt(exth, Event("input", d))
    /\ HostOnly /\ UNCHANGED <<attachedDecks, blind>>

FlushTimer ==
    /\ exth.flush
    /\ exth' = FlushExt(exth) /\ extIn' = extIn \o EventsMsg(exth)
    /\ UNCHANGED <<extc, extw, extOut>> /\ Folder

ExtHeartbeat ==
    LET missed == IF exth.awaiting THEN exth.missed + 1 ELSE 0
    IN  /\ exth.on /\ exth.worker
        /\ IF exth.awaiting /\ missed >= MaxMissed
           THEN ExtBecomes(ExtWorkerDead([exth EXCEPT !.missed = missed]))
           ELSE /\ Len(extIn) <= MaxMsgs
                /\ ExtBecomes([h |-> [exth EXCEPT !.missed = missed, !.awaiting = TRUE],
                               post |-> <<[type |-> "ping"]>>, fresh |-> FALSE])
        /\ UNCHANGED extc /\ Folder

(* An HTTP request for the extension; refused at once unless it runs and has room. *)
AskExt ==
    /\ exth.state = "running" /\ Cardinality(exth.pending) < MaxPendingRequests
    /\ extc.asked < MaxAsked /\ extc' = [extc EXCEPT !.asked = @ + 1]
    /\ exth' = [exth EXCEPT !.pending = @ \cup {extc.asked + 1}]
    /\ extIn' = Append(extIn, [type |-> "request", id |-> extc.asked + 1])
    /\ UNCHANGED <<extw, extOut>> /\ Folder

RequestTimesOut ==
    \E r \in exth.pending :
        /\ exth' = [exth EXCEPT !.pending = @ \ {r}]
        /\ HostOnly /\ UNCHANGED extc /\ Folder

ExtHostReceives ==
    /\ extOut # <<>>
    /\ LET m == Head(extOut)
           done == extOut' = Tail(extOut) /\ UNCHANGED extw
       IN  \/ /\ m.type = "loaded"
              /\ exth' = FlushExt([exth EXCEPT !.state = "running"])
              /\ extIn' = extIn \o EventsMsg(exth) /\ done
           \/ m.type = "loadError" /\ ExtBecomes(FailExt(exth))
           \/ m.type = "crash" /\ ExtBecomes(ExtWorkerDead(exth))
           \/ m.type = "pong" /\ exth' = [exth EXCEPT !.awaiting = FALSE] /\ UNCHANGED extIn /\ done
           \/ /\ m.type = "response"
              /\ exth' = [exth EXCEPT !.pending = @ \ {m.id}] /\ UNCHANGED extIn /\ done
    /\ UNCHANGED extc /\ Folder

(* deliver(): an input of a deck the worker was never told of is remembered in `blind'. *)
Learn(w, list) ==
    [w EXCEPT !.knows = @ \cup {list[i].deck : i \in {j \in DOMAIN list :
                                                         list[j].type = "deckAttached"}}]
SeesBlindly(w, list) ==
    \E i \in DOMAIN list :
        /\ list[i].type = "input" /\ list[i].deck \in attachedDecks \ w.knows
        /\ \A j \in 1..(i - 1) : list[j] # Event("deckAttached", list[i].deck)

ExtWorkerReceives ==
    /\ exth.worker /\ ~extw.hung /\ extIn # <<>> /\ extIn' = Tail(extIn)
    /\ Len(extOut) < MaxMsgs
    /\ LET m == Head(extIn)
           say(t) == extOut' = Append(extOut, t)
       IN  \/ /\ m.type = "load" /\ extw' = [extw EXCEPT !.loaded = TRUE]
              /\ say([type |-> "loaded"]) /\ UNCHANGED blind
           \/ m.type = "load" /\ say([type |-> "loadError"]) /\ UNCHANGED <<extw, blind>>
           \/ /\ m.type = "events" /\ extw' = Learn(extw, m.list)
              /\ blind' = (blind \/ (~exth.dropped /\ SeesBlindly(extw, m.list)))
              /\ UNCHANGED extOut
           \/ m.type = "ping" /\ say([type |-> "pong"]) /\ UNCHANGED <<extw, blind>>
           \/ /\ m.type = "request"
              /\ say([type |-> "response", id |-> m.id]) /\ UNCHANGED <<extw, blind>>
    /\ UNCHANGED <<extc, exth, attachedDecks>>

ExtFails ==
    /\ exth.worker /\ ~extw.hung
    /\ extw' = [extw EXCEPT !.hung = TRUE]
    /\ \/ UNCHANGED extOut
       \/ extOut' = Append(extOut, [type |-> "crash"])
    /\ UNCHANGED <<extc, exth, extIn>> /\ Folder

ExtNext ==
    \/ FolderChanges \/ RescanReads \/ RescanApplies \/ SwitchOnReads \/ SwitchOnEnds
    \/ SwitchOff \/ DisposeExt \/ FlushTimer \/ ExtHeartbeat \/ AskExt \/ RequestTimesOut
    \/ ExtHostReceives \/ ExtWorkerReceives \/ ExtFails
    \/ DeckAttached \/ DeckForgotten \/ DeckInput

ExtSpec == ExtInit /\ [][ExtNext]_extVars

-----------------------------------------------------------------------------
(* Properties *)

(* A worker, also one that replaced a crashed or hung one, is told of an attached deck before *)
(* it gets an input of it, unless events were dropped at the queue's limit.                   *)
InputsFollowAttach == ~blind

(* The extension runs only while it is switched on and its folder, as last read, is the one *)
(* the switch pinned, whatever rescans and switches overlapped; never after shutdown.       *)
RunningIsApproved == exth.on => Runnable(extc.found, extc.grant) /\ ~extc.disposed

(* Only what the user approved runs, and it hears of a deck before it hears its keys.        *)
ExtensionsAreOrderly == InputsFollowAttach /\ RunningIsApproved
=============================================================================
