----------------------------- MODULE CoraSession -----------------------------
(***************************************************************************)
(* The network side of one dock: the CORA server pair (CoraDock), the      *)
(* sockets it accepts (cora/server-base.ts, platform/tcp.ts), the child's  *)
(* dial-back (cora/child-reconnector.ts) and the pairing watchdog          *)
(* (cora/pairing-watchdog.ts).                                             *)
(*                                                                         *)
(* The Elgato app connects to the primary port, then to the child port,    *)
(* and may abandon a pairing: it closes an early child session and does    *)
(* not open another one for as long as its primary session lives.  Each    *)
(* server has one client.  A newcomer replaces a client that has been      *)
(* silent for the eviction grace and is turned away otherwise.             *)
(*                                                                         *)
(* destroy() queues the socket's close handlers as a microtask, which runs *)
(* before any other event: while a socket is "closing" only CloseEvent is  *)
(* enabled.  A socket nobody listens on yet closes without a trace.        *)
(***************************************************************************)
EXTENDS Integers, FiniteSets

CONSTANTS
    Sockets,        \* NodeLikeSocket objects, reused once closed
    NoSocket,
    MaxRetries,     \* MAX_PAIRING_RETRIES
    MaxAttempts,    \* startWithRetry's maxAttempts
    AllowOutbound   \* enableOutboundReconnect: the class allows it, app.ts turns it off

ASSUME SessionAssumption ==
    /\ IsFiniteSet(Sockets) /\ NoSocket \notin Sockets
    /\ MaxRetries \in Nat /\ MaxAttempts \in Nat \ {0} /\ AllowOutbound \in BOOLEAN

Ends == {"primary", "child"}

VARIABLES
    sock,       \* socket -> state, the server it belongs to, and whether that server still
                \*   listens under the generation that accepted it
    clientOf,   \* CoraServerBase.client of each server
    quiet,      \* ... which has been silent for evictionGraceMs
    intervals,  \* keepalive intervals running for each server
    listening,  \* NodeLikeServer of each: down, binding, up; stale: closed while binding
    starter,    \* startWithRetry: bind, wait, done, failed
    attempt,
    stopped,    \* CoraDock.stop was called
    rec,        \* ChildReconnector
    watch,      \* PairingWatchdog
    sulking     \* the app has abandoned the pairing

netVars == <<sock, clientOf, quiet, intervals>>
startVars == <<listening, starter, attempt, stopped>>
coraVars == <<netVars, startVars, rec, watch, sulking>>

Free == [st |-> "free", end |-> "primary", live |-> FALSE]
Has(e) == clientOf[e] # NoSocket

TypeOK ==
    /\ sock \in [Sockets -> [st : {"free", "opening", "dialing", "open", "closing"},
                             end : Ends, live : BOOLEAN]]
    /\ clientOf \in [Ends -> Sockets \cup {NoSocket}]
    /\ quiet \in [Ends -> BOOLEAN] /\ intervals \in [Ends -> Nat]
    /\ listening \in [Ends -> {"down", "binding", "up", "stale"}]
    /\ starter \in {"bind", "wait", "done", "failed"} /\ attempt \in 1 .. MaxAttempts
    /\ stopped \in BOOLEAN /\ sulking \in BOOLEAN
    /\ rec \in [enabled : BOOLEAN, remote : BOOLEAN, timer : BOOLEAN,
                state : {"idle", "in-progress", "scheduled"}, out : Sockets \cup {NoSocket}]
    /\ watch \in [timer : BOOLEAN, retries : 0 .. MaxRetries, early : BOOLEAN]

CoraInit ==
    /\ sock = [s \in Sockets |-> Free]
    /\ clientOf = [e \in Ends |-> NoSocket] /\ quiet = [e \in Ends |-> FALSE]
    /\ intervals = [e \in Ends |-> 0]
    /\ listening = [e \in Ends |-> IF e = "primary" THEN "binding" ELSE "down"]
    /\ starter = "bind" /\ attempt = 1 /\ stopped = FALSE
    /\ rec = [enabled |-> FALSE, remote |-> FALSE, timer |-> FALSE, state |-> "idle",
              out |-> NoSocket]
    /\ watch = [timer |-> FALSE, retries |-> 0, early |-> FALSE]
    /\ sulking = FALSE

NoMicrotask == \A s \in Sockets : sock[s].st # "closing"

-----------------------------------------------------------------------------
(* Starting and stopping the pair. *)

(* stopServer of both servers: drop the clients without an event, stop listening.  Sockets
   still opening belong to an older generation now; a dial under way is destroyed. *)
StopServers ==
    /\ sock' = [s \in Sockets |->
           IF sock[s].st = "open" THEN [sock[s] EXCEPT !.st = "closing"]
           ELSE IF sock[s].st = "dialing" THEN Free
           ELSE [sock[s] EXCEPT !.live = FALSE]]
    /\ clientOf' = [e \in Ends |-> NoSocket]
    /\ intervals' = [e \in Ends |-> 0]
    /\ listening' = [e \in Ends |-> IF listening[e] = "binding" THEN "stale" ELSE "down"]
    /\ rec' = [rec EXCEPT !.enabled = FALSE, !.out = NoSocket, !.timer = FALSE]

(* A bind succeeds.  The child is bound after the primary; then the dial-back is enabled.  A
   listener that was closed while it was binding closes itself. *)
Bound(e) ==
    /\ NoMicrotask
    /\ \/ /\ listening[e] = "stale"
          /\ listening' = [listening EXCEPT ![e] = "down"]
          /\ UNCHANGED <<starter, rec>>
       \/ /\ listening[e] = "binding" /\ e = "primary"
          /\ listening' = [primary |-> "up", child |-> "binding"]
          /\ UNCHANGED <<starter, rec>>
       \/ /\ listening[e] = "binding" /\ e = "child"
          /\ listening' = [listening EXCEPT ![e] = "up"]
          /\ starter' = "done"
          /\ rec' = [rec EXCEPT !.enabled = TRUE]
    /\ UNCHANGED <<netVars, attempt, stopped, watch, sulking>>

(* The port is taken: stop both servers, try again later or give up. *)
BindFails(e) ==
    /\ NoMicrotask /\ listening[e] = "binding"
    /\ StopServers
    /\ starter' = IF attempt = MaxAttempts THEN "failed" ELSE "wait"
    /\ UNCHANGED <<quiet, attempt, stopped, watch, sulking>>

RetryTimer ==
    /\ NoMicrotask /\ starter = "wait"
    /\ IF stopped
       THEN starter' = "done" /\ UNCHANGED <<listening, attempt>>
       ELSE /\ starter' = "bind" /\ attempt' = attempt + 1
            /\ listening' = [listening EXCEPT !.primary = "binding"]
    /\ UNCHANGED <<netVars, stopped, rec, watch, sulking>>

(* CoraDock.stop cancels the watchdog, a bind under way and the retries. *)
Stop ==
    /\ NoMicrotask /\ ~stopped
    /\ stopped' = TRUE
    /\ StopServers
    /\ watch' = [watch EXCEPT !.timer = FALSE]
    /\ starter' = IF starter = "bind" THEN "done" ELSE starter
    /\ UNCHANGED <<quiet, attempt, sulking>>

-----------------------------------------------------------------------------
(* Connections. *)

(* The peer connects; the socket opens in a later step.  An app that has abandoned the
   pairing opens no child session.  (Bound: one socket stays in reserve for the dial-back.) *)
Connect(s, e) ==
    /\ NoMicrotask /\ listening[e] = "up" /\ sock[s].st = "free"
    /\ \E t \in Sockets \ {s} : sock[t].st = "free"
    /\ e = "child" => Has("primary") /\ ~sulking
    /\ sock' = [sock EXCEPT ![s] = [st |-> "opening", end |-> e, live |-> TRUE]]
    /\ UNCHANGED <<clientOf, quiet, intervals, startVars, rec, watch, sulking>>

(* acceptConnection(s), with the events it emits: the child's client disarms the watchdog
   and the dial-back. *)
AcceptConnection(s, e) ==
    IF Has(e) /\ ~quiet[e]
    THEN /\ sock' = [sock EXCEPT ![s] = Free]
         /\ UNCHANGED <<clientOf, quiet, intervals, watch, sulking>>
         /\ rec' = IF rec.out = s THEN [rec EXCEPT !.timer = FALSE, !.state = "idle",
                                                   !.out = NoSocket] ELSE rec
    ELSE /\ sock' = [t \in Sockets |->
                IF t = s THEN [st |-> "open", end |-> e, live |-> TRUE]
                ELSE IF t = clientOf[e] THEN [sock[t] EXCEPT !.st = "closing"]
                ELSE IF e = "child" /\ t = rec.out THEN Free
                ELSE sock[t]]
         /\ clientOf' = [clientOf EXCEPT ![e] = s]
         /\ quiet' = [quiet EXCEPT ![e] = FALSE]
         /\ intervals' = [intervals EXCEPT ![e] = @ + 1 - (IF Has(e) THEN 1 ELSE 0)]
         /\ watch' = IF e = "child" THEN [watch EXCEPT !.timer = FALSE, !.early = TRUE]
                     ELSE watch
         /\ rec' = IF e = "child" THEN [rec EXCEPT !.remote = TRUE, !.timer = FALSE,
                                                   !.state = "idle", !.out = NoSocket]
                   ELSE rec
         /\ sulking' = FALSE

(* A variant without the generation check. *)
AdoptLate(s) ==
    /\ NoMicrotask /\ sock[s].st = "opening"
    /\ AcceptConnection(s, sock[s].end)
    /\ UNCHANGED startVars

(* The accepted socket is open: hand it over, unless the server was closed meanwhile. *)
Adopt(s) ==
    /\ NoMicrotask /\ sock[s].st = "opening"
    /\ IF sock[s].live THEN AcceptConnection(s, sock[s].end)
       ELSE sock' = [sock EXCEPT ![s] = Free]
            /\ UNCHANGED <<clientOf, quiet, intervals, rec, watch, sulking>>
    /\ UNCHANGED startVars

(* A client sends something, or has been silent for the eviction grace. *)
Data(e) ==
    /\ NoMicrotask /\ Has(e) /\ quiet[e]
    /\ quiet' = [quiet EXCEPT ![e] = FALSE]
    /\ UNCHANGED <<sock, clientOf, intervals, startVars, rec, watch, sulking>>

Silence(e) ==
    /\ NoMicrotask /\ Has(e) /\ ~quiet[e]
    /\ quiet' = [quiet EXCEPT ![e] = TRUE]
    /\ UNCHANGED <<sock, clientOf, intervals, startVars, rec, watch, sulking>>

(* A socket ends: the peer closes it, the transport fails, its write backlog overflows, or
   the dock drops it after an overload of its driver. *)
SocketEnds(s) ==
    /\ NoMicrotask /\ sock[s].st = "open"
    /\ sock' = [sock EXCEPT ![s].st = "closing"]
    /\ sulking' = (sulking \/ (sock[s].end = "child" /\ watch.early))
    /\ UNCHANGED <<clientOf, quiet, intervals, startVars, rec, watch>>

(* ChildReconnector.tryConnect, for the reconnector's record r. *)
Dials(r) == r.enabled /\ r.remote /\ AllowOutbound /\ r.state = "idle"

TryConnect(r, sk) ==
    IF Dials(r)
    THEN \E t \in Sockets :
         /\ sk[t].st = "free"
         /\ sock' = [sk EXCEPT ![t] = [st |-> "dialing", end |-> "child", live |-> TRUE]]
         /\ rec' = [r EXCEPT !.state = "in-progress", !.out = t]
    ELSE sock' = sk /\ rec' = r

(* A variant with the test on the session's length the wrong way round. *)
OnChildGoneInverted ==
    watch' = IF watch.early THEN [watch EXCEPT !.retries = 0]
             ELSE IF Has("primary") THEN [watch EXCEPT !.timer = TRUE]
             ELSE watch

(* PairingWatchdog.onChildGone: a long session ends the failure streak, an early one arms
   the recheck. *)
OnChildGone ==
    watch' = IF ~watch.early THEN [watch EXCEPT !.retries = 0]
             ELSE IF Has("primary") THEN [watch EXCEPT !.timer = TRUE]
             ELSE watch

(* The socket's close handler.  Only the client's close is an event: the child's starts the
   dial-back and informs the watchdog, the primary's disarms it. *)
CloseEvent(s) ==
    LET e == sock[s].end  closed == [sock EXCEPT ![s] = Free] IN
    /\ sock[s].st = "closing"
    /\ IF clientOf[e] # s
       THEN sock' = closed /\ UNCHANGED <<clientOf, intervals, rec, watch>>
       ELSE /\ clientOf' = [clientOf EXCEPT ![e] = NoSocket]
            /\ intervals' = [intervals EXCEPT ![e] = @ - 1]
            /\ IF e = "child" THEN TryConnect(rec, closed) /\ OnChildGone
               ELSE sock' = closed /\ watch' = [watch EXCEPT !.timer = FALSE] /\ UNCHANGED rec
    /\ UNCHANGED <<quiet, startVars, sulking>>

(* The dial-back connects: its socket becomes the child's client, if none arrived. *)
DialConnects(s) ==
    /\ NoMicrotask /\ sock[s].st = "dialing"
    /\ AcceptConnection(s, "child")
    /\ UNCHANGED startVars

(* It fails: try again after a pause. *)
DialFails(s) ==
    /\ NoMicrotask /\ sock[s].st = "dialing"
    /\ sock' = [sock EXCEPT ![s] = Free]
    /\ rec' = IF rec.out = s
              THEN [rec EXCEPT !.state = "scheduled", !.timer = TRUE, !.out = NoSocket] ELSE rec
    /\ UNCHANGED <<clientOf, quiet, intervals, startVars, watch, sulking>>

(* The pause after a failed dial is over. *)
DialTimer ==
    /\ NoMicrotask /\ rec.timer
    /\ LET r == [rec EXCEPT !.timer = FALSE, !.state = "idle"] IN
       IF Has("child") THEN rec' = r /\ UNCHANGED sock ELSE TryConnect(r, sock)
    /\ UNCHANGED <<clientOf, quiet, intervals, startVars, watch, sulking>>

(* The child session outlives earlyDropMs. *)
ChildMatures ==
    /\ NoMicrotask /\ Has("child") /\ watch.early
    /\ watch' = [watch EXCEPT !.early = FALSE]
    /\ UNCHANGED <<netVars, startVars, rec, sulking>>

(* The watchdog's recheck: with the primary still alone, drop it so that the app starts over. *)
WatchTimer ==
    /\ NoMicrotask /\ watch.timer
    /\ IF Has("child") \/ ~Has("primary") \/ watch.retries >= MaxRetries
       THEN watch' = [watch EXCEPT !.timer = FALSE] /\ UNCHANGED sock
       ELSE /\ watch' = [watch EXCEPT !.timer = FALSE, !.retries = @ + 1]
            /\ sock' = [sock EXCEPT ![clientOf["primary"]].st = "closing"]
    /\ UNCHANGED <<clientOf, quiet, intervals, startVars, rec, sulking>>

-----------------------------------------------------------------------------
CoraNext ==
    \/ \E e \in Ends : Bound(e) \/ BindFails(e) \/ Data(e) \/ Silence(e)
    \/ RetryTimer \/ Stop
    \/ \E s \in Sockets, e \in Ends : Connect(s, e)
    \/ \E s \in Sockets : \/ Adopt(s) \/ SocketEnds(s) \/ CloseEvent(s)
                          \/ DialConnects(s) \/ DialFails(s)
    \/ DialTimer \/ ChildMatures \/ WatchTimer

CoraSpec == CoraInit /\ [][CoraNext]_coraVars

-----------------------------------------------------------------------------
(* Properties. *)

(* Each server's open socket is its client: a socket that was turned away, replaced or left
   over from a stop is destroyed, so its bytes never enter the client's frame reader and its
   descriptor does not leak (acceptConnection, stopServer, NodeLikeServer._adopt). *)
OnlyClientIsOpen ==
    /\ \A s \in Sockets : sock[s].st = "open" => clientOf[sock[s].end] = s
    /\ \A e \in Ends : Has(e) => sock[clientOf[e]].st \in {"open", "closing"}

(* One keepalive interval per client, none without: a leaked one would keep writing to later
   clients (acceptConnection, the close handler, stopServer). *)
OneKeepalivePerClient ==
    \A e \in Ends : intervals[e] = IF Has(e) THEN 1 ELSE 0

(* After stop() nothing comes back: no listener, client, dial-back or recheck, even if the
   stop met a bind, a connection or a dial halfway (CoraDock.stop, listen's generation). *)
NothingAfterStop ==
    stopped =>
        /\ \A e \in Ends : ~Has(e) /\ listening[e] \in {"down", "stale"}
        /\ ~rec.enabled /\ rec.out = NoSocket /\ ~rec.timer /\ ~watch.timer
        /\ \A s \in Sockets : sock[s].st \in {"free", "closing", "opening"}
        /\ starter # "bind"

(* While the child has no client, a dial or a timer for one is pending: the dial-back neither
   stops nor doubles, whatever inbound sessions came in between (ChildReconnector.state). *)
DialBackPending ==
    /\ rec.enabled /\ rec.remote /\ AllowOutbound /\ ~Has("child") /\ NoMicrotask =>
          \/ rec.state = "in-progress" /\ rec.out # NoSocket
          \/ rec.state = "scheduled" /\ rec.timer
    /\ {s \in Sockets : sock[s].st = "dialing"} = {rec.out} \ {NoSocket}
    /\ Has("child") => rec.out = NoSocket /\ ~rec.timer

(* The recheck is armed only while the primary session stands without a child, so it never
   cuts a pairing that works (PairingWatchdog). *)
RecheckOnlyUnpaired == watch.timer => Has("primary") /\ ~Has("child")

(* Types, one open socket and one keepalive per client, timers that run exactly while what
   they are for is missing, and nothing left after a stop. *)
SessionsConsistent ==
    /\ TypeOK /\ OnlyClientIsOpen /\ OneKeepalivePerClient
    /\ DialBackPending /\ RecheckOnlyUnpaired /\ NothingAfterStop

(* The program's own timers and callbacks run. *)
CoraFairness ==
    /\ WF_coraVars(WatchTimer) /\ WF_coraVars(DialTimer) /\ WF_coraVars(RetryTimer)
    /\ \A s \in Sockets : WF_coraVars(CloseEvent(s)) /\ WF_coraVars(Adopt(s))

CoraFairSpec == CoraSpec /\ CoraFairness

(* An abandoned pairing does not last: the primary session ends and the app starts over, or
   the watchdog has spent its retries, or the dock stops. *)
AbandonedPairingEnds ==
    sulking ~> (~sulking \/ ~Has("primary") \/ watch.retries = MaxRetries \/ stopped)
=============================================================================
